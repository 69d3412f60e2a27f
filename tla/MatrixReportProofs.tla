-------------------------- MODULE MatrixReportProofs --------------------------
(***************************************************************************)
(* Proofs about the construction of matrix manifests and the reports made  *)
(* of them, for every grid, set of windows, set of focused points, layout  *)
(* of pairs and reporting spec.                                            *)
(*                                                                         *)
(* The inductive invariant of a build says that each row stands for a      *)
(* point whose faulted and restored manifests pair, that the points left   *)
(* and the points built are those of the grid, and why a primary matrix    *)
(* was refused. What carries the proof is Pairs: of all operators only T2  *)
(* has a static parameter that the restored window can change, the length  *)
(* of its hold.                                                            *)
(*                                                                         *)
(* That of a report says that what was run is a layout's pairs over a      *)
(* whole grid. MakeReport then decides by what ReportDecides names, since  *)
(* no check of the summary can fail: every rate of it is a mean of rates,  *)
(* which is one (the library's fold is the sum of a finite set, shown by a *)
(* least counterexample), and every count the size of a subset. Its parts  *)
(* agree: those that average the same rates in two orders do so by MeanSwap*)
(* in a unit that is fine enough for the means to be exact.                *)
(***************************************************************************)
EXTENDS MatrixReport, FiniteSetTheorems, TLAPS

-----------------------------------------------------------------------------
(* Numbers and finite sets.                                                 *)

\* The greatest element of a set that has one.
LEMMA MaxIs ==
  ASSUME NEW S, S \subseteq Int, NEW a \in S, \A x \in S : a >= x
  PROVE  Max(S) = a
<1>1. \A x : (x \in S /\ \A y \in S : x >= y) <=> x = a
  <2> TAKE x
  <2>1. ASSUME x \in S, \A y \in S : x >= y PROVE x = a
    <3>1. x >= a /\ a >= x /\ x \in Int /\ a \in Int
      BY <2>1
    <3> QED BY <3>1
  <2> QED BY <2>1
<1> QED BY <1>1 DEF Max

\* The lesser and the greater of two numbers.
LEMMA MinOfTwo ==
  ASSUME NEW a \in Int, NEW b \in Int
  PROVE  Min({a, b}) = IF a =< b THEN a ELSE b
<1>1. \A x : (x \in {a, b} /\ \A y \in {a, b} : x =< y) <=> x = (IF a =< b THEN a ELSE b)
  OBVIOUS
<1> QED BY <1>1 DEF Min

\* There are finitely many operators.
LEMMA OperatorsFinite == IsFiniteSet(OperatorIds)
<1>1. \A S, x : IsFiniteSet(S) => IsFiniteSet(S \cup {x})
  BY FS_AddElement
<1>2. \A S, T : IsFiniteSet(S) /\ IsFiniteSet(T) => IsFiniteSet(S \cup T)
  BY FS_Union
<1>3. \A x, y, z : IsFiniteSet({x}) /\ IsFiniteSet({x, y}) /\ IsFiniteSet({x, y, z})
  <2> TAKE x, y, z
  <2>1. {x, y} = {x} \cup {y} /\ {x, y, z} = {x, y} \cup {z}
    OBVIOUS
  <2>2. IsFiniteSet({x})
    BY FS_Singleton
  <2>3. IsFiniteSet({x} \cup {y})
    BY <1>1, <2>2
  <2>4. IsFiniteSet({x, y})
    BY <2>1, <2>3, Zenon
  <2>5. IsFiniteSet({x, y} \cup {z})
    BY <1>1, <2>4
  <2>6. IsFiniteSet({x, y, z})
    BY <2>1, <2>5, Zenon
  <2> QED BY <2>2, <2>4, <2>6
<1>4. IsFiniteSet(Availability) /\ IsFiniteSet(Temporal) /\ IsFiniteSet(Context)
  BY <1>3 DEF Availability, Temporal, Context
<1>5. IsFiniteSet(Fidelity)
  <2>1. Fidelity = ({"F1", "F2", "F3"} \cup {"F4", "F5", "F6"}) \cup {"F7"}
    BY DEF Fidelity
  <2> QED BY <1>2, <1>3, <2>1
<1> QED BY <1>2, <1>4, <1>5 DEF OperatorIds

\* The longest dose of T1 or T2 in the grid is a dose of the grid and no less than
\* any other, or zero if the grid does not have the operator.
LEMMA LongestDoseIs ==
  ASSUME NEW o \in {"T1", "T2"}
  PROVE  /\ LongestDose(o) \in Nat
         /\ o \in GridOperators => \A level \in GridLevels : Lags[o][level] =< LongestDose(o)
         /\ \/ LongestDose(o) = 0
            \/ o \in GridOperators /\ \E level \in GridLevels : Lags[o][level] = LongestDose(o)
<1> DEFINE L == IF o \in GridOperators THEN GridLevels ELSE {}
           S == {0} \cup {Lags[o][level] : level \in L}
<1>1. L \subseteq 1 .. 5
  BY MatrixBuildAssumption
<1>2. PICK dose \in [1 .. 5 -> Nat] :
        /\ \A level \in 1 .. 5 : Lags[o][level] = dose[level]
        /\ dose[1] < dose[2] /\ dose[2] < dose[3] /\ dose[3] < dose[4] /\ dose[4] < dose[5]
  <2>1. CASE o = "T1"
    <3> DEFINE d == [level \in 1 .. 5 |-> Lags[o][level]]
    <3>1. Lags[o] = <<1, 2, 4, 8, 16>>
      BY <2>1 DEF Lags
    <3>2. d \in [1 .. 5 -> Nat] /\ d[1] = 1 /\ d[2] = 2 /\ d[3] = 4 /\ d[4] = 8 /\ d[5] = 16
      BY <3>1
    <3>3. \A level \in 1 .. 5 : Lags[o][level] = d[level]
      OBVIOUS
    <3> HIDE DEF d
    <3> QED BY <3>2, <3>3
  <2>2. CASE o = "T2"
    <3> DEFINE d == [level \in 1 .. 5 |-> Lags[o][level]]
    <3>1. Lags[o] = <<2, 4, 8, 16, 32>>
      BY <2>2 DEF Lags
    <3>2. d \in [1 .. 5 -> Nat] /\ d[1] = 2 /\ d[2] = 4 /\ d[3] = 8 /\ d[4] = 16 /\ d[5] = 32
      BY <3>1
    <3>3. \A level \in 1 .. 5 : Lags[o][level] = d[level]
      OBVIOUS
    <3> HIDE DEF d
    <3> QED BY <3>2, <3>3
  <2> QED BY <2>1, <2>2
<1>3. S = {0} \cup {dose[level] : level \in L}
  BY <1>1, <1>2
<1> HIDE DEF L
<1>4. \E a \in S : /\ \A x \in S : a >= x
                   /\ a = 0 \/ \E level \in L : dose[level] = a
  <2> HIDE DEF S
  <2>1. S \subseteq Nat /\ 0 \in S
    BY <1>1, <1>3
  <2>2. \A x \in S : x = 0 \/ \E level \in L : x = dose[level]
    BY <1>3
  <2>3. \A level \in L : dose[level] \in S
    BY <1>3
  <2>4. \A level \in L : level \in {1, 2, 3, 4, 5}
    BY <1>1
  <2>5. CASE 5 \in L
    BY <1>2, <2>1, <2>2, <2>3, <2>4, <2>5
  <2>6. CASE 5 \notin L /\ 4 \in L
    BY <1>2, <2>1, <2>2, <2>3, <2>4, <2>6
  <2>7. CASE 5 \notin L /\ 4 \notin L /\ 3 \in L
    BY <1>2, <2>1, <2>2, <2>3, <2>4, <2>7
  <2>8. CASE 5 \notin L /\ 4 \notin L /\ 3 \notin L /\ 2 \in L
    BY <1>2, <2>1, <2>2, <2>3, <2>4, <2>8
  <2>9. CASE 5 \notin L /\ 4 \notin L /\ 3 \notin L /\ 2 \notin L
    BY <1>2, <2>1, <2>2, <2>3, <2>4, <2>9
  <2> QED BY <2>5, <2>6, <2>7, <2>8, <2>9
<1>5. PICK a \in S : /\ \A x \in S : a >= x
                     /\ a = 0 \/ \E level \in L : dose[level] = a
  BY <1>4
<1>6. S \subseteq Nat /\ \A level \in L : dose[level] \in S
  BY <1>1, <1>3
<1>7. LongestDose(o) = Max(S)
  BY DEF LongestDose, L
<1> HIDE DEF S
<1>8. Max(S) = a
  <2>1. S \subseteq Int
    BY <1>6
  <2> QED BY <1>5, <2>1, MaxIs
<1>9. \A level \in L : level \in 1 .. 5 /\ Lags[o][level] = dose[level]
  BY <1>1, <1>2
<1> QED BY <1>5, <1>6, <1>7, <1>8, <1>9 DEF L

-----------------------------------------------------------------------------
(* Points and pairs.                                                        *)

FaultManifests ==
  [operator : OperatorIds, level : 1 .. 5, start : Nat, stop : Nat,
   slots : Seq(Slots), declared : BOOLEAN, supplied : Seq(Nat)]

\* A grid point that a matrix may be built from.
WellFormed(point) ==
  /\ point = Point(point.focus, point.fault, point.restore)
  /\ point.fault \in FaultManifests /\ point.restore \in Int
  /\ Buildable(point)

\* A faulted manifest and its restored twin differ in the window's end, and in the
\* schedule.
LEMMA RestoredFields ==
  ASSUME NEW m \in FaultManifests, NEW stop
  PROVE  LET r == Reparameterized(m, m.level, stop)
         IN /\ r.operator = m.operator /\ r.level = m.level /\ r.start = m.start
            /\ r.stop = stop /\ r.slots = m.slots /\ r.declared = m.declared
BY DEF Reparameterized, FaultManifests

\* The twins pair unless the restored window cuts the hold of T2.
LEMMA Pairs ==
  ASSUME NEW point, WellFormed(point)
  PROVE  Pairable(point) <=>
           (point.fault.operator = "T2" =>
              point.restore - point.fault.start >= Lags.T2[point.fault.level])
<1> DEFINE m == point.fault
           r == Restored(point)
           lag == Lags.T2[m.level]
<1>1. /\ m \in FaultManifests /\ point.restore \in Int
      /\ m.start \in Nat /\ m.stop \in Nat /\ m.level \in 1 .. 5
      /\ m.start < point.restore /\ point.restore < m.stop
  BY DEF WellFormed, Buildable, PointOK, FaultManifests
<1>2. /\ r.operator = m.operator /\ r.level = m.level /\ r.start = m.start
      /\ r.stop = point.restore /\ r.slots = m.slots /\ r.declared = m.declared
  BY <1>1, RestoredFields DEF Restored
<1>3. lag \in Nat
  BY <1>1 DEF Lags
<1> HIDE DEF m, r, lag
<1>4. /\ HoldDuration(m) = IF m.stop - m.start =< lag THEN m.stop - m.start ELSE lag
      /\ HoldDuration(r) = IF point.restore - m.start =< lag
                           THEN point.restore - m.start ELSE lag
  <2>1. \A a, b \in Int : Min({a, b}) = IF a =< b THEN a ELSE b
    BY MinOfTwo
  <2>2. HoldDuration(m) = Min({m.stop - m.start, lag})
    BY DEF HoldDuration, WindowLength, lag
  <2>3. HoldDuration(r) = Min({point.restore - m.start, lag})
    BY <1>2 DEF HoldDuration, WindowLength, lag
  <2> QED BY <1>1, <1>3, <2>1, <2>2, <2>3
<1>5. HeldIndex(m) = HeldIndex(r) /\ DelayedSlot(m) = DelayedSlot(r)
  BY <1>2 DEF HeldIndex, DelayedSlot
<1>6. Invariants(m) = Invariants(r)
  BY <1>2 DEF Invariants
<1>7. CASE m.operator = "T2"
  <2>1. StaticParameters(m) = StaticParameters(r) <=> HoldDuration(m) = HoldDuration(r)
    <3>2. StaticParameters(m) = <<m.operator, m.level,
                                  <<HoldDuration(m), HeldIndex(m)>>, "none">>
      BY <1>7 DEF StaticParameters
    <3>3. StaticParameters(r) = <<m.operator, m.level,
                                  <<HoldDuration(r), HeldIndex(m)>>, "none">>
      BY <1>2, <1>5, <1>7 DEF StaticParameters
    <3>4. /\ StaticParameters(m)[3][1] = HoldDuration(m)
          /\ StaticParameters(r)[3][1] = HoldDuration(r)
      BY <3>2, <3>3
    <3>5. HoldDuration(m) = HoldDuration(r) => StaticParameters(m) = StaticParameters(r)
      BY <3>2, <3>3, Zenon
    <3> QED BY <3>4, <3>5
  <2>2. HoldDuration(m) = HoldDuration(r) <=> point.restore - m.start >= lag
    BY <1>1, <1>3, <1>4
  <2> QED BY <1>1, <1>2, <1>6, <1>7, <2>1, <2>2 DEF Pairable, SameInstance, m, r, lag
<1>8. CASE m.operator # "T2"
  <2>1. StaticParameters(m) = StaticParameters(r)
    BY <1>2, <1>5, <1>8 DEF StaticParameters
  <2> QED BY <1>1, <1>2, <1>6, <1>8, <2>1 DEF Pairable, SameInstance, m, r
<1> QED BY <1>7, <1>8

\* The faults of a window are registered when none of T1 starts before its warm-up.
LEMMA GridRegistered ==
  ASSUME NEW s \in Specs, SpecOK(s)
  PROVE  (\A f \in GridFaults(s) : Registered(f)) <=> s.start >= LongestDose("T1")
<1>1. s.start \in Nat /\ s.stop \in Nat /\ s.restore \in Nat /\ s.start < s.stop
  BY MatrixBuildAssumption DEF SpecOK
<1>2. \A o \in GridOperators, level \in GridLevels :
        Registered(Fault(o, level, s.start, s.stop))
          <=> (o = "T1" => s.start >= Lags.T1[level])
  <2> TAKE o \in GridOperators, level \in GridLevels
  <2> DEFINE f == Fault(o, level, s.start, s.stop)
  <2>1. /\ f.operator = o /\ f.level = level /\ f.start = s.start /\ f.stop = s.stop
        /\ f.slots = <<"left", "right">> /\ f.supplied = <<>>
    BY DEF Fault
  <2> HIDE DEF f
  <2>2. f.slots # <<>> /\ IsInjective(f.slots) /\ Len(f.slots) = 2
    BY <2>1 DEF IsInjective
  <2>3. ParametersOK(f) <=> (o = "T1" => s.start >= Lags.T1[level])
    BY <2>1 DEF ParametersOK
  <2> QED BY <1>1, <2>1, <2>2, <2>3 DEF Registered, f
<1>3. (\A f \in GridFaults(s) : Registered(f)) <=>
        \A o \in GridOperators, level \in GridLevels : o = "T1" => s.start >= Lags.T1[level]
  <2>1. (\A f \in GridFaults(s) : Registered(f)) <=>
          \A o \in GridOperators, level \in GridLevels :
            Registered(Fault(o, level, s.start, s.stop))
    <3>1. \A o \in GridOperators, level \in GridLevels :
            Fault(o, level, s.start, s.stop) \in GridFaults(s)
      BY DEF GridFaults
    <3>2. \A f \in GridFaults(s) : \E o \in GridOperators, level \in GridLevels :
            f = Fault(o, level, s.start, s.stop)
      BY DEF GridFaults
    <3> QED BY <3>1, <3>2, Zenon
  <2> QED BY <1>2, <2>1
<1>4. \A level \in GridLevels : Lags.T1[level] \in Nat
  BY MatrixBuildAssumption DEF Lags
<1>5. Lags["T1"] = Lags.T1
  OBVIOUS
<1>6. /\ LongestDose("T1") \in Nat
      /\ "T1" \in GridOperators => \A level \in GridLevels : Lags.T1[level] =< LongestDose("T1")
      /\ \/ LongestDose("T1") = 0
         \/ "T1" \in GridOperators /\ \E level \in GridLevels : Lags.T1[level] = LongestDose("T1")
  BY LongestDoseIs
<1> QED BY <1>1, <1>3, <1>4, <1>6

\* The points of a window whose faults are registered can be built from.
LEMMA GridWellFormed ==
  ASSUME NEW s \in Specs, SpecOK(s), \A f \in GridFaults(s) : Registered(f),
         NEW point \in GridPoints(s)
  PROVE  WellFormed(point)
<1>1. PICK f \in GridFaults(s) : point = Point(<<f.operator, f.level>>, f, s.restore)
  BY DEF GridPoints
<1>2. PICK o \in GridOperators, level \in GridLevels : f = Fault(o, level, s.start, s.stop)
  BY <1>1 DEF GridFaults
<1>3. s.start \in Nat /\ s.stop \in Nat /\ s.restore \in Nat
  BY MatrixBuildAssumption
<1>4. f \in FaultManifests /\ ~f.declared /\ f.start = s.start /\ f.stop = s.stop
  <2>1. o \in OperatorIds /\ level \in 1 .. 5
    BY MatrixBuildAssumption
  <2>2. <<"left", "right">> \in Seq(Slots) /\ <<>> \in Seq(Nat)
    BY DEF Slots
  <2> QED BY <1>2, <1>3, <2>1, <2>2 DEF Fault, FaultManifests
<1>5. point.fault = f /\ point.restore = s.restore
      /\ point = Point(point.focus, point.fault, point.restore)
  BY <1>1 DEF Point
<1> QED BY <1>1, <1>3, <1>4, <1>5 DEF WellFormed, Buildable, PointOK, SpecOK

-----------------------------------------------------------------------------
(* The invariant.                                                           *)

\* A matrix is primary, of a window, or focused.
Shape ==
  \/ kind = "primary" /\ spec \in Specs /\ SpecOK(spec)
  \/ kind = "focused" /\ spec = NoSpec

\* Every row stands for a point that pairs, and the cells are those of the rows.
RowsStand ==
  /\ \A point \in points : WellFormed(point)
  /\ \A row \in rows : WellFormed(row.point) /\ Pairable(row.point) /\ row = Row(row.point)
  /\ cells = UNION {RowCells(row) : row \in rows}

\* Where the construction is.
Building == {"points", "manifest", "resources", "done"}

StagesStand ==
  /\ stage = "faults" => kind = "primary" /\ points = {} /\ rows = {}
  /\ stage \in Building \ {"points"} => points = {} /\ rows # {}
  /\ stage = "done" => resources = [cell \in cells |-> Resource(cell)]

\* What is left of the points and what was built of them are the points of the grid.
GridStands ==
  kind = "primary" =>
    /\ stage \in Building =>
         /\ points \cup {row.point : row \in rows} = GridPoints(spec)
         /\ spec.cycles = Horizon
         /\ spec.start >= LongestDose("T1")
    /\ stage = "refused" => \/ spec.cycles # Horizon
                            \/ ~(spec.start >= LongestDose("T1"))
                            \/ ~(spec.restore - spec.start >= LongestDose("T2"))

BuildInv == Shape /\ RowsStand /\ StagesStand /\ GridStands

\* The construction starts inside the invariant.
LEMMA BuildInit == Init => BuildInv
<1> SUFFICES ASSUME Init PROVE BuildInv
  OBVIOUS
<1>0. cells = {} /\ rows = {} /\ resources = <<>>
  BY DEF Init
<1>1. CASE /\ kind = "primary" /\ spec \in {s \in Specs : SpecOK(s)}
           /\ stage = "faults" /\ points = {}
  <2>1. Shape /\ StagesStand /\ GridStands
    BY <1>0, <1>1 DEF Shape, StagesStand, GridStands, Building
  <2>2. RowsStand
    BY <1>0, <1>1 DEF RowsStand
  <2> QED BY <2>1, <2>2 DEF BuildInv
<1>2. CASE /\ kind = "focused" /\ spec = NoSpec /\ stage = "points"
           /\ points \in {set \in PointSets : set # {} /\ \A p \in set : Buildable(p)}
  <2>1. Shape /\ StagesStand /\ GridStands
    BY <1>0, <1>2 DEF Shape, StagesStand, GridStands, Building
  <2>2. \A point \in points : WellFormed(point)
    BY <1>2, MatrixBuildAssumption DEF WellFormed, Point, FaultManifests
  <2>3. RowsStand
    BY <1>0, <2>2 DEF RowsStand
  <2> QED BY <2>1, <2>3 DEF BuildInv
<1> QED BY <1>1, <1>2, Zenon DEF Init

\* The faults of the window are made, or one is refused.
LEMMA MakeFaultsInv == BuildInv /\ MakeFaults => BuildInv'
<1> SUFFICES ASSUME BuildInv, MakeFaults PROVE BuildInv'
  OBVIOUS
<1>1. /\ stage = "faults" /\ kind = "primary" /\ points = {} /\ rows = {} /\ cells = {}
      /\ spec \in Specs /\ SpecOK(spec)
      /\ kind' = kind /\ spec' = spec /\ cells' = cells /\ rows' = rows
  BY DEF BuildInv, Shape, StagesStand, RowsStand, MakeFaults
<1>2. Shape'
  BY <1>1 DEF BuildInv, Shape
<1>3. CASE spec.cycles = Horizon /\ \A f \in GridFaults(spec) : Registered(f)
  <2>1. stage' = "points" /\ points' = GridPoints(spec)
    BY <1>3 DEF MakeFaults
  <2>2. RowsStand'
    BY <1>1, <1>3, <2>1, GridWellFormed DEF RowsStand
  <2>3. GridStands'
    BY <1>1, <1>3, <2>1, GridRegistered DEF GridStands, Building
  <2> QED BY <1>2, <2>1, <2>2, <2>3 DEF BuildInv, StagesStand, Building
<1>4. CASE ~(spec.cycles = Horizon /\ \A f \in GridFaults(spec) : Registered(f))
  <2>1. stage' = "refused" /\ points' = points
    BY <1>4 DEF MakeFaults
  <2>2. RowsStand'
    BY <1>1, <2>1 DEF RowsStand
  <2>3. GridStands'
    BY <1>1, <1>4, <2>1, GridRegistered DEF GridStands, Building
  <2> QED BY <1>2, <2>1, <2>2, <2>3 DEF BuildInv, StagesStand, Building
<1> QED BY <1>3, <1>4

\* The point of a row.
LEMMA RowPoint ==
  ASSUME NEW point
  PROVE  Row(point).point = point
BY DEF Row

\* A point becomes a row.
LEMMA BuildPointInv ==
  ASSUME BuildInv, NEW point \in points, BuildPoint(point)
  PROVE  BuildInv'
<1>1. /\ stage = "points" /\ Pairable(point) /\ WellFormed(point)
      /\ points' = points \ {point}
      /\ cells' = cells \cup RowCells(Row(point)) /\ rows' = rows \cup {Row(point)}
      /\ kind' = kind /\ spec' = spec
      /\ stage' = IF points' = {} THEN "manifest" ELSE stage
  BY DEF BuildPoint, BuildInv, RowsStand
<1>2. Shape'
  BY <1>1 DEF BuildInv, Shape
<1>3. Row(point).point = point
  BY RowPoint
<1>4. RowsStand'
  <2>1. \A p \in points' : WellFormed(p)
    BY <1>1 DEF BuildInv, RowsStand
  <2>2. \A row \in rows' : /\ WellFormed(row.point) /\ Pairable(row.point)
                           /\ row = Row(row.point)
    BY <1>1, <1>3 DEF BuildInv, RowsStand
  <2>3. cells' = UNION {RowCells(row) : row \in rows'}
    BY <1>1 DEF BuildInv, RowsStand
  <2> QED BY <2>1, <2>2, <2>3 DEF RowsStand
<1>5. StagesStand'
  BY <1>1 DEF StagesStand, Building
<1>6. GridStands'
  <2> SUFFICES ASSUME kind = "primary"
               PROVE  /\ points' \cup {row.point : row \in rows'} = GridPoints(spec)
                      /\ spec.cycles = Horizon /\ spec.start >= LongestDose("T1")
    BY <1>1 DEF GridStands
  <2>1. /\ points \cup {row.point : row \in rows} = GridPoints(spec)
        /\ spec.cycles = Horizon /\ spec.start >= LongestDose("T1")
    BY <1>1 DEF BuildInv, GridStands, Building
  <2>2. {row.point : row \in rows'} = {row.point : row \in rows} \cup {point}
    BY <1>1, <1>3
  <2> QED BY <1>1, <2>1, <2>2
<1> QED BY <1>2, <1>4, <1>5, <1>6 DEF BuildInv

\* A point of the grid whose twins do not pair is of T2, with a hold that the
\* restored window cuts.
LEMMA RefusePointInv ==
  ASSUME BuildInv, NEW point \in points, RefusePoint(point)
  PROVE  BuildInv'
<1>1. /\ stage = "points" /\ ~Pairable(point) /\ WellFormed(point)
      /\ stage' = "refused" /\ points' = points /\ cells' = cells /\ rows' = rows
      /\ kind' = kind /\ spec' = spec
  BY DEF RefusePoint, BuildInv, RowsStand
<1>2. Shape' /\ RowsStand' /\ StagesStand'
  BY <1>1 DEF BuildInv, Shape, RowsStand, StagesStand, Building
<1>3. GridStands'
  <2> SUFFICES ASSUME kind = "primary"
               PROVE  ~(spec.restore - spec.start >= LongestDose("T2"))
    BY <1>1 DEF GridStands, Building
  <2>1. point \in GridPoints(spec) /\ spec \in Specs
    BY <1>1 DEF BuildInv, GridStands, Building, Shape
  <2>2. PICK f \in GridFaults(spec) : point = Point(<<f.operator, f.level>>, f, spec.restore)
    BY <2>1 DEF GridPoints
  <2>3. PICK o \in GridOperators, level \in GridLevels :
          f = Fault(o, level, spec.start, spec.stop)
    BY <2>2 DEF GridFaults
  <2>4. /\ point.fault.operator = o /\ point.fault.level = level
        /\ point.fault.start = spec.start /\ point.restore = spec.restore
    BY <2>2, <2>3 DEF Point, Fault
  <2>5. o = "T2" /\ ~(spec.restore - spec.start >= Lags.T2[level])
    BY <1>1, <2>4, Pairs
  <2>6. Lags.T2[level] =< LongestDose("T2") /\ LongestDose("T2") \in Nat
    <3>1. Lags["T2"] = Lags.T2
      OBVIOUS
    <3> QED BY <2>3, <2>5, <3>1, LongestDoseIs
  <2>7. Lags.T2[level] \in Nat /\ spec.restore \in Nat /\ spec.start \in Nat
    BY <2>1, MatrixBuildAssumption DEF Lags
  <2> QED BY <2>5, <2>6, <2>7
<1> QED BY <1>2, <1>3 DEF BuildInv

\* The manifest is accepted and the resources are written.
LEMMA FinishInv == BuildInv /\ (MakeManifest \/ WriteResources) => BuildInv'
<1> SUFFICES ASSUME BuildInv, MakeManifest \/ WriteResources PROVE BuildInv'
  OBVIOUS
<1>1. /\ points' = points /\ cells' = cells /\ rows' = rows /\ kind' = kind /\ spec' = spec
      /\ \/ stage = "manifest" /\ stage' = "resources" /\ resources' = resources
         \/ /\ stage = "resources" /\ stage' = "done"
            /\ resources' = [cell \in cells |-> Resource(cell)]
  BY DEF MakeManifest, WriteResources
<1>2. Shape' /\ RowsStand'
  BY <1>1 DEF BuildInv, Shape, RowsStand
<1>3. StagesStand' /\ GridStands'
  BY <1>1 DEF BuildInv, StagesStand, GridStands, Building
<1> QED BY <1>2, <1>3 DEF BuildInv

\* Every step of a build keeps the invariant, and so do the run of the matrices
\* and the report, which only leave the stages it speaks of.
LEMMA BuildNext == BuildInv /\ [ReportNext]_<<vars, reportVars>> => BuildInv'
<1> SUFFICES ASSUME BuildInv, [ReportNext]_<<vars, reportVars>> PROVE BuildInv'
  OBVIOUS
<1>1. CASE Build
  BY <1>1, MakeFaultsInv, BuildPointInv, RefusePointInv, FinishInv DEF Build, Next
<1>2. CASE RunMatrices \/ \E rs \in ReportingSpecs : MakeReport(rs)
  <2>1. /\ points' = points /\ cells' = cells /\ rows' = rows /\ kind' = kind
        /\ spec' = spec /\ resources' = resources
        /\ stage' \in {"run", "reported", "unreported"}
    BY <1>2, Zenon DEF RunMatrices, MakeReport
  <2>2. Shape' /\ RowsStand'
    BY <2>1 DEF BuildInv, Shape, RowsStand
  <2>3. StagesStand' /\ GridStands'
    BY <2>1 DEF BuildInv, StagesStand, GridStands, Building
  <2> QED BY <2>2, <2>3 DEF BuildInv
<1>3. CASE UNCHANGED <<vars, reportVars>>
  <2>1. /\ points' = points /\ cells' = cells /\ rows' = rows /\ kind' = kind
        /\ spec' = spec /\ resources' = resources /\ stage' = stage
    BY <1>3 DEF vars
  <2> QED BY <2>1 DEF BuildInv, Shape, RowsStand, StagesStand, GridStands
<1> QED BY <1>1, <1>2, <1>3 DEF ReportNext

\* The inductive invariant holds throughout a build, and after it.
THEOREM BuildInvariant == ReportSpec => []BuildInv
<1>1. ReportInit => BuildInv
  BY BuildInit DEF ReportInit
<1> QED BY <1>1, BuildNext, PTL DEF ReportSpec

-----------------------------------------------------------------------------
(* The window decides.                                                      *)

\* When every point of the grid has become a row, the budget is the horizon and
\* none of T2 holds longer than the restored window.
LEMMA BuiltFits ==
  ASSUME BuildInv, kind = "primary", stage = "done"
  PROVE  /\ spec.cycles = Horizon
         /\ spec.start >= LongestDose("T1")
         /\ spec.restore - spec.start >= LongestDose("T2")
<1>1. /\ points = {} /\ {row.point : row \in rows} = GridPoints(spec)
      /\ spec.cycles = Horizon /\ spec.start >= LongestDose("T1")
      /\ spec \in Specs /\ SpecOK(spec)
  BY DEF BuildInv, StagesStand, GridStands, Shape, Building
<1>2. spec.start \in Nat /\ spec.restore \in Nat /\ spec.start < spec.restore
  BY <1>1, MatrixBuildAssumption DEF SpecOK
<1>3. \A level \in GridLevels : "T2" \in GridOperators =>
        spec.restore - spec.start >= Lags.T2[level]
  <2> SUFFICES ASSUME NEW level \in GridLevels, "T2" \in GridOperators
               PROVE  spec.restore - spec.start >= Lags.T2[level]
    OBVIOUS
  <2>1. PICK f : f = Fault("T2", level, spec.start, spec.stop)
    OBVIOUS
  <2>2. f \in GridFaults(spec)
    BY <2>1 DEF GridFaults
  <2>3. PICK point : point = Point(<<f.operator, f.level>>, f, spec.restore)
    OBVIOUS
  <2>4. point \in GridPoints(spec)
    BY <2>2, <2>3 DEF GridPoints
  <2>5. PICK row \in rows : row.point = point
    BY <1>1, <2>4
  <2>6. WellFormed(point) /\ Pairable(point)
    BY <2>5 DEF BuildInv, RowsStand
  <2>7. /\ point.fault.operator = "T2" /\ point.fault.level = level
        /\ point.fault.start = spec.start /\ point.restore = spec.restore
    BY <2>1, <2>3 DEF Point, Fault
  <2> QED BY <2>6, <2>7, Pairs
<1>4. /\ LongestDose("T2") \in Nat
      /\ \/ LongestDose("T2") = 0
         \/ "T2" \in GridOperators /\ \E level \in GridLevels : Lags.T2[level] = LongestDose("T2")
  <2>1. Lags["T2"] = Lags.T2
    OBVIOUS
  <2> QED BY <2>1, LongestDoseIs
<1> QED BY <1>1, <1>2, <1>3, <1>4

\* A primary matrix is refused exactly when its budget is not the task's horizon, a
\* dose of T1 does not fit before its window or one of T2 does not fit before the
\* restoration: no other operator, at any severity, can refuse it
\* (primary_generation.py:211, operator_parameters.py:149, trials.py:321).
THEOREM TheWindowDecides == ReportSpec => []WindowDecides
<1>1. BuildInv => WindowDecides
  <2> SUFFICES ASSUME BuildInv, kind = "primary", stage \in {"done", "refused"}
               PROVE  stage = "done" <=> /\ spec.cycles = Horizon
                                         /\ spec.start >= LongestDose("T1")
                                         /\ spec.restore - spec.start >= LongestDose("T2")
    BY Zenon DEF WindowDecides
  <2>1. CASE stage = "done"
    BY <2>1, BuiltFits
  <2>2. CASE stage = "refused"
    BY <2>2 DEF BuildInv, GridStands
  <2> QED BY <2>1, <2>2
<1> QED BY <1>1, BuildInvariant, PTL

-----------------------------------------------------------------------------
(* The manifest accepts what was built.                                     *)

\* The fields of a row.
LEMMA RowFields ==
  ASSUME NEW point
  PROVE  LET row == Row(point)
         IN /\ row.operator = point.fault.operator /\ row.level = point.fault.level
            /\ row.restore = point.restore
            /\ row.clean = CleanCell /\ row.no_touch = NoTouchCell
            /\ row.faulted = Cell("faulted", point.fault, NoRestore)
            /\ row.restored = Cell("restored", Restored(point), point.restore)
BY DEF Row

\* The fields of a cell.
LEMMA CellFields ==
  ASSUME NEW condition, NEW fault, NEW restore
  PROVE  LET cell == Cell(condition, fault, restore)
         IN cell.condition = condition /\ cell.fault = fault /\ cell.restore = restore
BY DEF Cell

\* The four cells of a row, with what tells them apart.
LEMMA CellsOf ==
  ASSUME NEW row, WellFormed(row.point), row = Row(row.point), NEW cell \in RowCells(row)
  PROVE  \/ cell = CleanCell
         \/ cell = NoTouchCell
         \/ cell = Cell("faulted", row.point.fault, NoRestore)
         \/ cell = Cell("restored", Restored(row.point), row.point.restore)
BY RowFields DEF RowCells

\* The restored twin of a point's fault.
LEMMA TwinFields ==
  ASSUME NEW point, WellFormed(point)
  PROVE  LET r == Restored(point)
         IN /\ r.operator = point.fault.operator /\ r.level = point.fault.level
            /\ r.start = point.fault.start /\ r.stop = point.restore
            /\ r.declared = point.fault.declared
BY RestoredFields DEF Restored, WellFormed

\* No operator is called as the absence of a fault is.
LEMMA FaultIsSome ==
  ASSUME NEW fault, fault.operator \in OperatorIds
  PROVE  fault # NoFault
<1>1. NoFault.operator = "none"
  BY DEF NoFault
<1>2. "none" \notin OperatorIds
  BY DEF OperatorIds, Availability, Fidelity, Temporal, Context
<1> QED BY <1>1, <1>2

\* Each row by itself is accepted.
LEMMA RowsAccepted ==
  ASSUME BuildInv, NEW row \in rows
  PROVE  RowAccepted(row, cells)
<1> DEFINE point == row.point
<1>1. WellFormed(point) /\ Pairable(point) /\ row = Row(point)
  BY DEF BuildInv, RowsStand
<1>2. /\ row.operator = point.fault.operator /\ row.level = point.fault.level
      /\ row.restore = point.restore
      /\ row.clean = CleanCell /\ row.no_touch = NoTouchCell
      /\ row.faulted = Cell("faulted", point.fault, NoRestore)
      /\ row.restored = Cell("restored", Restored(point), point.restore)
  BY <1>1, RowFields
<1>3. /\ row.clean.condition = "clean" /\ row.no_touch.condition = "no_touch"
      /\ row.faulted.condition = "faulted" /\ row.restored.condition = "restored"
      /\ row.faulted.fault = point.fault /\ row.restored.fault = Restored(point)
      /\ row.restored.restore = point.restore
  BY <1>2, CellFields DEF CleanCell, NoTouchCell
<1>4. /\ Restored(point).operator = point.fault.operator
      /\ Restored(point).level = point.fault.level
  BY <1>1, TwinFields
<1>5. RowCells(row) \subseteq cells
  BY DEF BuildInv, RowsStand
<1>6. point = Point(point.focus, point.fault, point.restore)
  BY <1>1 DEF WellFormed
<1>7. /\ SameInstance(point.fault, Restored(point))
      /\ Restored(point).stop = point.restore
      /\ point.fault.stop > point.restore
  BY <1>1 DEF Pairable
<1> HIDE DEF point
<1>8. \A cell \in {row.faulted, row.restored} :
        cell.fault.operator = row.operator /\ cell.fault.level = row.level
  BY <1>2, <1>3, <1>4
<1>9. row.point = Point(row.point.focus, row.faulted.fault, row.restore)
  BY <1>2, <1>3, <1>6 DEF point
<1> QED BY <1>2, <1>3, <1>5, <1>7, <1>8, <1>9 DEF RowAccepted

\* A grid is finite.
LEMMA GridFinite == IsFiniteSet(GridOperators \X GridLevels)
<1>1. IsFiniteSet(GridOperators)
  BY OperatorsFinite, FS_Subset, MatrixBuildAssumption
<1>2. IsFiniteSet(GridLevels)
  <2>1. GridLevels \in SUBSET Nat /\ \A level \in GridLevels : level =< 5
    BY MatrixBuildAssumption
  <2> QED BY <2>1, FS_BoundedSetOfNaturals
<1> QED BY <1>1, <1>2, FS_Product

\* A grid has as many rows as pairs of an operator and a severity, one for each.
LEMMA GridComplete ==
  ASSUME BuildInv, kind = "primary", stage \in Building, points = {}
  PROVE  /\ Cardinality(rows) = Cardinality(GridOperators \X GridLevels)
         /\ {<<row.operator, row.level>> : row \in rows} = GridOperators \X GridLevels
<1> DEFINE grid == GridOperators \X GridLevels
           P(o, level) == LET f == Fault(o, level, spec.start, spec.stop)
                          IN Point(<<f.operator, f.level>>, f, spec.restore)
           g == [pair \in grid |-> Row(P(pair[1], pair[2]))]
<1>1. {row.point : row \in rows} = GridPoints(spec)
  BY DEF BuildInv, GridStands
<1>2. \A row \in rows : row = Row(row.point)
  BY DEF BuildInv, RowsStand
<1>3. GridPoints(spec) = {P(o, level) : o \in GridOperators, level \in GridLevels}
  <2>1. \A o \in GridOperators, level \in GridLevels : P(o, level) \in GridPoints(spec)
    BY DEF GridPoints, GridFaults
  <2>2. \A point \in GridPoints(spec) : \E o \in GridOperators, level \in GridLevels :
          point = P(o, level)
    <3> TAKE point \in GridPoints(spec)
    <3>1. PICK f \in GridFaults(spec) :
            point = Point(<<f.operator, f.level>>, f, spec.restore)
      BY DEF GridPoints
    <3>2. PICK o \in GridOperators, level \in GridLevels :
            f = Fault(o, level, spec.start, spec.stop)
      BY DEF GridFaults
    <3> QED BY <3>1, <3>2
  <2> HIDE DEF P
  <2> QED BY <2>1, <2>2
<1>4. \A o, level : /\ Row(P(o, level)).operator = o /\ Row(P(o, level)).level = level
                    /\ Row(P(o, level)).point = P(o, level)
  BY DEF Row, Point, Fault
<1> HIDE DEF P
<1>5. \A row \in rows : \E o \in GridOperators, level \in GridLevels : row = Row(P(o, level))
  BY <1>1, <1>2, <1>3
<1>6. \A o \in GridOperators, level \in GridLevels : Row(P(o, level)) \in rows
  <2> TAKE o \in GridOperators, level \in GridLevels
  <2>1. P(o, level) \in GridPoints(spec)
    BY <1>3
  <2>2. PICK row \in rows : row.point = P(o, level)
    BY <1>1, <2>1
  <2> QED BY <1>2, <2>2
<1>7. {<<row.operator, row.level>> : row \in rows} = grid
  BY <1>4, <1>5, <1>6
<1>8. IsFiniteSet(grid)
  BY GridFinite
<1>9. g \in Bijection(grid, rows)
  <2>1. g \in [grid -> rows]
    BY <1>6
  <2>2. \A a, b \in grid : g[a] = g[b] => a = b
    <3> TAKE a, b \in grid
    <3>1. /\ g[a].operator = a[1] /\ g[a].level = a[2]
          /\ g[b].operator = b[1] /\ g[b].level = b[2]
      BY <1>4
    <3>2. a = <<a[1], a[2]>> /\ b = <<b[1], b[2]>>
      OBVIOUS
    <3> HIDE DEF g
    <3> QED BY <3>1, <3>2
  <2>3. \A row \in rows : \E pair \in grid : g[pair] = row
    <3> TAKE row \in rows
    <3>1. PICK o \in GridOperators, level \in GridLevels : row = Row(P(o, level))
      BY <1>5
    <3>2. <<o, level>> \in grid /\ g[<<o, level>>] = row
      BY <3>1
    <3> QED BY <3>2
  <2> HIDE DEF g, grid
  <2> QED BY <2>1, <2>2, <2>3 DEF Bijection, Injection, Surjection, IsInjective
<1> HIDE DEF g, grid
<1>10. Cardinality(rows) = Cardinality(grid)
  BY <1>8, <1>9, FS_Bijection DEF ExistsBijection
<1> QED BY <1>7, <1>10 DEF grid

\* What the builder makes of points is what MatrixManifest accepts, although the
\* two are written separately: no matrix dies on its own manifest, whatever points
\* it was built from (matrix/builders.py:215 against matrix/manifest.py:60).
THEOREM BuilderAccepted == ReportSpec => []ManifestAcceptsBuilder
<1>1. BuildInv => ManifestAcceptsBuilder
  <2> SUFFICES ASSUME BuildInv, stage = "manifest" PROVE Accepted(cells, rows, kind)
    BY DEF ManifestAcceptsBuilder
  <2>1. rows # {} /\ points = {}
    BY DEF BuildInv, StagesStand, Building
  <2>2. \A row \in rows : WellFormed(row.point) /\ row = Row(row.point)
    BY DEF BuildInv, RowsStand
  <2>3. cells = UNION {RowCells(row) : row \in rows}
    BY DEF BuildInv, RowsStand
  <2>4. \A cell \in cells :
          \/ cell = CleanCell \/ cell = NoTouchCell
          \/ \E row \in rows : \/ cell = Cell("faulted", row.point.fault, NoRestore)
                               \/ cell = Cell("restored", Restored(row.point),
                                              row.point.restore)
    BY <2>2, <2>3, CellsOf
  <2>5. CleanCell \in cells /\ NoTouchCell \in cells
    BY <2>1, <2>2, <2>3, RowFields DEF RowCells
  <2>6. /\ CleanCell.condition = "clean" /\ NoTouchCell.condition = "no_touch"
        /\ CleanCell.fault = NoFault /\ NoTouchCell.fault = NoFault
        /\ \A fault, restore : /\ Cell("faulted", fault, restore).condition = "faulted"
                               /\ Cell("restored", fault, restore).condition = "restored"
                               /\ Cell("faulted", fault, restore).fault = fault
                               /\ Cell("restored", fault, restore).fault = fault
    BY CellFields DEF CleanCell, NoTouchCell
  <2>7. \A cell \in cells : cell.fault = NoFault \/ ~cell.fault.declared
    <3> TAKE cell \in cells
    <3>1. \A row \in rows : ~row.point.fault.declared /\ ~Restored(row.point).declared
      BY <2>2, TwinFields DEF WellFormed, Buildable
    <3> QED BY <2>4, <2>6, <3>1
  <2>8. {cell \in cells : cell.condition = "clean"} = {CleanCell}
    BY <2>4, <2>5, <2>6
  <2>9. {cell \in cells : cell.condition = "no_touch"} = {NoTouchCell}
    BY <2>4, <2>5, <2>6
  <2>10. /\ Cardinality({cell \in cells : cell.condition = "clean"}) = 1
         /\ Cardinality({cell \in cells : cell.condition = "no_touch"}) = 1
    BY <2>8, <2>9, FS_Singleton
  <2>11. \A a, b \in rows : a.point = b.point => a = b
    BY <2>2
  <2>12. \A row \in rows : RowAccepted(row, cells)
    BY RowsAccepted
  <2>13. kind = "primary" =>
           /\ Cardinality(rows) = Cardinality(GridOperators \X GridLevels)
           /\ {<<row.operator, row.level>> : row \in rows} = GridOperators \X GridLevels
    BY <2>1, GridComplete DEF Building
  <2> QED BY <2>1, <2>3, <2>7, <2>10, <2>11, <2>12, <2>13 DEF Accepted
<1> QED BY <1>1, BuildInvariant, PTL

-----------------------------------------------------------------------------
(* Every cell can be run.                                                   *)

\* A cell with a resource of its own fault can be run with every budget that the
\* task's horizon has and its window starts within, and with no other.
LEMMA CellMaterializes ==
  ASSUME NEW cell, NEW steps \in Int, NEW condition, NEW fault, NEW restore,
         cell = Cell(condition, fault, restore),
         \/ cell \in {CleanCell, NoTouchCell}
         \/ /\ fault # NoFault
            /\ \/ condition = "faulted" /\ restore = NoRestore
               \/ condition = "restored" /\ restore # NoRestore /\ restore = fault.stop
  PROVE  Materializes(cell, Resource(cell), steps) <=> InBudget(cell, steps)
<1> DEFINE resource == Resource(cell)
           request == Request(cell, resource)
<1>1. cell.condition = condition /\ cell.fault = fault /\ cell.restore = restore
  BY CellFields
<1>2. /\ resource.fault = fault
      /\ resource.rest <=> fault # NoFault /\ fault.operator \in RestReferenced
      /\ resource.no_touch <=> condition = "no_touch"
  BY <1>1 DEF Resource
<1>3. /\ request.condition = condition /\ request.restore = restore /\ request.fault = fault
      /\ request.rest <=> fault # NoFault /\ fault.operator \in RestReferenced
      /\ request.control <=> condition = "no_touch"
      /\ request.no_touch <=> condition = "no_touch"
  BY <1>1, <1>2 DEF Request
<1>0. request.control = request.no_touch
  <2>1. CASE condition = "no_touch"
    BY <1>1, <2>1 DEF Request, Resource
  <2>2. CASE condition # "no_touch"
    BY <1>1, <2>2 DEF Request, Resource
  <2> QED BY <2>1, <2>2
<1>4. LoadedCell(request) = cell
  BY <1>3 DEF LoadedCell
<1> HIDE DEF request, resource
<1>5. CASE cell \in {CleanCell, NoTouchCell}
  <2>1. condition \in {"clean", "no_touch"} /\ fault = NoFault /\ restore = NoRestore
    BY <1>1, <1>5, CellFields DEF CleanCell, NoTouchCell
  <2>2. ResourceFits(cell.condition, resource)
    BY <1>1, <1>2, <2>1 DEF ResourceFits, Tactile
  <2>3. RequestOK(request)
    BY <1>0, <1>3, <2>1 DEF RequestOK, Tactile
  <2>4. Loadable(request, steps) <=> InBudget(cell, steps)
    BY <1>1, <1>3, <2>1 DEF Loadable, InBudget
  <2> QED BY <1>4, <2>2, <2>3, <2>4 DEF Materializes, request, resource
<1>6. CASE /\ fault # NoFault
           /\ \/ condition = "faulted" /\ restore = NoRestore
              \/ condition = "restored" /\ restore # NoRestore /\ restore = fault.stop
  <2>2. ResourceFits(cell.condition, resource)
    BY <1>1, <1>2, <1>6 DEF ResourceFits, Tactile
  <2>3. RequestOK(request)
    BY <1>0, <1>3, <1>6 DEF RequestOK, Tactile
  <2>4. Loadable(request, steps) <=> InBudget(cell, steps)
    BY <1>1, <1>3, <1>6 DEF Loadable, InBudget
  <2> QED BY <1>4, <2>2, <2>3, <2>4 DEF Materializes, request, resource
<1> QED BY <1>5, <1>6

\* The resources of a matrix that was generated fit its cells with every budget
\* that they can be run with.
LEMMA EveryCellFits ==
  ASSUME BuildInv, stage = "done", NEW cell \in cells, NEW steps \in Int
  PROVE  Materializes(cell, resources[cell], steps) <=> InBudget(cell, steps)
<1>1. resources[cell] = Resource(cell)
  BY DEF BuildInv, StagesStand
<1>2. PICK row \in rows : cell \in RowCells(row)
  BY DEF BuildInv, RowsStand
<1>3. WellFormed(row.point) /\ row = Row(row.point)
  BY DEF BuildInv, RowsStand
<1>5. CASE cell = CleanCell \/ cell = NoTouchCell
  <2>1. \E condition : cell = Cell(condition, NoFault, NoRestore)
    BY <1>5 DEF CleanCell, NoTouchCell
  <2> QED BY <1>1, <1>5, <2>1, CellMaterializes
<1>6. CASE cell = Cell("faulted", row.point.fault, NoRestore)
  <2>1. row.point.fault # NoFault
    BY <1>3, FaultIsSome DEF WellFormed, FaultManifests
  <2> QED BY <1>1, <1>6, <2>1, CellMaterializes
<1>7. CASE cell = Cell("restored", Restored(row.point), row.point.restore)
  <2>1. /\ Restored(row.point).operator = row.point.fault.operator
        /\ Restored(row.point).stop = row.point.restore
    BY <1>3, TwinFields
  <2>2. Restored(row.point) # NoFault
    BY <1>3, <2>1, FaultIsSome DEF WellFormed, FaultManifests
  <2>3. row.point.restore # NoRestore
    BY <1>3 DEF WellFormed, Buildable, PointOK, FaultManifests, NoRestore
  <2> QED BY <1>1, <1>7, <2>1, <2>2, <2>3, CellMaterializes
<1> QED BY <1>2, <1>3, <1>5, <1>6, <1>7, CellsOf

\* The budget that a primary matrix is generated with can be run: it is that of the
\* task's horizon, and its window, which starts all of its faults, lies within.
LEMMA PrimaryInBudget ==
  ASSUME BuildInv, stage = "done", kind = "primary", NEW cell \in cells
  PROVE  spec.steps \in Int /\ InBudget(cell, spec.steps)
<1>1. /\ spec \in Specs /\ SpecOK(spec) /\ spec.cycles = Horizon
      /\ points = {} /\ {r.point : r \in rows} = GridPoints(spec)
  BY DEF BuildInv, Shape, StagesStand, GridStands, Building
<1>2. /\ spec.steps \in Int /\ spec.start < spec.steps /\ spec.steps =< Horizon + 1
  BY <1>1, MatrixBuildAssumption DEF SpecOK
<1>3. PICK row \in rows : cell \in RowCells(row)
  BY DEF BuildInv, RowsStand
<1>4. WellFormed(row.point) /\ row = Row(row.point)
  BY DEF BuildInv, RowsStand
<1>5. row.point.fault.start = spec.start
  <2>1. row.point \in GridPoints(spec)
    BY <1>1
  <2> QED BY <2>1 DEF GridPoints, GridFaults, Point, Fault
<1>6. cell.fault = NoFault \/ cell.fault.start = spec.start
  <2>1. Restored(row.point).start = row.point.fault.start
    BY <1>4, TwinFields
  <2>2. CASE cell = CleanCell \/ cell = NoTouchCell
    BY <2>2, CellFields DEF CleanCell, NoTouchCell
  <2>3. CASE cell = Cell("faulted", row.point.fault, NoRestore)
    BY <1>5, <2>3, CellFields
  <2>4. CASE cell = Cell("restored", Restored(row.point), row.point.restore)
    BY <1>5, <2>1, <2>4, CellFields
  <2> QED BY <1>3, <1>4, <2>2, <2>3, <2>4, CellsOf
<1> QED BY <1>2, <1>6 DEF InBudget

\* Every cell of a primary matrix that was generated can be run: the resources
\* written for it make a request that is accepted, loads, and loads as exactly this
\* cell.  A cell of a focused matrix can be run with exactly the budgets that the
\* task's horizon has and that its fault starts within: nothing at build time sees
\* the budget (matrix/live_executor_contracts.py:107, execution/loading.py:302).
THEOREM EveryCellRuns == ReportSpec => []EveryCellMaterializes
<1>1. BuildInv => EveryCellMaterializes
  <2> SUFFICES ASSUME BuildInv, stage = "done", NEW cell \in cells
               PROVE  IF kind = "primary" THEN Materializes(cell, resources[cell], spec.steps)
                      ELSE \A budget \in FocusedBudgets :
                             Materializes(cell, resources[cell], budget)
                               <=> InBudget(cell, budget)
    BY Zenon DEF EveryCellMaterializes
  <2>1. CASE kind = "primary"
    BY <2>1, PrimaryInBudget, EveryCellFits
  <2>2. CASE kind # "primary"
    <3> SUFFICES ASSUME NEW budget \in FocusedBudgets
                 PROVE  Materializes(cell, resources[cell], budget) <=> InBudget(cell, budget)
      BY <2>2
    <3>1. budget \in Int
      BY MatrixBuildAssumption
    <3> QED BY <3>1, EveryCellFits
  <2> QED BY <2>1, <2>2
<1> QED BY <1>1, BuildInvariant, PTL

-----------------------------------------------------------------------------
(* Sums and means.                                                          *)

\* Every set of natural numbers that is not empty has a least element.
LEMMA LeastElement ==
  ASSUME NEW B, B \subseteq Nat, B # {} PROVE \E m \in B : \A n \in B : m =< n
<1>1. PICK m \in B : \A n \in B : ~(<<n, m>> \in OpToRel(<, Nat))
  BY NatLessThanWellFounded, WFMin, Zenon
<1>2. \A n \in B : n \in Nat /\ ~(n < m)
  BY <1>1 DEF OpToRel
<1> QED BY <1>2

\* The sums of the subsets of S, in the order the fold takes their elements; g
\* need only be defined on those with at most n elements.
Pick(s) == CHOOSE x \in s : TRUE
Small(S, n) == {s \in SUBSET S : Cardinality(s) =< n}
IsSum(F, D, g) ==
  g = [s \in D |-> IF s = {} THEN 0 ELSE F[Pick(s)] + g[s \ {Pick(s)}]]

\* An element of a finite set leaves one element less.
LEMMA PickLeaves ==
  ASSUME NEW S, IsFiniteSet(S), NEW s \in SUBSET S, s # {}
  PROVE  /\ Pick(s) \in s /\ s \ {Pick(s)} \in SUBSET S
         /\ Cardinality(s) \in Nat \ {0}
         /\ Cardinality(s \ {Pick(s)}) = Cardinality(s) - 1
<1>1. Pick(s) \in s
  BY DEF Pick
<1>2. IsFiniteSet(s)
  BY FS_Subset
<1>3. Cardinality(s) \in Nat /\ Cardinality(s) # 0
  BY <1>2, FS_CardinalityType, FS_EmptySet
<1>4. Cardinality(s \ {Pick(s)}) = Cardinality(s) - 1
  BY <1>1, <1>2, FS_RemoveElement
<1> QED BY <1>1, <1>3, <1>4

\* The sums of the small subsets extend to those with one element more.
LEMMA SumExtends ==
  ASSUME NEW F, NEW S, IsFiniteSet(S), NEW n \in Nat, NEW g, IsSum(F, Small(S, n), g)
  PROVE  \E h : IsSum(F, Small(S, n + 1), h)
<1> DEFINE D == Small(S, n)
           E == Small(S, n + 1)
           h == [s \in E |-> IF s = {} THEN 0 ELSE F[Pick(s)] + g[s \ {Pick(s)}]]
<1>1. \A s \in SUBSET S : s # {} => /\ s \ {Pick(s)} \in SUBSET S
                                    /\ Cardinality(s) \in Nat \ {0}
                                    /\ Cardinality(s \ {Pick(s)}) = Cardinality(s) - 1
  BY PickLeaves
<1>2. \A s \in E : s # {} => s \ {Pick(s)} \in D /\ s \ {Pick(s)} \in E
  BY <1>1 DEF Small
<1>3. D \subseteq E
  <2>1. \A s \in SUBSET S : Cardinality(s) \in Nat
    BY FS_Subset, FS_CardinalityType
  <2> QED BY <2>1 DEF Small
<1> HIDE DEF D, E
<1>4. \A s \in D : g[s] = IF s = {} THEN 0 ELSE F[Pick(s)] + g[s \ {Pick(s)}]
  BY Zenon DEF IsSum, D
<1>5. \A s \in D : h[s] = g[s]
  BY <1>3, <1>4
<1>6. h = [s \in E |-> IF s = {} THEN 0 ELSE F[Pick(s)] + h[s \ {Pick(s)}]]
  <2>1. \A s \in E : s # {} => h[s \ {Pick(s)}] = g[s \ {Pick(s)}]
    BY <1>2, <1>5
  <2> HIDE DEF h
  <2>2. [s \in E |-> IF s = {} THEN 0 ELSE F[Pick(s)] + g[s \ {Pick(s)}]]
          = [s \in E |-> IF s = {} THEN 0 ELSE F[Pick(s)] + h[s \ {Pick(s)}]]
    BY <2>1
  <2> QED BY <2>2 DEF h
<1> HIDE DEF h
<1> QED BY <1>6 DEF IsSum, E

\* So there are sums of all subsets of a finite set.
LEMMA SumExists ==
  ASSUME NEW F, NEW S, IsFiniteSet(S) PROVE \E g : IsSum(F, SUBSET S, g)
<1> DEFINE Lacks == {n \in Nat : ~\E g : IsSum(F, Small(S, n), g)}
<1>1. Lacks = {}
  <2> SUFFICES ASSUME Lacks # {} PROVE FALSE
    OBVIOUS
  <2>1. PICK m \in Lacks : \A n \in Lacks : m =< n
    <3> HIDE DEF Lacks
    <3>1. Lacks \subseteq Nat
      BY DEF Lacks
    <3> QED BY <3>1, LeastElement
  <2>2. m \in Nat /\ ~\E g : IsSum(F, Small(S, m), g)
    OBVIOUS
  <2>3. CASE m = 0
    <3>1. \A s \in SUBSET S : Cardinality(s) =< 0 <=> s = {}
      BY FS_Subset, FS_EmptySet, FS_CardinalityType
    <3>2. Small(S, 0) = {{}}
      BY <3>1 DEF Small
    <3> DEFINE g == [s \in {{}} |-> 0]
    <3>3. g = [s \in {{}} |-> IF s = {} THEN 0 ELSE F[Pick(s)] + g[s \ {Pick(s)}]]
      OBVIOUS
    <3> HIDE DEF g
    <3>4. IsSum(F, Small(S, 0), g)
      BY <3>2, <3>3 DEF IsSum
    <3> QED BY <2>2, <2>3, <3>4
  <2>4. CASE m # 0
    <3>1. m - 1 \in Nat /\ m - 1 \notin Lacks
      BY <2>1, <2>2, <2>4
    <3>2. PICK g : IsSum(F, Small(S, m - 1), g)
      BY <3>1
    <3>3. \E h : IsSum(F, Small(S, (m - 1) + 1), h)
      BY <3>1, <3>2, SumExtends
    <3>4. (m - 1) + 1 = m
      BY <2>2
    <3> QED BY <2>2, <3>3, <3>4
  <2> QED BY <2>3, <2>4
<1>2. Cardinality(S) \in Nat
  BY FS_CardinalityType
<1>3. PICK g : IsSum(F, Small(S, Cardinality(S)), g)
  BY <1>1, <1>2
<1>4. Small(S, Cardinality(S)) = SUBSET S
  BY FS_Subset DEF Small
<1> QED BY <1>3, <1>4

\* The fold of the library is the sum, one that is chosen, of the whole set.
LEMMA SumChosen ==
  ASSUME NEW F, NEW S, S = DOMAIN F
  PROVE  SumFunction(F) = (CHOOSE g : IsSum(F, SUBSET S, g))[S]
BY DEF SumFunction, SumFunctionOnSet, FoldFunctionOnSet, MapThenFoldSet, IsSum, Pick

\* So it is the sum of the whole set by some function that sums the subsets.
LEMMA SumIs ==
  ASSUME NEW F, NEW S, S = DOMAIN F, IsFiniteSet(S)
  PROVE  \E g : IsSum(F, SUBSET S, g) /\ SumFunction(F) = g[S]
<1> DEFINE h == CHOOSE g : IsSum(F, SUBSET S, g)
<1>1. IsSum(F, SUBSET S, h)
  BY SumExists
<1>2. SumFunction(F) = h[S]
  BY SumChosen
<1> HIDE DEF h
<1> QED BY <1>1, <1>2

\* A sum of n numbers from a to b is from n times a to n times b.
LEMMA SumBounded ==
  ASSUME NEW F, IsFiniteSet(DOMAIN F), NEW a \in Nat, NEW b \in Nat,
         \A x \in DOMAIN F : F[x] \in a .. b
  PROVE  SumFunction(F) \in a * Cardinality(DOMAIN F) .. b * Cardinality(DOMAIN F)
<1> DEFINE S == DOMAIN F
<1>1. PICK g : IsSum(F, SUBSET S, g) /\ SumFunction(F) = g[S]
  BY SumIs
<1> DEFINE Over == {n \in Nat : \E s \in SUBSET S : Cardinality(s) = n
                                                   /\ g[s] \notin a * n .. b * n}
<1>2. \A s \in SUBSET S : g[s] = IF s = {} THEN 0 ELSE F[Pick(s)] + g[s \ {Pick(s)}]
  BY <1>1, Zenon DEF IsSum
<1> HIDE DEF S
<1>3. Over = {}
  <2> SUFFICES ASSUME Over # {} PROVE FALSE
    OBVIOUS
  <2>1. PICK m \in Over : \A n \in Over : m =< n
    <3> HIDE DEF Over
    <3>1. Over \subseteq Nat
      BY DEF Over
    <3> QED BY <3>1, LeastElement
  <2>2. PICK s \in SUBSET S : Cardinality(s) = m /\ g[s] \notin a * m .. b * m
    OBVIOUS
  <2>3. s # {}
    <3>1. CASE s = {}
      <4>1. m = 0 /\ g[s] = 0
        BY <1>2, <2>2, <3>1, FS_EmptySet
      <4> QED BY <2>2, <4>1
    <3> QED BY <3>1
  <2>4. /\ Pick(s) \in s /\ s \ {Pick(s)} \in SUBSET S
        /\ m \in Nat \ {0} /\ Cardinality(s \ {Pick(s)}) = m - 1
    BY <2>2, <2>3, PickLeaves DEF S
  <2>5. g[s \ {Pick(s)}] \in a * (m - 1) .. b * (m - 1)
    <3>1. m - 1 \in Nat /\ m - 1 \notin Over
      BY <2>1, <2>4
    <3> QED BY <2>4, <3>1
  <2>6. F[Pick(s)] \in a .. b
    BY <2>2, <2>4 DEF S
  <2>7. /\ b * (m - 1) + b = b * m /\ b * (m - 1) \in Nat /\ b * m \in Nat
        /\ a * (m - 1) + a = a * m /\ a * (m - 1) \in Nat /\ a * m \in Nat
    BY <2>4
  <2>8. \A i, j, u, v \in Nat : \A w \in i .. u, x \in j .. v : w + x \in i + j .. u + v
    OBVIOUS
  <2>9. F[Pick(s)] + g[s \ {Pick(s)}] \in a * m .. b * m
    <3>1. F[Pick(s)] + g[s \ {Pick(s)}] \in a + a * (m - 1) .. b + b * (m - 1)
      BY <2>5, <2>6, <2>7, <2>8
    <3> QED BY <2>7, <3>1
  <2>10. g[s] \in a * m .. b * m
    BY <1>2, <2>3, <2>9
  <2> QED BY <2>2, <2>10
<1>4. Cardinality(S) \in Nat
  BY FS_CardinalityType DEF S
<1> QED BY <1>1, <1>3, <1>4 DEF S

\* The mean of numbers from a to b is one.
LEMMA MeanBounded ==
  ASSUME NEW F, IsFiniteSet(DOMAIN F), DOMAIN F # {}, NEW a \in Nat, NEW b \in Nat,
         \A x \in DOMAIN F : F[x] \in a .. b
  PROVE  Mean(F) \in a .. b
<1>1. PICK n : n = Cardinality(DOMAIN F)
  OBVIOUS
<1>2. n \in Nat \ {0}
  BY <1>1, FS_CardinalityType, FS_EmptySet
<1>3. PICK s \in a * n .. b * n : s = SumFunction(F)
  BY <1>1, SumBounded
<1>4. b * n \in Nat /\ a * n \in Nat
  BY <1>2
<1>5. s \div n \in a .. b
  <2>1. s \in Nat /\ s \div n \in Nat
    BY <1>2, <1>3, <1>4
  <2>2. PICK q \in Nat : q = s \div n
    BY <2>1
  <2>3. n * q =< s /\ s < n * q + n
    BY <1>2, <2>1, <2>2
  <2>4. q =< b
    <3>1. CASE q > b
      <4>1. n * (q - b) >= n
        BY <1>2, <2>2, <3>1
      <4> QED BY <1>2, <1>3, <2>2, <2>3, <4>1
    <3> QED BY <2>2, <3>1
  <2>5. a =< q
    <3>1. CASE q < a
      <4>1. n * (a - q) >= n
        BY <1>2, <2>2, <3>1
      <4> QED BY <1>2, <1>3, <2>2, <2>3, <4>1
    <3> QED BY <2>2, <3>1
  <2> QED BY <2>2, <2>4, <2>5
<1> QED BY <1>1, <1>3, <1>5 DEF Mean

\* What holds of no element, and of a set when it holds of the set without the element
\* its sum takes first, holds of every subset of a finite set.
LEMMA PickInduction ==
  ASSUME NEW S, IsFiniteSet(S), NEW P, {} \in P,
         \A s \in SUBSET S : s # {} /\ s \ {Pick(s)} \in P => s \in P
  PROVE  \A s \in SUBSET S : s \in P
<1> DEFINE Bad == {n \in Nat : \E s \in SUBSET S : Cardinality(s) = n /\ s \notin P}
<1>1. ASSUME Bad # {} PROVE FALSE
  <2>1. PICK m \in Bad : \A n \in Bad : m =< n
    <3> HIDE DEF Bad
    <3>1. Bad \subseteq Nat
      BY DEF Bad
    <3> QED BY <1>1, <3>1, LeastElement
  <2>2. PICK s \in SUBSET S : Cardinality(s) = m /\ s \notin P
    OBVIOUS
  <2>3. s # {}
    BY <2>2
  <2>4. /\ s \ {Pick(s)} \in SUBSET S /\ m \in Nat \ {0}
        /\ Cardinality(s \ {Pick(s)}) = m - 1
    BY <2>2, <2>3, PickLeaves
  <2>5. m - 1 \in Nat /\ m - 1 \notin Bad
    BY <2>1, <2>4
  <2>6. s \ {Pick(s)} \in P
    BY <2>4, <2>5
  <2> QED BY <2>2, <2>3, <2>6
<1>2. \A s \in SUBSET S : Cardinality(s) \in Nat
  BY FS_Subset, FS_CardinalityType
<1> QED BY <1>1, <1>2

\* What g gains, from nothing for the empty set, with each element that is picked.
Accumulates(F, S, g) ==
  /\ g[{}] = 0
  /\ \A s \in SUBSET S : s # {} =>
       /\ Pick(s) \in s /\ s \ {Pick(s)} \in SUBSET S
       /\ g[s] = F[Pick(s)] + g[s \ {Pick(s)}]

\* The sum of no number and the sum of a set.
LEMMA SumStep ==
  ASSUME NEW F, NEW S, IsFiniteSet(S), NEW g, IsSum(F, SUBSET S, g)
  PROVE  Accumulates(F, S, g)
<1>1. \A s \in SUBSET S : g[s] = IF s = {} THEN 0 ELSE F[Pick(s)] + g[s \ {Pick(s)}]
  BY Zenon DEF IsSum
<1>2. \A s \in SUBSET S : s # {} => Pick(s) \in s /\ s \ {Pick(s)} \in SUBSET S
  BY PickLeaves
<1> QED BY <1>1, <1>2 DEF Accumulates

\* The multiples of a number.
Times(m) == {m * k : k \in Int}

\* Their sums and differences are multiples.
LEMMA TimesSum ==
  ASSUME NEW m \in Int, NEW x \in Times(m), NEW y \in Times(m)
  PROVE  x + y \in Times(m) /\ x - y \in Times(m) /\ 0 \in Times(m) /\ x \in Int /\ y \in Int
<1>1. PICK j, k \in Int : x = m * j /\ y = m * k
  BY DEF Times
<1>2. x + y = m * (j + k) /\ x - y = m * (j - k) /\ 0 = m * 0
  BY <1>1
<1> QED BY <1>1, <1>2 DEF Times

\* A multiple of more is one of less.
LEMMA TimesLess ==
  ASSUME NEW m \in Int, NEW n \in Int, NEW x \in Times(n * m)
  PROVE  x \in Times(m) /\ x \in Int
<1>1. PICK k \in Int : x = (n * m) * k
  BY DEF Times
<1>2. x = m * (n * k) /\ n * k \in Int
  BY <1>1
<1> QED BY <1>1, <1>2 DEF Times

\* The sum of multiples is one.
LEMMA SumTimes ==
  ASSUME NEW F, IsFiniteSet(DOMAIN F), NEW m \in Int, \A x \in DOMAIN F : F[x] \in Times(m)
  PROVE  SumFunction(F) \in Times(m) /\ SumFunction(F) \in Int
<1> DEFINE S == DOMAIN F
<1>1. PICK g : IsSum(F, SUBSET S, g) /\ SumFunction(F) = g[S]
  BY SumIs
<1> HIDE DEF S
<1>2. IsFiniteSet(S)
  BY DEF S
<1>7. /\ g[{}] = 0
      /\ \A s \in SUBSET S : s # {} =>
           Pick(s) \in s /\ s \ {Pick(s)} \in SUBSET S /\ g[s] = F[Pick(s)] + g[s \ {Pick(s)}]
  BY <1>1, <1>2, SumStep DEF Accumulates
<1> DEFINE P == {s \in SUBSET S : g[s] \in Times(m)}
<1>3. 0 \in Times(m)
  <2>1. m * 0 = 0
    OBVIOUS
  <2> QED BY <2>1 DEF Times
<1>4. {} \in P
  BY <1>3, <1>7
<1>5. \A s \in SUBSET S : s # {} /\ s \ {Pick(s)} \in P => s \in P
  <2> TAKE s \in SUBSET S
  <2> HAVE s # {} /\ s \ {Pick(s)} \in P
  <2>1. Pick(s) \in s /\ g[s] = F[Pick(s)] + g[s \ {Pick(s)}]
    BY <1>7
  <2>2. F[Pick(s)] \in Times(m) /\ g[s \ {Pick(s)}] \in Times(m)
    BY <2>1 DEF S
  <2>3. g[s] \in Times(m)
    BY <2>1, <2>2, TimesSum
  <2> QED BY <2>3
<1> HIDE DEF P
<1>6. S \in P
  BY <1>2, <1>4, <1>5, PickInduction
<1> QED BY <1>1, <1>6, <1>3, TimesSum DEF P

\* The sum of sums.
LEMMA SumAdd ==
  ASSUME NEW S, IsFiniteSet(S), NEW F, NEW G, NEW H,
         DOMAIN F = S, DOMAIN G = S, DOMAIN H = S,
         \A x \in S : F[x] \in Int /\ G[x] \in Int /\ H[x] = F[x] + G[x]
  PROVE  /\ SumFunction(F) \in Int /\ SumFunction(G) \in Int
         /\ SumFunction(H) = SumFunction(F) + SumFunction(G)
<1>1. PICK f : IsSum(F, SUBSET S, f) /\ SumFunction(F) = f[S]
  BY SumIs
<1>2. PICK g : IsSum(G, SUBSET S, g) /\ SumFunction(G) = g[S]
  BY SumIs
<1>3. PICK h : IsSum(H, SUBSET S, h) /\ SumFunction(H) = h[S]
  BY SumIs
<1>4. /\ f[{}] = 0
      /\ \A s \in SUBSET S : s # {} =>
           /\ Pick(s) \in s /\ s \ {Pick(s)} \in SUBSET S
           /\ f[s] = F[Pick(s)] + f[s \ {Pick(s)}]
  <2>1. Accumulates(F, S, f)
    BY <1>1, SumStep
  <2> QED BY <2>1 DEF Accumulates
<1>5. /\ g[{}] = 0
      /\ \A s \in SUBSET S : s # {} =>
           /\ Pick(s) \in s /\ s \ {Pick(s)} \in SUBSET S
           /\ g[s] = G[Pick(s)] + g[s \ {Pick(s)}]
  <2>1. Accumulates(G, S, g)
    BY <1>2, SumStep
  <2> QED BY <2>1 DEF Accumulates
<1>6. /\ h[{}] = 0
      /\ \A s \in SUBSET S : s # {} =>
           /\ Pick(s) \in s /\ s \ {Pick(s)} \in SUBSET S
           /\ h[s] = H[Pick(s)] + h[s \ {Pick(s)}]
  <2>1. Accumulates(H, S, h)
    BY <1>3, SumStep
  <2> QED BY <2>1 DEF Accumulates
<1> DEFINE P == {s \in SUBSET S : f[s] \in Int /\ g[s] \in Int /\ h[s] = f[s] + g[s]}
<1>7. {} \in P
  BY <1>4, <1>5, <1>6
<1>8. \A s \in SUBSET S : s # {} /\ s \ {Pick(s)} \in P => s \in P
  <2> TAKE s \in SUBSET S
  <2> HAVE s # {} /\ s \ {Pick(s)} \in P
  <2>1. PICK p, r : p = Pick(s) /\ r = s \ {Pick(s)}
    OBVIOUS
  <2>2. p \in S /\ f[s] = F[p] + f[r] /\ g[s] = G[p] + g[r] /\ h[s] = H[p] + h[r]
    BY <1>4, <1>5, <1>6, <2>1
  <2>3. f[r] \in Int /\ g[r] \in Int /\ h[r] = f[r] + g[r]
    BY <2>1
  <2>4. F[p] \in Int /\ G[p] \in Int /\ H[p] = F[p] + G[p]
    BY <2>2
  <2> QED BY <2>2, <2>3, <2>4
<1> HIDE DEF P
<1>9. S \in P
  BY <1>7, <1>8, PickInduction
<1> QED BY <1>1, <1>2, <1>3, <1>9 DEF P

\* The sum of differences.
LEMMA SumSubtract ==
  ASSUME NEW S, IsFiniteSet(S), NEW F, NEW G, NEW H,
         DOMAIN F = S, DOMAIN G = S, DOMAIN H = S,
         \A x \in S : F[x] \in Int /\ G[x] \in Int /\ H[x] = F[x] - G[x]
  PROVE  SumFunction(H) = SumFunction(F) - SumFunction(G)
<1>1. \A x \in S : H[x] \in Int /\ G[x] \in Int /\ F[x] = H[x] + G[x]
  OBVIOUS
<1>2. /\ SumFunction(H) \in Int /\ SumFunction(G) \in Int
      /\ SumFunction(F) = SumFunction(H) + SumFunction(G)
  BY <1>1, SumAdd
<1> QED BY <1>2

\* The sum of multiples by the size of a set.
LEMMA SumScale ==
  ASSUME NEW S, IsFiniteSet(S), NEW X, IsFiniteSet(X), NEW F, NEW H,
         DOMAIN F = S, DOMAIN H = S,
         \A x \in S : F[x] \in Int /\ H[x] = Cardinality(X) * F[x]
  PROVE  /\ SumFunction(F) \in Int
         /\ SumFunction(H) = Cardinality(X) * SumFunction(F)
<1>1. PICK f : IsSum(F, SUBSET S, f) /\ SumFunction(F) = f[S]
  BY SumIs
<1>2. PICK h : IsSum(H, SUBSET S, h) /\ SumFunction(H) = h[S]
  BY SumIs
<1>3. /\ f[{}] = 0
      /\ \A s \in SUBSET S : s # {} =>
           /\ Pick(s) \in s /\ s \ {Pick(s)} \in SUBSET S
           /\ f[s] = F[Pick(s)] + f[s \ {Pick(s)}]
  <2>1. Accumulates(F, S, f)
    BY <1>1, SumStep
  <2> QED BY <2>1 DEF Accumulates
<1>4. /\ h[{}] = 0
      /\ \A s \in SUBSET S : s # {} =>
           /\ Pick(s) \in s /\ s \ {Pick(s)} \in SUBSET S
           /\ h[s] = H[Pick(s)] + h[s \ {Pick(s)}]
  <2>1. Accumulates(H, S, h)
    BY <1>2, SumStep
  <2> QED BY <2>1 DEF Accumulates
<1>5. PICK n : n = Cardinality(X)
  OBVIOUS
<1>6. n \in Nat
  BY <1>5, FS_CardinalityType
<1> DEFINE P == {s \in SUBSET S : f[s] \in Int /\ h[s] = n * f[s]}
<1>7. {} \in P
  BY <1>3, <1>4, <1>6
<1>8. \A s \in SUBSET S : s # {} /\ s \ {Pick(s)} \in P => s \in P
  <2> TAKE s \in SUBSET S
  <2> HAVE s # {} /\ s \ {Pick(s)} \in P
  <2>1. PICK p, r : p = Pick(s) /\ r = s \ {Pick(s)}
    OBVIOUS
  <2>2. p \in S /\ f[s] = F[p] + f[r] /\ h[s] = H[p] + h[r]
    BY <1>3, <1>4, <2>1
  <2>3. f[r] \in Int /\ h[r] = n * f[r]
    BY <2>1
  <2>4. F[p] \in Int /\ H[p] = n * F[p]
    BY <1>5, <2>2
  <2>5. \A k, x, y \in Int : k * x + k * y = k * (x + y)
    OBVIOUS
  <2>6. n * F[p] + n * f[r] = n * (F[p] + f[r])
    BY <1>6, <2>3, <2>4, <2>5
  <2>7. f[s] \in Int /\ h[s] = n * f[s]
    BY <2>2, <2>3, <2>4, <2>6
  <2> QED BY <2>7
<1> HIDE DEF P
<1>9. S \in P
  BY <1>7, <1>8, PickInduction
<1> QED BY <1>1, <1>2, <1>5, <1>9 DEF P

\* The order in which a table is summed does not matter.
LEMMA SumSwap ==
  ASSUME NEW A, IsFiniteSet(A), NEW B, IsFiniteSet(B), NEW F,
         \A a \in A, b \in B : F[a][b] \in Int
  PROVE  SumFunction([a \in A |-> SumFunction([b \in B |-> F[a][b]])])
           = SumFunction([b \in B |-> SumFunction([a \in A |-> F[a][b]])])
<1> DEFINE Across(a) == [b \in B |-> F[a][b]]
           Down(b) == [a \in A |-> F[a][b]]
           Rows == [a \in A |-> SumFunction(Across(a))]
           G == [b \in B |-> CHOOSE g : IsSum(Down(b), SUBSET A, g)]
           Part(s) == [b \in B |-> G[b][s]]
<1>1. PICK f : IsSum(Rows, SUBSET A, f) /\ SumFunction(Rows) = f[A]
  <2>1. A = DOMAIN Rows
    OBVIOUS
  <2> HIDE DEF Rows
  <2> QED BY <2>1, SumIs
<1>2. \A a \in A : DOMAIN Across(a) = B /\ \A b \in B : Across(a)[b] = F[a][b]
  OBVIOUS
<1>3. \A b \in B : DOMAIN Down(b) = A /\ \A a \in A : Down(b)[a] = F[a][b]
  OBVIOUS
<1>4. \A a \in A : Rows[a] = SumFunction(Across(a))
  OBVIOUS
<1> HIDE DEF Across, Down, Rows
<1>5. \A b \in B : IsSum(Down(b), SUBSET A, G[b]) /\ SumFunction(Down(b)) = G[b][A]
  <2> TAKE b \in B
  <2> DEFINE g == CHOOSE g : IsSum(Down(b), SUBSET A, g)
  <2>1. IsSum(Down(b), SUBSET A, g)
    BY SumExists
  <2>2. SumFunction(Down(b)) = g[A]
    <3>1. PICK C : C = Down(b)
      OBVIOUS
    <3>2. A = DOMAIN C
      BY <1>3, <3>1
    <3>3. SumFunction(C) = (CHOOSE h : IsSum(C, SUBSET A, h))[A]
      BY <3>2, SumChosen
    <3> QED BY <3>1, <3>3
  <2>3. G[b] = g
    OBVIOUS
  <2> HIDE DEF g, G
  <2> QED BY <2>1, <2>2, <2>3
<1> HIDE DEF G
<1>6. /\ f[{}] = 0
      /\ \A s \in SUBSET A : s # {} =>
           /\ Pick(s) \in s /\ s \ {Pick(s)} \in SUBSET A
           /\ f[s] = Rows[Pick(s)] + f[s \ {Pick(s)}]
  BY <1>1, SumStep DEF Accumulates
<1>7. \A b \in B :
        /\ G[b][{}] = 0
        /\ \A s \in SUBSET A : s # {} =>
             /\ Pick(s) \in s /\ s \ {Pick(s)} \in SUBSET A
             /\ G[b][s] = Down(b)[Pick(s)] + G[b][s \ {Pick(s)}]
  <2> TAKE b \in B
  <2>1. PICK g, C : g = G[b] /\ C = Down(b)
    OBVIOUS
  <2>3. IsSum(C, SUBSET A, g) /\ SumFunction(C) = g[A]
    BY <1>5, <2>1, Zenon
  <2>4. /\ g[{}] = 0
        /\ \A s \in SUBSET A : s # {} =>
             /\ Pick(s) \in s /\ s \ {Pick(s)} \in SUBSET A
             /\ g[s] = C[Pick(s)] + g[s \ {Pick(s)}]
    BY <2>3, SumStep DEF Accumulates
  <2> QED BY <2>1, <2>4
<1>8. \A s \in SUBSET A : DOMAIN Part(s) = B /\ \A b \in B : Part(s)[b] = G[b][s]
  OBVIOUS
<1> HIDE DEF Part
<1> DEFINE P == {s \in SUBSET A : /\ \A b \in B : G[b][s] \in Int
                                  /\ f[s] = SumFunction(Part(s))}
<1>9. {} \in P
  <2>1. \A b \in B : Part({})[b] = 0
    BY <1>7, <1>8
  <2>2. SumFunction(Part({})) = 0
    <3>1. \A x \in DOMAIN Part({}) : Part({})[x] \in Times(0)
      <4>1. 0 = 0 * 0
        OBVIOUS
      <4> QED BY <1>8, <2>1, <4>1 DEF Times
    <3>2. SumFunction(Part({})) \in Times(0)
      BY <1>8, <3>1, SumTimes
    <3> QED BY <3>2 DEF Times
  <2> QED BY <1>6, <1>7, <2>2
<1>10. \A s \in SUBSET A : s # {} /\ s \ {Pick(s)} \in P => s \in P
  <2> TAKE s \in SUBSET A
  <2> HAVE s # {} /\ s \ {Pick(s)} \in P
  <2>1. PICK p, r : p = Pick(s) /\ r = s \ {Pick(s)}
    OBVIOUS
  <2>2. p \in A /\ r \in SUBSET A /\ f[s] = Rows[p] + f[r]
        /\ \A b \in B : G[b][s] = Down(b)[p] + G[b][r]
    BY <1>6, <1>7, <2>1
  <2>3. /\ \A b \in B : G[b][r] \in Int
        /\ f[r] = SumFunction(Part(r))
    BY <2>1
  <2> HIDE DEF P
  <2>4. /\ DOMAIN Across(p) = B /\ DOMAIN Part(r) = B /\ DOMAIN Part(s) = B
        /\ \A b \in B : Across(p)[b] \in Int /\ Part(r)[b] \in Int
        /\ \A b \in B : Part(s)[b] = Across(p)[b] + Part(r)[b]
    <3>1. \A b \in B : Across(p)[b] = F[p][b] /\ Down(b)[p] = F[p][b] /\ F[p][b] \in Int
      BY <1>2, <1>3, <2>2
    <3>2. \A b \in B : Part(s)[b] = F[p][b] + Part(r)[b] /\ Part(r)[b] \in Int
      BY <1>8, <2>2, <2>3, <3>1
    <3> QED BY <1>2, <1>8, <2>2, <3>1, <3>2
  <2>5. /\ SumFunction(Across(p)) \in Int /\ SumFunction(Part(r)) \in Int
        /\ SumFunction(Part(s)) = SumFunction(Across(p)) + SumFunction(Part(r))
    <3>1. PICK R, Q, T : R = Across(p) /\ Q = Part(r) /\ T = Part(s)
      OBVIOUS
    <3>2. /\ DOMAIN R = B /\ DOMAIN Q = B /\ DOMAIN T = B
          /\ \A b \in B : R[b] \in Int /\ Q[b] \in Int
          /\ \A b \in B : T[b] = R[b] + Q[b]
      BY <2>4, <3>1
    <3>3. /\ SumFunction(R) \in Int /\ SumFunction(Q) \in Int
          /\ SumFunction(T) = SumFunction(R) + SumFunction(Q)
      BY <3>2, SumAdd
    <3> QED BY <3>1, <3>3, Zenon
  <2>6. f[s] = SumFunction(Part(s))
    BY <1>4, <2>2, <2>3, <2>5
  <2>7. \A b \in B : G[b][s] \in Int
    BY <1>3, <2>2, <2>3
  <2> QED BY <2>6, <2>7 DEF P
<1>11. A \in P
  <2> HIDE DEF P
  <2> QED BY <1>9, <1>10, PickInduction
<1>12. f[A] = SumFunction(Part(A))
  BY <1>11
<1>13. Part(A) = [b \in B |-> SumFunction(Down(b))]
  BY <1>5 DEF Part
<1> QED BY <1>1, <1>12, <1>13 DEF Rows, Across, Down

\* A multiple of n is divided by n exactly.
LEMMA DivExact ==
  ASSUME NEW n \in Nat \ {0}, NEW k \in Int PROVE (n * k) \div n = k
<1>1. PICK x \in Int : x = n * k
  OBVIOUS
<1>2. PICK q \in Int : q = x \div n
  BY <1>1
<1>3. n * q =< x /\ x < n * q + n
  BY <1>2
<1>4. CASE q > k
  <2>1. n * (q - k) >= n
    BY <1>2, <1>4
  <2> QED BY <1>1, <1>3, <2>1
<1>5. CASE q < k
  <2>1. n * (k - q) >= n
    BY <1>2, <1>5
  <2> QED BY <1>1, <1>3, <2>1
<1> QED BY <1>1, <1>2, <1>4, <1>5

\* A multiple, under a name the provers can match.
Scaled(N, m) == N * m

\* Of what N divides: the mean of n multiples of N times m, for an n that divides N, is
\* exact, and a multiple of m.
LEMMA MeanExact ==
  ASSUME NEW F, IsFiniteSet(DOMAIN F), DOMAIN F # {}, NEW N \in Nat \ {0}, NEW m \in Int,
         NEW q \in Int, N = Cardinality(DOMAIN F) * q,
         \A x \in DOMAIN F : F[x] \in Times(Scaled(N, m))
  PROVE  /\ Mean(F) \in Times(m) /\ Mean(F) \in Int
         /\ SumFunction(F) = Cardinality(DOMAIN F) * Mean(F)
<1>1. PICK n : n = Cardinality(DOMAIN F)
  OBVIOUS
<1>2. n \in Nat \ {0}
  BY <1>1, FS_CardinalityType, FS_EmptySet
<1>3. Scaled(N, m) \in Int
  BY DEF Scaled
<1>4. PICK s : s = SumFunction(F)
  OBVIOUS
<1>5. s \in Times(Scaled(N, m))
  BY <1>3, <1>4, SumTimes
<1>6. PICK k \in Int : s = (N * m) * k
  BY <1>5 DEF Times, Scaled
<1>7. PICK j \in Int : j = q * k
  BY <1>6
<1>8. s = n * (m * j) /\ m * j \in Int
  BY <1>1, <1>2, <1>6, <1>7
<1>9. s \div n = m * j
  BY <1>2, <1>8, DivExact
<1>10. Mean(F) = m * j
  BY <1>1, <1>4, <1>9 DEF Mean
<1>11. m * j \in Times(m)
  BY DEF Times
<1> QED BY <1>1, <1>4, <1>8, <1>10, <1>11

\* N is so many times the size of S.
Splits(N, S) == \E q \in Int : N = Cardinality(S) * q

\* The mean of differences of such multiples.
LEMMA MeanSubtract ==
  ASSUME NEW S, IsFiniteSet(S), S # {}, NEW N \in Nat \ {0}, Splits(N, S), NEW m \in Int,
         NEW F, NEW G, NEW H, DOMAIN F = S, DOMAIN G = S, DOMAIN H = S,
         \A x \in S : /\ F[x] \in Times(Scaled(N, m)) /\ G[x] \in Times(Scaled(N, m))
                      /\ H[x] = F[x] - G[x]
  PROVE  Mean(H) = Mean(F) - Mean(G)
<1>1. PICK q \in Int : N = Cardinality(S) * q
  BY DEF Splits
<1>2. PICK n : n = Cardinality(S)
  OBVIOUS
<1>3. n \in Nat \ {0}
  BY <1>2, FS_CardinalityType, FS_EmptySet
<1>4. Mean(F) \in Int /\ SumFunction(F) = n * Mean(F)
  BY <1>1, <1>2, MeanExact
<1>5. Mean(G) \in Int /\ SumFunction(G) = n * Mean(G)
  BY <1>1, <1>2, MeanExact
<1>6. \A x \in S : F[x] \in Int /\ G[x] \in Int
  <2>1. Scaled(N, m) \in Int
    BY DEF Scaled
  <2> QED BY <2>1, TimesSum
<1>7. SumFunction(H) = SumFunction(F) - SumFunction(G)
  BY <1>6, SumSubtract
<1>8. PICK f, g : f = Mean(F) /\ g = Mean(G)
  OBVIOUS
<1>9. SumFunction(H) = n * (f - g)
  <2>1. \A k, x, y \in Int : k * x - k * y = k * (x - y)
    OBVIOUS
  <2>2. SumFunction(H) = n * f - n * g
    BY <1>4, <1>5, <1>7, <1>8
  <2> QED BY <1>3, <1>4, <1>5, <1>8, <2>1, <2>2
<1>10. f - g \in Int
  BY <1>4, <1>5, <1>8
<1>11. (n * (f - g)) \div n = f - g
  BY <1>3, <1>10, DivExact
<1>12. Mean(H) = f - g
  BY <1>2, <1>9, <1>11 DEF Mean
<1> QED BY <1>8, <1>12

\* A product of numbers that are not zero can be divided out.
LEMMA Cancel ==
  ASSUME NEW n \in Nat \ {0}, NEW k \in Nat \ {0}, NEW x \in Int, NEW y \in Int,
         n * (k * x) = k * (n * y)
  PROVE  x = y
<1>1. PICK j : j = n * k
  OBVIOUS
<1>2. j \in Nat \ {0}
  BY <1>1
<1>3. j * x = j * y
  BY <1>1
<1>4. \A z \in Int : j * z = 0 => z = 0
  BY <1>2
<1>5. j * (x - y) = 0
  BY <1>2, <1>3
<1> QED BY <1>4, <1>5

\* A table of multiples.
Entries(F, A, B, m) == \A a \in A, b \in B : F[a][b] \in Times(m)

\* The means of its rows and of its columns.
RowMeans(F, A, B)    == [a \in A |-> Mean([b \in B |-> F[a][b]])]
ColumnMeans(F, A, B) == [b \in B |-> Mean([a \in A |-> F[a][b]])]

\* The order of means does not matter where they are exact.
LEMMA MeanSwap ==
  ASSUME NEW A, IsFiniteSet(A), A # {}, NEW B, IsFiniteSet(B), B # {},
         NEW N \in Nat \ {0}, Splits(N, A), Splits(N, B), NEW m \in Int, NEW F,
         Entries(F, A, B, Scaled(N, Scaled(N, m)))
  PROVE  /\ \A a \in A : RowMeans(F, A, B)[a] \in Times(Scaled(N, m))
         /\ Mean(RowMeans(F, A, B)) = Mean(ColumnMeans(F, A, B))
<1> DEFINE Across(a) == [b \in B |-> F[a][b]]
           Down(b) == [a \in A |-> F[a][b]]
           RowSums == [a \in A |-> SumFunction(Across(a))]
           ColumnSums == [b \in B |-> SumFunction(Down(b))]
           ByRow == [a \in A |-> Mean(Across(a))]
           ByColumn == [b \in B |-> Mean(Down(b))]
<1>1. PICK p \in Int, q \in Int : N = Cardinality(A) * p /\ N = Cardinality(B) * q
  BY DEF Splits
<1>2. Cardinality(A) \in Nat \ {0} /\ Cardinality(B) \in Nat \ {0}
  BY FS_CardinalityType, FS_EmptySet
<1>3. PICK M \in Int : M = Scaled(N, m)
  BY DEF Scaled
<1>4. \A a \in A, b \in B : F[a][b] \in Times(Scaled(N, M))
  BY <1>3 DEF Entries
<1>5. \A a \in A, b \in B : F[a][b] \in Int
  <2>1. Scaled(N, M) \in Int
    BY DEF Scaled
  <2> QED BY <1>4, <2>1, TimesSum
<1>6. SumFunction(RowSums) = SumFunction(ColumnSums)
  BY <1>5, SumSwap
<1>7. ASSUME NEW a \in A
      PROVE  /\ Mean(Across(a)) \in Times(M) /\ Mean(Across(a)) \in Int
             /\ SumFunction(Across(a)) = Cardinality(B) * Mean(Across(a))
  <2>1. PICK R : R = Across(a)
    OBVIOUS
  <2>2. DOMAIN R = B /\ \A b \in DOMAIN R : R[b] \in Times(Scaled(N, M))
    BY <1>4, <2>1
  <2>3. /\ Mean(R) \in Times(M) /\ Mean(R) \in Int
        /\ SumFunction(R) = Cardinality(B) * Mean(R)
    BY <1>1, <2>2, MeanExact
  <2> HIDE DEF Across
  <2> QED BY <2>1, <2>3
<1>8. ASSUME NEW b \in B
      PROVE  /\ Mean(Down(b)) \in Times(M) /\ Mean(Down(b)) \in Int
             /\ SumFunction(Down(b)) = Cardinality(A) * Mean(Down(b))
  <2>1. PICK C : C = Down(b)
    OBVIOUS
  <2>2. DOMAIN C = A /\ \A a \in DOMAIN C : C[a] \in Times(Scaled(N, M))
    BY <1>4, <2>1
  <2>3. /\ Mean(C) \in Times(M) /\ Mean(C) \in Int
        /\ SumFunction(C) = Cardinality(A) * Mean(C)
    BY <1>1, <2>2, MeanExact
  <2> HIDE DEF Down
  <2> QED BY <2>1, <2>3
<1>9. \A a \in A : Mean(Across(a)) \in Times(Scaled(N, m))
  <2> HIDE DEF Across
  <2> QED BY <1>3, <1>7
<1>10. \A b \in B : Mean(Down(b)) \in Times(Scaled(N, m))
  <2> HIDE DEF Down
  <2> QED BY <1>3, <1>8
<1>11. /\ DOMAIN ByRow = A /\ DOMAIN RowSums = A
       /\ \A a \in A : ByRow[a] = Mean(Across(a)) /\ RowSums[a] = SumFunction(Across(a))
  <2> HIDE DEF Across
  <2> QED OBVIOUS
<1>12. /\ DOMAIN ByColumn = B /\ DOMAIN ColumnSums = B
       /\ \A b \in B : /\ ByColumn[b] = Mean(Down(b))
                       /\ ColumnSums[b] = SumFunction(Down(b))
  <2> HIDE DEF Down
  <2> QED OBVIOUS
<1> HIDE DEF Across, Down, RowSums, ByRow, ColumnSums, ByColumn
<1>13. /\ Mean(ByRow) \in Int
       /\ SumFunction(ByRow) = Cardinality(A) * Mean(ByRow)
  <2>1. \A a \in DOMAIN ByRow : ByRow[a] \in Times(Scaled(N, m))
    BY <1>9, <1>11
  <2> QED BY <1>1, <1>11, <2>1, MeanExact
<1>14. /\ Mean(ByColumn) \in Int
       /\ SumFunction(ByColumn) = Cardinality(B) * Mean(ByColumn)
  <2>1. \A b \in DOMAIN ByColumn : ByColumn[b] \in Times(Scaled(N, m))
    BY <1>10, <1>12
  <2> QED BY <1>1, <1>12, <2>1, MeanExact
<1>15. SumFunction(RowSums) = Cardinality(B) * SumFunction(ByRow)
  <2>1. \A a \in A : ByRow[a] \in Int /\ RowSums[a] = Cardinality(B) * ByRow[a]
    BY <1>7, <1>11
  <2> QED BY <1>11, <2>1, SumScale
<1>16. SumFunction(ColumnSums) = Cardinality(A) * SumFunction(ByColumn)
  <2>1. \A b \in B : /\ ByColumn[b] \in Int
                     /\ ColumnSums[b] = Cardinality(A) * ByColumn[b]
    BY <1>8, <1>12
  <2> QED BY <1>12, <2>1, SumScale
<1>17. Mean(ByRow) = Mean(ByColumn)
  <2>1. PICK k, n, x, y : /\ k = Cardinality(A) /\ n = Cardinality(B)
                          /\ x = Mean(ByRow) /\ y = Mean(ByColumn)
    OBVIOUS
  <2>2. n * (k * x) = k * (n * y)
    BY <1>6, <1>13, <1>14, <1>15, <1>16, <2>1
  <2>3. k \in Nat \ {0} /\ n \in Nat \ {0} /\ x \in Int /\ y \in Int
    BY <1>2, <1>13, <1>14, <2>1
  <2>4. x = y
    BY <2>2, <2>3, Cancel
  <2> QED BY <2>1, <2>4
<1>18. ByRow = RowMeans(F, A, B) /\ ByColumn = ColumnMeans(F, A, B)
  BY DEF ByRow, ByColumn, Across, Down, RowMeans, ColumnMeans
<1> QED BY <1>9, <1>11, <1>17, <1>18

-----------------------------------------------------------------------------
(* Rates.                                                                   *)

AxisNames == {"availability", "fidelity", "temporal", "context"}

\* The axes are few.
LEMMA AxesFinite ==
  ASSUME NEW operators PROVE IsFiniteSet(Axes(operators))
<1>1. \A o : Axis(o) \in AxisNames
  BY DEF Axis, AxisNames
<1>2. Axes(operators) \in SUBSET AxisNames
  BY <1>1 DEF Axes
<1>3. IsFiniteSet(AxisNames)
  <2>1. \A S, x : IsFiniteSet(S) => IsFiniteSet(S \cup {x})
    BY FS_AddElement
  <2>2. IsFiniteSet({"availability"})
    BY FS_Singleton
  <2>3. IsFiniteSet({"availability"} \cup {"fidelity"} \cup {"temporal"} \cup {"context"})
    BY <2>1, <2>2, Zenon
  <2>4. AxisNames = {"availability"} \cup {"fidelity"} \cup {"temporal"} \cup {"context"}
    BY DEF AxisNames
  <2> QED BY <2>3, <2>4, Zenon
<1> QED BY <1>2, <1>3, FS_Subset

\* The image of a finite set under a function.
LEMMA ImageFinite ==
  ASSUME NEW f, IsFiniteSet(DOMAIN f), NEW T, T = {f[x] : x \in DOMAIN f}
  PROVE  IsFiniteSet(T) /\ Cardinality(T) =< Cardinality(DOMAIN f)
<1>1. [x \in DOMAIN f |-> f[x]] \in Surjection(DOMAIN f, T)
  BY DEF Surjection
<1> QED BY <1>1, FS_Surjection

\* A rate is one.
LEMMA RateIsRate == ASSUME NEW record PROVE IsRate(Rate(record))
BY MatrixReportAssumption DEF IsRate, Rate

\* The mean of rates is no less than the least of them.
LEMMA MeanAtLeast ==
  ASSUME NEW F, IsFiniteSet(DOMAIN F), DOMAIN F # {}, NEW least \in Nat,
         \A x \in DOMAIN F : F[x] \in least .. Unit
  PROVE  Mean(F) \in least .. Unit
<1>1. Unit \in Nat
  BY MatrixReportAssumption
<1> QED BY <1>1, MeanBounded

\* The mean of rates is one.
LEMMA MeanIsRate ==
  ASSUME NEW F, IsFiniteSet(DOMAIN F), DOMAIN F # {}, \A x \in DOMAIN F : IsRate(F[x])
  PROVE  IsRate(Mean(F))
BY MeanAtLeast DEF IsRate

\* Rates of scored cells, averaged within operators and these within axes.
OperatorMean(rate, scored, o) ==
  Mean([cell \in {c \in scored : c.fault.operator = o} |-> rate[cell]])

AxisMean(rate, scored, a) ==
  LET operators == {cell.fault.operator : cell \in scored}
  IN Mean([o \in {x \in operators : Axis(x) = a} |-> OperatorMean(rate, scored, o)])

\* The operators of finitely many cells.
LEMMA OperatorsOf ==
  ASSUME NEW scored, IsFiniteSet(scored)
  PROVE  IsFiniteSet({cell.fault.operator : cell \in scored})
<1> DEFINE f == [cell \in scored |-> cell.fault.operator]
<1>1. DOMAIN f = scored /\ {cell.fault.operator : cell \in scored} = {f[x] : x \in DOMAIN f}
  OBVIOUS
<1> HIDE DEF f
<1> QED BY <1>1, ImageFinite

\* The means over operators and axes that have a scored cell are rates, and no less
\* than the least of them.
LEMMA AxisMeanAtLeast ==
  ASSUME NEW scored, IsFiniteSet(scored), NEW rate, NEW least \in Nat,
         \A cell \in scored : rate[cell] \in least .. Unit,
         NEW a \in Axes({cell.fault.operator : cell \in scored})
  PROVE  AxisMean(rate, scored, a) \in least .. Unit
<1> DEFINE operators == {cell.fault.operator : cell \in scored}
           mine == {x \in operators : Axis(x) = a}
           G == [o \in mine |-> OperatorMean(rate, scored, o)]
<1>1. ASSUME NEW o \in operators PROVE OperatorMean(rate, scored, o) \in least .. Unit
  <2> DEFINE D == {c \in scored : c.fault.operator = o}
             F == [cell \in D |-> rate[cell]]
  <2>1. IsFiniteSet(D)
    BY FS_Subset
  <2>2. D # {} /\ DOMAIN F = D
    OBVIOUS
  <2>3. \A x \in DOMAIN F : F[x] \in least .. Unit
    OBVIOUS
  <2>4. OperatorMean(rate, scored, o) = Mean(F)
    BY DEF OperatorMean
  <2> HIDE DEF F, D
  <2> QED BY <2>1, <2>2, <2>3, <2>4, MeanAtLeast
<1>2. IsFiniteSet(mine)
  <2>1. IsFiniteSet(operators)
    BY OperatorsOf
  <2> HIDE DEF operators
  <2> QED BY <2>1, FS_Subset
<1>3. mine # {}
  BY DEF Axes
<1>4. DOMAIN G = mine /\ \A o \in DOMAIN G : G[o] \in least .. Unit
  BY <1>1
<1>5. AxisMean(rate, scored, a) = Mean(G)
  BY DEF AxisMean
<1> HIDE DEF G, mine
<1> QED BY <1>2, <1>3, <1>4, <1>5, MeanAtLeast

\* The only value of an optional value that is there.
LEMMA TheIs == ASSUME NEW value PROVE The({value}) = value
BY DEF The

-----------------------------------------------------------------------------
(* What can be reported.                                                    *)

\* Finitely many pairs and cells, one faulted cell for an operator and a severity,
\* and a reporting spec.
Reportable(pairs, rs) ==
  /\ IsFiniteSet(cells) /\ IsFiniteSet(pairs) /\ pairs # {}
  /\ CleanCell \in cells /\ NoTouchCell \in cells
  /\ \A a, b \in FaultedCells :
       a.fault.operator = b.fault.operator /\ a.fault.level = b.fault.level => a = b
  /\ IsFiniteSet(rs.operators) /\ IsFiniteSet(rs.levels)

\* The rates of the axes that scored cells have.
AxisRates(rate, scored) ==
  [a \in Axes({cell.fault.operator : cell \in scored}) |-> AxisMean(rate, scored, a)]

\* The scored primary cells of a pair, and their rates.
Scored(out, pair, rs) == {cell \in Primary(rs) : out[<<pair, cell>>].eligible}
RatesOf(out, pair, scored) == [cell \in scored |-> Rate(out[<<pair, cell>>])]

\* The score of a pair and the axis rates of a task, as means over axes, operators and
\* severities of a rate for each scored cell.
LEMMA PairScoreForm ==
  ASSUME NEW out, NEW pair, NEW rs, NEW scored, NEW rate, scored # {},
         scored = Scored(out, pair, rs), rate = RatesOf(out, pair, scored)
  PROVE  PairScore(out, pair, rs) = {Mean(AxisRates(rate, scored))}
<1>0. /\ scored = {cell \in Primary(rs) : out[<<pair, cell>>].eligible}
      /\ rate = [cell \in scored |-> Rate(out[<<pair, cell>>])]
  BY DEF Scored, RatesOf
<1> DEFINE operators == {cell.fault.operator : cell \in scored}
<1>1. \A o : OperatorMean(rate, scored, o)
               = Mean([cell \in {c \in scored : c.fault.operator = o} |->
                         Rate(out[<<pair, cell>>])])
  <2> TAKE o
  <2>1. [cell \in {c \in scored : c.fault.operator = o} |-> rate[cell]]
          = [cell \in {c \in scored : c.fault.operator = o} |-> Rate(out[<<pair, cell>>])]
    BY <1>0
  <2> QED BY <2>1 DEF OperatorMean
<1>2. \A a : AxisMean(rate, scored, a)
               = Mean([o \in {x \in operators : Axis(x) = a} |->
                         Mean([cell \in {c \in scored : c.fault.operator = o} |->
                                 Rate(out[<<pair, cell>>])])])
  <2> TAKE a
  <2>1. [o \in {x \in operators : Axis(x) = a} |-> OperatorMean(rate, scored, o)]
          = [o \in {x \in operators : Axis(x) = a} |->
                         Mean([cell \in {c \in scored : c.fault.operator = o} |->
                                 Rate(out[<<pair, cell>>])])]
    BY <1>1
  <2> QED BY <2>1 DEF AxisMean
<1>3. [a \in Axes(operators) |-> AxisMean(rate, scored, a)]
        = [a \in Axes(operators) |->
             Mean([o \in {x \in operators : Axis(x) = a} |->
                         Mean([cell \in {c \in scored : c.fault.operator = o} |->
                                 Rate(out[<<pair, cell>>])])])]
  BY <1>2
<1> QED BY <1>0, <1>3 DEF PairScore, AxisRates

\* The cells of a task that some pair of it scored, and the rate of each over those pairs.
ScoredBy(out, pairs, rs) == {cell \in Primary(rs) : Paired(out, pairs, cell) # {}}
RatesBy(out, pairs, scored) ==
  [cell \in scored |-> Mean([p \in Paired(out, pairs, cell) |-> Rate(out[<<p, cell>>])])]

\* The same of a task.
LEMMA AxisForm ==
  ASSUME NEW out, NEW pairs, NEW rs
  PROVE  TaskSummary(out, pairs, rs).axis
           = AxisRates(RatesBy(out, pairs, ScoredBy(out, pairs, rs)), ScoredBy(out, pairs, rs))
<1> DEFINE scored == {cell \in Primary(rs) : Paired(out, pairs, cell) # {}}
           rate == [cell \in scored |->
                      Mean([p \in Paired(out, pairs, cell) |-> Rate(out[<<p, cell>>])])]
           operators == {cell.fault.operator : cell \in scored}
<1>1. \A o : OperatorMean(rate, scored, o)
               = Mean([cell \in {c \in scored : c.fault.operator = o} |->
                         Mean([p \in Paired(out, pairs, cell) |-> Rate(out[<<p, cell>>])])])
  <2> TAKE o
  <2>1. [cell \in {c \in scored : c.fault.operator = o} |-> rate[cell]]
          = [cell \in {c \in scored : c.fault.operator = o} |->
               Mean([p \in Paired(out, pairs, cell) |-> Rate(out[<<p, cell>>])])]
    OBVIOUS
  <2> QED BY <2>1 DEF OperatorMean
<1>2. \A a : AxisMean(rate, scored, a)
               = Mean([o \in {x \in operators : Axis(x) = a} |->
                   Mean([cell \in {c \in scored : c.fault.operator = o} |->
                         Mean([p \in Paired(out, pairs, cell) |-> Rate(out[<<p, cell>>])])])])
  <2> TAKE a
  <2>1. [o \in {x \in operators : Axis(x) = a} |-> OperatorMean(rate, scored, o)]
          = [o \in {x \in operators : Axis(x) = a} |->
               Mean([cell \in {c \in scored : c.fault.operator = o} |->
                         Mean([p \in Paired(out, pairs, cell) |-> Rate(out[<<p, cell>>])])])]
    BY <1>1
  <2> QED BY <2>1 DEF AxisMean
<1>3. [a \in Axes(operators) |-> AxisMean(rate, scored, a)]
        = [a \in Axes(operators) |->
             Mean([o \in {x \in operators : Axis(x) = a} |->
                   Mean([cell \in {c \in scored : c.fault.operator = o} |->
                         Mean([p \in Paired(out, pairs, cell) |->
                                 Rate(out[<<p, cell>>])])])])]
  BY <1>2
<1>4. TaskSummary(out, pairs, rs).axis = AxisRates(rate, scored)
  BY <1>3 DEF TaskSummary, AxisRates
<1> QED BY <1>4 DEF ScoredBy, RatesBy

\* The score of a pair is a rate, if a primary fault of it was scored, and no less
\* than the least rate of one.
LEMMA PairScoreIs ==
  ASSUME NEW out, NEW pairs, NEW rs, Reportable(pairs, rs), NEW pair \in pairs,
         \E cell \in Primary(rs) : out[<<pair, cell>>].eligible,
         NEW least \in Nat,
         \A cell \in Primary(rs) :
           out[<<pair, cell>>].eligible => Rate(out[<<pair, cell>>]) \in least .. Unit
  PROVE  The(PairScore(out, pair, rs)) \in least .. Unit
<1> DEFINE scored == {cell \in Primary(rs) : out[<<pair, cell>>].eligible}
           operators == {cell.fault.operator : cell \in scored}
           rate == [cell \in scored |-> Rate(out[<<pair, cell>>])]
           F == [a \in Axes(operators) |-> AxisMean(rate, scored, a)]
<1>1. scored # {} /\ IsFiniteSet(scored)
  <2>1. scored \subseteq cells
    BY DEF Primary, FaultedCells
  <2> QED BY <2>1, FS_Subset DEF Reportable
<1>2. \A cell \in scored : rate[cell] \in least .. Unit
  OBVIOUS
<1>3. PairScore(out, pair, rs) = {Mean(F)}
  <2>1. scored = Scored(out, pair, rs) /\ rate = RatesOf(out, pair, scored)
    BY DEF Scored, RatesOf
  <2>2. F = AxisRates(rate, scored)
    BY DEF AxisRates
  <2> HIDE DEF F, rate, scored
  <2> QED BY <1>1, <2>1, <2>2, PairScoreForm
<1>4. Axes(operators) # {}
  BY <1>1 DEF Axes
<1>5. \A a \in Axes(operators) : AxisMean(rate, scored, a) \in least .. Unit
  <2> HIDE DEF rate, scored
  <2> QED BY <1>1, <1>2, AxisMeanAtLeast DEF operators
<1>6. IsFiniteSet(Axes(operators))
  BY AxesFinite
<1>7. Mean(F) \in least .. Unit
  <2>1. DOMAIN F = Axes(operators) /\ \A a \in DOMAIN F : F[a] \in least .. Unit
    BY <1>5
  <2> HIDE DEF F, operators
  <2> QED BY <1>4, <1>6, <2>1, MeanAtLeast
<1> HIDE DEF F
<1> QED BY <1>3, <1>7, TheIs

\* A subset of a finite set of cells or pairs is finite, and so is its number.
LEMMA Finite ==
  ASSUME NEW S, IsFiniteSet(S), NEW T, T \subseteq S
  PROVE  /\ IsFiniteSet(T) /\ Cardinality(T) \in Nat /\ Cardinality(S) \in Nat
         /\ Cardinality(T) =< Cardinality(S)
BY FS_Subset, FS_CardinalityType

\* Of an operator's cell: who was eligible, and rates where somebody was.
LEMMA OperatorCellIs ==
  ASSUME NEW out, NEW pairs, NEW rs, Reportable(pairs, rs), NEW cell,
         NEW c, c = OperatorCell(out, pairs, cell)
  PROVE  /\ c.eligible =< c.requested
         /\ \A value \in c.rate : IsRate(value)
         /\ (c.rate = {}) = (c.p = {})
         /\ c.rate = {} => c.touch = {}
         /\ c.rate # {} <=> Paired(out, pairs, cell) # {}
         /\ c.rate # {} => \E value : c.rate = {value} /\ IsRate(value)
         /\ c.p # {} => \E value : c.p = {value} /\ IsRate(value)
<1> DEFINE paired == Paired(out, pairs, cell)
           F == [p \in paired |-> Rate(out[<<p, cell>>])]
<1>1. /\ c.requested = Cardinality(pairs) /\ c.eligible = Cardinality(paired)
      /\ c.rate = IF paired = {} THEN {} ELSE {Mean(F)}
      /\ paired = {} => c.touch = {}
      /\ c.p = IF paired = {} THEN {} ELSE {McNemar(out, paired, cell)}
  BY DEF OperatorCell
<1>2. IsFiniteSet(paired) /\ Cardinality(paired) =< Cardinality(pairs)
  <2>1. paired \subseteq pairs
    BY DEF Paired
  <2> HIDE DEF paired
  <2> QED BY <2>1, Finite DEF Reportable
<1>3. DOMAIN F = paired /\ \A p \in DOMAIN F : IsRate(F[p])
  BY RateIsRate
<1>4. paired # {} => IsRate(Mean(F))
  <2> HIDE DEF F, paired
  <2> QED BY <1>2, <1>3, MeanIsRate
<1>5. IsRate(McNemar(out, paired, cell))
  BY MatrixReportAssumption DEF McNemar, IsRate
<1> HIDE DEF F, paired
<1> QED BY <1>1, <1>2, <1>4, <1>5 DEF paired

\* A mean of optional rates is an optional rate.
LEMMA MeanIfAllIs ==
  ASSUME NEW F, IsFiniteSet(DOMAIN F), DOMAIN F # {},
         \A x \in DOMAIN F : F[x] # {} => \E value : F[x] = {value} /\ IsRate(value),
         NEW mean \in MeanIfAll(F)
  PROVE  IsRate(mean) /\ MeanIfAll(F) = {mean}
<1> DEFINE G == [x \in DOMAIN F |-> The(F[x])]
<1>1. (\A x \in DOMAIN F : F[x] # {}) /\ MeanIfAll(F) = {Mean(G)}
  BY DEF MeanIfAll
<1>2. \A x \in DOMAIN F : IsRate(The(F[x]))
  <2> TAKE x \in DOMAIN F
  <2>1. PICK value : F[x] = {value} /\ IsRate(value)
    BY <1>1
  <2> QED BY <2>1, TheIs
<1>3. DOMAIN G = DOMAIN F /\ \A x \in DOMAIN G : IsRate(G[x])
  BY <1>2
<1> HIDE DEF G
<1>4. IsRate(Mean(G))
  BY <1>3, MeanIsRate
<1> QED BY <1>1, <1>4

\* No scored primary fault of the pairs has a rate below this.
LeastRate(out, pairs, rs, least) ==
  \A pair \in Scoreable(out, pairs, rs), cell \in Primary(rs) :
    out[<<pair, cell>>].eligible => Rate(out[<<pair, cell>>]) \in least .. Unit

\* Of a task with a scoreable pair: the rates of its summary, and that its fault rate
\* is no less than the least rate of a scored primary fault.
LEMMA TaskSummaryIs ==
  ASSUME NEW out, NEW pairs, NEW rs, Reportable(pairs, rs),
         Scoreable(out, pairs, rs) # {},
         NEW t, t = TaskSummary(out, pairs, rs)
  PROVE  /\ t.pairs > 0 /\ IsRate(t.clean) /\ IsRate(t.fault)
         /\ \A a \in DOMAIN t.axis : IsRate(t.axis[a])
         /\ t.touch # {} => \E value : t.touch = {value} /\ IsRate(value)
         /\ \A least \in Nat : LeastRate(out, pairs, rs, least) => t.fault >= least
<1> DEFINE scoreable == Scoreable(out, pairs, rs)
           clean == [p \in scoreable |-> Rate(Clean(out, p))]
           score == [p \in scoreable |-> The(PairScore(out, p, rs))]
           touch == [p \in scoreable |-> NoTouchRate(out, p)]
           scored == {cell \in Primary(rs) : Paired(out, pairs, cell) # {}}
           operators == {cell.fault.operator : cell \in scored}
           rate == [cell \in scored |->
                      Mean([p \in Paired(out, pairs, cell) |-> Rate(out[<<p, cell>>])])]
<1>1. /\ t.pairs = Cardinality(scoreable) /\ t.clean = Mean(clean) /\ t.fault = Mean(score)
      /\ t.touch = MeanIfAll(touch)
  BY DEF TaskSummary
<1>2. IsFiniteSet(scoreable) /\ scoreable # {}
  BY Finite DEF Scoreable, Reportable
<1>3. Cardinality(scoreable) > 0
  BY <1>2, FS_CardinalityType, FS_EmptySet
<1>4. IsRate(Mean(clean))
  <2>1. DOMAIN clean = scoreable /\ \A p \in DOMAIN clean : IsRate(clean[p])
    BY RateIsRate
  <2> HIDE DEF clean, scoreable
  <2> QED BY <1>2, <2>1, MeanIsRate
<1>5. ASSUME NEW least \in Nat, LeastRate(out, pairs, rs, least)
      PROVE  Mean(score) \in least .. Unit
  <2>1. \A p \in scoreable : The(PairScore(out, p, rs)) \in least .. Unit
    <3> TAKE p \in scoreable
    <3>1. p \in pairs /\ \E cell \in Primary(rs) : out[<<p, cell>>].eligible
      BY DEF Scoreable
    <3>2. \A cell \in Primary(rs) :
            out[<<p, cell>>].eligible => Rate(out[<<p, cell>>]) \in least .. Unit
      BY <1>5 DEF LeastRate
    <3> QED BY <3>1, <3>2, PairScoreIs
  <2>2. DOMAIN score = scoreable /\ \A p \in DOMAIN score : score[p] \in least .. Unit
    BY <2>1
  <2> HIDE DEF score, scoreable
  <2> QED BY <1>2, <2>2, MeanAtLeast
<1>6. IsRate(Mean(score))
  <2>1. LeastRate(out, pairs, rs, 0)
    BY RateIsRate DEF LeastRate, IsRate
  <2> HIDE DEF score
  <2> QED BY <1>5, <2>1 DEF IsRate
<1>7. \A least \in Nat : LeastRate(out, pairs, rs, least) => t.fault >= least
  <2> TAKE least \in Nat
  <2> HAVE LeastRate(out, pairs, rs, least)
  <2>1. Mean(score) \in least .. Unit
    BY <1>5
  <2> HIDE DEF score
  <2> QED BY <1>1, <2>1
<1>8. t.touch # {} => \E value : t.touch = {value} /\ IsRate(value)
  <2>1. \A p \in scoreable : NoTouchRate(out, p) # {} =>
          \E value : NoTouchRate(out, p) = {value} /\ IsRate(value)
    BY RateIsRate DEF NoTouchRate
  <2>2. DOMAIN touch = scoreable
        /\ \A p \in DOMAIN touch : touch[p] # {} =>
             \E value : touch[p] = {value} /\ IsRate(value)
    BY <2>1
  <2> HIDE DEF touch, scoreable
  <2>3. \A mean \in MeanIfAll(touch) : IsRate(mean) /\ MeanIfAll(touch) = {mean}
    BY <1>2, <2>2, MeanIfAllIs
  <2> QED BY <1>1, <2>3
<1>9. \A a \in DOMAIN t.axis : IsRate(t.axis[a])
  <2>1. IsFiniteSet(scored)
    <3>1. scored \subseteq cells
      BY DEF Primary, FaultedCells
    <3> QED BY <3>1, FS_Subset DEF Reportable
  <2>2. \A cell \in scored : rate[cell] \in 0 .. Unit
    <3> TAKE cell \in scored
    <3> DEFINE F == [p \in Paired(out, pairs, cell) |-> Rate(out[<<p, cell>>])]
    <3>1. IsFiniteSet(Paired(out, pairs, cell)) /\ Paired(out, pairs, cell) # {}
      BY Finite DEF Paired, Reportable
    <3>2. DOMAIN F = Paired(out, pairs, cell) /\ \A p \in DOMAIN F : IsRate(F[p])
      BY RateIsRate
    <3>3. rate[cell] = Mean(F)
      OBVIOUS
    <3> HIDE DEF F, rate
    <3>4. IsRate(rate[cell])
      BY <3>1, <3>2, <3>3, MeanIsRate
    <3> QED BY <3>4 DEF IsRate
  <2>3. t.axis = [a \in Axes(operators) |-> AxisMean(rate, scored, a)]
    <3>1. scored = ScoredBy(out, pairs, rs) /\ rate = RatesBy(out, pairs, scored)
      BY DEF ScoredBy, RatesBy
    <3> HIDE DEF rate, scored
    <3>2. t.axis = AxisRates(rate, scored)
      BY <3>1, AxisForm, Zenon
    <3> QED BY <3>2 DEF AxisRates
  <2> HIDE DEF rate, scored
  <2>4. \A a \in Axes(operators) : AxisMean(rate, scored, a) \in 0 .. Unit
    BY <2>1, <2>2, AxisMeanAtLeast DEF operators
  <2> QED BY <2>3, <2>4 DEF IsRate
<1> QED BY <1>1, <1>3, <1>4, <1>6, <1>7, <1>8, <1>9

\* A set of numbers up to b has a greatest element.
LEMMA MaxAmong ==
  ASSUME NEW b \in Nat, NEW S, S \subseteq 0 .. b, S # {}
  PROVE  Max(S) \in S /\ \A x \in S : x =< Max(S)
<1> DEFINE B == {b - x : x \in S}
<1>1. B \subseteq Nat /\ B # {}
  OBVIOUS
<1>2. PICK m \in B : \A n \in B : m =< n
  <2> HIDE DEF B
  <2> QED BY <1>1, LeastElement
<1>3. PICK a \in S : m = b - a
  OBVIOUS
<1>4. \A x \in S : a >= x
  <2> TAKE x \in S
  <2>1. b - a =< b - x
    BY <1>2, <1>3
  <2>2. a \in 0 .. b /\ x \in 0 .. b
    BY <1>3
  <2> QED BY <2>1, <2>2
<1> HIDE DEF B
<1>5. S \subseteq Int
  OBVIOUS
<1> QED BY <1>3, <1>4, <1>5, MaxIs

\* Holm's adjustment of rates gives rates: no smaller ones, and in the same order.
LEMMA HolmIs ==
  ASSUME NEW table, IsFiniteSet(DOMAIN table),
         \A c \in DOMAIN table : table[c].p # {} =>
           \E value : table[c].p = {value} /\ IsRate(value)
  PROVE  /\ \A c \in DOMAIN Holm(table) : IsRate(Holm(table)[c])
         /\ \A a, b \in DOMAIN Holm(table) :
              /\ The(table[a].p) =< Holm(table)[a]
              /\ The(table[a].p) =< The(table[b].p) => Holm(table)[a] =< Holm(table)[b]
<1> DEFINE tested == {cell \in DOMAIN table : table[cell].p # {}}
           P(cell) == The(table[cell].p)
           n(cell) == Cardinality({c \in tested : P(cell) =< P(c)})
           Raised(cell) == Min({Unit, n(cell) * P(cell)})
<1>0. Unit \in Nat
  BY MatrixReportAssumption
<1>1. \A c \in tested : P(c) \in 0 .. Unit
  <2> TAKE c \in tested
  <2>1. PICK value : table[c].p = {value} /\ IsRate(value)
    OBVIOUS
  <2>2. The(table[c].p) = value
    BY <2>1, TheIs, Zenon
  <2> QED BY <2>1, <2>2 DEF IsRate
<1>2. \A c \in tested : n(c) \in Nat /\ n(c) >= 1
  <2> TAKE c \in tested
  <2>1. {x \in tested : P(c) =< P(x)} \subseteq DOMAIN table
    OBVIOUS
  <2>2. c \in {x \in tested : P(c) =< P(x)}
    <3>1. P(c) =< P(c)
      <4> HIDE DEF P, tested
      <4> QED BY <1>0, <1>1
    <3> QED BY <3>1
  <2> DEFINE S == {x \in tested : P(c) =< P(x)}
  <2> HIDE DEF tested, P
  <2>3. IsFiniteSet(S) /\ c \in S
    BY <2>1, <2>2, Finite
  <2> HIDE DEF S
  <2>4. Cardinality(S) \in Nat /\ Cardinality(S) # 0
    BY <2>3, FS_CardinalityType, FS_EmptySet
  <2> QED BY <2>4 DEF S
<1>3. \A c \in tested : Raised(c) \in P(c) .. Unit
  <2> TAKE c \in tested
  <2>1. PICK q : q = n(c) * P(c)
    OBVIOUS
  <2>2. q \in Nat /\ q >= P(c)
    <3>1. PICK k, p : k = n(c) /\ p = P(c)
      OBVIOUS
    <3> HIDE DEF n, P, tested
    <3>2. k \in Nat /\ k >= 1 /\ p \in Nat
      BY <1>0, <1>1, <1>2, <3>1
    <3>3. k * p = (k - 1) * p + p /\ (k - 1) * p \in Nat /\ k * p \in Nat
      BY <3>2
    <3> QED BY <2>1, <3>1, <3>2, <3>3
  <2>3. Raised(c) = Min({Unit, q})
    BY <2>1
  <2> HIDE DEF Raised, n, P, tested
  <2> QED BY <1>0, <1>1, <2>2, <2>3, MinOfTwo
<1> DEFINE S(c) == {Raised(x) : x \in {y \in tested : P(y) =< P(c)}}
<1>4. \A c \in tested : /\ Max(S(c)) \in S(c) /\ S(c) \subseteq 0 .. Unit
                       /\ \A r \in S(c) : r =< Max(S(c))
  <2> TAKE c \in tested
  <2>1. P(c) =< P(c)
    <3> HIDE DEF P, tested
    <3> QED BY <1>0, <1>1
  <2>2. S(c) # {} /\ S(c) \subseteq 0 .. Unit
    <3>1. \A x \in tested : Raised(x) \in 0 .. Unit
      <4> HIDE DEF P, tested, Raised
      <4> QED BY <1>0, <1>1, <1>3
    <3> HIDE DEF P, tested, Raised, n
    <3> QED BY <2>1, <3>1
  <2> HIDE DEF S
  <2> QED BY <1>0, <2>2, MaxAmong
<1>5. Holm(table) = [cell \in tested |-> Max(S(cell))]
  BY DEF Holm
<1>6. \A c \in tested : P(c) =< Max(S(c))
  <2> TAKE c \in tested
  <2>1. P(c) =< P(c)
    <3> HIDE DEF P, tested
    <3> QED BY <1>0, <1>1
  <2>2. Raised(c) \in S(c)
    BY <2>1
  <2> HIDE DEF S, P, Raised, tested
  <2> QED BY <1>0, <1>1, <1>3, <1>4, <2>2
<1>7. \A a, b \in tested : P(a) =< P(b) => Max(S(a)) =< Max(S(b))
  <2> TAKE a, b \in tested
  <2> HAVE P(a) =< P(b)
  <2>1. S(a) \subseteq S(b)
    <3>1. \A x \in tested : P(x) =< P(a) => P(x) =< P(b)
      <4> HIDE DEF P, tested
      <4> QED BY <1>0, <1>1
    <3> HIDE DEF P, tested, Raised
    <3> QED BY <3>1
  <2> HIDE DEF S
  <2> QED BY <1>4, <2>1
<1> HIDE DEF tested, P, n, Raised, S
<1>8. DOMAIN Holm(table) = tested /\ \A c \in tested : Holm(table)[c] = Max(S(c))
  BY <1>5
<1>9. \A c \in tested : IsRate(Holm(table)[c])
  BY <1>4, <1>8 DEF IsRate
<1>10. \A a, b \in tested : /\ P(a) =< Holm(table)[a]
                            /\ P(a) =< P(b) => Holm(table)[a] =< Holm(table)[b]
  BY <1>6, <1>7, <1>8
<1> QED BY <1>8, <1>9, <1>10 DEF P

\* No more primary cells than operators times severities.
LEMMA PrimaryBounded ==
  ASSUME NEW pairs, NEW rs, Reportable(pairs, rs)
  PROVE  /\ IsFiniteSet(Primary(rs))
         /\ Cardinality(Primary(rs)) =< Cardinality(rs.operators) * Cardinality(rs.levels)
<1> DEFINE grid == rs.operators \X rs.levels
           f == [cell \in Primary(rs) |-> <<cell.fault.operator, cell.fault.level>>]
<1>1. IsFiniteSet(grid) /\ Cardinality(grid) = Cardinality(rs.operators) * Cardinality(rs.levels)
  BY FS_Product DEF Reportable
<1>2. f \in [Primary(rs) -> grid]
  BY DEF Primary
<1>3. \A a, b \in Primary(rs) : f[a] = f[b] => a = b
  <2> TAKE a, b \in Primary(rs)
  <2>1. HAVE f[a] = f[b]
  <2>2. a.fault.operator = b.fault.operator /\ a.fault.level = b.fault.level
    BY <2>1
  <2>3. a \in FaultedCells /\ b \in FaultedCells
    BY DEF Primary
  <2> QED BY <2>2, <2>3 DEF Reportable
<1> HIDE DEF f, grid
<1>4. f \in Injection(Primary(rs), grid)
  BY <1>2, <1>3 DEF Injection, IsInjective
<1> QED BY <1>1, <1>4, FS_Injection

\* The counts of the coverage add up and stay in order.
LEMMA CoverageIs ==
  ASSUME NEW out, NEW pairs, NEW rs, Reportable(pairs, rs), DOMAIN out = pairs \X cells,
         NEW c, c = Coverage(out, pairs, rs)
  PROVE  /\ c.eligible + c.ineligible = c.requested
         /\ c.scored =< c.observed /\ c.observed =< c.expected
<1> DEFINE observed == pairs \X Primary(rs)
           scored == {key \in observed : out[key].eligible /\ Clean(out, key[1]).eligible}
           keys == DOMAIN out
           eligible == {key \in keys : out[key].eligible}
<1>1. /\ c.eligible = Cardinality(eligible) /\ c.ineligible = Cardinality(keys \ eligible)
      /\ c.requested = Cardinality(keys)
      /\ c.scored = Cardinality(scored) /\ c.observed = Cardinality(observed)
      /\ c.expected
           = Cardinality(pairs) * Cardinality(rs.operators) * Cardinality(rs.levels)
  BY DEF Coverage
<1>2. IsFiniteSet(keys)
  BY FS_Product DEF Reportable
<1>3. c.eligible + c.ineligible = c.requested
  <2>1. eligible \subseteq keys /\ keys \cap eligible = eligible
    OBVIOUS
  <2> HIDE DEF eligible, keys
  <2>2. Cardinality(eligible) \in Nat /\ Cardinality(keys) \in Nat
    BY <1>2, <2>1, Finite
  <2>3. Cardinality(keys \ eligible) = Cardinality(keys) - Cardinality(eligible)
    BY <1>2, <2>1, FS_Difference
  <2> QED BY <1>1, <2>2, <2>3
<1>4. /\ IsFiniteSet(observed)
      /\ Cardinality(observed) = Cardinality(pairs) * Cardinality(Primary(rs))
  BY PrimaryBounded, FS_Product DEF Reportable
<1>5. c.scored =< c.observed
  <2>1. scored \subseteq observed
    OBVIOUS
  <2> HIDE DEF scored, observed
  <2> QED BY <1>1, <1>4, <2>1, Finite
<1>6. c.observed =< c.expected
  <2>1. PICK p, q, o, l : /\ p = Cardinality(pairs) /\ q = Cardinality(Primary(rs))
                          /\ o = Cardinality(rs.operators) /\ l = Cardinality(rs.levels)
    OBVIOUS
  <2>2. p \in Nat /\ q \in Nat /\ o \in Nat /\ l \in Nat /\ q =< o * l
    BY <2>1, PrimaryBounded, FS_CardinalityType DEF Reportable
  <2>3. PICK n \in Nat : n = o * l
    BY <2>2
  <2>4. p * q =< p * n
    BY <2>2, <2>3
  <2>5. p * n = p * o * l
    BY <2>2, <2>3
  <2> QED BY <1>1, <1>4, <2>1, <2>4, <2>5
<1> QED BY <1>3, <1>5, <1>6

\* Fewer recover than have a sidecar.
LEMMA RecoveryIs ==
  ASSUME NEW out, IsFiniteSet(DOMAIN out), NEW r, r = Recovery(out)
  PROVE  r.recovered =< r.eligible
<1> DEFINE eligible == {key \in DOMAIN out : out[key].recovery}
           recovered == {key \in eligible : out[key].lag # {}}
<1>1. r.eligible = Cardinality(eligible) /\ r.recovered = Cardinality(recovered)
  BY DEF Recovery
<1>2. IsFiniteSet(eligible) /\ recovered \subseteq eligible
  BY Finite
<1> HIDE DEF eligible, recovered
<1> QED BY <1>1, <1>2, Finite

\* The worst of the scored cells is one of them, and none is worse.
LEMMA WorstExists ==
  ASSUME NEW table, NEW scored, scored # {},
         \A c \in scored : \E value : table[c].rate = {value} /\ IsRate(value),
         NEW worst, worst = CHOOSE cell \in scored :
                      \A other \in scored : The(table[cell].rate) =< The(table[other].rate)
  PROVE  /\ worst \in scored
         /\ \A other \in scored : The(table[worst].rate) =< The(table[other].rate)
<1> DEFINE V == {The(table[c].rate) : c \in scored}
<1>1. \A c \in scored : The(table[c].rate) \in Nat
  <2> TAKE c \in scored
  <2>1. PICK value : table[c].rate = {value} /\ IsRate(value)
    OBVIOUS
  <2>2. The(table[c].rate) = value
    BY <2>1, TheIs, Zenon
  <2> QED BY <2>1, <2>2 DEF IsRate
<1>2. V \subseteq Nat /\ V # {}
  BY <1>1
<1>3. PICK m \in V : \A n \in V : m =< n
  <2> HIDE DEF V
  <2> QED BY <1>2, LeastElement
<1>4. \E cell \in scored : \A other \in scored :
        The(table[cell].rate) =< The(table[other].rate)
  BY <1>3
<1> QED BY <1>4

\* The pairs of a task, and the tasks.
LEMMA TasksFinite ==
  ASSUME NEW pairs, IsFiniteSet(pairs), pairs # {}
  PROVE  /\ IsFiniteSet(Tasks(pairs)) /\ Tasks(pairs) # {}
         /\ Cardinality(Tasks(pairs)) =< Cardinality(pairs)
         /\ \A t \in Tasks(pairs) : IsFiniteSet(PairsOf(t, pairs)) /\ PairsOf(t, pairs) # {}
<1> DEFINE f == [pair \in pairs |-> pair[1]]
<1>1. Tasks(pairs) = {f[x] : x \in DOMAIN f} /\ DOMAIN f = pairs
  BY DEF Tasks
<1> HIDE DEF f
<1>2. IsFiniteSet(Tasks(pairs)) /\ Cardinality(Tasks(pairs)) =< Cardinality(pairs)
  BY <1>1, ImageFinite
<1>3. \A t \in Tasks(pairs) : IsFiniteSet(PairsOf(t, pairs)) /\ PairsOf(t, pairs) # {}
  BY Finite DEF PairsOf, Tasks
<1> QED BY <1>2, <1>3 DEF Tasks

\* No summary that is computed dies in the constructors that check it.
LEMMA ComputedIsAccepted ==
  ASSUME NEW out, NEW pairs, NEW rs, Reportable(pairs, rs), DOMAIN out = pairs \X cells,
         Aggregates(out, pairs, rs)
  PROVE  SummaryAccepted(Aggregate(out, pairs, rs))
<1> DEFINE table == [cell \in FaultedCells |-> OperatorCell(out, pairs, cell)]
           tasks == [task \in Tasks(pairs) |-> TaskSummary(out, PairsOf(task, pairs), rs)]
           scored == {cell \in Primary(rs) : table[cell].rate # {}}
           clean == [t \in DOMAIN tasks |-> tasks[t].clean]
           fault == [t \in DOMAIN tasks |-> tasks[t].fault]
           touch == [t \in DOMAIN tasks |-> tasks[t].touch]
<1>1. PICK s : s = Aggregate(out, pairs, rs)
  OBVIOUS
<1>2. /\ s.tasks = tasks /\ s.cells = table /\ s.holm = Holm(table)
      /\ s.worst = CHOOSE cell \in scored :
                     \A other \in scored : The(table[cell].rate) =< The(table[other].rate)
      /\ s.recovery = Recovery(out) /\ s.coverage = Coverage(out, pairs, rs)
      /\ s.clean = Mean(clean) /\ s.fault = Mean(fault) /\ s.touch = MeanIfAll(touch)
  BY <1>1 DEF Aggregate
<1>3. /\ IsFiniteSet(cells) /\ IsFiniteSet(pairs) /\ pairs # {}
  BY DEF Reportable
<1>4. IsFiniteSet(FaultedCells)
  BY <1>3, Finite DEF FaultedCells
<1>5. \A cell \in FaultedCells :
        /\ table[cell].eligible =< table[cell].requested
        /\ \A value \in table[cell].rate : IsRate(value)
        /\ (table[cell].rate = {}) = (table[cell].p = {})
        /\ table[cell].rate = {} => table[cell].touch = {}
        /\ table[cell].rate # {} <=> Paired(out, pairs, cell) # {}
        /\ table[cell].rate # {} => \E value : table[cell].rate = {value} /\ IsRate(value)
        /\ table[cell].p # {} => \E value : table[cell].p = {value} /\ IsRate(value)
  <2> TAKE cell \in FaultedCells
  <2>1. PICK c : c = OperatorCell(out, pairs, cell)
    OBVIOUS
  <2>2. table[cell] = c
    BY <2>1
  <2> HIDE DEF table
  <2>3. c.eligible =< c.requested
    BY <2>1, OperatorCellIs
  <2>4. \A value \in c.rate : IsRate(value)
    BY <2>1, OperatorCellIs
  <2>5. (c.rate = {}) = (c.p = {})
    BY <2>1, OperatorCellIs
  <2>6. c.rate = {} => c.touch = {}
    BY <2>1, OperatorCellIs
  <2>7. c.rate # {} <=> Paired(out, pairs, cell) # {}
    BY <2>1, OperatorCellIs
  <2>8. c.rate # {} => \E value : c.rate = {value} /\ IsRate(value)
    BY <2>1, OperatorCellIs
  <2>9. c.p # {} => \E value : c.p = {value} /\ IsRate(value)
    BY <2>1, OperatorCellIs
  <2> QED BY <2>2, <2>3, <2>4, <2>5, <2>6, <2>7, <2>8, <2>9
<1>6. DOMAIN table = FaultedCells
  OBVIOUS
<1>7. \A t \in Tasks(pairs) :
        /\ tasks[t].pairs > 0 /\ IsRate(tasks[t].clean) /\ IsRate(tasks[t].fault)
        /\ \A a \in DOMAIN tasks[t].axis : IsRate(tasks[t].axis[a])
        /\ tasks[t].touch # {} => \E value : tasks[t].touch = {value} /\ IsRate(value)
  <2> TAKE t \in Tasks(pairs)
  <2>1. Reportable(PairsOf(t, pairs), rs)
    BY <1>3, TasksFinite DEF Reportable
  <2>2. Scoreable(out, PairsOf(t, pairs), rs) # {}
    BY DEF Aggregates
  <2>3. tasks[t] = TaskSummary(out, PairsOf(t, pairs), rs)
    OBVIOUS
  <2> HIDE DEF tasks
  <2> QED BY <2>1, <2>2, <2>3, TaskSummaryIs
<1>8. DOMAIN tasks = Tasks(pairs) /\ IsFiniteSet(Tasks(pairs)) /\ Tasks(pairs) # {}
  BY <1>3, TasksFinite
<1>9. DOMAIN clean = Tasks(pairs) /\ \A t \in DOMAIN clean : IsRate(clean[t])
  BY <1>7, <1>8
<1>10. DOMAIN fault = Tasks(pairs) /\ \A t \in DOMAIN fault : IsRate(fault[t])
  BY <1>7, <1>8
<1>11. DOMAIN touch = Tasks(pairs)
       /\ \A t \in DOMAIN touch : touch[t] # {} =>
            \E value : touch[t] = {value} /\ IsRate(value)
  BY <1>7, <1>8
<1> HIDE DEF table, tasks
<1>12. scored # {} /\ scored \subseteq FaultedCells
  <2>1. \A cell \in Primary(rs) : cell \in FaultedCells
    BY DEF Primary
  <2>2. \E cell \in Primary(rs) : Paired(out, pairs, cell) # {}
    BY DEF Aggregates
  <2> QED BY <1>5, <2>1, <2>2
<1>13. s.worst \in scored
  <2>1. \A c \in scored : \E value : table[c].rate = {value} /\ IsRate(value)
    BY <1>5, <1>12
  <2>2. PICK w : w = CHOOSE cell \in scored :
                      \A other \in scored : The(table[cell].rate) =< The(table[other].rate)
    OBVIOUS
  <2>3. s.worst = w
    BY <1>2, <2>2, Zenon
  <2> HIDE DEF scored
  <2>4. w \in scored
    BY <1>12, <2>1, <2>2, WorstExists
  <2> QED BY <2>3, <2>4
<1>14. s.cells[s.worst].rate # {}
  BY <1>2, <1>13
<1>15. \A c \in DOMAIN s.holm : IsRate(s.holm[c])
  BY <1>2, <1>4, <1>5, <1>6, HolmIs
<1> HIDE DEF scored, clean, fault, touch
<1>16. IsRate(s.clean) /\ IsRate(s.fault)
  BY <1>2, <1>8, <1>9, <1>10, MeanIsRate
<1>17. \A value \in s.touch : IsRate(value)
  BY <1>2, <1>8, <1>11, MeanIfAllIs
<1>18. /\ s.coverage.eligible + s.coverage.ineligible = s.coverage.requested
       /\ s.coverage.scored =< s.coverage.observed
       /\ s.coverage.observed =< s.coverage.expected
  <2>1. PICK c : c = Coverage(out, pairs, rs)
    OBVIOUS
  <2>2. s.coverage = c
    BY <1>2, <2>1
  <2>3. Reportable(pairs, rs) /\ DOMAIN out = pairs \X cells
    OBVIOUS
  <2>4. c.eligible + c.ineligible = c.requested
    BY <2>1, <2>3, CoverageIs
  <2>5. c.scored =< c.observed
    BY <2>1, <2>3, CoverageIs
  <2>6. c.observed =< c.expected
    BY <2>1, <2>3, CoverageIs
  <2> QED BY <2>2, <2>4, <2>5, <2>6
<1>19. s.recovery.recovered =< s.recovery.eligible
  <2>1. IsFiniteSet(DOMAIN out)
    BY <1>3, FS_Product
  <2> QED BY <1>2, <2>1, RecoveryIs
<1>20. \A t \in DOMAIN s.tasks :
       /\ s.tasks[t].pairs > 0 /\ IsRate(s.tasks[t].clean) /\ IsRate(s.tasks[t].fault)
       /\ \A a \in DOMAIN s.tasks[t].axis : IsRate(s.tasks[t].axis[a])
  BY <1>2, <1>7, <1>8
<1>21. \A c \in DOMAIN s.cells :
       /\ s.cells[c].eligible =< s.cells[c].requested
       /\ \A value \in s.cells[c].rate : IsRate(value)
       /\ (s.cells[c].rate = {}) = (s.cells[c].p = {})
       /\ s.cells[c].rate = {} => s.cells[c].touch = {}
  BY <1>2, <1>5, <1>6
<1>22. SummaryAccepted(s)
  BY <1>14, <1>15, <1>16, <1>17, <1>18, <1>19, <1>20, <1>21, Zenon
  DEF SummaryAccepted, CoverageAccepted, RecoveryAccepted, TaskAccepted, CellAccepted
<1> QED BY <1>1, <1>22

-----------------------------------------------------------------------------
(* The parts of a report.                                                   *)

\* The grid has the operators and severities of the spec.
Gridded(rs) ==
  \A o \in rs.operators, level \in rs.levels : \E cell \in Primary(rs) :
    cell.fault.operator = o /\ cell.fault.level = level

\* Every primary trial and clean baseline of the pairs was scored.
AllScored(out, pairs, rs) ==
  \A pair \in pairs : /\ Clean(out, pair).eligible
                      /\ \A cell \in Primary(rs) : out[<<pair, cell>>].eligible

\* Then the coverage is complete, and only then: as many slots are expected as the
\* grid has trials.
LEMMA CoverageDecides ==
  ASSUME NEW out, NEW pairs, NEW rs, Reportable(pairs, rs), Gridded(rs),
         Primary(rs) # {}
  PROVE  Coverage(out, pairs, rs).scoreComplete <=> AllScored(out, pairs, rs)
<1> DEFINE observed == pairs \X Primary(rs)
           scored == {key \in observed : out[key].eligible /\ Clean(out, key[1]).eligible}
           expected == Cardinality(pairs) * Cardinality(rs.operators) * Cardinality(rs.levels)
           grid == rs.operators \X rs.levels
           f == [cell \in Primary(rs) |-> <<cell.fault.operator, cell.fault.level>>]
<1>1. Coverage(out, pairs, rs).scoreComplete <=> Cardinality(scored) = expected
  BY DEF Coverage
<1>2. IsFiniteSet(grid) /\ Cardinality(grid) = Cardinality(rs.operators) * Cardinality(rs.levels)
  BY FS_Product DEF Reportable
<1>3. IsFiniteSet(Primary(rs)) /\ Cardinality(Primary(rs)) =< Cardinality(grid)
  BY <1>2, PrimaryBounded
<1>4. {f[x] : x \in DOMAIN f} = grid
  <2>1. \A x \in Primary(rs) : f[x] \in grid
    BY DEF Primary
  <2>2. \A o \in rs.operators, level \in rs.levels : \E x \in Primary(rs) : f[x] = <<o, level>>
    BY DEF Gridded
  <2> HIDE DEF f
  <2>3. DOMAIN f = Primary(rs)
    BY DEF f
  <2> QED BY <2>1, <2>2, <2>3
<1>5. Cardinality(grid) =< Cardinality(Primary(rs))
  <2>1. DOMAIN f = Primary(rs)
    OBVIOUS
  <2> HIDE DEF f
  <2> QED BY <1>3, <1>4, <2>1, ImageFinite
<1>6. Cardinality(observed) = expected /\ IsFiniteSet(observed)
  <2>1. /\ IsFiniteSet(observed)
        /\ Cardinality(observed) = Cardinality(pairs) * Cardinality(Primary(rs))
    BY <1>3, FS_Product DEF Reportable
  <2>2. PICK p, q, o, l : /\ p = Cardinality(pairs) /\ q = Cardinality(Primary(rs))
                          /\ o = Cardinality(rs.operators) /\ l = Cardinality(rs.levels)
    OBVIOUS
  <2>3. p \in Nat /\ q \in Nat /\ o \in Nat /\ l \in Nat
    BY <1>3, <2>2, FS_CardinalityType DEF Reportable
  <2>4. PICK n \in Nat : n = o * l
    BY <2>3
  <2>5. q = n
    BY <1>2, <1>3, <1>5, <2>2, <2>3, <2>4
  <2>6. p * n = p * o * l
    BY <2>3, <2>4
  <2> QED BY <2>1, <2>2, <2>5, <2>6
<1>7. Cardinality(scored) = Cardinality(observed) <=> scored = observed
  <2>1. scored \subseteq observed
    OBVIOUS
  <2> HIDE DEF scored, observed
  <2> QED BY <1>6, <2>1, FS_Subset
<1>8. scored = observed <=> AllScored(out, pairs, rs)
  <2>1. scored = observed <=> \A pair \in pairs, cell \in Primary(rs) :
                                out[<<pair, cell>>].eligible /\ Clean(out, pair).eligible
    <3>1. scored = observed <=>
            \A key \in observed : out[key].eligible /\ Clean(out, key[1]).eligible
      OBVIOUS
    <3>2. \A pair \in pairs, cell \in Primary(rs) :
            <<pair, cell>> \in observed /\ <<pair, cell>>[1] = pair
      OBVIOUS
    <3>3. \A key \in observed : \E pair \in pairs, cell \in Primary(rs) : key = <<pair, cell>>
      OBVIOUS
    <3> HIDE DEF observed, scored
    <3> QED BY <3>1, <3>2, <3>3
  <2> HIDE DEF scored, observed
  <2> QED BY <2>1 DEF AllScored
<1> HIDE DEF scored, observed, expected
<1> QED BY <1>1, <1>6, <1>7, <1>8

\* A task is complete when every primary trial and clean baseline of it was scored.
LEMMA TaskDecides ==
  ASSUME NEW out, NEW pairs, NEW rs, Reportable(pairs, rs), Gridded(rs), Primary(rs) # {}
  PROVE  TaskComplete(out, pairs, rs) <=> AllScored(out, pairs, rs)
<1> DEFINE slots == pairs \X rs.operators \X rs.levels
           Full(pair, o, level) ==
             \E cell \in Primary(rs) :
               /\ cell.fault.operator = o /\ cell.fault.level = level
               /\ out[<<pair, cell>>].eligible /\ Clean(out, pair).eligible
<1>1. TaskComplete(out, pairs, rs) <=>
        \A slot \in slots : Full(slot[1], slot[2], slot[3])
  BY DEF TaskComplete
<1>2. (\A slot \in slots : Full(slot[1], slot[2], slot[3])) <=>
        \A pair \in pairs, o \in rs.operators, level \in rs.levels : Full(pair, o, level)
  <2>1. ASSUME \A slot \in slots : Full(slot[1], slot[2], slot[3]),
               NEW pair \in pairs, NEW o \in rs.operators, NEW level \in rs.levels
        PROVE  Full(pair, o, level)
    <3>1. PICK slot : slot = <<pair, o, level>>
      OBVIOUS
    <3>2. slot \in slots /\ slot[1] = pair /\ slot[2] = o /\ slot[3] = level
      BY <3>1
    <3>3. Full(slot[1], slot[2], slot[3])
      BY <2>1, <3>2
    <3> HIDE DEF Full
    <3> QED BY <3>2, <3>3
  <2>2. \A slot \in slots : slot[1] \in pairs /\ slot[2] \in rs.operators
                            /\ slot[3] \in rs.levels
    OBVIOUS
  <2> HIDE DEF slots, Full
  <2> QED BY <2>1, <2>2
<1>3. \A cell \in Primary(rs) : /\ cell.fault.operator \in rs.operators
                               /\ cell.fault.level \in rs.levels /\ cell \in FaultedCells
  BY DEF Primary
<1>4. ASSUME \A pair \in pairs, o \in rs.operators, level \in rs.levels : Full(pair, o, level)
      PROVE  AllScored(out, pairs, rs)
  <2>1. \A pair \in pairs, cell \in Primary(rs) :
          out[<<pair, cell>>].eligible /\ Clean(out, pair).eligible
    <3> TAKE pair \in pairs, cell \in Primary(rs)
    <3>1. PICK other \in Primary(rs) :
            /\ other.fault.operator = cell.fault.operator
            /\ other.fault.level = cell.fault.level
            /\ out[<<pair, other>>].eligible /\ Clean(out, pair).eligible
      <4>1. Full(pair, cell.fault.operator, cell.fault.level)
        <5>1. cell.fault.operator \in rs.operators /\ cell.fault.level \in rs.levels
          BY <1>3
        <5> HIDE DEF Full
        <5> QED BY <1>4, <5>1
      <4> QED BY <4>1
    <3>2. other = cell
      BY <1>3, <3>1 DEF Reportable
    <3> QED BY <3>1, <3>2
  <2> QED BY <2>1 DEF AllScored
<1>5. ASSUME AllScored(out, pairs, rs)
      PROVE  \A pair \in pairs, o \in rs.operators, level \in rs.levels : Full(pair, o, level)
  BY <1>5 DEF AllScored, Gridded
<1> HIDE DEF slots, Full
<1> QED BY <1>1, <1>2, <1>4, <1>5

\* Why the gain of a task is withheld.
LEMMA GainDecides ==
  ASSUME NEW out, NEW pairs, NEW rs, Reportable(pairs, rs), Gridded(rs), Primary(rs) # {},
         Scoreable(out, pairs, rs) # {}, NEW t, t = TaskSummary(out, pairs, rs)
  PROVE  /\ AllScored(out, pairs, rs) => t.reason # "incomplete_or_ineligible_primary_grid"
         /\ t.reason \in {"none", "small_or_nonpositive_clean_gain"} =>
              /\ AllScored(out, pairs, rs)
              /\ \A pair \in pairs : NoTouch(out, pair).eligible
<1> DEFINE scoreable == Scoreable(out, pairs, rs)
           touch == [p \in scoreable |-> NoTouchRate(out, p)]
<1>1. PICK gain : /\ t.reason = Withheld(out, pairs, rs, gain)
                  /\ gain = {t.clean - value : value \in t.touch}
                  /\ t.touch = MeanIfAll(touch)
  BY DEF TaskSummary
<1>2. AllScored(out, pairs, rs) => t.reason # "incomplete_or_ineligible_primary_grid"
  BY <1>1, TaskDecides DEF Withheld
<1>3. ASSUME t.reason \in {"none", "small_or_nonpositive_clean_gain"}
      PROVE  /\ AllScored(out, pairs, rs)
             /\ \A pair \in pairs : NoTouch(out, pair).eligible
  <2>1. gain # {} /\ TaskComplete(out, pairs, rs)
    BY <1>1, <1>3 DEF Withheld
  <2>2. AllScored(out, pairs, rs)
    BY <2>1, TaskDecides
  <2>3. \A p \in scoreable : NoTouchRate(out, p) # {}
    BY <1>1, <2>1 DEF MeanIfAll
  <2>4. \A p \in pairs : p \in scoreable
    BY <2>2 DEF Scoreable, AllScored
  <2> HIDE DEF scoreable
  <2> QED BY <2>2, <2>3, <2>4 DEF NoTouchRate
<1> QED BY <1>2, <1>3

\* The worst cell of one matrix is no better than its macro rate.
LEMMA WorstDecides ==
  ASSUME NEW out, NEW pairs, NEW rs, Reportable(pairs, rs), Aggregates(out, pairs, rs),
         NEW pair, pairs = {pair}, NEW s, s = Aggregate(out, pairs, rs)
  PROVE  The(s.cells[s.worst].rate) =< s.fault
<1> DEFINE table == [cell \in FaultedCells |-> OperatorCell(out, pairs, cell)]
           tasks == [task \in Tasks(pairs) |-> TaskSummary(out, PairsOf(task, pairs), rs)]
           scored == {cell \in Primary(rs) : table[cell].rate # {}}
           fault == [t \in DOMAIN tasks |-> tasks[t].fault]
<1>1. /\ s.cells = table /\ s.fault = Mean(fault)
      /\ s.worst = CHOOSE cell \in scored :
                     \A other \in scored : The(table[cell].rate) =< The(table[other].rate)
  BY DEF Aggregate
<1>2. Primary(rs) \subseteq FaultedCells
  BY DEF Primary
<1>3. \A cell \in FaultedCells :
        /\ table[cell].rate # {} <=> Paired(out, pairs, cell) # {}
        /\ table[cell].rate # {} => \E value : table[cell].rate = {value} /\ IsRate(value)
  <2> TAKE cell \in FaultedCells
  <2>1. PICK c : c = OperatorCell(out, pairs, cell)
    OBVIOUS
  <2>2. table[cell] = c
    BY <2>1
  <2> HIDE DEF table
  <2>3. c.rate # {} <=> Paired(out, pairs, cell) # {}
    BY <2>1, OperatorCellIs
  <2>4. c.rate # {} => \E value : c.rate = {value} /\ IsRate(value)
    BY <2>1, OperatorCellIs
  <2> QED BY <2>2, <2>3, <2>4
<1>4. \A cell \in FaultedCells : Paired(out, pairs, cell) = {pair} =>
        table[cell].rate = {Mean([p \in {pair} |-> Rate(out[<<p, cell>>])])}
  BY DEF OperatorCell
<1> HIDE DEF table
<1>5. PICK w : w = The(table[s.worst].rate)
  OBVIOUS
<1>6. w \in 0 .. Unit /\ \A cell \in scored : w =< The(table[cell].rate)
  <2>1. \A c \in scored : \E value : table[c].rate = {value} /\ IsRate(value)
    BY <1>2, <1>3
  <2>2. scored # {}
    BY <1>2, <1>3 DEF Aggregates
  <2>3. PICK worst : worst = CHOOSE cell \in scored :
                       \A other \in scored : The(table[cell].rate) =< The(table[other].rate)
    OBVIOUS
  <2>4. s.worst = worst
    BY <1>1, <2>3, Zenon
  <2> HIDE DEF scored
  <2>5. /\ worst \in scored
        /\ \A other \in scored : The(table[worst].rate) =< The(table[other].rate)
    BY <2>1, <2>2, <2>3, WorstExists
  <2>6. PICK value : table[worst].rate = {value} /\ IsRate(value)
    BY <2>1, <2>5
  <2>7. The(table[worst].rate) = value
    BY <2>6, TheIs, Zenon
  <2>8. w = value
    BY <1>5, <2>4, <2>7, Zenon
  <2> QED BY <2>5, <2>6, <2>7, <2>8 DEF IsRate
<1>7. Tasks(pairs) = {pair[1]} /\ PairsOf(pair[1], pairs) = {pair}
  BY DEF Tasks, PairsOf
<1>8. LeastRate(out, {pair}, rs, w)
  <2> SUFFICES ASSUME pair \in Scoreable(out, {pair}, rs), NEW cell \in Primary(rs),
                      out[<<pair, cell>>].eligible
               PROVE  Rate(out[<<pair, cell>>]) \in w .. Unit
    BY DEF LeastRate, Scoreable
  <2>1. Paired(out, pairs, cell) = {pair}
    BY DEF Paired, Scoreable
  <2> DEFINE F == [p \in {pair} |-> Rate(out[<<p, cell>>])]
  <2>2. table[cell].rate = {Mean(F)} /\ cell \in scored
    BY <1>2, <1>3, <1>4, <2>1
  <2>3. The(table[cell].rate) = Mean(F)
    <3> HIDE DEF F
    <3> QED BY <2>2, TheIs, Zenon
  <2>4. w =< Mean(F)
    <3> HIDE DEF F, scored
    <3> QED BY <1>6, <2>2, <2>3
  <2>5. PICK rate \in 0 .. Unit : rate = Rate(out[<<pair, cell>>])
    BY RateIsRate DEF IsRate
  <2>6. Mean(F) \in 0 .. rate
    <3>1. DOMAIN F = {pair} /\ \A x \in DOMAIN F : F[x] \in 0 .. rate
      BY <2>5
    <3>2. IsFiniteSet({pair})
      BY FS_Singleton
    <3> HIDE DEF F
    <3> QED BY <2>5, <3>1, <3>2, MeanBounded
  <2> HIDE DEF F
  <2> QED BY <1>6, <2>4, <2>5, <2>6, MatrixReportAssumption
<1>9. tasks[pair[1]].fault \in w .. Unit
  <2>1. Reportable({pair}, rs)
    BY DEF Reportable
  <2>2. Scoreable(out, {pair}, rs) # {}
    BY <1>7 DEF Aggregates
  <2>3. tasks[pair[1]] = TaskSummary(out, {pair}, rs)
    BY <1>7
  <2> HIDE DEF tasks
  <2>4. IsRate(tasks[pair[1]].fault) /\ tasks[pair[1]].fault >= w
    BY <1>6, <1>8, <2>1, <2>2, <2>3, TaskSummaryIs
  <2> QED BY <1>6, <2>4, MatrixReportAssumption DEF IsRate
<1>10. DOMAIN fault = {pair[1]} /\ \A t \in DOMAIN fault : fault[t] \in w .. Unit
  BY <1>7, <1>9
<1>11. IsFiniteSet({pair[1]})
  BY FS_Singleton
<1> HIDE DEF fault
<1>12. Mean(fault) \in w .. Unit
  BY <1>6, <1>10, <1>11, MeanAtLeast
<1>13. The(s.cells[s.worst].rate) = w
  BY <1>1, <1>5, Zenon
<1>14. w =< s.fault
  BY <1>1, <1>6, <1>12, MatrixReportAssumption
<1> QED BY <1>13, <1>14

-----------------------------------------------------------------------------
(* The report.                                                              *)

\* The matrices of a layout are run over a whole grid.
RunStands ==
  stage \in {"run", "reported", "unreported"} =>
    /\ kind = "primary" /\ rows # {}
    /\ {row.point : row \in rows} = GridPoints(spec)
    /\ \E layout \in Layouts : Complete(results, layout \X cells)

\* The run of the matrices finds a grid that was built to its end, and the report
\* changes nothing that it is decided on.
LEMMA RunStandsKept ==
  BuildInv /\ RunStands /\ [ReportNext]_<<vars, reportVars>> => RunStands'
<1> SUFFICES ASSUME BuildInv, RunStands, [ReportNext]_<<vars, reportVars>> PROVE RunStands'
  OBVIOUS
<1>1. CASE Build
  <2>1. stage' \in {"points", "refused", "manifest", "resources", "done"}
    BY <1>1 DEF Build, Next, MakeFaults, BuildPoint, RefusePoint, MakeManifest, WriteResources
  <2> QED BY <2>1 DEF RunStands
<1>2. CASE RunMatrices
  <2>1. /\ stage = "done" /\ kind = "primary" /\ stage' = "run"
        /\ kind' = kind /\ spec' = spec /\ rows' = rows /\ cells' = cells
    BY <1>2 DEF RunMatrices
  <2>2. rows # {} /\ {row.point : row \in rows} = GridPoints(spec)
    BY <2>1 DEF BuildInv, StagesStand, GridStands, Building
  <2>3. \E layout \in Layouts : Complete(results', layout \X cells)
    BY <1>2 DEF RunMatrices
  <2> QED BY <2>1, <2>2, <2>3 DEF RunStands
<1>3. CASE (\E rs \in ReportingSpecs : MakeReport(rs)) \/ UNCHANGED <<vars, reportVars>>
  <2>1. /\ stage = "run" \/ stage' = stage
        /\ kind' = kind /\ spec' = spec /\ rows' = rows /\ cells' = cells
        /\ results' = results
    BY <1>3 DEF MakeReport, vars, reportVars
  <2> QED BY <2>1 DEF RunStands
<1> QED BY <1>1, <1>2, <1>3 DEF ReportNext

\* So it holds throughout.
LEMMA RunsStand == ReportSpec => []RunStands
<1>1. ReportInit => RunStands
  BY DEF ReportInit, Init, RunStands
<1> QED BY <1>1, RunStandsKept, BuildInvariant, PTL DEF ReportSpec

\* A grid has finitely many cells, the two baselines among them, and one faulted
\* cell for each of its operators and severities.
LEMMA GridCells ==
  ASSUME BuildInv, kind = "primary", rows # {}, {row.point : row \in rows} = GridPoints(spec)
  PROVE  /\ IsFiniteSet(cells) /\ CleanCell \in cells /\ NoTouchCell \in cells
         /\ \A a, b \in FaultedCells :
              a.fault.operator = b.fault.operator /\ a.fault.level = b.fault.level => a = b
         /\ {cell.fault.operator : cell \in FaultedCells} = GridOperators
         /\ \A o \in GridOperators, level \in GridLevels : \E cell \in FaultedCells :
              cell.fault.operator = o /\ cell.fault.level = level
<1> DEFINE grid == GridOperators \X GridLevels
           P(o, level) == Point(<<o, level>>, Fault(o, level, spec.start, spec.stop),
                                spec.restore)
           faulted(o, level) == Cell("faulted", Fault(o, level, spec.start, spec.stop),
                                     NoRestore)
           restored(o, level) == Cell("restored", Restored(P(o, level)), spec.restore)
           F == [pair \in grid |-> faulted(pair[1], pair[2])]
           R == [pair \in grid |-> restored(pair[1], pair[2])]
<1>1. /\ cells = UNION {RowCells(row) : row \in rows}
      /\ \A row \in rows : row = Row(row.point)
  BY DEF BuildInv, RowsStand
<1>2. GridPoints(spec) = {P(o, level) : o \in GridOperators, level \in GridLevels}
  <2>1. \A o, level : Fault(o, level, spec.start, spec.stop).operator = o
                     /\ Fault(o, level, spec.start, spec.stop).level = level
    BY DEF Fault
  <2>2. \A o \in GridOperators, level \in GridLevels : P(o, level) \in GridPoints(spec)
    BY <2>1 DEF GridPoints, GridFaults
  <2>3. \A point \in GridPoints(spec) : \E o \in GridOperators, level \in GridLevels :
          point = P(o, level)
    <3> TAKE point \in GridPoints(spec)
    <3>1. PICK f \in GridFaults(spec) :
            point = Point(<<f.operator, f.level>>, f, spec.restore)
      BY DEF GridPoints
    <3>2. PICK o \in GridOperators, level \in GridLevels :
            f = Fault(o, level, spec.start, spec.stop)
      BY DEF GridFaults
    <3> QED BY <2>1, <3>1, <3>2
  <2> HIDE DEF P
  <2> QED BY <2>2, <2>3
<1>3. \A o, level :
        RowCells(Row(P(o, level))) = {CleanCell, NoTouchCell, faulted(o, level),
                                      restored(o, level)}
  BY DEF RowCells, Row, Point
<1>4. \A o, level : /\ faulted(o, level).condition = "faulted"
                    /\ restored(o, level).condition = "restored"
                    /\ faulted(o, level).fault.operator = o
                    /\ faulted(o, level).fault.level = level
                    /\ CleanCell.condition = "clean" /\ NoTouchCell.condition = "no_touch"
  BY DEF Cell, CleanCell, NoTouchCell, Fault
<1> HIDE DEF P, faulted, restored
<1>5. \A o \in GridOperators, level \in GridLevels :
        RowCells(Row(P(o, level))) \subseteq cells
  <2> TAKE o \in GridOperators, level \in GridLevels
  <2>1. PICK row \in rows : row.point = P(o, level)
    BY <1>2
  <2> QED BY <1>1, <2>1
<1>6. \A cell \in cells :
        \/ cell = CleanCell \/ cell = NoTouchCell
        \/ \E o \in GridOperators, level \in GridLevels :
             cell = faulted(o, level) \/ cell = restored(o, level)
  <2> TAKE cell \in cells
  <2>1. PICK row \in rows : cell \in RowCells(row)
    BY <1>1
  <2>2. PICK o \in GridOperators, level \in GridLevels : row.point = P(o, level)
    BY <1>2
  <2>3. row = Row(P(o, level))
    BY <1>1, <2>2
  <2> QED BY <1>3, <2>1, <2>3
<1>7. PICK row \in rows : TRUE
  OBVIOUS
<1>8. PICK anO \in GridOperators, aLevel \in GridLevels : row.point = P(anO, aLevel)
  <2>1. row.point \in GridPoints(spec)
    BY <1>7
  <2> QED BY <1>2, <2>1
<1>9. CleanCell \in cells /\ NoTouchCell \in cells
  BY <1>3, <1>5, <1>8
<1>10. FaultedCells = {faulted(o, level) : o \in GridOperators, level \in GridLevels}
  BY <1>3, <1>4, <1>5, <1>6 DEF FaultedCells
<1>11. IsFiniteSet(cells)
  <2>1. IsFiniteSet(grid)
    BY GridFinite
  <2>2. DOMAIN F = grid /\ DOMAIN R = grid
    OBVIOUS
  <2>3. cells \subseteq {CleanCell, NoTouchCell} \cup {F[x] : x \in DOMAIN F}
                        \cup {R[x] : x \in DOMAIN R}
    <3>1. \A o \in GridOperators, level \in GridLevels :
            /\ <<o, level>> \in grid
            /\ F[<<o, level>>] = faulted(o, level) /\ R[<<o, level>>] = restored(o, level)
      OBVIOUS
    <3> HIDE DEF F, R, grid
    <3>2. \A cell \in cells :
            \/ cell \in {CleanCell, NoTouchCell}
            \/ \E x \in DOMAIN F : cell = F[x]
            \/ \E x \in DOMAIN R : cell = R[x]
      <4> TAKE cell \in cells
      <4>1. \/ cell = CleanCell \/ cell = NoTouchCell
            \/ \E o \in GridOperators, level \in GridLevels :
                 cell = faulted(o, level) \/ cell = restored(o, level)
        BY <1>6
      <4> QED BY <2>2, <3>1, <4>1
    <3> QED BY <3>2
  <2> HIDE DEF F, R
  <2>4. IsFiniteSet({F[x] : x \in DOMAIN F}) /\ IsFiniteSet({R[x] : x \in DOMAIN R})
    BY <2>1, <2>2, ImageFinite
  <2>5. IsFiniteSet({CleanCell} \cup {NoTouchCell})
    BY FS_Singleton, FS_Union
  <2>6. {CleanCell} \cup {NoTouchCell} = {CleanCell, NoTouchCell}
    OBVIOUS
  <2>7. IsFiniteSet({CleanCell, NoTouchCell} \cup {F[x] : x \in DOMAIN F})
    BY <2>4, <2>5, <2>6, FS_Union
  <2>8. IsFiniteSet({CleanCell, NoTouchCell} \cup {F[x] : x \in DOMAIN F}
                       \cup {R[x] : x \in DOMAIN R})
    BY <2>4, <2>7, FS_Union
  <2> QED BY <2>3, <2>8, FS_Subset
<1>12. \A a, b \in FaultedCells :
         a.fault.operator = b.fault.operator /\ a.fault.level = b.fault.level => a = b
  BY <1>4, <1>10
<1>13. {cell.fault.operator : cell \in FaultedCells} = GridOperators
  <2>1. \A cell \in FaultedCells : cell.fault.operator \in GridOperators
    BY <1>4, <1>10
  <2>2. \A o \in GridOperators : faulted(o, aLevel) \in FaultedCells
    BY <1>10
  <2>3. \A o \in GridOperators : \E cell \in FaultedCells : cell.fault.operator = o
    BY <1>4, <2>2
  <2> QED BY <2>1, <2>3
<1>14. \A o \in GridOperators, level \in GridLevels : \E cell \in FaultedCells :
         cell.fault.operator = o /\ cell.fault.level = level
  BY <1>4, <1>10
<1> QED BY <1>9, <1>11, <1>12, <1>13, <1>14

\* What the aggregation counts as eligible is what was neither unsupported nor
\* rejected by the validators.
LEMMA EligibleIs ==
  ASSUME NEW input, NEW key, input.states[key] \in CellStates
  PROVE  OutcomeRecord(input, key).eligible <=> ScorableState(input.states[key])
<1> DEFINE state == input.states[key]
<1>1. OutcomeRecord(input, key).eligible <=> TerminalStatus(state) \notin ScoreIneligible
  BY DEF OutcomeRecord
<1>2. TerminalStatus(state) \notin ScoreIneligible <=> ScorableState(state)
  BY DEF CellStates, State, Normal, NoArtifact, TerminalStatus, ScoreIneligible, ScorableState
<1> QED BY <1>1, <1>2

\* What a report of the run matrices is decided on.
Decision(rs) ==
  /\ rs.operators \subseteq GridOperators
  /\ \A task \in Tasks(ReportedPairs) : \E pair \in PairsOf(task, ReportedPairs) :
       /\ ScorableState(results.states[<<pair, CleanCell>>])
       /\ \E cell \in Primary(rs) : ScorableState(results.states[<<pair, cell>>])
  /\ \A key \in DOMAIN results.evidence :
       \/ results.states[key].artifact = NoArtifact
       \/ results.states[<<key[1], CleanCell>>].artifact # NoArtifact

\* What was run: finitely many pairs, an outcome for each of their cells, and of
\* these the eligible ones are those whose state is.
LEMMA RunIs ==
  ASSUME BuildInv, RunStands, stage = "run", NEW rs \in ReportingSpecs,
         NEW pairs, pairs = ReportedPairs, NEW out, out = Outcomes(results)
  PROVE  /\ pairs \in Layouts
         /\ IsFiniteSet(pairs) /\ pairs # {} /\ DOMAIN out = pairs \X cells
         /\ CleanCell \in cells /\ NoTouchCell \in cells
         /\ Primary(rs) \subseteq cells /\ Primary(rs) \subseteq FaultedCells
         /\ \A pair \in pairs, cell \in cells :
              out[<<pair, cell>>].eligible <=> ScorableState(results.states[<<pair, cell>>])
         /\ {cell.fault.operator : cell \in FaultedCells} = GridOperators
         /\ rs.operators \subseteq GridOperators => Reportable(pairs, rs)
         /\ rs.operators \subseteq GridOperators /\ rs.levels \subseteq GridLevels
              => Gridded(rs)
<1>1. /\ kind = "primary" /\ rows # {}
      /\ {row.point : row \in rows} = GridPoints(spec)
  BY DEF RunStands
<1>2. PICK layout \in Layouts : Complete(results, layout \X cells)
  BY DEF RunStands
<1>3. /\ IsFiniteSet(cells) /\ CleanCell \in cells /\ NoTouchCell \in cells
      /\ \A a, b \in FaultedCells :
           a.fault.operator = b.fault.operator /\ a.fault.level = b.fault.level => a = b
      /\ {cell.fault.operator : cell \in FaultedCells} = GridOperators
      /\ \A o \in GridOperators, level \in GridLevels : \E cell \in FaultedCells :
           cell.fault.operator = o /\ cell.fault.level = level
  BY <1>1, GridCells
<1>4. layout # {} /\ IsFiniteSet(layout)
  BY MatrixReportAssumption
<1>5. pairs = layout
  <2>1. ReportedPairs = {key[1] : key \in layout \X cells}
    BY <1>2 DEF ReportedPairs, Complete
  <2>2. \A pair \in layout : <<pair, CleanCell>> \in layout \X cells
    BY <1>3
  <2>3. \A pair \in layout : pair \in ReportedPairs
    <3> TAKE pair \in layout
    <3>1. <<pair, CleanCell>>[1] = pair
      OBVIOUS
    <3> QED BY <2>1, <2>2, <3>1
  <2>4. \A pair \in ReportedPairs : pair \in layout
    BY <2>1
  <2> QED BY <2>3, <2>4
<1>6. DOMAIN out = pairs \X cells
  BY <1>2, <1>5 DEF Outcomes, Complete
<1>7. \A pair \in pairs, cell \in cells :
        out[<<pair, cell>>].eligible <=> ScorableState(results.states[<<pair, cell>>])
  <2> TAKE pair \in pairs, cell \in cells
  <2>1. PICK key : key = <<pair, cell>>
    OBVIOUS
  <2>2. key \in DOMAIN results.states /\ results.states[key] \in CellStates
    BY <1>2, <1>5, <2>1 DEF Complete
  <2>3. out[key] = OutcomeRecord(results, key)
    BY <2>2 DEF Outcomes
  <2>4. out[key].eligible <=> ScorableState(results.states[key])
    BY <2>2, <2>3, EligibleIs
  <2> QED BY <2>1, <2>4
<1>8. Primary(rs) \subseteq cells /\ Primary(rs) \subseteq FaultedCells
  BY DEF Primary, FaultedCells
<1>9. rs.operators \subseteq GridOperators => Reportable(pairs, rs)
  <2> HAVE rs.operators \subseteq GridOperators
  <2>1. IsFiniteSet(rs.operators)
    BY OperatorsFinite, FS_Subset, MatrixBuildAssumption
  <2>2. IsFiniteSet(rs.levels)
    <3>1. rs.levels \in SUBSET Nat /\ \A level \in rs.levels : level =< 5
      BY MatrixReportAssumption
    <3> QED BY <3>1, FS_BoundedSetOfNaturals
  <2> QED BY <1>3, <1>4, <1>5, <2>1, <2>2 DEF Reportable
<1>10. rs.operators \subseteq GridOperators /\ rs.levels \subseteq GridLevels => Gridded(rs)
  BY <1>3 DEF Gridded, Primary
<1> QED BY <1>3, <1>4, <1>5, <1>6, <1>7, <1>8, <1>9, <1>10

\* MakeReport decides so: the second refusal of aggregate_benchmark follows from
\* the third, and the constructors accept whatever was computed.
LEMMA MadeIsDecided ==
  ASSUME BuildInv, RunStands, stage = "run", NEW rs \in ReportingSpecs
  PROVE  Decision(rs) <=>
           /\ EvidenceUsable(results)
           /\ Aggregates(Outcomes(results), ReportedPairs, rs)
           /\ SummaryAccepted(Aggregate(Outcomes(results), ReportedPairs, rs))
<1>1. PICK pairs : pairs = ReportedPairs
  OBVIOUS
<1>2. PICK out : out = Outcomes(results)
  OBVIOUS
<1>3. /\ pairs # {} /\ DOMAIN out = pairs \X cells
      /\ CleanCell \in cells /\ Primary(rs) \subseteq cells
      /\ \A pair \in pairs, cell \in cells :
           out[<<pair, cell>>].eligible <=> ScorableState(results.states[<<pair, cell>>])
      /\ {cell.fault.operator : cell \in FaultedCells} = GridOperators
      /\ rs.operators \subseteq GridOperators => Reportable(pairs, rs)
  BY <1>1, <1>2, RunIs
<1>4. \A task : Scoreable(out, PairsOf(task, pairs), rs) # {} <=>
         \E pair \in PairsOf(task, pairs) :
           /\ ScorableState(results.states[<<pair, CleanCell>>])
           /\ \E cell \in Primary(rs) : ScorableState(results.states[<<pair, cell>>])
  <2> TAKE task
  <2>1. PairsOf(task, pairs) \subseteq pairs
    BY DEF PairsOf
  <2>2. \A pair \in PairsOf(task, pairs) :
          /\ Clean(out, pair).eligible <=> ScorableState(results.states[<<pair, CleanCell>>])
          /\ \A cell \in Primary(rs) :
               out[<<pair, cell>>].eligible <=> ScorableState(results.states[<<pair, cell>>])
    BY <1>3, <2>1 DEF Clean
  <2> QED BY <2>2 DEF Scoreable
<1>5. (\A task \in Tasks(pairs) : Scoreable(out, PairsOf(task, pairs), rs) # {})
         => \E cell \in Primary(rs) : Paired(out, pairs, cell) # {}
  <2> HAVE \A task \in Tasks(pairs) : Scoreable(out, PairsOf(task, pairs), rs) # {}
  <2>1. PICK pair \in pairs : TRUE
    BY <1>3
  <2>2. pair[1] \in Tasks(pairs)
    BY DEF Tasks
  <2>3. PICK p \in PairsOf(pair[1], pairs) :
          /\ Clean(out, p).eligible
          /\ \E cell \in Primary(rs) : out[<<p, cell>>].eligible
    BY <2>2 DEF Scoreable
  <2>4. p \in pairs
    BY DEF PairsOf
  <2> QED BY <2>3, <2>4 DEF Paired
<1>6. EvidenceUsable(results) <=>
         \A key \in DOMAIN results.evidence :
           \/ results.states[key].artifact = NoArtifact
           \/ results.states[<<key[1], CleanCell>>].artifact # NoArtifact
  BY DEF EvidenceUsable, CleanRoot
<1>7. Aggregates(out, pairs, rs) => SummaryAccepted(Aggregate(out, pairs, rs))
  <2> HAVE Aggregates(out, pairs, rs)
  <2>1. Reportable(pairs, rs)
    BY <1>3 DEF Aggregates
  <2> QED BY <1>3, <2>1, ComputedIsAccepted
<1>8. Aggregates(out, pairs, rs) <=>
         /\ rs.operators \subseteq GridOperators
         /\ \A task \in Tasks(pairs) : Scoreable(out, PairsOf(task, pairs), rs) # {}
  BY <1>3, <1>5 DEF Aggregates
<1>9. Decision(rs) <=> /\ EvidenceUsable(results) /\ Aggregates(out, pairs, rs)
                       /\ SummaryAccepted(Aggregate(out, pairs, rs))
  BY <1>1, <1>4, <1>6, <1>7, <1>8 DEF Decision
<1> QED BY <1>1, <1>2, <1>9

\* A report is made whenever it can be, and nothing but what the property names
\* refuses it: an operator of the spec that the grid does not have, a task without
\* a scored pair, a sidecar without its clean artifact.  In particular no summary
\* that is computed, of whatever outcomes and over whatever grid, dies in the
\* constructors that check it (aggregation.py:131, summary_contracts.py:82).
THEOREM ReportsDecided == ReportSpec => []ReportDecides
<1>1. ReportInit => ReportDecides
  BY DEF ReportInit, Init, ReportDecides
<1>2. BuildInv /\ RunStands /\ ReportDecides /\ [ReportNext]_<<vars, reportVars>>
        => ReportDecides'
  <2> SUFFICES ASSUME BuildInv, RunStands, ReportDecides, [ReportNext]_<<vars, reportVars>>
               PROVE  ReportDecides'
    OBVIOUS
  <2>1. CASE Build
    <3>1. stage' \in {"points", "refused", "manifest", "resources", "done"}
      BY <2>1 DEF Build, Next, MakeFaults, BuildPoint, RefusePoint, MakeManifest,
                  WriteResources
    <3> QED BY <3>1 DEF ReportDecides
  <2>2. CASE RunMatrices
    <3>1. stage' = "run"
      BY <2>2 DEF RunMatrices
    <3> QED BY <3>1 DEF ReportDecides
  <2>3. ASSUME NEW rs \in ReportingSpecs, MakeReport(rs) PROVE ReportDecides'
    <3>1. /\ stage = "run" /\ reporting' = rs /\ cells' = cells /\ results' = results
          /\ stage' = "reported" <=> Decision(rs)
      <4>1. stage' = IF /\ EvidenceUsable(results)
                        /\ Aggregates(Outcomes(results), ReportedPairs, rs)
                        /\ SummaryAccepted(Aggregate(Outcomes(results), ReportedPairs, rs))
                     THEN "reported" ELSE "unreported"
        BY <2>3 DEF MakeReport
      <4>2. stage = "run" /\ reporting' = rs /\ cells' = cells /\ results' = results
        BY <2>3 DEF MakeReport
      <4>3. stage' = IF Decision(rs) THEN "reported" ELSE "unreported"
        BY <4>1, <4>2, MadeIsDecided
      <4> QED BY <4>2, <4>3
    <3> QED BY <3>1 DEF ReportDecides, Decision, Primary, FaultedCells, ReportedPairs
  <2>4. CASE UNCHANGED <<vars, reportVars>>
    <3>1. stage' = stage /\ cells' = cells /\ results' = results /\ reporting' = reporting
      BY <2>4 DEF vars, reportVars
    <3> QED BY <3>1 DEF ReportDecides, Primary, FaultedCells, ReportedPairs
  <2> QED BY <2>1, <2>2, <2>3, <2>4 DEF ReportNext
<1> QED BY <1>1, <1>2, BuildInvariant, RunsStand, PTL DEF ReportSpec

-----------------------------------------------------------------------------
(* The order of means.                                                      *)

\* The groups that are averaged have sizes that divide N: the cells of an operator, the
\* operators of an axis, the axes.
Grouped(scored, N) ==
  LET operators == {cell.fault.operator : cell \in scored}
  IN /\ \A o \in operators : Splits(N, {c \in scored : c.fault.operator = o})
     /\ \A a \in Axes(operators) : Splits(N, {x \in operators : Axis(x) = a})
     /\ Splits(N, Axes(operators))

\* The means over the cells of an operator, and over the operators of an axis, of each pair.
OperatorMeans(rate, pairs, scored, o) ==
  [p \in pairs |-> OperatorMean(rate[p], scored, o)]

AxisMeans(rate, pairs, scored, a) ==
  [p \in pairs |-> AxisMean(rate[p], scored, a)]

\* The mean over pairs of the means over the cells of an operator is the mean over the
\* cells of those over pairs.
LEMMA OperatorSwap ==
  ASSUME NEW scored, IsFiniteSet(scored), NEW N \in Nat \ {0}, Grouped(scored, N),
         NEW pairs, IsFiniteSet(pairs), pairs # {}, Splits(N, pairs), NEW m \in Int,
         NEW rate, Entries(rate, pairs, scored, Scaled(N, Scaled(N, m))),
         NEW o \in {cell.fault.operator : cell \in scored}
  PROVE  /\ \A p \in pairs : OperatorMean(rate[p], scored, o) \in Times(Scaled(N, m))
         /\ OperatorMean(ColumnMeans(rate, pairs, scored), scored, o)
              = Mean(OperatorMeans(rate, pairs, scored, o))
<1> DEFINE D == {c \in scored : c.fault.operator = o}
<1>1. IsFiniteSet(D) /\ D # {} /\ D \subseteq scored
  BY FS_Subset
<1>2. Splits(N, D)
  BY DEF Grouped
<1>3. \A p \in pairs : OperatorMean(rate[p], scored, o) = RowMeans(rate, pairs, D)[p]
  BY DEF OperatorMean, RowMeans
<1>4. OperatorMeans(rate, pairs, scored, o) = RowMeans(rate, pairs, D)
  BY DEF OperatorMean, OperatorMeans, RowMeans
<1>5. OperatorMean(ColumnMeans(rate, pairs, scored), scored, o)
        = Mean(ColumnMeans(rate, pairs, D))
  <2>1. [c \in D |-> ColumnMeans(rate, pairs, scored)[c]] = ColumnMeans(rate, pairs, D)
    BY <1>1 DEF ColumnMeans
  <2> QED BY <2>1 DEF OperatorMean
<1> HIDE DEF D
<1>6. Entries(rate, pairs, D, Scaled(N, Scaled(N, m)))
  BY <1>1 DEF Entries
<1>7. /\ \A p \in pairs : RowMeans(rate, pairs, D)[p] \in Times(Scaled(N, m))
      /\ Mean(RowMeans(rate, pairs, D)) = Mean(ColumnMeans(rate, pairs, D))
  BY <1>1, <1>2, <1>6, MeanSwap
<1> QED BY <1>3, <1>4, <1>5, <1>7

\* So do the means over the operators of an axis.
LEMMA AxisSwap ==
  ASSUME NEW scored, IsFiniteSet(scored), NEW N \in Nat \ {0}, Grouped(scored, N),
         NEW pairs, IsFiniteSet(pairs), pairs # {}, Splits(N, pairs), NEW m \in Int,
         NEW rate, Entries(rate, pairs, scored, Scaled(N, Scaled(N, Scaled(N, m)))),
         NEW a \in Axes({cell.fault.operator : cell \in scored})
  PROVE  /\ \A p \in pairs : AxisMean(rate[p], scored, a) \in Times(Scaled(N, m))
         /\ AxisMean(ColumnMeans(rate, pairs, scored), scored, a)
              = Mean(AxisMeans(rate, pairs, scored, a))
<1> DEFINE operators == {cell.fault.operator : cell \in scored}
           D == {x \in operators : Axis(x) = a}
<1>1. IsFiniteSet(D) /\ D # {} /\ D \subseteq operators
  <2>1. IsFiniteSet(operators)
    BY OperatorsOf
  <2>2. D # {}
    BY DEF Axes
  <2> HIDE DEF operators
  <2> QED BY <2>1, <2>2, FS_Subset
<1>2. Splits(N, D)
  BY DEF Grouped
<1>3. PICK k \in Int : k = Scaled(N, m)
  BY DEF Scaled
<1>4. \A o \in D :
        /\ \A p \in pairs : OperatorMean(rate[p], scored, o) \in Times(Scaled(N, k))
        /\ OperatorMean(ColumnMeans(rate, pairs, scored), scored, o)
             = Mean(OperatorMeans(rate, pairs, scored, o))
  <2> TAKE o \in D
  <2>1. o \in {cell.fault.operator : cell \in scored}
    BY <1>1
  <2>2. Entries(rate, pairs, scored, Scaled(N, Scaled(N, k)))
    BY <1>3
  <2> HIDE DEF D, operators
  <2> QED BY <2>1, <2>2, OperatorSwap
<1>5. PICK T : T = [p \in pairs |-> [o \in D |-> OperatorMean(rate[p], scored, o)]]
  OBVIOUS
<1>6. \A p \in pairs : AxisMean(rate[p], scored, a) = RowMeans(T, pairs, D)[p]
  <2> TAKE p \in pairs
  <2>1. [o \in D |-> T[p][o]] = [o \in D |-> OperatorMean(rate[p], scored, o)]
    BY <1>5
  <2> QED BY <2>1 DEF AxisMean, RowMeans
<1>7. AxisMeans(rate, pairs, scored, a) = RowMeans(T, pairs, D)
  <2>1. RowMeans(T, pairs, D) = [p \in pairs |-> RowMeans(T, pairs, D)[p]]
    BY DEF RowMeans
  <2> HIDE DEF D
  <2> QED BY <1>6, <2>1 DEF AxisMeans
<1>8. AxisMean(ColumnMeans(rate, pairs, scored), scored, a) = Mean(ColumnMeans(T, pairs, D))
  <2>1. \A o \in D : [p \in pairs |-> T[p][o]] = OperatorMeans(rate, pairs, scored, o)
    <3> HIDE DEF D
    <3> QED BY <1>5 DEF OperatorMeans
  <2>2. [o \in D |-> OperatorMean(ColumnMeans(rate, pairs, scored), scored, o)]
          = [o \in D |-> Mean([p \in pairs |-> T[p][o]])]
    <3> HIDE DEF D
    <3> QED BY <1>4, <2>1
  <2>3. [o \in D |-> OperatorMean(ColumnMeans(rate, pairs, scored), scored, o)]
          = ColumnMeans(T, pairs, D)
    <3> HIDE DEF D
    <3> QED BY <2>2 DEF ColumnMeans
  <2>4. AxisMean(ColumnMeans(rate, pairs, scored), scored, a)
          = Mean([o \in D |-> OperatorMean(ColumnMeans(rate, pairs, scored), scored, o)])
    BY DEF AxisMean
  <2> HIDE DEF D
  <2> QED BY <2>3, <2>4
<1> HIDE DEF D, operators
<1>9. Entries(T, pairs, D, Scaled(N, Scaled(N, m)))
  BY <1>3, <1>4, <1>5 DEF Entries
<1>10. /\ \A p \in pairs : RowMeans(T, pairs, D)[p] \in Times(Scaled(N, m))
       /\ Mean(RowMeans(T, pairs, D)) = Mean(ColumnMeans(T, pairs, D))
  BY <1>1, <1>2, <1>9, MeanSwap
<1> QED BY <1>6, <1>7, <1>8, <1>10

\* The scores of the pairs.
Scores(rate, pairs, scored) == [p \in pairs |-> Mean(AxisRates(rate[p], scored))]

\* And those over the axes: what a pair scores is a multiple, and the mean of the scores
\* is the mean of the axis rates over all pairs.
LEMMA ScoreSwap ==
  ASSUME NEW scored, IsFiniteSet(scored), scored # {},
         NEW N \in Nat \ {0}, Grouped(scored, N),
         NEW pairs, IsFiniteSet(pairs), pairs # {}, Splits(N, pairs), NEW m \in Int,
         NEW rate,
         Entries(rate, pairs, scored, Scaled(N, Scaled(N, Scaled(N, Scaled(N, m)))))
  PROVE  /\ \A p \in pairs : Mean(AxisRates(rate[p], scored)) \in Times(Scaled(N, m))
         /\ Mean(AxisRates(ColumnMeans(rate, pairs, scored), scored))
              = Mean(Scores(rate, pairs, scored))
<1> DEFINE axes == Axes({cell.fault.operator : cell \in scored})
<1>1. IsFiniteSet(axes) /\ axes # {} /\ Splits(N, axes)
  BY AxesFinite DEF Grouped, Axes
<1>2. PICK k \in Int : k = Scaled(N, m)
  BY DEF Scaled
<1>3. \A a \in axes :
        /\ \A p \in pairs : AxisMean(rate[p], scored, a) \in Times(Scaled(N, k))
        /\ AxisMean(ColumnMeans(rate, pairs, scored), scored, a)
             = Mean(AxisMeans(rate, pairs, scored, a))
  <2> TAKE a \in axes
  <2>1. a \in Axes({cell.fault.operator : cell \in scored})
    OBVIOUS
  <2>2. Entries(rate, pairs, scored, Scaled(N, Scaled(N, Scaled(N, k))))
    BY <1>2
  <2> HIDE DEF axes
  <2> QED BY <2>1, <2>2, AxisSwap
<1>4. PICK T : T = [p \in pairs |-> AxisRates(rate[p], scored)]
  OBVIOUS
<1>5. \A p \in pairs : /\ T[p] = AxisRates(rate[p], scored)
                       /\ T[p] = [a \in axes |-> AxisMean(rate[p], scored, a)]
  BY <1>4 DEF AxisRates
<1>6. AxisRates(ColumnMeans(rate, pairs, scored), scored)
        = [a \in axes |-> AxisMean(ColumnMeans(rate, pairs, scored), scored, a)]
  BY DEF AxisRates
<1> HIDE DEF axes
<1>7. \A p \in pairs, a \in axes : T[p][a] = AxisMean(rate[p], scored, a)
  BY <1>5
<1>8. AxisRates(ColumnMeans(rate, pairs, scored), scored) = ColumnMeans(T, pairs, axes)
  <2>1. \A a \in axes : [p \in pairs |-> T[p][a]] = AxisMeans(rate, pairs, scored, a)
    BY <1>7 DEF AxisMeans
  <2> QED BY <1>3, <1>6, <2>1 DEF ColumnMeans
<1>9. Entries(T, pairs, axes, Scaled(N, Scaled(N, m)))
  BY <1>2, <1>3, <1>7 DEF Entries
<1>10. /\ \A p \in pairs : RowMeans(T, pairs, axes)[p] \in Times(Scaled(N, m))
       /\ Mean(RowMeans(T, pairs, axes)) = Mean(ColumnMeans(T, pairs, axes))
  BY <1>1, <1>9, MeanSwap
<1>11. \A p \in pairs : RowMeans(T, pairs, axes)[p] = Mean(AxisRates(rate[p], scored))
  <2> TAKE p \in pairs
  <2>1. [a \in axes |-> T[p][a]] = AxisRates(rate[p], scored)
    BY <1>5, <1>7
  <2> QED BY <2>1 DEF RowMeans
<1>12. RowMeans(T, pairs, axes) = Scores(rate, pairs, scored)
  <2>1. RowMeans(T, pairs, axes) = [p \in pairs |-> RowMeans(T, pairs, axes)[p]]
    BY DEF RowMeans
  <2> QED BY <1>11, <2>1 DEF Scores
<1> QED BY <1>8, <1>10, <1>11, <1>12

\* What is averaged: the severities of an operator, the operators of an axis, the axes,
\* and the pairs.
Groups ==
  Layouts \cup {GridLevels, Axes(GridOperators)}
          \cup {{o \in GridOperators : Axis(o) = a} : a \in Axes(GridOperators)}

\* No group is so large that its size, or a smaller one, does not divide N.
Divisor(N) ==
  \A group \in Groups : \A n \in 1 .. Cardinality(group) : \E q \in Int : N = n * q

\* A rate is counted in so small a unit that all means are exact.
FineUnit ==
  \E N, m \in Nat \ {0} :
    /\ Unit = Scaled(N, Scaled(N, Scaled(N, Scaled(N, Scaled(N, m)))))
    /\ Divisor(N)

\* No larger than a group, it is divided as well.
LEMMA PartSplits ==
  ASSUME NEW N, Divisor(N), NEW group \in Groups, NEW S, IsFiniteSet(S), S # {},
         Cardinality(group) \in Nat, Cardinality(S) =< Cardinality(group)
  PROVE  Splits(N, S)
<1>1. PICK n : n = Cardinality(S)
  OBVIOUS
<1>2. n \in Nat \ {0}
  BY <1>1, FS_CardinalityType, FS_EmptySet
<1>3. n \in 1 .. Cardinality(group)
  BY <1>1, <1>2
<1>4. \E q \in Int : N = n * q
  BY <1>3 DEF Divisor
<1> QED BY <1>1, <1>4 DEF Splits

\* Scored cells of a grid fall into such groups.
LEMMA GroupsSplit ==
  ASSUME NEW N, Divisor(N), NEW pairs, NEW rs, Reportable(pairs, rs),
         rs.operators \subseteq GridOperators, rs.levels \subseteq GridLevels,
         NEW scored \in SUBSET Primary(rs), scored # {}
  PROVE  IsFiniteSet(scored) /\ Grouped(scored, N)
<1> DEFINE operators == {cell.fault.operator : cell \in scored}
<1>1. IsFiniteSet(scored)
  <2>1. scored \subseteq cells
    BY DEF Primary, FaultedCells
  <2> QED BY <2>1, FS_Subset DEF Reportable
<1>2. \A c \in scored : /\ c \in FaultedCells /\ c.fault.operator \in GridOperators
                        /\ c.fault.level \in GridLevels
  BY DEF Primary
<1>3. operators \subseteq GridOperators
  BY <1>2
<1>4. \A o \in operators : Splits(N, {c \in scored : c.fault.operator = o})
  <2> TAKE o \in operators
  <2> DEFINE S == {c \in scored : c.fault.operator = o}
             f == [c \in S |-> c.fault.level]
  <2>1. IsFiniteSet(S) /\ S # {}
    BY <1>1, FS_Subset
  <2>2. IsFiniteSet(GridLevels) /\ Cardinality(GridLevels) \in Nat
    <3>1. GridLevels \subseteq 1 .. 5
      BY MatrixBuildAssumption
    <3>2. GridLevels \in SUBSET Nat /\ \A level \in GridLevels : level =< 5
      BY <3>1
    <3> QED BY <3>2, FS_BoundedSetOfNaturals, FS_CardinalityType
  <2>3. f \in Injection(S, GridLevels)
    <3>1. \A c \in S : f[c] \in GridLevels
      BY <1>2
    <3>2. \A c, d \in S : f[c] = f[d] => c = d
      BY <1>2 DEF Reportable
    <3> QED BY <3>1, <3>2 DEF Injection, IsInjective
  <2>4. Cardinality(S) =< Cardinality(GridLevels)
    <3> HIDE DEF f, S
    <3> QED BY <2>2, <2>3, FS_Injection
  <2>5. GridLevels \in Groups
    BY DEF Groups
  <2> HIDE DEF f, operators
  <2> QED BY <2>1, <2>2, <2>4, <2>5, PartSplits
<1>5. \A a \in Axes(operators) : Splits(N, {x \in operators : Axis(x) = a})
  <2> TAKE a \in Axes(operators)
  <2> DEFINE S == {x \in operators : Axis(x) = a}
             all == {o \in GridOperators : Axis(o) = a}
  <2>1. IsFiniteSet(all)
    BY MatrixBuildAssumption, OperatorsFinite, FS_Subset
  <2>2. S \subseteq all /\ S # {}
    BY <1>3 DEF Axes
  <2>3. all \in Groups
    BY <1>3 DEF Axes, Groups
  <2> HIDE DEF all, operators
  <2>4. /\ IsFiniteSet(S) /\ Cardinality(all) \in Nat
        /\ Cardinality(S) =< Cardinality(all)
    BY <2>1, <2>2, FS_Subset, FS_CardinalityType
  <2> QED BY <2>2, <2>3, <2>4, PartSplits
<1>6. Splits(N, Axes(operators))
  <2>1. Axes(operators) # {} /\ Axes(operators) \subseteq Axes(GridOperators)
    BY <1>3 DEF Axes
  <2>2. Axes(GridOperators) \in Groups
    BY DEF Groups
  <2> HIDE DEF operators
  <2>3. /\ IsFiniteSet(Axes(operators)) /\ Cardinality(Axes(GridOperators)) \in Nat
        /\ Cardinality(Axes(operators)) =< Cardinality(Axes(GridOperators))
    BY <2>1, AxesFinite, FS_Subset, FS_CardinalityType
  <2> QED BY <2>1, <2>2, <2>3, PartSplits
<1> QED BY <1>1, <1>4, <1>5, <1>6 DEF Grouped

\* The same of a multiple under its name.
LEMMA ScaledTimes ==
  ASSUME NEW N \in Int, NEW m \in Int, NEW x \in Times(Scaled(N, m))
  PROVE  x \in Times(m) /\ Scaled(N, m) \in Int /\ x \in Int
<1>1. x \in Times(N * m) /\ Scaled(N, m) \in Int
  BY DEF Scaled
<1> QED BY <1>1, TimesLess

\* A rate is a multiple of the unit.
LEMMA RateTimes ==
  ASSUME NEW record PROVE Rate(record) \in Times(Unit)
<1>1. Unit = Unit * 1 /\ 0 = Unit * 0
  BY MatrixReportAssumption
<1> QED BY <1>1 DEF Rate, Times

\* What is assumed of the pairs and cells that are averaged.
Fine(N, m, pairs, rs) ==
  /\ Unit = Scaled(N, Scaled(N, Scaled(N, Scaled(N, Scaled(N, m)))))
  /\ \A S \in SUBSET pairs : S # {} => Splits(N, S)
  /\ \A scored \in SUBSET Primary(rs) :
       scored # {} => IsFiniteSet(scored) /\ Grouped(scored, N)

\* The score of a pair is a multiple that two means are taken of.
LEMMA PairScoreTimes ==
  ASSUME NEW out, NEW pairs, NEW rs, NEW N \in Nat \ {0}, NEW m \in Int,
         Fine(N, m, pairs, rs), NEW p \in pairs,
         \E cell \in Primary(rs) : out[<<p, cell>>].eligible
  PROVE  The(PairScore(out, p, rs)) \in Times(Scaled(N, Scaled(N, m)))
<1> DEFINE scored == {cell \in Primary(rs) : out[<<p, cell>>].eligible}
<1>1. scored # {} /\ scored \in SUBSET Primary(rs)
  OBVIOUS
<1>2. IsFiniteSet(scored) /\ Grouped(scored, N) /\ Splits(N, {p})
  BY <1>1 DEF Fine
<1>3. IsFiniteSet({p}) /\ {p} # {}
  BY FS_Singleton
<1>4. PICK k \in Int : k = Scaled(N, m)
  BY DEF Scaled
<1>5. PICK D, rate : /\ D = scored
                     /\ rate = [cell \in D |-> Rate(out[<<p, cell>>])]
  OBVIOUS
<1>6. PICK table : table = [x \in {p} |-> rate]
  OBVIOUS
<1>7. table[p] = rate
  BY <1>6
<1>8. PairScore(out, p, rs) = {Mean(AxisRates(rate, D))}
  <2>1. D # {} /\ D = Scored(out, p, rs) /\ rate = RatesOf(out, p, D)
    BY <1>1, <1>5 DEF Scored, RatesOf
  <2> HIDE DEF scored
  <2> QED BY <2>1, PairScoreForm
<1>9. IsFiniteSet(D) /\ D # {} /\ Grouped(D, N)
  BY <1>1, <1>2, <1>5
<1> HIDE DEF scored
<1>10. Entries(table, {p}, D, Scaled(N, Scaled(N, Scaled(N, Scaled(N, k)))))
  <2>1. \A c \in D : table[p][c] \in Times(Scaled(N, Scaled(N, Scaled(N, Scaled(N, k)))))
    BY <1>4, <1>5, <1>7, RateTimes DEF Fine
  <2> QED BY <2>1 DEF Entries
<1>11. \A x \in {p} : Mean(AxisRates(table[x], D)) \in Times(Scaled(N, k))
  BY <1>2, <1>3, <1>9, <1>10, ScoreSwap
<1>12. Mean(AxisRates(rate, D)) \in Times(Scaled(N, k))
  BY <1>7, <1>11
<1> QED BY <1>4, <1>8, <1>12, TheIs

\* The means of a task: the difference of its rates, and, of a task whose trials were all
\* scored, the axis rates.
LEMMA TaskMeans ==
  ASSUME NEW out, NEW pairs, NEW rs, Reportable(pairs, rs),
         Scoreable(out, pairs, rs) # {}, NEW N \in Nat \ {0}, NEW m \in Int,
         Fine(N, m, pairs, rs), NEW t, t = TaskSummary(out, pairs, rs)
  PROVE  /\ t.fault \in Times(Scaled(N, m)) /\ t.clean \in Times(Scaled(N, m))
         /\ t.delta = t.fault - t.clean
         /\ AllScored(out, pairs, rs) /\ Primary(rs) # {} => t.fault = Mean(t.axis)
<1> DEFINE scoreable == Scoreable(out, pairs, rs)
           clean == [p \in scoreable |-> Rate(Clean(out, p))]
           score == [p \in scoreable |-> The(PairScore(out, p, rs))]
           delta == [p \in scoreable |-> score[p] - Rate(Clean(out, p))]
<1>1. t.clean = Mean(clean) /\ t.fault = Mean(score) /\ t.delta = Mean(delta)
  BY DEF TaskSummary
<1>2. /\ scoreable \subseteq pairs /\ scoreable # {}
      /\ \A p \in scoreable : \E cell \in Primary(rs) : out[<<p, cell>>].eligible
  BY DEF Scoreable
<1>3. IsFiniteSet(scoreable) /\ Splits(N, scoreable)
  BY <1>2, FS_Subset DEF Reportable, Fine
<1>4. PICK k \in Int : k = Scaled(N, m)
  BY DEF Scaled
<1>5. \A p \in scoreable : The(PairScore(out, p, rs)) \in Times(Scaled(N, k))
  BY <1>2, <1>4, PairScoreTimes
<1>6. \A p \in scoreable : Rate(Clean(out, p)) \in Times(Scaled(N, k))
  <2> TAKE p \in scoreable
  <2>1. PICK k1, k2 \in Int : k1 = Scaled(N, k) /\ k2 = Scaled(N, k1)
    BY DEF Scaled
  <2>2. PICK k3 \in Int : k3 = Scaled(N, k2)
    BY <2>1 DEF Scaled
  <2>3. Rate(Clean(out, p)) \in Times(Scaled(N, k3))
    BY <1>4, <2>1, <2>2, RateTimes DEF Fine
  <2>4. Rate(Clean(out, p)) \in Times(Scaled(N, k2))
    BY <2>2, <2>3, ScaledTimes
  <2>5. Rate(Clean(out, p)) \in Times(Scaled(N, k1))
    BY <2>1, <2>4, ScaledTimes
  <2> QED BY <2>1, <2>5, ScaledTimes
<1>7. /\ DOMAIN score = scoreable /\ DOMAIN clean = scoreable /\ DOMAIN delta = scoreable
      /\ \A p \in scoreable : /\ score[p] = The(PairScore(out, p, rs))
                              /\ clean[p] = Rate(Clean(out, p))
                              /\ delta[p] = score[p] - clean[p]
  OBVIOUS
<1> HIDE DEF score, clean, delta, scoreable
<1>8. \A p \in scoreable : score[p] \in Times(Scaled(N, k)) /\ clean[p] \in Times(Scaled(N, k))
  BY <1>5, <1>6, <1>7
<1>9. t.delta = t.fault - t.clean
  <2>1. Mean(delta) = Mean(score) - Mean(clean)
    BY <1>2, <1>3, <1>7, <1>8, MeanSubtract
  <2> QED BY <1>1, <2>1
<1>10. t.fault \in Times(Scaled(N, m)) /\ t.clean \in Times(Scaled(N, m))
  <2>1. PICK q \in Int : N = Cardinality(scoreable) * q
    BY <1>3 DEF Splits
  <2>2. Mean(score) \in Times(k)
    BY <1>2, <1>3, <1>7, <1>8, <2>1, MeanExact
  <2>3. Mean(clean) \in Times(k)
    BY <1>2, <1>3, <1>7, <1>8, <2>1, MeanExact
  <2> QED BY <1>1, <1>4, <2>2, <2>3
<1>11. ASSUME AllScored(out, pairs, rs), Primary(rs) # {} PROVE t.fault = Mean(t.axis)
  <2>1. PICK D : D = Primary(rs)
    OBVIOUS
  <2>2. PICK rate : rate = [p \in pairs |-> [c \in D |-> Rate(out[<<p, c>>])]]
    OBVIOUS
  <2>3. /\ scoreable = pairs
        /\ \A p \in pairs : Scored(out, p, rs) = D
        /\ \A cell \in D : Paired(out, pairs, cell) = pairs
    BY <1>11, <2>1 DEF AllScored, scoreable, Scoreable, Paired, Scored
  <2>4. pairs # {} /\ IsFiniteSet(pairs) /\ Splits(N, pairs)
    BY <1>2, <1>3, <2>3
  <2>5. IsFiniteSet(D) /\ D # {} /\ Grouped(D, N)
    BY <1>11, <2>1 DEF Fine
  <2>6. \A p \in pairs : The(PairScore(out, p, rs)) = Mean(AxisRates(rate[p], D))
    <3> TAKE p \in pairs
    <3>1. rate[p] = RatesOf(out, p, D)
      BY <2>2 DEF RatesOf
    <3>2. PICK r : r = rate[p]
      OBVIOUS
    <3>3. PairScore(out, p, rs) = {Mean(AxisRates(r, D))}
      BY <2>3, <2>5, <3>1, <3>2, PairScoreForm
    <3> QED BY <3>2, <3>3, TheIs
  <2>7. score = Scores(rate, pairs, D)
    <3>1. score = [p \in pairs |-> The(PairScore(out, p, rs))]
      BY <2>3 DEF score
    <3> QED BY <2>6, <3>1 DEF Scores
  <2>8. t.axis = AxisRates(ColumnMeans(rate, pairs, D), D)
    <3>1. D = ScoredBy(out, pairs, rs)
      BY <2>1, <2>3, <2>4 DEF ScoredBy
    <3>2. ColumnMeans(rate, pairs, D) = RatesBy(out, pairs, D)
      <4>1. \A cell \in D :
              [p \in pairs |-> rate[p][cell]]
                = [p \in Paired(out, pairs, cell) |-> Rate(out[<<p, cell>>])]
        BY <2>2, <2>3
      <4> QED BY <4>1 DEF ColumnMeans, RatesBy
    <3>3. TaskSummary(out, pairs, rs).axis = AxisRates(ColumnMeans(rate, pairs, D), D)
      BY <3>1, <3>2, AxisForm, Zenon
    <3> QED BY <3>3
  <2>9. Entries(rate, pairs, D, Scaled(N, Scaled(N, Scaled(N, Scaled(N, k)))))
    <3>1. \A p \in pairs, c \in D : rate[p][c] = Rate(out[<<p, c>>])
      BY <2>2
    <3> QED BY <1>4, <3>1, RateTimes DEF Entries, Fine
  <2>10. Mean(AxisRates(ColumnMeans(rate, pairs, D), D)) = Mean(Scores(rate, pairs, D))
    BY <2>4, <2>5, <2>9, ScoreSwap
  <2> QED BY <1>1, <2>7, <2>8, <2>10
<1> QED BY <1>9, <1>10, <1>11

\* In such a unit the pairs that are run, and the grid they are run over, are averaged.
LEMMA FineRun ==
  ASSUME NEW N \in Nat \ {0}, Divisor(N), NEW m \in Int,
         Unit = Scaled(N, Scaled(N, Scaled(N, Scaled(N, Scaled(N, m))))),
         NEW pairs \in Layouts, NEW rs, Reportable(pairs, rs),
         rs.operators \subseteq GridOperators, rs.levels \subseteq GridLevels
  PROVE  /\ Fine(N, m, pairs, rs)
         /\ \A S : IsFiniteSet(S) /\ S # {} /\ Cardinality(S) =< Cardinality(pairs)
              => Splits(N, S)
<1>1. pairs \in Groups /\ IsFiniteSet(pairs) /\ Cardinality(pairs) \in Nat
  BY FS_CardinalityType DEF Groups, Reportable
<1>2. \A S : IsFiniteSet(S) /\ S # {} /\ Cardinality(S) =< Cardinality(pairs)
         => Splits(N, S)
  BY <1>1, PartSplits
<1>3. \A S \in SUBSET pairs : S # {} => Splits(N, S)
  <2> TAKE S \in SUBSET pairs
  <2>1. IsFiniteSet(S) /\ Cardinality(S) =< Cardinality(pairs)
    BY <1>1, FS_Subset
  <2> QED BY <1>2, <2>1
<1>4. \A scored \in SUBSET Primary(rs) :
         scored # {} => IsFiniteSet(scored) /\ Grouped(scored, N)
  BY GroupsSplit
<1> QED BY <1>2, <1>3, <1>4 DEF Fine

\* The means of a summary: of each task, and of all.
LEMMA SummaryMeans ==
  ASSUME BuildInv, RunStands, stage = "run", FineUnit,
         NEW rs \in ReportingSpecs, rs.levels \subseteq GridLevels,
         Aggregates(Outcomes(results), ReportedPairs, rs),
         NEW s, s = Aggregate(Outcomes(results), ReportedPairs, rs)
  PROVE  MeansAgree(s)
<1>1. PICK pairs : pairs = ReportedPairs
  OBVIOUS
<1>2. PICK out : out = Outcomes(results)
  OBVIOUS
<1>3. Aggregates(out, pairs, rs) /\ s = Aggregate(out, pairs, rs)
  BY <1>1, <1>2, Zenon
<1>4. /\ pairs \in Layouts /\ IsFiniteSet(pairs) /\ pairs # {}
      /\ {cell.fault.operator : cell \in FaultedCells} = GridOperators
      /\ rs.operators \subseteq GridOperators => Reportable(pairs, rs)
      /\ rs.operators \subseteq GridOperators /\ rs.levels \subseteq GridLevels
           => Gridded(rs)
  BY <1>1, <1>2, RunIs
<1>5. /\ Reportable(pairs, rs) /\ Gridded(rs) /\ Primary(rs) # {}
      /\ rs.operators \subseteq GridOperators
  BY <1>3, <1>4 DEF Aggregates
<1>6. PICK N, m \in Nat \ {0} :
        /\ Unit = Scaled(N, Scaled(N, Scaled(N, Scaled(N, Scaled(N, m)))))
        /\ Divisor(N)
  BY DEF FineUnit
<1>7. /\ Fine(N, m, pairs, rs)
      /\ \A S : IsFiniteSet(S) /\ S # {} /\ Cardinality(S) =< Cardinality(pairs)
           => Splits(N, S)
  BY <1>4, <1>5, <1>6, FineRun
<1>8. s.coverage.scoreComplete <=> AllScored(out, pairs, rs)
  <2>1. s.coverage = Coverage(out, pairs, rs)
    BY <1>3 DEF Aggregate
  <2> QED BY <1>5, <2>1, CoverageDecides
<1> DEFINE built == [task \in Tasks(pairs) |-> TaskSummary(out, PairsOf(task, pairs), rs)]
<1>9. PICK tasks : tasks = built
  OBVIOUS
<1>10. /\ s.tasks = tasks
       /\ s.clean = Mean([t \in DOMAIN tasks |-> tasks[t].clean])
       /\ s.fault = Mean([t \in DOMAIN tasks |-> tasks[t].fault])
       /\ s.delta = Mean([t \in DOMAIN tasks |-> tasks[t].delta])
  <2> DEFINE clean == Mean([t \in DOMAIN built |-> built[t].clean])
             fault == Mean([t \in DOMAIN built |-> built[t].fault])
             delta == Mean([t \in DOMAIN built |-> built[t].delta])
  <2>1. s.tasks = built
    BY <1>3 DEF Aggregate
  <2>2. s.clean = clean
    BY <1>3 DEF Aggregate
  <2>3. s.fault = fault
    BY <1>3 DEF Aggregate
  <2>4. s.delta = delta
    BY <1>3 DEF Aggregate
  <2> HIDE DEF built
  <2> QED BY <1>9, <2>1, <2>2, <2>3, <2>4
<1>11. \A t \in Tasks(pairs) :
         /\ tasks[t].fault \in Times(Scaled(N, m)) /\ tasks[t].clean \in Times(Scaled(N, m))
         /\ tasks[t].delta = tasks[t].fault - tasks[t].clean
         /\ AllScored(out, pairs, rs) => tasks[t].fault = Mean(tasks[t].axis)
  <2> TAKE t \in Tasks(pairs)
  <2>1. PICK mine : mine = PairsOf(t, pairs)
    OBVIOUS
  <2>2. mine \in SUBSET pairs
    BY <2>1 DEF PairsOf
  <2>3. Reportable(mine, rs)
    BY <1>4, <1>5, <2>1, <2>2, TasksFinite DEF Reportable
  <2>4. Scoreable(out, mine, rs) # {}
    BY <1>3, <2>1 DEF Aggregates
  <2>5. Fine(N, m, mine, rs)
    BY <1>7, <2>2 DEF Fine
  <2>6. PICK task : task = TaskSummary(out, mine, rs)
    OBVIOUS
  <2>7. /\ task.fault \in Times(Scaled(N, m)) /\ task.clean \in Times(Scaled(N, m))
        /\ task.delta = task.fault - task.clean
        /\ AllScored(out, mine, rs) /\ Primary(rs) # {} => task.fault = Mean(task.axis)
    BY <2>3, <2>4, <2>5, <2>6, TaskMeans
  <2>8. AllScored(out, pairs, rs) => AllScored(out, mine, rs)
    BY <2>2 DEF AllScored
  <2>9. tasks[t] = task
    BY <1>9, <2>1, <2>6
  <2> QED BY <1>5, <2>7, <2>8, <2>9
<1>12. s.delta = s.fault - s.clean
  <2>1. PICK F, G, H : /\ F = [t \in DOMAIN tasks |-> tasks[t].fault]
                       /\ G = [t \in DOMAIN tasks |-> tasks[t].clean]
                       /\ H = [t \in DOMAIN tasks |-> tasks[t].delta]
    OBVIOUS
  <2>2. /\ IsFiniteSet(Tasks(pairs)) /\ Tasks(pairs) # {} /\ Splits(N, Tasks(pairs))
    BY <1>4, <1>7, TasksFinite
  <2>3. /\ DOMAIN F = Tasks(pairs) /\ DOMAIN G = Tasks(pairs) /\ DOMAIN H = Tasks(pairs)
        /\ \A t \in Tasks(pairs) : /\ F[t] = tasks[t].fault /\ G[t] = tasks[t].clean
                                   /\ H[t] = tasks[t].delta
    BY <1>9, <2>1
  <2>4. \A t \in Tasks(pairs) :
          /\ F[t] \in Times(Scaled(N, m)) /\ G[t] \in Times(Scaled(N, m))
          /\ H[t] = F[t] - G[t]
    BY <1>11, <2>3
  <2>5. Mean(H) = Mean(F) - Mean(G)
    BY <2>2, <2>3, <2>4, MeanSubtract
  <2> QED BY <1>10, <2>1, <2>5
<1>13. \A t \in DOMAIN s.tasks :
         /\ s.tasks[t].delta = s.tasks[t].fault - s.tasks[t].clean
         /\ s.coverage.scoreComplete => s.tasks[t].fault = Mean(s.tasks[t].axis)
  BY <1>8, <1>9, <1>10, <1>11
<1> QED BY <1>12, <1>13 DEF MeansAgree

-----------------------------------------------------------------------------
(* The parts of a report agree.                                             *)

\* So they do when it is made.
LEMMA SummaryAgrees ==
  ASSUME BuildInv, RunStands, stage = "run",
         NEW rs \in ReportingSpecs, rs.levels \subseteq GridLevels,
         Aggregates(Outcomes(results), ReportedPairs, rs),
         NEW s, s = Aggregate(Outcomes(results), ReportedPairs, rs)
  PROVE  CoverageAgrees(s, rs) /\ GainsAgree(s, rs) /\ WorstAgrees(s) /\ AdjustmentAgrees(s)
<1>1. PICK pairs : pairs = ReportedPairs
  OBVIOUS
<1>2. PICK out : out = Outcomes(results)
  OBVIOUS
<1>3. Aggregates(out, pairs, rs) /\ s = Aggregate(out, pairs, rs)
  BY <1>1, <1>2, Zenon
<1>4. /\ IsFiniteSet(pairs) /\ pairs # {} /\ DOMAIN out = pairs \X cells
      /\ CleanCell \in cells /\ NoTouchCell \in cells
      /\ Primary(rs) \subseteq cells /\ Primary(rs) \subseteq FaultedCells
      /\ \A pair \in pairs, cell \in cells :
           out[<<pair, cell>>].eligible <=> ScorableState(results.states[<<pair, cell>>])
      /\ {cell.fault.operator : cell \in FaultedCells} = GridOperators
      /\ rs.operators \subseteq GridOperators => Reportable(pairs, rs)
      /\ rs.operators \subseteq GridOperators /\ rs.levels \subseteq GridLevels
           => Gridded(rs)
  <2>1. /\ IsFiniteSet(pairs) /\ pairs # {} /\ DOMAIN out = pairs \X cells
        /\ CleanCell \in cells /\ NoTouchCell \in cells
        /\ Primary(rs) \subseteq cells /\ Primary(rs) \subseteq FaultedCells
    BY <1>1, <1>2, RunIs
  <2>2. \A pair \in pairs, cell \in cells :
          out[<<pair, cell>>].eligible <=> ScorableState(results.states[<<pair, cell>>])
    BY <1>1, <1>2, RunIs
  <2>3. /\ {cell.fault.operator : cell \in FaultedCells} = GridOperators
        /\ rs.operators \subseteq GridOperators => Reportable(pairs, rs)
        /\ rs.operators \subseteq GridOperators /\ rs.levels \subseteq GridLevels
             => Gridded(rs)
    BY <1>1, <1>2, RunIs
  <2> QED BY <2>1, <2>2, <2>3
<1>5. Reportable(pairs, rs) /\ Gridded(rs) /\ Primary(rs) # {}
  BY <1>3, <1>4 DEF Aggregates
<1>6. \A some \in SUBSET pairs : AllScored(out, some, rs) <=>
        \A pair \in some :
          /\ ScorableState(results.states[<<pair, CleanCell>>])
          /\ \A cell \in Primary(rs) : ScorableState(results.states[<<pair, cell>>])
  <2> TAKE some \in SUBSET pairs
  <2>1. \A pair \in some :
          /\ Clean(out, pair).eligible <=> ScorableState(results.states[<<pair, CleanCell>>])
          /\ \A cell \in Primary(rs) :
               out[<<pair, cell>>].eligible <=> ScorableState(results.states[<<pair, cell>>])
    BY <1>4 DEF Clean
  <2> QED BY <2>1 DEF AllScored
<1>7. /\ s.coverage = Coverage(out, pairs, rs)
      /\ s.tasks = [task \in Tasks(pairs) |-> TaskSummary(out, PairsOf(task, pairs), rs)]
      /\ s.cells = [cell \in FaultedCells |-> OperatorCell(out, pairs, cell)]
      /\ s.holm = Holm(s.cells)
  BY <1>3 DEF Aggregate
<1>8. s.coverage.scoreComplete <=> AllScored(out, pairs, rs)
  BY <1>5, <1>7, CoverageDecides
<1>9. CoverageAgrees(s, rs)
  BY <1>1, <1>6, <1>8 DEF CoverageAgrees
<1>10. GainsAgree(s, rs)
  <2> SUFFICES ASSUME NEW t \in DOMAIN s.tasks
               PROVE  /\ s.coverage.scoreComplete =>
                           s.tasks[t].reason # "incomplete_or_ineligible_primary_grid"
                      /\ s.tasks[t].reason \in {"none", "small_or_nonpositive_clean_gain"} =>
                           \A pair \in PairsOf(t, pairs) :
                             /\ ScorableState(results.states[<<pair, CleanCell>>])
                             /\ ScorableState(results.states[<<pair, NoTouchCell>>])
                             /\ \A cell \in Primary(rs) :
                                  ScorableState(results.states[<<pair, cell>>])
    BY <1>1, Zenon DEF GainsAgree
  <2>1. PICK mine : mine = PairsOf(t, pairs)
    OBVIOUS
  <2>2. t \in Tasks(pairs) /\ mine \in SUBSET pairs
    BY <1>7, <2>1 DEF PairsOf
  <2>3. Reportable(mine, rs)
    BY <1>4, <1>5, <2>1, <2>2, TasksFinite DEF Reportable
  <2>4. PICK task : task = TaskSummary(out, mine, rs)
    OBVIOUS
  <2>5. s.tasks[t] = task
    BY <1>7, <2>1, <2>2, <2>4
  <2>6. Scoreable(out, mine, rs) # {}
    BY <1>3, <2>1, <2>2 DEF Aggregates
  <2>7. /\ AllScored(out, mine, rs) => task.reason # "incomplete_or_ineligible_primary_grid"
        /\ task.reason \in {"none", "small_or_nonpositive_clean_gain"} =>
             /\ AllScored(out, mine, rs)
             /\ \A pair \in mine : NoTouch(out, pair).eligible
    BY <1>5, <2>3, <2>4, <2>6, GainDecides
  <2>8. AllScored(out, pairs, rs) => AllScored(out, mine, rs)
    BY <2>2 DEF AllScored
  <2>9. \A pair \in mine :
          NoTouch(out, pair).eligible <=> ScorableState(results.states[<<pair, NoTouchCell>>])
    BY <1>4, <2>2 DEF NoTouch
  <2> QED BY <1>6, <1>8, <2>1, <2>2, <2>5, <2>7, <2>8, <2>9
<1>11. WorstAgrees(s)
  <2> SUFFICES ASSUME Cardinality(pairs) = 1
               PROVE  The(s.cells[s.worst].rate) =< s.fault
    BY <1>1 DEF WorstAgrees
  <2>1. PICK pair : pairs = {pair}
    BY <1>4, FS_Singleton
  <2> QED BY <1>3, <1>5, <2>1, WorstDecides
<1>12. AdjustmentAgrees(s)
  <2>1. IsFiniteSet(DOMAIN s.cells)
    <3>1. FaultedCells \subseteq cells
      BY DEF FaultedCells
    <3> QED BY <1>5, <1>7, <3>1, FS_Subset DEF Reportable
  <2>2. \A c \in DOMAIN s.cells : s.cells[c].p # {} =>
          \E value : s.cells[c].p = {value} /\ IsRate(value)
    <3> TAKE c \in DOMAIN s.cells
    <3>1. PICK cell : cell = OperatorCell(out, pairs, c)
      OBVIOUS
    <3>2. s.cells[c] = cell
      BY <1>7, <3>1
    <3>3. cell.p # {} => \E value : cell.p = {value} /\ IsRate(value)
      <4>1. PICK P : P = pairs
        OBVIOUS
      <4>2. Reportable(P, rs) /\ cell = OperatorCell(out, P, c)
        BY <1>5, <3>1, <4>1
      <4> QED BY <4>2, OperatorCellIs
    <3> QED BY <3>2, <3>3
  <2>3. PICK table : table = s.cells
    OBVIOUS
  <2>4. \A a, b \in DOMAIN Holm(table) :
              /\ The(table[a].p) =< Holm(table)[a]
              /\ The(table[a].p) =< The(table[b].p) => Holm(table)[a] =< Holm(table)[b]
    BY <2>1, <2>2, <2>3, HolmIs
  <2> QED BY <1>7, <2>3, <2>4 DEF AdjustmentAgrees
<1> QED BY <1>9, <1>10, <1>11, <1>12

\* All of ReportAgrees but MeansAgree, whose equalities need that the means divide.
PartsAgree ==
  stage = "reported" =>
    /\ CoverageAgrees(report, reporting) /\ GainsAgree(report, reporting)
    /\ WorstAgrees(report) /\ AdjustmentAgrees(report)

\* What a report says twice it says once: the coverage is complete exactly when every
\* primary trial was scored (coverage.py:30), a gain is withheld as incomplete only
\* if it is not and reported only over what was scored (coverage.py:95), one matrix
\* has no cell worse than its macro rate but the worst, and Holm's adjustment neither
\* lowers p-values nor changes their order.  The severities of the spec are of the
\* grid, as all registered ones are (contracts.py:87).
THEOREM ReportPartsAgree ==
  ASSUME \A rs \in ReportingSpecs : rs.levels \subseteq GridLevels
  PROVE  ReportSpec => []PartsAgree
<1>1. ReportInit => PartsAgree
  BY DEF ReportInit, Init, PartsAgree
<1>2. BuildInv /\ RunStands /\ PartsAgree /\ [ReportNext]_<<vars, reportVars>>
        => PartsAgree'
  <2> SUFFICES ASSUME BuildInv, RunStands, PartsAgree, [ReportNext]_<<vars, reportVars>>,
                      stage' = "reported"
               PROVE  /\ CoverageAgrees(report, reporting)' /\ GainsAgree(report, reporting)'
                      /\ WorstAgrees(report)' /\ AdjustmentAgrees(report)'
    BY DEF PartsAgree
  <2>1. CASE Build \/ RunMatrices
    BY <2>1 DEF Build, Next, MakeFaults, BuildPoint, RefusePoint, MakeManifest,
                WriteResources, RunMatrices, BuildInv, StagesStand, Building
  <2>2. ASSUME NEW rs \in ReportingSpecs, MakeReport(rs)
        PROVE  /\ CoverageAgrees(report, reporting)' /\ GainsAgree(report, reporting)'
               /\ WorstAgrees(report)' /\ AdjustmentAgrees(report)'
    <3>1. PICK s : s = Aggregate(Outcomes(results), ReportedPairs, rs)
      OBVIOUS
    <3>2. /\ stage = "run" /\ Aggregates(Outcomes(results), ReportedPairs, rs)
          /\ report' = s /\ reporting' = rs /\ cells' = cells /\ results' = results
      BY <2>2, <3>1 DEF MakeReport
    <3>3. CoverageAgrees(s, rs) /\ GainsAgree(s, rs) /\ WorstAgrees(s) /\ AdjustmentAgrees(s)
      BY <3>1, <3>2, SummaryAgrees
    <3>4. CoverageAgrees(report, reporting)'
      BY <3>2, <3>3 DEF CoverageAgrees, ReportedPairs, Primary, FaultedCells
    <3>5. GainsAgree(report, reporting)'
      BY <3>2, <3>3 DEF GainsAgree, ReportedPairs, Primary, FaultedCells
    <3>6. WorstAgrees(report)'
      BY <3>2, <3>3 DEF WorstAgrees, ReportedPairs
    <3>7. AdjustmentAgrees(report)'
      BY <3>2, <3>3 DEF AdjustmentAgrees
    <3> QED BY <3>4, <3>5, <3>6, <3>7
  <2>3. CASE UNCHANGED <<vars, reportVars>>
    <3>1. /\ stage' = stage /\ cells' = cells /\ results' = results
          /\ report' = report /\ reporting' = reporting
      BY <2>3 DEF vars, reportVars
    <3>2. /\ CoverageAgrees(report, reporting) /\ GainsAgree(report, reporting)
          /\ WorstAgrees(report) /\ AdjustmentAgrees(report)
      BY <3>1 DEF PartsAgree
    <3>3. CoverageAgrees(report, reporting)'
      BY <3>1, <3>2 DEF CoverageAgrees, ReportedPairs, Primary, FaultedCells
    <3>4. GainsAgree(report, reporting)'
      BY <3>1, <3>2 DEF GainsAgree, ReportedPairs, Primary, FaultedCells
    <3>5. WorstAgrees(report)' /\ AdjustmentAgrees(report)'
      BY <3>1, <3>2 DEF WorstAgrees, AdjustmentAgrees, ReportedPairs
    <3> QED BY <3>3, <3>4, <3>5
  <2> QED BY <2>1, <2>2, <2>3 DEF ReportNext
<1> QED BY <1>1, <1>2, BuildInvariant, RunsStand, PTL DEF ReportSpec

\* The rest of it.
MeansStand == stage = "reported" => MeansAgree(report)

\* And what it averages in two orders it averages to one value: a paired difference is
\* the difference of the rates it is reported beside (aggregation.py:82), and the macro
\* rate of a complete task, the mean over pairs of means over axes, is the mean of its
\* axis rates, which are means over the pairs (aggregation.py:162).  The unit is so fine
\* that every mean is exact: the unit is the model's, the code's rates are fractions.
THEOREM ReportsAgree ==
  ASSUME \A rs \in ReportingSpecs : rs.levels \subseteq GridLevels, FineUnit
  PROVE  ReportSpec => []ReportAgrees
<1>1. ReportInit => MeansStand
  BY DEF ReportInit, Init, MeansStand
<1>2. BuildInv /\ RunStands /\ MeansStand /\ [ReportNext]_<<vars, reportVars>>
        => MeansStand'
  <2> SUFFICES ASSUME BuildInv, RunStands, MeansStand, [ReportNext]_<<vars, reportVars>>,
                      stage' = "reported"
               PROVE  MeansAgree(report)'
    BY DEF MeansStand
  <2>1. CASE Build \/ RunMatrices
    BY <2>1 DEF Build, Next, MakeFaults, BuildPoint, RefusePoint, MakeManifest,
                WriteResources, RunMatrices, BuildInv, StagesStand, Building
  <2>2. ASSUME NEW rs \in ReportingSpecs, MakeReport(rs) PROVE MeansAgree(report)'
    <3>1. PICK s : s = Aggregate(Outcomes(results), ReportedPairs, rs)
      OBVIOUS
    <3>2. /\ stage = "run" /\ Aggregates(Outcomes(results), ReportedPairs, rs)
          /\ report' = s
      BY <2>2, <3>1 DEF MakeReport
    <3>3. MeansAgree(s)
      BY <3>1, <3>2, SummaryMeans
    <3> QED BY <3>2, <3>3 DEF MeansAgree
  <2>3. CASE UNCHANGED <<vars, reportVars>>
    <3>1. stage' = stage /\ report' = report
      BY <2>3 DEF vars, reportVars
    <3> QED BY <3>1 DEF MeansStand, MeansAgree
  <2> QED BY <2>1, <2>2, <2>3 DEF ReportNext
<1>3. PartsAgree /\ MeansStand => ReportAgrees
  BY Zenon DEF PartsAgree, MeansStand, ReportAgrees
<1> QED BY <1>1, <1>2, <1>3, BuildInvariant, RunsStand, ReportPartsAgree, PTL DEF ReportSpec
=============================================================================
