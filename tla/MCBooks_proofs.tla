--------------------------- MODULE MCBooks_proofs ---------------------------
(***************************************************************************)
(* The properties of the books module, from the theorems of its parts: what *)
(* a part proves for all values of its constants holds of its instance, and *)
(* a behaviour of another part leaves it nothing to keep.                   *)
(***************************************************************************)
EXTENDS MCBooks, FiniteSetTheorems, TLAPS

\* A job that has ended accounts for every hour of its range (runStabilityBackfill).
THEOREM HoursAccountedAlways == Spec => []HoursAccounted
  <1> DEFINE Inv == part = "stability" => Books!StabilityInv
  <1>1. Books!StabilityConstants
    BY DEF Books!StabilityConstants
  <1>2. Init => Inv
    BY <1>1, Books!StabilityFirst DEF Init
  <1>3. Inv /\ [Next]_vars => Inv'
    <2>1. Books!StabilityInv /\ [Books!Stability!Next]_(Books!Stability!vars) => Books!StabilityInv'
      BY <1>1, Books!StabilityStep
    <2> QED
      BY <2>1 DEF Next, vars, Books!Stability!vars
  <1>4. Inv => HoursAccounted
    BY Books!StabilityImplies DEF HoursAccounted
  <1> QED
    BY <1>2, <1>3, <1>4, PTL DEF Spec

\* What the metric watermarks cover was read when it was final (metricWindowCoverage).
THEOREM CoverageHeldAlways == Spec => []CoverageIsHeld
  <1> DEFINE Inv == part = "marks" => Books!MarksInv
  <1>1. Books!MarksConstants
    BY DEF Books!MarksConstants
  <1>2. Init => Inv
    BY <1>1, Books!MarksFirst DEF Init
  <1>3. Inv /\ [Next]_vars => Inv'
    <2>1. Books!MarksInv /\ [Books!Marks!Next]_(Books!Marks!vars) => Books!MarksInv'
      BY <1>1, Books!MarksStep
    <2> QED
      BY <2>1 DEF Next, vars, Books!Marks!vars
  <1>4. Inv => CoverageIsHeld
    BY DEF CoverageIsHeld, Books!MarksInv
  <1> QED
    BY <1>2, <1>3, <1>4, PTL DEF Spec

\* The two windows meet the assumptions of their theorems.
LEMMA WindowConstants ==
  /\ Books!UsageConstants /\ Books!Unrepaired /\ Pair!UsageConstants /\ Pair!Unrepaired
  <1>1. IsFiniteSet({m1}) /\ IsFiniteSet({m1, m2})
    <2>1. IsFiniteSet({m1}) /\ {m1, m2} = {m1} \cup {m2}
      BY FS_Singleton
    <2>2. IsFiniteSet({m1} \cup {m2})
      BY <2>1, FS_AddElement
    <2> QED
      BY <2>1, <2>2
  <1>2. /\ {2, 1, 4} \subseteq Nat \ {0} /\ {0, 1, 2} \subseteq Nat
        /\ 4 % 2 = 0 /\ 1 * 2 <= 2 /\ 1 <= 1 /\ 2 <= 4
    OBVIOUS
  <1>3. Books!IsFiniteSet({m1}) /\ Pair!IsFiniteSet({m1, m2})
    BY <1>1, Zenon DEF IsFiniteSet, Books!IsFiniteSet, Pair!IsFiniteSet
  <1>4. Books!UsageConstants
    BY <1>2, <1>3 DEF Books!UsageConstants
  <1>5. Pair!UsageConstants
    BY <1>2, <1>3 DEF Pair!UsageConstants
  <1> QED
    BY <1>4, <1>5 DEF Books!Unrepaired, Pair!Unrepaired

\* Each window keeps its own invariant, and no step of another part touches it.
LEMMA WindowInv ==
  LET Inv == /\ part = "window" => Books!UsageInv
             /\ part = "pair" => Pair!UsageInv
  IN  (Init => Inv) /\ (Inv /\ [Next]_vars => Inv')
  <1> DEFINE Inv == /\ part = "window" => Books!UsageInv
                    /\ part = "pair" => Pair!UsageInv
  <1>1. Init => Inv
    BY WindowConstants, Books!UsageFirst, Pair!UsageFirst DEF Init
  <1>2. Inv /\ [Next]_vars => Inv'
    <2>1. Books!UsageInv /\ [Books!Usage!Next]_(Books!Usage!vars) => Books!UsageInv'
      BY WindowConstants, Books!UsageStep
    <2>2. Pair!UsageInv /\ [Pair!Usage!Next]_(Pair!Usage!vars) => Pair!UsageInv'
      BY WindowConstants, Pair!UsageStep
    <2> QED
      BY <2>1, <2>2 DEF Next, vars, Books!Usage!vars, Pair!Usage!vars, Books!Usage!stores,
         Pair!Usage!stores
  <1> QED
    BY <1>1, <1>2

\* A backfill cursor stands for an unbroken run of imported hours (usageFactsStatus).
THEOREM CursorsCompleteAlways == Spec => []CursorIsCompletePrefix
  <1> DEFINE Inv == /\ part = "window" => Books!UsageInv
                    /\ part = "pair" => Pair!UsageInv
  <1>1. (Init => Inv) /\ (Inv /\ [Next]_vars => Inv')
    BY WindowInv
  <1>2. Inv => CursorIsCompletePrefix
    BY WindowConstants, Books!UsageImplies, Pair!UsageImplies DEF CursorIsCompletePrefix
  <1> QED
    BY <1>1, <1>2, PTL DEF Spec

\* A member becomes readable only with every hour of the window (publishUsageFactsSnapshot).
THEOREM ReadableWholeAlways == Spec => BecomesReadableWhole
  <1> DEFINE Inv == /\ part = "window" => Books!UsageInv
                    /\ part = "pair" => Pair!UsageInv
  <1>1. (Init => Inv) /\ (Inv /\ [Next]_vars => Inv')
    BY WindowInv
  <1>2. Inv /\ [Next]_vars =>
          [/\ part = "window" => Books!Usage!BecomesReadableWhole
           /\ part = "pair" => Pair!Usage!BecomesReadableWhole]_vars
    <2>1. Books!UsageInv /\ [Books!Usage!Next]_(Books!Usage!vars) =>
            [Books!Usage!BecomesReadableWhole]_(Books!Usage!vars)
      BY WindowConstants, Books!UsageReads
    <2>2. Pair!UsageInv /\ [Pair!Usage!Next]_(Pair!Usage!vars) =>
            [Pair!Usage!BecomesReadableWhole]_(Pair!Usage!vars)
      BY WindowConstants, Pair!UsageReads
    <2> QED
      BY <2>1, <2>2 DEF Next, vars, Books!Usage!vars, Pair!Usage!vars, Books!Usage!stores,
         Pair!Usage!stores
  <1> QED
    BY <1>1, <1>2, PTL DEF Spec, BecomesReadableWhole

\* The histories meet the assumptions of their theorem.
LEMMA HistoriesConstants == Books!HistoryConstants /\ Pair!HistoryConstants /\ Tardy!HistoryConstants
  <1>1. RegisteredAt \in [{m1} -> 0 .. 4] /\ RegisteredAt \in [{m1} -> 0 .. 5]
    BY DEF RegisteredAt
  <1> QED
    BY <1>1 DEF Books!HistoryConstants, Pair!HistoryConstants, Tardy!HistoryConstants

\* What is published is proved, whatever was taken back meanwhile (publishUsageFactFullHistorySnapshot).
THEOREM PublishedProvedAlways == Spec => []PublishedIsProved
  <1> DEFINE Inv == /\ part = "rejoin" => Books!HistoryInv
                    /\ part = "faulty" => Pair!HistoryInv
                    /\ part = "tardy" => Tardy!HistoryInv
  <1>1. Init => Inv
    BY HistoriesConstants, Books!HistoryFirst, Pair!HistoryFirst, Tardy!HistoryFirst DEF Init
  <1>2. Inv /\ [Next]_vars => Inv'
    <2>1. Books!HistoryInv /\ [Books!History!Next]_(Books!History!vars) => Books!HistoryInv'
      BY HistoriesConstants, Books!HistoryStep
    <2>2. Pair!HistoryInv /\ [Pair!History!Next]_(Pair!History!vars) => Pair!HistoryInv'
      BY HistoriesConstants, Pair!HistoryStep
    <2>3. Tardy!HistoryInv /\ [Tardy!History!Next]_(Tardy!History!vars) => Tardy!HistoryInv'
      BY HistoriesConstants, Tardy!HistoryStep
    <2> QED
      BY <2>1, <2>2, <2>3 DEF Next, vars, Books!History!vars, Pair!History!vars, Tardy!History!vars
  <1>3. Inv => PublishedIsProved
    BY HistoriesConstants, Books!HistoryIsProved, Pair!HistoryIsProved, Tardy!HistoryIsProved
       DEF PublishedIsProved
  <1> QED
    BY <1>1, <1>2, <1>3, PTL DEF Spec
=============================================================================
