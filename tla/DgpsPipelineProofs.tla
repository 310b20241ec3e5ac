------------------------- MODULE DgpsPipelineProofs -------------------------
(* Theorems about DgpsPipeline, for any satellites, ranges and errors.     *)
EXTENDS DgpsPipeline, TLAPS

(* The maps the steps of a round leave behind.                             *)
Observed ==
  /\ DOMAIN basePseudo \subseteq Sats
  /\ \A id \in DOMAIN basePseudo : basePseudo[id] = BaseRange[id] + baseBias[id]

ObservedByRover ==
  /\ DOMAIN roverPseudo \subseteq Sats
  /\ \A id \in DOMAIN roverPseudo : roverPseudo[id] = RoverRange[id] + roverBias[id]

Corrections ==
  /\ DOMAIN correction = locations \cap DOMAIN basePseudo
  /\ \A id \in DOMAIN correction : correction[id] = Abs(baseBias[id])

RoundInv ==
  /\ sky \subseteq Sats /\ locations \subseteq Sats
  /\ {bias, baseBias, roverBias} \subseteq [Sats -> Biases]
  /\ pc \in {"observe", "correct", "apply", "trilaterate"}
  /\ pc = "correct" => Observed
  /\ pc \in {"apply", "trilaterate"} => Corrections
  /\ pc = "trilaterate" =>
       ObservedByRover /\ DOMAIN corrected = DOMAIN correction \cap DOMAIN roverPseudo
  /\ WildOnlyIfUnobserved

(* |r - (r + b)| is |b|.                                                   *)
LEMMA DifferenceIsError ==
  ASSUME NEW r \in Int, NEW b \in Int
  PROVE  Difference(r, r + b) = Abs(b)
BY DEF Difference, Abs

LEMMA RoundInit == Init => RoundInv
BY DEF Init, RoundInv, WildOnlyIfUnobserved

LEMMA RoundStep == RoundInv /\ [Next]_vars => RoundInv'
<1> SUFFICES ASSUME RoundInv, [Next]_vars PROVE RoundInv'
  OBVIOUS
<1> USE DEF RoundInv
<1>1. CASE SkyChanges
  <2>1. sky' \subseteq Sats /\ bias' \in [Sats -> Biases]
    BY <1>1 DEF SkyChanges
  <2>2. QED
    BY <1>1, <2>1 DEF SkyChanges, Observed, ObservedByRover, Corrections, WildOnlyIfUnobserved
<1>2. CASE BaseObserves
  <2>1. PICK seen \in SUBSET sky : basePseudo' = [id \in seen |-> BaseRange[id] + bias[id]]
    BY <1>2 DEF BaseObserves, Observation
  <2>2. Observed'
    BY <1>2, <2>1 DEF BaseObserves, Observed
  <2>3. QED
    BY <1>2, <2>2 DEF BaseObserves, WildOnlyIfUnobserved
<1>3. CASE CalcSatRangeCorrection
  <2>1. correction' = [id \in locations \cap DOMAIN basePseudo |->
                         Difference(BaseRange[id], basePseudo[id])]
    BY <1>3 DEF CalcSatRangeCorrection, calcSatRangeCorrection, Shared
  <2>2. ASSUME NEW id \in locations \cap DOMAIN basePseudo
        PROVE  Difference(BaseRange[id], basePseudo[id]) = Abs(baseBias[id])
    <3>1. BaseRange[id] \in Int /\ baseBias[id] \in Int
      <4>1. id \in Sats
        OBVIOUS
      <4>2. BaseRange[id] \in Nat /\ baseBias[id] \in Biases
        BY <4>1, PipelineConstants
      <4>3. Biases \subseteq Int
        BY PipelineConstants
      <4>4. baseBias[id] \in Int
        BY <4>2, <4>3, Zenon
      <4>5. QED
        BY <4>2, <4>4
    <3>2. basePseudo[id] = BaseRange[id] + baseBias[id]
      BY <1>3 DEF CalcSatRangeCorrection, Observed
    <3>3. QED
      BY <3>1, <3>2, DifferenceIsError
  <2>3. Corrections'
    BY <1>3, <2>1, <2>2 DEF CalcSatRangeCorrection, Corrections
  <2>4. QED
    BY <1>3, <2>3 DEF CalcSatRangeCorrection, WildOnlyIfUnobserved
<1>4. CASE ApplyCorrection
  <2>1. DOMAIN corrected' = DOMAIN correction \cap DOMAIN roverPseudo'
    BY <1>4 DEF ApplyCorrection, applyCorrectionOnPseudoRange, Shared
  <2>2. PICK seen \in SUBSET sky : roverPseudo' = [id \in seen |-> RoverRange[id] + bias[id]]
    BY <1>4 DEF ApplyCorrection, Observation
  <2>3. ObservedByRover'
    BY <1>4, <2>2 DEF ApplyCorrection, ObservedByRover
  <2>4. QED
    BY <1>4, <2>1, <2>3 DEF ApplyCorrection, Corrections, WildOnlyIfUnobserved
<1>5. CASE Trilaterate
  BY <1>5 DEF Trilaterate, LookedUpInVain, Corrections, WildOnlyIfUnobserved
<1>6. CASE UNCHANGED vars
  BY <1>6 DEF vars, Observed, ObservedByRover, Corrections, WildOnlyIfUnobserved
<1>7. QED
  BY <1>1, <1>2, <1>3, <1>4, <1>5, <1>6 DEF Next

LEMMA RoundCorrect == Spec => []RoundInv
BY RoundInit, RoundStep, PTL DEF Spec

(* r + e and the size of an error b, taken with its sign, are r + (e - b).  *)
LEMMA SignRemovesError ==
  ASSUME NEW r \in Int, NEW e \in Int, NEW b \in Int
  PROVE  \E sign \in {-1, 1} : (r + e) + sign * Abs(b) = r + (e - b)
<1>1. CASE b < 0
  <2>1. (r + e) + 1 * Abs(b) = r + (e - b)
    BY <1>1 DEF Abs
  <2>2. QED
    BY <2>1
<1>2. CASE ~(b < 0)
  <2>1. (r + e) + (-1) * Abs(b) = r + (e - b)
    BY <1>2 DEF Abs
  <2>2. QED
    BY <2>1
<1>3. QED
  BY <1>1, <1>2

(* A correction, with the sign of the error it was made from, leaves the   *)
(* rover off by the drift between the two observations and nothing else,   *)
(* whatever drifted, rose or set in this round or an earlier one.          *)
THEOREM DriftIsLeft == Spec => []CorrectionLeavesTheDrift
<1>1. RoundInv => CorrectionLeavesTheDrift
  <2> SUFFICES ASSUME RoundInv, pc = "trilaterate", NEW id \in DOMAIN corrected
               PROVE  \E sign \in {-1, 1} : roverPseudo[id] + sign * correction[id]
                                            = RoverRange[id] + (roverBias[id] - baseBias[id])
    BY DEF CorrectionLeavesTheDrift
  <2>1. /\ id \in Sats
        /\ roverPseudo[id] = RoverRange[id] + roverBias[id]
        /\ correction[id] = Abs(baseBias[id])
    BY DEF RoundInv, Corrections, ObservedByRover
  <2>2. RoverRange[id] \in Int
    BY <2>1, PipelineConstants
  <2>3. roverBias[id] \in Biases /\ baseBias[id] \in Biases
    BY <2>1 DEF RoundInv
  <2>4. roverBias[id] \in Int /\ baseBias[id] \in Int
    BY <2>3, PipelineConstants, Zenon
  <2>5. QED
    BY <2>1, <2>2, <2>4, SignRemovesError
<1>2. QED
  BY <1>1, RoundCorrect, PTL

(* Only a satellite that one of the receivers missed makes the             *)
(* trilateration read through an end iterator.                             *)
THEOREM WildReads == Spec => []WildOnlyIfUnobserved
<1>1. RoundInv => WildOnlyIfUnobserved
  BY DEF RoundInv
<1>2. QED
  BY <1>1, RoundCorrect, PTL

(* Only satellites that were located and that both receivers observed in   *)
(* this round reach the trilateration with a range.                        *)
THEOREM SharedOnly == Spec => []CorrectedAreShared
<1>1. RoundInv => CorrectedAreShared
  BY DEF RoundInv, Corrections, CorrectedAreShared
<1>2. QED
  BY <1>1, RoundCorrect, PTL
-----------------------------------------------------------------------------
(* A map from satellites, and what the steps make of such maps.            *)
IsMap(ranges, values) ==
  DOMAIN ranges \subseteq Sats /\ \A id \in DOMAIN ranges : ranges[id] \in values

LEMMA ObservationIsMap ==
  ASSUME NEW seen \in SUBSET Sats, NEW place \in [Sats -> Nat], bias \in [Sats -> Biases]
  PROVE  IsMap(Observation(seen, place), Int)
<1>1. ASSUME NEW id \in seen
      PROVE  place[id] + bias[id] \in Int
  <2>1. id \in Sats
    OBVIOUS
  <2>2. place[id] \in Nat /\ bias[id] \in Biases
    BY <2>1
  <2>3. bias[id] \in Int
    BY <2>2, PipelineConstants, Zenon
  <2>4. QED
    BY <2>2, <2>3
<1>2. QED
  BY <1>1 DEF Observation, IsMap

LEMMA CorrectionIsMap ==
  ASSUME NEW ranges, IsMap(ranges, Int), NEW satPos \in SUBSET Sats
  PROVE  IsMap(calcSatRangeCorrection(satPos, ranges), Int)
<1>1. ASSUME NEW id \in Shared(satPos, ranges)
      PROVE  Difference(BaseRange[id], ranges[id]) \in Int
  <2>1. id \in Sats /\ ranges[id] \in Int
    BY DEF Shared, IsMap
  <2>2. BaseRange[id] \in Nat
    BY <2>1, PipelineConstants
  <2>3. QED
    BY <2>1, <2>2 DEF Difference, Abs
<1>2. Shared(satPos, ranges) \subseteq Sats
  BY DEF Shared
<1>3. QED
  BY <1>1, <1>2 DEF calcSatRangeCorrection, IsMap

LEMMA CorrectedIsMap ==
  ASSUME NEW corrRanges, NEW ranges, IsMap(corrRanges, Int)
  PROVE  IsMap(applyCorrectionOnPseudoRange(corrRanges, ranges), Int)
BY DEF applyCorrectionOnPseudoRange, Shared, IsMap

PipelineTypes ==
  /\ sky \subseteq Sats /\ {bias, baseBias, roverBias} \subseteq [Sats -> Biases]
  /\ pc \in {"observe", "correct", "apply", "trilaterate"}
  /\ locations \subseteq Sats /\ wild \subseteq Sats /\ changes \in Nat
  /\ IsMap(basePseudo, Int) /\ IsMap(roverPseudo, Int)
  /\ IsMap(correction, Int) /\ IsMap(corrected, Int)

LEMMA PipelineTypesInit == Init => PipelineTypes
<1>1. \A values : IsMap(NoRanges, values)
  BY DEF NoRanges, IsMap
<1>2. QED
  BY <1>1 DEF Init, PipelineTypes

LEMMA PipelineTypesStep == PipelineTypes /\ [Next]_vars => PipelineTypes'
<1> SUFFICES ASSUME PipelineTypes, [Next]_vars PROVE PipelineTypes'
  OBVIOUS
<1> USE DEF PipelineTypes
<1>1. CASE SkyChanges
  <2>1. sky' \subseteq Sats /\ bias' \in [Sats -> Biases]
    BY <1>1 DEF SkyChanges
  <2>2. changes' \in Nat
    BY <1>1 DEF SkyChanges
  <2>3. QED
    BY <1>1, <2>1, <2>2 DEF SkyChanges, IsMap
<1>2. CASE BaseObserves
  <2>1. IsMap(basePseudo', Int)
    BY <1>2, ObservationIsMap, PipelineConstants DEF BaseObserves
  <2>2. QED
    BY <1>2, <2>1 DEF BaseObserves, IsMap
<1>3. CASE CalcSatRangeCorrection
  <2>1. IsMap(correction', Int)
    BY <1>3, CorrectionIsMap DEF CalcSatRangeCorrection
  <2>2. QED
    BY <1>3, <2>1 DEF CalcSatRangeCorrection, IsMap
<1>4. CASE ApplyCorrection
  <2>1. IsMap(roverPseudo', Int)
    BY <1>4, ObservationIsMap, PipelineConstants DEF ApplyCorrection
  <2>2. IsMap(corrected', Int)
    BY <1>4, CorrectedIsMap DEF ApplyCorrection
  <2>3. QED
    BY <1>4, <2>1, <2>2 DEF ApplyCorrection, IsMap
<1>5. CASE Trilaterate
  BY <1>5 DEF Trilaterate, LookedUpInVain, IsMap
<1>6. CASE UNCHANGED vars
  BY <1>6 DEF vars, IsMap
<1>7. QED
  BY <1>1, <1>2, <1>3, <1>4, <1>5, <1>6 DEF Next

(* Every map of the pipeline stays a map from satellite ids to numbers, and *)
(* only satellites are located and looked up.                              *)
THEOREM PipelineTypeCorrect == Spec => []TypeOK
<1>1. PipelineTypes => TypeOK
  BY DEF PipelineTypes, TypeOK, IsMap
<1>2. QED
  BY <1>1, PipelineTypesInit, PipelineTypesStep, PTL DEF Spec
=============================================================================
