---------------------------- MODULE DgpsPipeline ----------------------------
(***************************************************************************)
(* Code range DGPS as the library's caller runs it (coreTest.cpp): the     *)
(* base station observes pseudo ranges and computes a correction for each  *)
(* satellite it has located, the rover applies the corrections to its own  *)
(* pseudo ranges and trilaterates from the result.  Between the steps      *)
(* satellites rise and set and their errors drift.                         *)
(*                                                                         *)
(* A std::map from satellite ids is a function on the ids it holds.        *)
(* Distances are integers; how calcSatToStationRange gets them from ECEF   *)
(* coordinates is left out.                                                *)
(***************************************************************************)
EXTENDS Integers

CONSTANTS
  Sats,         (* satellite ids                                           *)
  BaseRange,    (* true distance of each satellite from the base station   *)
  RoverRange,   (* and from the rover                                      *)
  Biases,       (* errors of a pseudo range, shared by base and rover      *)
  MaxChanges    (* bound: changes of the sky                               *)

ASSUME PipelineConstants ==
  /\ BaseRange \in [Sats -> Nat] /\ RoverRange \in [Sats -> Nat]
  /\ Biases \subseteq Int /\ MaxChanges \in Nat

VARIABLES
  sky,          (* satellites above the horizon                            *)
  bias,         (* the current error of each pseudo range                  *)
  pc,           (* the caller's next step                                  *)
  locations,    (* satellites whose position was calculated                *)
  basePseudo,   (* pseudo ranges observed by the base station              *)
  roverPseudo,  (* and by the rover                                        *)
  correction,   (* result of calcSatRangeCorrection                        *)
  corrected,    (* result of applyCorrectionOnPseudoRange                  *)
  wild,         (* satellites whose range trillatPosFromRange read through *)
                (* an end() iterator                                       *)
  baseBias,     (* history: the errors when the base station observed      *)
  roverBias,    (* history: and when the rover did                         *)
  changes       (* counter                                                 *)

vars == <<sky, bias, pc, locations, basePseudo, roverPseudo, correction,
          corrected, wild, baseBias, roverBias, changes>>

NoRanges == [id \in {} |-> 0]
Abs(n) == IF n < 0 THEN -n ELSE n

(* The correction of a located satellite with an observed pseudo range.    *)
Difference(trueRange, pseudoRange) == Abs(trueRange - pseudoRange)

Shared(keys, pseudoRanges) == keys \cap DOMAIN pseudoRanges

(* insert() leaves an entry alone: a map kept from the last round goes stale. *)
calcSatRangeCorrectionReused(satPos, pseudoRanges) ==
  [id \in Shared(satPos, pseudoRanges) |->
     IF id \in DOMAIN correction THEN correction[id]
     ELSE Difference(BaseRange[id], pseudoRanges[id])]
calcSatRangeCorrection(satPos, pseudoRanges) ==
  [id \in Shared(satPos, pseudoRanges) |-> Difference(BaseRange[id], pseudoRanges[id])]

(* The result holds the correction, not a corrected range.                 *)
applyCorrectionDropsZero(corrRanges, pseudoRanges) ==
  [id \in {i \in Shared(DOMAIN corrRanges, pseudoRanges) : corrRanges[i] # 0} |-> corrRanges[id]]
applyCorrectionKeepsAll(corrRanges, pseudoRanges) == corrRanges
applyCorrectionOnPseudoRange(corrRanges, pseudoRanges) ==
  [id \in Shared(DOMAIN corrRanges, pseudoRanges) |-> corrRanges[id]]

(* find() without a check: every located satellite is looked up.           *)
LookedUpPastEnd(satPos, ranges) == (satPos \cup {0}) \ DOMAIN ranges
LookedUpInVain(satPos, ranges) == satPos \ DOMAIN ranges

Observation(seen, place) == [id \in seen |-> place[id] + bias[id]]

Init ==
  /\ sky \in SUBSET Sats /\ bias \in [Sats -> Biases]
  /\ pc = "observe" /\ locations = {}
  /\ basePseudo = NoRanges /\ roverPseudo = NoRanges
  /\ correction = NoRanges /\ corrected = NoRanges
  /\ wild = {} /\ baseBias = bias /\ roverBias = bias /\ changes = 0

(* A satellite rises or sets, or its error drifts.                         *)
SkyChanges ==
  /\ changes < MaxChanges
  /\ changes' = changes + 1
  /\ \E id \in Sats :
       \/ sky' = sky \cup {id} /\ UNCHANGED bias
       \/ sky' = sky \ {id} /\ UNCHANGED bias
       \/ \E b \in Biases : bias' = [bias EXCEPT ![id] = b] /\ UNCHANGED sky
  /\ UNCHANGED <<pc, locations, basePseudo, roverPseudo, correction, corrected,
                 wild, baseBias, roverBias>>

BaseObserves ==
  /\ pc = "observe"
  /\ pc' = "correct"
  /\ locations' = sky
  /\ \E seen \in SUBSET sky : basePseudo' = Observation(seen, BaseRange)
  /\ baseBias' = bias
  /\ UNCHANGED <<sky, bias, roverPseudo, correction, corrected, wild, roverBias,
                 changes>>

CalcSatRangeCorrection ==
  /\ pc = "correct"
  /\ pc' = "apply"
  /\ correction' = calcSatRangeCorrection(locations, basePseudo)
  /\ UNCHANGED <<sky, bias, locations, basePseudo, roverPseudo, corrected, wild,
                 baseBias, roverBias, changes>>

ApplyCorrection ==
  /\ pc = "apply"
  /\ pc' = "trilaterate"
  /\ \E seen \in SUBSET sky : roverPseudo' = Observation(seen, RoverRange)
  /\ roverBias' = bias
  /\ corrected' = applyCorrectionOnPseudoRange(correction, roverPseudo')
  /\ UNCHANGED <<sky, bias, locations, basePseudo, correction, wild, baseBias,
                 changes>>

Trilaterate ==
  /\ pc = "trilaterate"
  /\ pc' = "observe"
  /\ wild' = LookedUpInVain(locations, corrected)
  /\ UNCHANGED <<sky, bias, locations, basePseudo, roverPseudo, correction,
                 corrected, baseBias, roverBias, changes>>

Next == SkyChanges \/ BaseObserves \/ CalcSatRangeCorrection \/ ApplyCorrection
        \/ Trilaterate

Spec == Init /\ [][Next]_vars
-----------------------------------------------------------------------------
TypeOK ==
  /\ sky \subseteq Sats /\ {bias, baseBias, roverBias} \subseteq [Sats -> Biases]
  /\ pc \in {"observe", "correct", "apply", "trilaterate"}
  /\ locations \subseteq Sats /\ wild \subseteq Sats /\ changes \in Nat
  /\ \A ranges \in {basePseudo, roverPseudo, correction, corrected} :
       DOMAIN ranges \subseteq Sats /\ \A id \in DOMAIN ranges : ranges[id] \in Int

(* Whatever rose, set or drifted in this round or an earlier one, a         *)
(* correction, taken with the sign of the error it was made from, leaves    *)
(* the rover's pseudo range off by what that error drifted between the two  *)
(* observations and by nothing else.  Which sign that is abs() forgets.     *)
CorrectionLeavesTheDrift ==
  pc = "trilaterate" =>
    \A id \in DOMAIN corrected : \E sign \in {-1, 1} :
      roverPseudo[id] + sign * correction[id] = RoverRange[id] + (roverBias[id] - baseBias[id])

(* The trilateration reads past the map only for a satellite that the base  *)
(* station or the rover did not observe: no other step loses a satellite.   *)
WildOnlyIfUnobserved ==
  pc = "observe" => wild \cap DOMAIN basePseudo \cap DOMAIN roverPseudo = {}

(* Every range handed to the trilateration belongs to a located satellite   *)
(* that both receivers observed in this round.                              *)
CorrectedAreShared ==
  pc = "trilaterate" =>
    DOMAIN corrected \subseteq locations \cap DOMAIN basePseudo \cap DOMAIN roverPseudo

(* The header's promise: corrections are applied to the pseudo ranges, so   *)
(* with an error that did not change the rover has its true ranges.         *)
CorrectionIsApplied ==
  pc = "trilaterate" =>
    \A id \in DOMAIN corrected :
      corrected[id] \in {roverPseudo[id] + correction[id], roverPseudo[id] - correction[id]}
=============================================================================
