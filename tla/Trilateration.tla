--------------------------- MODULE Trilateration ---------------------------
(***************************************************************************)
(* trillatPosFromRange and leastSquareReg (simpleDGps.cpp): one call on    *)
(* the satellites and ranges a caller chooses (calls share no state), one  *)
(* action per iteration of the loop over the satellites and per matrix     *)
(* function called.  Where the code leaves its memory, what it reads is    *)
(* any value of Junk, and a write changes nothing else of the call, or the *)
(* process crashes.                                                        *)
(*                                                                         *)
(* Of a range only its square is used, so ranges holds the squares.        *)
(* Lengths are integers, in units of one Unit-th of a kilometre.           *)
(***************************************************************************)
EXTENDS LinearAlgebra, FiniteSets, Sequences

CONSTANTS
  Ids,          (* satellite ids                                           *)
  Positions,    (* ECEF positions satellites may have, as <<x, y, z>>      *)
  Places,       (* positions of the user, Radius from the earth's centre   *)
  Radius,       (* EARTH_RADIUS_KM                                         *)
  Unit,         (* how many units make a kilometre                         *)
  IntMax,       (* the largest int                                         *)
  Junk          (* values found outside the program's objects              *)

Square(p) == p[1] * p[1] + p[2] * p[2] + p[3] * p[3]

(* The places lie on the sphere the equations are linearised with.         *)
ASSUME TrilaterationConstants ==
  /\ Ids \subseteq Nat /\ IsFiniteSet(Ids)
  /\ Radius \in Nat /\ Unit \in Nat \ {0} /\ IntMax \in Nat /\ Junk \subseteq Int
  /\ \A p \in Positions \cup Places : p \in Int \X Int \X Int
  /\ \A p \in Places : Square(p) = Radius * Radius

VARIABLES
  pc,           (* the statement about to run                              *)
  place,        (* history: where the user really is                       *)
  finalSatPos,  (* satellites with their positions                         *)
  finalSatRanges,
  todo,         (* satellites the loop has not reached                     *)
  i,            (* the row the loop fills next                             *)
  matrixA, vectorB, matrixATransposed, matrixATransposedA,
  det,          (* calcInverse: int det                                    *)
  matrixATransposedAInverse,
  matrixATransposedAAdd,
  vectorRes,    (* the local array of multiplyMatrixByVector               *)
  finalECEF,    (* what trillatPosFromRange reads through the pointer to it *)
  faults        (* history: ways in which this call left its memory        *)

inputs == <<place, finalSatPos, finalSatRanges>>
normal == <<matrixA, vectorB, matrixATransposed, matrixATransposedA>>
solved == <<det, matrixATransposedAInverse, matrixATransposedAAdd, vectorRes>>
vars   == <<pc, todo, i, finalECEF, faults, inputs, normal, solved>>

nSat == Cardinality(DOMAIN finalSatPos)
SquareDistance(p, q) == Square(<<p[1] - q[1], p[2] - q[2], p[3] - q[3]>>)
ZeroVector == [k \in Indices |-> 0]

Init ==
  /\ pc = "call" /\ place \in Places
  /\ finalSatPos = [id \in {} |-> 0] /\ finalSatRanges = [id \in {} |-> 0]
  /\ todo = {} /\ i = 0
  /\ matrixA = NullMatrix /\ vectorB = ZeroVector
  /\ matrixATransposed = NullMatrix /\ matrixATransposedA = NullMatrix
  /\ det = 0 /\ matrixATransposedAInverse = NullMatrix
  /\ matrixATransposedAAdd = NullMatrix
  /\ vectorRes = ZeroVector /\ finalECEF = ZeroVector /\ faults = {}

(* trillatPosFromRange: exact ranges, of all satellites or all but one.    *)
Call ==
  /\ pc = "call"
  /\ \E ids \in SUBSET Ids :
       /\ finalSatPos' \in [ids -> Positions]
       /\ \E missing \in {{}} \cup {{id} : id \in ids} :
            finalSatRanges' = [id \in ids \ missing |->
                                 SquareDistance(finalSatPos'[id], place)]
       /\ todo' = ids
       /\ matrixA' = allocate2Ddouble(Cardinality(ids), Dim)
  /\ pc' = "fill"
  /\ UNCHANGED <<place, i, finalECEF, faults, vectorB, matrixATransposed,
                 matrixATransposedA, solved>>

(* What the statement at pc is about to do outside its memory.             *)
MapIterator == CHOOSE id \in todo : \A other \in todo : id <= other

Filling == pc = "fill" /\ todo # {}

Fault(kind) ==
  \/ kind = "end iterator" /\ Filling /\ MapIterator \notin DOMAIN finalSatRanges
  \/ kind = "vectorB" /\ Filling /\ i >= Dim
  \/ kind = "row" /\ pc = "normal" /\ ~MultiplyStaysInside(matrixATransposed, matrixA, Dim)
  \/ kind = "null" /\ pc = "pseudo" /\ matrixATransposedAInverse = NullMatrix /\ nSat > 0
  \/ kind = "row" /\ pc = "pseudo" /\ matrixATransposedAInverse # NullMatrix
       /\ ~MultiplyStaysInside(matrixATransposedAInverse, matrixATransposed, nSat)
  \/ kind = "row" /\ pc = "vector" /\ ~VectorStaysInside(matrixATransposedAAdd)
  \/ kind = "dangling" /\ pc = "return"

Kinds == {"end iterator", "vectorB", "row", "null", "dangling"}
Faults == {kind \in Kinds : Fault(kind)}
Record == faults' = faults \cup Faults

(* Am, Bm, Cm and Dm of a satellite.                                       *)
CoefficientHalved(x) == -x
Coefficient(x) == -2 * x
Constant(p, range2) == Radius * Radius + Square(p) - range2

FillRow ==
  /\ Filling
  /\ \E junk \in Junk :
       LET id == MapIterator
           p == finalSatPos[id]
           range2 == IF id \in DOMAIN finalSatRanges THEN finalSatRanges[id] ELSE junk * junk
       IN  /\ matrixA' = [matrixA EXCEPT !.at =
                            [cell \in DOMAIN @ |-> IF cell[1] = i THEN Coefficient(p[cell[2] + 1])
                                                   ELSE @[cell]]]
           /\ vectorB' = [k \in Indices |-> IF k = i THEN Constant(p, range2) ELSE vectorB[k]]
           /\ todo' = todo \ {id}
  /\ i' = i + 1
  /\ pc' = IF todo' = {} THEN "transpose" ELSE "fill"
  /\ Record
  /\ UNCHANGED <<finalECEF, inputs, matrixATransposed, matrixATransposedA, solved>>

(* Without satellites the loop does not run at all.                        *)
NoRows ==
  /\ pc = "fill" /\ todo = {}
  /\ pc' = "transpose"
  /\ UNCHANGED <<todo, i, finalECEF, faults, inputs, normal, solved>>

Transpose ==
  /\ pc = "transpose"
  /\ matrixATransposed' = transpose2DimMatrix(matrixA, nSat, Dim)
  /\ pc' = "normal"
  /\ UNCHANGED <<todo, i, finalECEF, faults, inputs, matrixA, vectorB,
                 matrixATransposedA, solved>>

MultiplyNormal ==
  /\ pc = "normal"
  /\ \E junk \in Junk :
       matrixATransposedA' = multiplyMatrices(matrixATransposed, matrixA, Dim, junk)
  /\ pc' = "invert"
  /\ Record
  /\ UNCHANGED <<todo, i, finalECEF, inputs, matrixA, vectorB, matrixATransposed, solved>>

(* A determinant of normal equations is a product of six lengths.          *)
One == Unit * Unit * Unit * Unit * Unit * Unit

CalcInverse ==
  /\ pc = "invert"
  /\ det' \in ToInt(clacDeterminant(matrixATransposedA, Dim), One, IntMax)
  /\ matrixATransposedAInverse' = calcInverse(matrixATransposedA, nSat, det')
  /\ pc' = "pseudo"
  /\ UNCHANGED <<todo, i, finalECEF, faults, inputs, normal, matrixATransposedAAdd,
                 vectorRes>>

(* A null pointer cannot be read: only Crash goes on from there.           *)
MultiplyPseudo ==
  /\ pc = "pseudo" /\ "null" \notin Faults
  /\ \E junk \in Junk :
       matrixATransposedAAdd' =
         multiplyMatrices(matrixATransposedAInverse, matrixATransposed, nSat, junk)
  /\ pc' = "vector"
  /\ Record
  /\ UNCHANGED <<todo, i, finalECEF, inputs, normal, det, matrixATransposedAInverse,
                 vectorRes>>

MultiplyVector ==
  /\ pc = "vector"
  /\ \E junk \in Junk :
       vectorRes' = multiplyMatrixByVector(matrixATransposedAAdd, vectorB, junk)
  /\ pc' = "return"
  /\ Record
  /\ UNCHANGED <<todo, i, finalECEF, inputs, normal, det, matrixATransposedAInverse,
                 matrixATransposedAAdd>>

(* finalECEF points into the frame of a function that has returned.        *)
ReadResult ==
  /\ pc = "return"
  /\ \/ finalECEF' = vectorRes
     \/ \E junk \in Junk : finalECEF' = [k \in Indices |-> junk]
  /\ pc' = "done"
  /\ Record
  /\ UNCHANGED <<todo, i, inputs, normal, solved>>

Crash ==
  /\ Faults # {}
  /\ pc' = "crashed"
  /\ Record
  /\ UNCHANGED <<todo, i, finalECEF, inputs, normal, solved>>

Next == Call \/ FillRow \/ NoRows \/ Transpose \/ MultiplyNormal \/ CalcInverse
        \/ MultiplyPseudo \/ MultiplyVector \/ ReadResult \/ Crash

Spec == Init /\ [][Next]_vars
-----------------------------------------------------------------------------
(* Properties                                                              *)

After(step) ==
  LET order == <<"call", "fill", "transpose", "normal", "invert", "pseudo", "vector",
                 "return", "done">>
  IN  \E k \in 1 .. Len(order) : order[k] = step /\ \E l \in k + 1 .. Len(order) : pc = order[l]

AllRangesKnown == DOMAIN finalSatRanges = DOMAIN finalSatPos

(* With exactly three satellites every loop stays inside every matrix, and *)
(* inside vectorB; nothing but the lookup of a missing range, an inverse    *)
(* that does not exist and the pointer returned can go wrong.               *)
ThreeStayInside == nSat = 3 => faults \cap {"row", "vectorB"} = {}

(* Each row is the equation of its satellite's sphere, up to the sign of    *)
(* the right hand side: with exact ranges the rows are satisfied by the     *)
(* point opposite the user, for any satellites in any order of ids.         *)
RowsDescribeAntipode ==
  After("fill") /\ AllRangesKnown =>
    \A row \in 0 .. nSat - 1 : row < Dim =>
      SumOverIndices(LAMBDA j : At(matrixA, row, j) * place[j + 1]) = -vectorB[row]

(* Transposing and multiplying three rows gives the matrix of the normal    *)
(* equations.                                                               *)
NormalEquations ==
  After("normal") /\ nSat = 3 => matrixATransposedA.at = Gram(matrixA)

(* "Recursive function for finding determinant of matrix."                  *)
DeterminantFound ==
  After("normal") /\ nSat = 3 =>
    clacDeterminant(matrixATransposedA, Dim) = Determinant(matrixATransposedA)

(* The null pointer that stands for "singular" is read, as leastSquareReg   *)
(* never looks: for a determinant, as it is computed, of less than 1        *)
(* either way, which the int loses, and perhaps for one too large for an    *)
(* int, but for no other; and with satellites a matrix whose determinant    *)
(* is less than 1 never gets any further.                                   *)
SmallIsSingular ==
  LET d == clacDeterminant(matrixATransposedA, Dim)
      small == -One < d /\ d < One
      fits  == -(IntMax + 2) * One < d /\ d < (IntMax + 1) * One
  IN  /\ "null" \in faults /\ pc # "call" => small \/ ~fits
      /\ After("pseudo") /\ nSat > 0 => ~small

(* "returns position": the position returned is the one that was computed.  *)
ReturnsTheResult == pc = "done" => finalECEF = vectorRes
=============================================================================
