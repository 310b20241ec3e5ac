--------------------------- MODULE LinearAlgebra ---------------------------
(***************************************************************************)
(* The matrix functions of simpleDGps.cpp, on the memory that              *)
(* allocate2Ddouble lays out: a block of rows * cols numbers behind an     *)
(* array of row pointers.  An index past the end of a row reads on in the  *)
(* next one; an index past the last row, or past the block, is outside.    *)
(* Numbers are integers, in whatever unit their user chooses, so nothing   *)
(* is rounded; a quotient is kept as its numerator and its divisor.        *)
(***************************************************************************)
EXTENDS Integers, Functions

Dim == 3                        (* posMTrillatASize                        *)
Indices == 0 .. Dim - 1

SumOverIndices(term(_)) == SumFunction([k \in Indices |-> term(k)])

Cells(rows, cols) == (0 .. rows - 1) \X (0 .. cols - 1)
allocate2Ddouble(rows, cols) ==
  [rows |-> rows, cols |-> cols, at |-> [cell \in Cells(rows, cols) |-> 0]]

Inside(m, i, j) == i < m.rows /\ i * m.cols + j < m.rows * m.cols
At(m, i, j) == m.at[<<i + j \div m.cols, j % m.cols>>]

(* What m[i][j] yields when anything outside a block holds junk.           *)
Read(m, i, j, junk) == IF Inside(m, i, j) THEN At(m, i, j) ELSE junk

transpose2DimMatrix(m, rows, cols) ==
  [rows |-> cols, cols |-> rows,
   at |-> [cell \in Cells(cols, rows) |-> At(m, cell[2], cell[1])]]

(* The comment says square matrices; the inner loop always runs to Dim.    *)
InnerOneTooFar == 0 .. Dim
InnerOneShort == 0 .. Dim - 2
Inner == Indices

multiplyMatrices(a, b, rows, junk) ==
  [rows |-> rows, cols |-> Dim,
   at |-> [cell \in Cells(rows, Dim) |->
             SumFunction([k \in Inner |->
                            Read(a, cell[1], k, junk) * Read(b, k, cell[2], junk)])]]

MultiplyStaysInside(a, b, rows) ==
  \A i \in 0 .. rows - 1, j \in Indices, k \in Inner : Inside(a, i, k) /\ Inside(b, k, j)

multiplyMatrixByVector(m, v, junk) ==
  [i \in Indices |-> SumOverIndices(LAMBDA j : Read(m, i, j, junk) * v[j])]

VectorStaysInside(m) == \A i, j \in Indices : Inside(m, i, j)

Sign(k) == IF k % 2 = 0 THEN 1 ELSE -1

(* Expands along the first row, but never leaves out a row or a column.    *)
clacDeterminant(m, rows) ==
  LET D[n \in 1 .. Dim] ==
        IF n = 1 THEN At(m, 0, 0)
        ELSE SumFunction([f \in 0 .. n - 1 |-> Sign(f) * At(m, 0, f) * D[n - 1]])
  IN  D[rows]

calcAdjoint(m, rows) ==
  [rows |-> rows, cols |-> Dim,
   at |-> [cell \in Cells(rows, Dim) |->
             Sign(cell[1] + cell[2]) * clacDeterminant(m, Dim - 1)]]

(* d in units of 1 / one, cut towards zero.                                *)
CutTo(d, one) == IF d >= 0 THEN d \div one ELSE -((-d) \div one)

(* A double stored in an int of values -IntMax - 1 .. IntMax, where the     *)
(* double is d in units of 1 / one: what is behind the point is lost, and   *)
(* one that does not fit may become anything.                               *)
Ints(IntMax) == -IntMax - 1 .. IntMax
ToInt(d, one, IntMax) ==
  IF CutTo(d, one) \in Ints(IntMax) THEN {CutTo(d, one)} ELSE Ints(IntMax)

(* The null pointer that stands for the inverse of a singular matrix.      *)
NullMatrix == [rows |-> 0, cols |-> 0, at |-> [cell \in {} |-> 0]]

InverseIfPositive(m, rows, det) == IF det <= 0 THEN NullMatrix ELSE calcAdjoint(m, rows)

(* adj(A) / det(A), as its numerator: a null pointer if det is 0.          *)
calcInverse(m, rows, det) == IF det = 0 THEN NullMatrix ELSE calcAdjoint(m, rows)
-----------------------------------------------------------------------------
(* Reference definitions, for matrices of Dim columns.                     *)

Determinant(m) ==
  LET minor(j, k) == At(m, 1, j) * At(m, 2, k) - At(m, 1, k) * At(m, 2, j)
  IN  At(m, 0, 0) * minor(1, 2) - At(m, 0, 1) * minor(0, 2) + At(m, 0, 2) * minor(0, 1)

Gram(m) == [cell \in Cells(Dim, Dim) |->
              SumOverIndices(LAMBDA i : At(m, i, cell[1]) * At(m, i, cell[2]))]
=============================================================================
