-------------------------- MODULE LineReaderProofs --------------------------
(***************************************************************************)
(* What LineReader guarantees for every block length and every file: its   *)
(* cursors stay inside the blocks, its assertions hold, what the scan may  *)
(* see of the worker's block does not matter, neither thread waits for one *)
(* that is gone, and it implements LineSource.                             *)
(***************************************************************************)
EXTENDS LineReader, TLAPS, WellFoundedInduction

(* The cursors: what they delimit, and that a line is only looked for from *)
(* the first block on.                                                     *)
Cursors ==
  /\ data_begin <= data_end
  /\ pc = "open" => data_end = 0
  /\ pc \in {"finish", "asleep"} => data_end <= BlockLen
  /\ pc \in {"finish", "asleep", "copy", "restart", "scan"}
       => data_begin < BlockLen /\ data_begin < data_end

(* Where the caller is when there is a worker, and when it is told to stop. *)
Phases ==
  /\ worker = "none" <=> ~(valid /\ threaded)
  /\ pc \in {"open", "failed"} =>
       ~valid /\ desired_byte_count = None /\ read_byte_count = None /\ ~read_error
  /\ pc \in {"start", "finish", "asleep", "copy", "restart", "stop", "join"} => valid
  /\ pc \in {"asleep", "stop", "join"} => threaded
  /\ termination_requested => pc \in {"join", "closed"}
  /\ pc = "join" => termination_requested
  /\ pc = "closed" => worker \in {"none", "exited"}
  /\ ~alive => pc = "closed"

(* A read that was asked for is answered, is being answered or can still   *)
(* be: what the caller may wait for. After the last there is nothing that  *)
(* would make it ask again.                                                *)
Served ==
  \/ read_byte_count # None \/ read_error
  \/ desired_byte_count = BlockLen /\ worker \in {"awake", "reading"}
Drained == worker = "exited" /\ (data_end <= BlockLen \/ data_begin = data_end)

(* The handshake over the condition variables.                             *)
Handshake ==
  /\ worker = "asleep" => desired_byte_count = None /\ ~termination_requested
  /\ worker = "reading" => desired_byte_count = BlockLen /\ ~termination_requested
  /\ read_byte_count # None => desired_byte_count = None
  /\ read_error => read_byte_count = None /\ worker = "exited"
  /\ pc = "start" => /\ worker # "exited" /\ ~read_error
                     /\ desired_byte_count = None /\ read_byte_count = None
  /\ threaded /\ pc \in {"copy", "restart"} =>
       read_byte_count # None /\ (worker = "exited" => data_end <= BlockLen)
  /\ threaded /\ pc = "finish" => Served
  /\ pc = "asleep" => desired_byte_count = BlockLen /\ worker \in {"awake", "reading"}
  /\ valid /\ threaded /\ pc \in {"idle", "scan"} => Served \/ Drained
  /\ valid /\ ~threaded /\ pc # "start" => desired_byte_count = BlockLen
  /\ worker = "exited" /\ ~termination_requested /\ read_byte_count # None
       => read_byte_count = 0

Inv == TypeOK /\ Cursors /\ Phases /\ Handshake

-----------------------------------------------------------------------------
(* What the steps are built from                                           *)

Less == {ss \in Nat \X Nat : ss[1] < ss[2]}

(* A set of natural numbers that is not empty has a smallest one.          *)
LEMMA SmallestExists ==
  ASSUME NEW S \in SUBSET Nat, S # {}
  PROVE  \E x \in S : \A y \in S : x <= y
<1>1. IsWellFoundedOn(Less, Nat)
  BY NatLessThanWellFounded DEF OpToRel, Less
<1>2. PICK x \in S : \A y \in S : ~(<<y, x>> \in Less)
  BY <1>1, WFMin
<1>3. ASSUME NEW y \in S PROVE x <= y
  <2>1. <<y, x>> \in Nat \X Nat /\ <<y, x>>[1] = y /\ <<y, x>>[2] = x
    OBVIOUS
  <2>2. ~(y < x)
    BY <2>1, <1>2 DEF Less
  <2> QED BY <2>2
<1> QED BY <1>3

(* A file has a length, and the numbers up to it are its positions.        *)
LEMMA Positions ==
  ASSUME TypeOK
  PROVE  /\ Len(file) \in Nat /\ offset \in Nat /\ offset <= Len(file)
         /\ DOMAIN file = 1 .. Len(file) /\ 1 .. Len(file) \subseteq Bytes
<1>1. Len(file) \in Nat /\ DOMAIN file = 1 .. Len(file)
  BY LineReaderConstants DEF TypeOK
<1>2. DOMAIN file \in {DOMAIN f : f \in Files}
  BY DEF TypeOK
<1> QED BY <1>1, <1>2 DEF TypeOK, Bytes

(* A block holds at least one byte, for the mark must fit.                 *)
LEMMA BlockLenPositive == BlockLen \in Nat /\ BlockLen >= 1 /\ MaxCalls \in Nat
  BY LineReaderConstants

(* A read gives at most what was asked for and at most what is left.       *)
LEMMA AvailableRange ==
  ASSUME TypeOK, NEW n \in Nat
  PROVE  /\ Available(n) \in 0 .. n
         /\ offset + Available(n) \in offset .. Len(file)
  BY Positions DEF Available

(* A buffer that a read has filled holds positions of the file.            *)
LEMMA FilledType ==
  ASSUME TypeOK, NEW from \in Nat, NEW n \in Nat, offset + n <= Len(file)
  PROVE  Filled(buffer, from, n) \in [0 .. 3 * BlockLen - 1 -> Bytes]
<1>1. ASSUME NEW i \in from .. from + n - 1
      PROVE  offset + i - from + 1 \in Bytes
  <2>1. offset + i - from + 1 \in 1 .. Len(file)
    BY Positions
  <2> QED BY <2>1, Positions
<1>2. DOMAIN buffer = 0 .. 3 * BlockLen - 1
  BY DEF TypeOK
<1>3. \A i \in 0 .. 3 * BlockLen - 1 : buffer[i] \in Bytes
  BY DEF TypeOK
<1>4. ASSUME NEW i \in 0 .. 3 * BlockLen - 1
      PROVE  (IF i \in from .. from + n - 1
                THEN offset + i - from + 1 ELSE buffer[i]) \in Bytes
  BY <1>1, <1>3
<1> QED BY <1>2, <1>4 DEF Filled

(* The scan ends at a line break or at data_end, wherever that is.         *)
LEMMA LineEndRange ==
  ASSUME TypeOK, data_begin <= data_end, NEW racy \in BOOLEAN
  PROVE  /\ LineEnd(racy) \in data_begin .. data_end
         /\ Holds(LineEnd(racy), LF) \/ LineEnd(racy) = data_end
         /\ \A i \in data_begin .. LineEnd(racy) - 1 : ~Holds(i, LF)
<1> DEFINE S == {e \in data_begin .. data_end : Holds(e, LF) \/ e = data_end}
<1>1. data_begin \in Nat /\ data_end \in Nat
  BY BlockLenPositive DEF TypeOK
<1>2. S \in SUBSET Nat /\ S # {}
  BY <1>1
<1>3. PICK x \in S : \A y \in S : x <= y
  BY <1>2, SmallestExists
<1>4. x \in data_begin .. data_end /\ (Holds(x, LF) \/ x = data_end)
  OBVIOUS
<1>5. ASSUME NEW i \in data_begin .. x - 1, Holds(i, LF) PROVE FALSE
  <2>1. i \in S
    BY <1>1, <1>4, <1>5
  <2> QED BY <2>1, <1>1, <1>3
<1> HIDE DEF S
<1>6. \A i \in data_begin .. data_end - 1 : IsBreak(i, racy) <=> Holds(i, LF)
  BY BlockLenPositive DEF TypeOK, IsBreak, Third
<1>7. \A e \in data_begin .. data_end :
        /\ (IsBreak(e, racy) \/ e = data_end) <=> (Holds(e, LF) \/ e = data_end)
        /\ \A i \in data_begin .. e - 1 : IsBreak(i, racy) <=> Holds(i, LF)
  BY <1>1, <1>6
<1>8. \E e \in data_begin .. data_end :
        /\ IsBreak(e, racy) \/ e = data_end
        /\ \A i \in data_begin .. e - 1 : ~IsBreak(i, racy)
  <2>1. \A i \in data_begin .. x - 1 : ~IsBreak(i, racy)
    BY <1>4, <1>5, <1>7
  <2>2. IsBreak(x, racy) \/ x = data_end
    BY <1>4, <1>7
  <2> QED BY <1>4, <2>1, <2>2
<1>9. /\ LineEnd(racy) \in data_begin .. data_end
      /\ IsBreak(LineEnd(racy), racy) \/ LineEnd(racy) = data_end
      /\ \A i \in data_begin .. LineEnd(racy) - 1 : ~IsBreak(i, racy)
  BY <1>8 DEF LineEnd
<1> QED BY <1>7, <1>9

(* A line that is cut fits into a block.                                   *)
LEMMA CutFits ==
  ASSUME TypeOK, data_begin <= data_end, NEW racy \in BOOLEAN, CutAt(LineEnd(racy))
  PROVE  LineEnd(racy) - data_begin + 1 <= BlockLen
<1>1. LineEnd(racy) \in Int /\ data_begin \in Int
  BY LineEndRange, BlockLenPositive DEF TypeOK
<1> QED BY <1>1, BlockLenPositive DEF CutAt, Exceeds

(* What the worker writes meanwhile does not move the end of the scan.     *)
LEMMA LineEndIsFirm ==
  ASSUME TypeOK, data_begin <= data_end, NEW racy \in BOOLEAN, NEW other \in BOOLEAN
  PROVE  LineEnd(racy) = LineEnd(other)
<1> DEFINE a == LineEnd(racy)
           b == LineEnd(other)
<1>1. /\ a \in data_begin .. data_end /\ (Holds(a, LF) \/ a = data_end)
      /\ \A i \in data_begin .. a - 1 : ~Holds(i, LF)
  BY LineEndRange
<1>2. /\ b \in data_begin .. data_end /\ (Holds(b, LF) \/ b = data_end)
      /\ \A i \in data_begin .. b - 1 : ~Holds(i, LF)
  BY LineEndRange
<1>3. data_begin \in Nat /\ data_end \in Nat
  BY BlockLenPositive DEF TypeOK
<1> HIDE DEF a, b
<1>4. ~(a < b) /\ ~(b < a)
  BY <1>1, <1>2, <1>3
<1>5. a = b
  BY <1>1, <1>2, <1>3, <1>4
<1> QED BY <1>5 DEF a, b

-----------------------------------------------------------------------------
(* The invariant holds initially and every step preserves it               *)

(* The invariant holds before the reader is constructed.                   *)
LEMMA InitInv == Init => Inv
<1> SUFFICES ASSUME Init PROVE Inv
  OBVIOUS
<1>1. Len(file) \in Nat
  BY LineReaderConstants DEF Init
<1>2. buffer \in [0 .. 3 * BlockLen - 1 -> Bytes]
  BY DEF Init, Bytes
<1>3. lines \in Seq(Seq(Bytes))
  BY DEF Init
<1>4. None \in None .. BlockLen /\ data_begin \in 0 .. 2 * BlockLen
  BY BlockLenPositive DEF Init, None
<1>5. TypeOK
  BY <1>1, <1>2, <1>3, <1>4, BlockLenPositive DEF Init, TypeOK
<1> QED BY <1>5 DEF Init, Inv, Cursors, Phases, Handshake

(* The actions that move no byte and no cursor, but for data_end.          *)
Quiet ==
  \/ OpenFails \/ StartRead \/ AtEnd \/ FinishRead \/ TooLong \/ Destroy
  \/ Terminate \/ Join \/ WorkerWait \/ WorkerFails \/ SpuriousWakeup

Busy ==
  \/ Construct \/ NextLine \/ FinishReadInline \/ CopyBlock \/ CutLine \/ WorkerRead

(* Every step is of one kind or the other.                                 *)
LEMMA Steps == Next => Quiet \/ Busy
  BY DEF Next, InCall, Worker, Quiet, Busy

(* Quiet steps keep the type.                                              *)
LEMMA QuietType == Inv /\ Quiet => TypeOK'
<1> SUFFICES ASSUME Inv, Quiet PROVE TypeOK'
  OBVIOUS
<1> USE BlockLenPositive
        DEF source, reader, cursor, given, None
<1>1. CASE OpenFails
  BY <1>1 DEF OpenFails, Inv, TypeOK
<1>2. CASE StartRead
  BY <1>2 DEF StartRead, WakeWorker, Inv, TypeOK
<1>3. CASE AtEnd
  BY <1>3 DEF AtEnd, Inv, TypeOK
<1>4. CASE FinishRead
  BY <1>4 DEF FinishRead, Inv, TypeOK, Cursors
<1>5. CASE TooLong
  BY <1>5 DEF TooLong, Inv, TypeOK
<1>6. CASE Destroy
  BY SMTT(30), ZenonT(20), <1>6 DEF Destroy, Inv, TypeOK
<1>7. CASE Terminate
  BY <1>7 DEF Terminate, WakeWorker, Inv, TypeOK
<1>8. CASE Join
  BY <1>8 DEF Join, Inv, TypeOK
<1>9. CASE WorkerWait
  BY <1>9 DEF WorkerWait, Inv, TypeOK
<1>10. CASE WorkerFails
  BY <1>10 DEF WorkerFails, WakeCaller, Inv, TypeOK
<1>11. CASE SpuriousWakeup
  BY <1>11 DEF SpuriousWakeup, Inv, TypeOK
<1> QED BY <1>1, <1>2, <1>3, <1>4, <1>5, <1>6, <1>7, <1>8, <1>9, <1>10, <1>11 DEF Quiet

(* Steps that move bytes or cursors keep the type: what is added to the    *)
(* cursors never takes them out of the blocks.                             *)
LEMMA BusyType == Inv /\ Busy => TypeOK'
<1> SUFFICES ASSUME Inv, Busy PROVE TypeOK'
  OBVIOUS
<1> USE BlockLenPositive
        DEF source, reader, cursor, given, None
<1>1. CASE Construct
  <2> DEFINE n == Available(2 * BlockLen)
  <2>1. n \in 0 .. 2 * BlockLen /\ n <= Len(file) /\ offset + n <= Len(file)
    <3>1. 2 * BlockLen \in Nat
      OBVIOUS
    <3>2. n \in 0 .. 2 * BlockLen /\ offset + n \in offset .. Len(file)
      BY <3>1, AvailableRange DEF Inv
    <3> HIDE DEF n
    <3> QED BY <3>2, Positions DEF Inv
  <2>2. buffer' \in [0 .. 3 * BlockLen - 1 -> Bytes]
    BY <1>1, <2>1, FilledType DEF Construct, Inv
  <2>3. data_begin' \in 0 .. 2 * BlockLen /\ data_end' = n /\ offset' = n
    BY <1>1, <2>1, LineReaderConstants DEF Construct
  <2>4. pc' \in {"start", "idle"} /\ worker' \in {"awake", worker} /\ valid' \in BOOLEAN
    BY <1>1 DEF Construct
  <2> QED BY SMTT(30), ZenonT(20), <1>1, <2>1, <2>2, <2>3, <2>4 DEF Construct, Inv, TypeOK
<1>2. CASE NextLine
  <2>1. buffer' \in [0 .. 3 * BlockLen - 1 -> Bytes]
    <3> DEFINE moved == [i \in DOMAIN buffer |->
                           IF i < BlockLen THEN buffer[i + BlockLen] ELSE buffer[i]]
    <3>1. DOMAIN buffer = 0 .. 3 * BlockLen - 1
          /\ \A i \in 0 .. 3 * BlockLen - 1 : buffer[i] \in Bytes
      BY DEF Inv, TypeOK
    <3>2. moved \in [0 .. 3 * BlockLen - 1 -> Bytes]
      BY <3>1
    <3>3. buffer' \in {moved, buffer}
      BY <1>2 DEF NextLine
    <3> QED BY <3>2, <3>3 DEF Inv, TypeOK
  <2>2. /\ data_begin' \in 0 .. 2 * BlockLen /\ data_end' \in 0 .. 2 * BlockLen
        /\ base' \in Nat /\ file_line' \in 0 .. MaxCalls
    <3>1. file_line' \in 0 .. MaxCalls
      BY <1>2 DEF NextLine, Inv, TypeOK
    <3>2. CASE data_begin >= BlockLen
      BY <1>2, <3>1, <3>2 DEF NextLine, Inv, TypeOK, Cursors
    <3>3. CASE ~(data_begin >= BlockLen)
      BY <1>2, <3>1, <3>3 DEF NextLine, Inv, TypeOK, Cursors
    <3> QED BY <3>2, <3>3
  <2>3. pc' \in {"finish", "scan"}
    BY <1>2 DEF NextLine
  <2> QED BY <1>2, <2>1, <2>2, <2>3 DEF NextLine, Inv, TypeOK
<1>3. CASE FinishReadInline
  <2>1. CASE pc' = "copy"
    <3> DEFINE n == Available(desired_byte_count)
    <3>1. desired_byte_count = BlockLen
      BY <1>3 DEF FinishReadInline, Inv, Phases, Handshake
    <3>2. n \in 0 .. BlockLen /\ offset + n \in offset .. Len(file)
      BY <3>1, AvailableRange DEF Inv
    <3>3. buffer' = Filled(buffer, 2 * BlockLen, n)
      BY <1>3, <2>1 DEF FinishReadInline
    <3>4. buffer' \in [0 .. 3 * BlockLen - 1 -> Bytes]
      BY <3>2, <3>3, FilledType DEF Inv, TypeOK
    <3>5. offset' = offset + n /\ data_end' = data_end + n
      BY <1>3, <2>1 DEF FinishReadInline
    <3> QED BY SMTT(30), ZenonT(20), <1>3, <2>1, <3>2, <3>4, <3>5 DEF FinishReadInline, Inv, TypeOK, Cursors
  <2>2. CASE pc' = "idle"
    BY <1>3, <2>2 DEF FinishReadInline, Inv, TypeOK
  <2> QED BY <1>3, <2>1, <2>2 DEF FinishReadInline
<1>4. CASE CopyBlock
  <2>1. buffer' \in [0 .. 3 * BlockLen - 1 -> Bytes]
    BY <1>4 DEF CopyBlock, Inv, TypeOK
  <2> QED BY SMTT(30), <1>4, <2>1 DEF CopyBlock, Inv, TypeOK
<1>5. CASE CutLine
  <2>1. PICK racy \in BOOLEAN : CutAt(LineEnd(racy))
    BY <1>5 DEF CutLine
  <2> DEFINE line_end == LineEnd(racy)
             cr == line_end # data_begin /\ Holds(line_end - 1, CR)
             last == IF cr THEN line_end - 2 ELSE line_end - 1
  <2>2. data_begin \in 0 .. BlockLen - 1 /\ data_end \in data_begin .. 2 * BlockLen
    BY <1>5 DEF CutLine, Inv, Cursors, TypeOK
  <2>3. line_end \in data_begin .. data_end
    BY <2>2, LineEndRange DEF Inv
  <2>4. line_end - data_begin + 1 <= BlockLen
    BY <2>1, CutFits DEF Inv, Cursors
  <2>5. last - data_begin + 1 \in 0 .. BlockLen
    BY <2>2, <2>3, <2>4
  <2>6. data_begin' = line_end + 1 /\ data_end' = EndAfter(line_end)
    BY <1>5, <2>1 DEF CutLine, CutAt, Exceeds
  <2>7. buffer' = [i \in DOMAIN buffer |->
                     IF i = line_end \/ (cr /\ i = line_end - 1) THEN 0 ELSE buffer[i]]
    BY <1>5, <2>1 DEF CutLine, CutAt, Exceeds
  <2>8. lines' = Append(lines, [k \in 1 .. last - data_begin + 1 |->
                                  buffer[data_begin + k - 1]])
    BY <1>5, <2>1 DEF CutLine, CutAt, Exceeds
  <2> HIDE DEF line_end, cr, last
  <2>9. buffer' \in [0 .. 3 * BlockLen - 1 -> Bytes]
    <3>1. 0 \in Bytes
      BY DEF Bytes
    <3> QED BY <2>7, <3>1 DEF Inv, TypeOK
  <2>10. data_begin' \in 0 .. 2 * BlockLen /\ data_end' \in 0 .. 2 * BlockLen
    BY <2>2, <2>3, <2>4, <2>6 DEF EndAfter
  <2>11. lines' \in Seq(Seq(Bytes))
    <3>1. \A k \in 1 .. last - data_begin + 1 : buffer[data_begin + k - 1] \in Bytes
      BY <2>2, <2>5 DEF Inv, TypeOK
    <3>2. [k \in 1 .. last - data_begin + 1 |-> buffer[data_begin + k - 1]] \in Seq(Bytes)
      BY <2>5, <3>1
    <3>3. lines \in Seq(Seq(Bytes))
      BY DEF Inv, TypeOK
    <3> HIDE DEF Bytes
    <3> QED BY <2>8, <3>2, <3>3
  <2>12. pc' = "idle" /\ answer' = "line"
    BY <2>1 DEF CutAt
  <2> QED BY <1>5, <2>9, <2>10, <2>11, <2>12 DEF CutLine, Inv, TypeOK
<1>6. CASE WorkerRead
  <2> DEFINE n == Available(desired_byte_count)
  <2>1. desired_byte_count = BlockLen
    BY <1>6 DEF WorkerRead, Inv, Handshake
  <2>2. n \in 0 .. BlockLen /\ offset + n \in offset .. Len(file)
    BY <2>1, AvailableRange DEF Inv
  <2>3. buffer' \in [0 .. 3 * BlockLen - 1 -> Bytes]
    BY <1>6, <2>2, FilledType DEF WorkerRead, Inv, TypeOK
  <2>4. offset' = offset + n /\ read_byte_count' = n
    BY <1>6 DEF WorkerRead
  <2> QED BY <1>6, <2>2, <2>3, <2>4 DEF WorkerRead, WakeCaller, Inv, TypeOK
<1> QED BY <1>1, <1>2, <1>3, <1>4, <1>5, <1>6 DEF Busy

(* The cursors keep their order and their blocks.                          *)
LEMMA CursorsStep == Inv /\ [Next]_vars => Cursors'
<1> SUFFICES ASSUME Inv, [Next]_vars PROVE Cursors'
  OBVIOUS
<1> USE BlockLenPositive DEF source, reader, cursor, given, None
<1>1. CASE OpenFails
  BY <1>1 DEF OpenFails, Inv, TypeOK, Cursors
<1>2. CASE StartRead
  BY <1>2 DEF StartRead, Inv, TypeOK, Cursors
<1>3. CASE AtEnd
  BY <1>3 DEF AtEnd, Inv, TypeOK, Cursors
<1>4. CASE FinishRead
  BY <1>4 DEF FinishRead, Inv, TypeOK, Cursors
<1>5. CASE TooLong
  BY <1>5 DEF TooLong, Inv, TypeOK, Cursors
<1>6. CASE Destroy
  BY <1>6 DEF Destroy, Inv, TypeOK, Cursors
<1>7. CASE Terminate
  BY <1>7 DEF Terminate, Inv, TypeOK, Cursors
<1>8. CASE Join
  BY <1>8 DEF Join, Inv, TypeOK, Cursors
<1>9. CASE WorkerWait
  BY <1>9 DEF WorkerWait, Inv, TypeOK, Cursors
<1>10. CASE WorkerFails
  BY <1>10 DEF WorkerFails, Inv, WakeCaller, TypeOK, Cursors
<1>11. CASE SpuriousWakeup
  BY <1>11 DEF SpuriousWakeup, Inv, TypeOK, Cursors
<1>12. CASE Construct
  <2> DEFINE n == Available(2 * BlockLen)
  <2>1. 2 * BlockLen \in Nat
    OBVIOUS
  <2>2. n \in 0 .. 2 * BlockLen
    BY <2>1, AvailableRange DEF Inv
  <2> HIDE DEF n
  <2>3. data_end' = n /\ pc' \in {"start", "idle"} /\ data_begin' <= n
    BY <1>12, <2>2, LineReaderConstants DEF Construct, n
  <2> QED BY <2>3 DEF Cursors
<1>13. CASE NextLine
  BY <1>13 DEF NextLine, Inv, TypeOK, Cursors
<1>14. CASE FinishReadInline
  <2>1. Available(desired_byte_count) \in 0 .. BlockLen
    BY <1>14, AvailableRange DEF FinishReadInline, Inv, Phases, Handshake
  <2> HIDE DEF None
  <2> QED BY <1>14, <2>1 DEF FinishReadInline, Inv, TypeOK, Cursors
<1>15. CASE CopyBlock
  BY <1>15 DEF CopyBlock, Inv, TypeOK, Cursors
<1>16. CASE CutLine
  <2>1. PICK racy \in BOOLEAN : CutAt(LineEnd(racy))
    BY <1>16 DEF CutLine
  <2> DEFINE line_end == LineEnd(racy)
  <2>2. line_end \in data_begin .. data_end /\ data_begin \in Nat /\ data_end \in Nat
    BY LineEndRange DEF Inv, Cursors, TypeOK
  <2> HIDE DEF line_end
  <2>3. data_begin' = line_end + 1 /\ data_end' = EndAfter(line_end) /\ pc' = "idle"
    BY <1>16, <2>1 DEF CutLine, CutAt, Exceeds, line_end
  <2> QED BY <2>2, <2>3 DEF EndAfter, Cursors
<1>17. CASE WorkerRead
  BY <1>17 DEF WorkerRead, Inv, WakeCaller, TypeOK, Cursors
<1>18. CASE UNCHANGED vars
  BY <1>18 DEF vars, Inv, TypeOK, Cursors
<1> QED BY Steps, <1>1, <1>2, <1>3, <1>4, <1>5, <1>6, <1>7, <1>8, <1>9,
           <1>10, <1>11, <1>12, <1>13, <1>14, <1>15, <1>16, <1>17, <1>18 DEF Quiet, Busy

(* The caller and the worker keep in step.                                 *)
LEMMA PhasesStep == Inv /\ [Next]_vars => Phases'
<1> SUFFICES ASSUME Inv, [Next]_vars PROVE Phases'
  OBVIOUS
<1> USE BlockLenPositive DEF source, reader, cursor, given, None
<1>1. CASE OpenFails
  BY <1>1 DEF OpenFails, Inv, TypeOK, Phases
<1>2. CASE StartRead
  BY <1>2 DEF StartRead, Inv, WakeWorker, TypeOK, Phases
<1>3. CASE AtEnd
  BY <1>3 DEF AtEnd, Inv, TypeOK, Phases
<1>4. CASE FinishRead
  BY <1>4 DEF FinishRead, Inv, TypeOK, Phases
<1>5. CASE TooLong
  BY <1>5 DEF TooLong, Inv, TypeOK, Phases
<1>6. CASE Destroy
  BY <1>6 DEF Destroy, Inv, TypeOK, Phases
<1>7. CASE Terminate
  BY <1>7 DEF Terminate, Inv, WakeWorker, TypeOK, Phases
<1>8. CASE Join
  BY <1>8 DEF Join, Inv, TypeOK, Phases
<1>9. CASE WorkerWait
  BY <1>9 DEF WorkerWait, Inv, Handshake, TypeOK, Phases
<1>10. CASE WorkerFails
  BY <1>10 DEF WorkerFails, Inv, WakeCaller, Handshake, TypeOK, Phases
<1>11. CASE SpuriousWakeup
  BY <1>11 DEF SpuriousWakeup, Inv, TypeOK, Phases
<1>12. CASE Construct
  BY <1>12 DEF Construct, Inv, TypeOK, Phases
<1>13. CASE NextLine
  BY <1>13 DEF NextLine, Inv, TypeOK, Phases
<1>14. CASE FinishReadInline
  BY <1>14 DEF FinishReadInline, Inv, TypeOK, Phases
<1>15. CASE CopyBlock
  BY <1>15 DEF CopyBlock, Inv, TypeOK, Phases
<1>16. CASE CutLine
  <2>1. pc' = "idle"
    BY <1>16 DEF CutLine, CutAt
  <2> QED BY <1>16, <2>1 DEF CutLine, Inv, TypeOK, Phases
<1>17. CASE WorkerRead
  BY <1>17 DEF WorkerRead, Inv, WakeCaller, Handshake, TypeOK, Phases
<1>18. CASE UNCHANGED vars
  BY <1>18 DEF vars, Inv, TypeOK, Phases
<1> QED BY Steps, <1>1, <1>2, <1>3, <1>4, <1>5, <1>6, <1>7, <1>8, <1>9,
           <1>10, <1>11, <1>12, <1>13, <1>14, <1>15, <1>16, <1>17, <1>18 DEF Quiet, Busy

(* No request and no answer is lost, whoever sleeps when.                  *)
LEMMA HandshakeStep == Inv /\ [Next]_vars => Handshake'
<1> SUFFICES ASSUME Inv, [Next]_vars PROVE Handshake'
  OBVIOUS
<1> USE BlockLenPositive DEF source, reader, cursor, given, None
<1>1. CASE OpenFails
  BY <1>1 DEF OpenFails, Inv, TypeOK, Cursors, Phases, Handshake, Served, Drained
<1>2. CASE StartRead
  BY <1>2 DEF StartRead, Inv, WakeWorker, TypeOK, Cursors, Phases, Handshake, Served, Drained
<1>3. CASE AtEnd
  BY <1>3 DEF AtEnd, Inv, TypeOK, Cursors, Phases, Handshake, Served, Drained
<1>4. CASE FinishRead
  BY <1>4 DEF FinishRead, Inv, TypeOK, Cursors, Phases, Handshake, Served, Drained
<1>5. CASE TooLong
  BY <1>5 DEF TooLong, Inv, TypeOK, Cursors, Phases, Handshake, Served, Drained
<1>6. CASE Destroy
  BY <1>6 DEF Destroy, Inv, TypeOK, Cursors, Phases, Handshake, Served, Drained
<1>7. CASE Terminate
  BY <1>7 DEF Terminate, Locked, Inv, WakeWorker, TypeOK, Cursors, Phases, Handshake, Served,
     Drained
<1>8. CASE Join
  BY <1>8 DEF Join, Inv, TypeOK, Cursors, Phases, Handshake, Served, Drained
<1>9. CASE WorkerWait
  BY <1>9 DEF WorkerWait, Inv, TypeOK, Cursors, Phases, Handshake, Served, Drained
<1>10. CASE WorkerFails
  BY <1>10 DEF WorkerFails, Inv, WakeCaller, TypeOK, Cursors, Phases, Handshake, Served, Drained
<1>11. CASE SpuriousWakeup
  BY <1>11 DEF SpuriousWakeup, Inv, TypeOK, Cursors, Phases, Handshake, Served, Drained
<1>12. CASE Construct
  BY <1>12 DEF Construct, Inv, TypeOK, Cursors, Phases, Handshake, Served, Drained
<1>13. CASE NextLine
  BY <1>13 DEF NextLine, Inv, TypeOK, Cursors, Phases, Handshake, Served, Drained
<1>14. CASE FinishReadInline
  BY <1>14 DEF FinishReadInline, Inv, TypeOK, Cursors, Phases, Handshake, Served, Drained
<1>15. CASE CopyBlock
  BY <1>15 DEF CopyBlock, Inv, TypeOK, Cursors, Phases, Handshake, Served, Drained
<1>16. CASE CutLine
  <2>1. PICK racy \in BOOLEAN : CutAt(LineEnd(racy))
    BY <1>16 DEF CutLine
  <2> DEFINE line_end == LineEnd(racy)
  <2>2. line_end \in data_begin .. data_end /\ data_begin \in Nat /\ data_end \in Nat
    BY LineEndRange DEF Inv, Cursors, TypeOK
  <2> HIDE DEF line_end
  <2>3. data_begin' = line_end + 1 /\ data_end' = EndAfter(line_end) /\ pc' = "idle"
        /\ pc = "scan" /\ UNCHANGED <<source, reader>>
    BY <1>16, <2>1 DEF CutLine, CutAt, Exceeds, line_end
  <2> QED BY <2>2, <2>3 DEF EndAfter, Inv, TypeOK, Cursors, Phases, Handshake, Served, Drained
<1>17. CASE WorkerRead
  <2>1. Available(desired_byte_count) \in 0 .. BlockLen
    BY <1>17, AvailableRange DEF WorkerRead, Inv, Handshake
  <2> QED BY <1>17, <2>1 DEF WorkerRead, WakeCaller, Inv, TypeOK, Cursors, Phases, Handshake,
                             Served, Drained
<1>18. CASE UNCHANGED vars
  BY <1>18 DEF vars, Inv, TypeOK, Cursors, Phases, Handshake, Served, Drained
<1> QED BY Steps, <1>1, <1>2, <1>3, <1>4, <1>5, <1>6, <1>7, <1>8, <1>9,
           <1>10, <1>11, <1>12, <1>13, <1>14, <1>15, <1>16, <1>17, <1>18 DEF Quiet, Busy

(* The inductive invariant of the reader.                                  *)
THEOREM Invariance == Spec => []Inv
<1>1. Inv /\ [Next]_vars => TypeOK'
  <2> SUFFICES ASSUME Inv, [Next]_vars PROVE TypeOK'
    OBVIOUS
  <2>1. CASE Next
    BY <2>1, Steps, QuietType, BusyType
  <2>2. CASE UNCHANGED vars
    BY <2>2 DEF vars, source, reader, cursor, given, Inv, TypeOK
  <2> QED BY <2>1, <2>2
<1>2. Inv /\ [Next]_vars => Inv'
  BY <1>1, CursorsStep, PhasesStep, HandshakeStep DEF Inv
<1> QED BY InitInv, <1>2, PTL DEF Spec

-----------------------------------------------------------------------------
(* What follows from it                                                    *)

(* Every variable keeps its type and every cursor stays in its blocks, for *)
(* every block length and every file.                                      *)
THEOREM ReaderTypeCorrect == Spec => []TypeOK
<1>1. Inv => TypeOK
  BY DEF Inv
<1> QED BY Invariance, <1>1, PTL

(* The assertions at the head of next_line() never fail.                   *)
THEOREM AssertsCorrect == Spec => []AssertsHold
<1>1. Inv => AssertsHold
  BY BlockLenPositive DEF Inv, TypeOK, Cursors, AssertsHold
<1> QED BY Invariance, <1>1, PTL

(* The worker reads into a block that is allocated and that the caller     *)
(* neither copies from nor writes to; what the scan may see of it, one     *)
(* byte, changes nothing.                                                  *)
THEOREM BlocksCorrect == Spec => []BlocksAreApart
<1>1. Inv => BlocksAreApart
  <2> SUFFICES ASSUME Inv, Locked PROVE BlocksAreApart
    BY DEF BlocksAreApart
  <2>1. alive /\ pc # "copy"
    BY DEF Inv, TypeOK, Phases, Handshake, Locked, None
  <2>2. ASSUME pc = "scan", NEW racy \in BOOLEAN
        PROVE  /\ LookedAt(racy) \cap Third \subseteq {data_end}
               /\ LineEnd(racy) = LineEnd(~racy)
               /\ LineEnd(racy) \in Third => Exceeds(LineEnd(racy))
    <3>1. data_begin \in 0 .. BlockLen - 1 /\ LineEnd(racy) \in data_begin .. data_end
          /\ data_end \in 0 .. 2 * BlockLen
      BY <2>2, LineEndRange, BlockLenPositive DEF Inv, TypeOK, Cursors
    <3>2. LookedAt(racy) \cap Third \subseteq {data_end}
      BY <3>1, BlockLenPositive DEF LookedAt, Third
    <3>3. LineEnd(racy) \in Third => Exceeds(LineEnd(racy))
      BY <3>1, BlockLenPositive DEF Exceeds, Third
    <3> QED BY <2>2, <3>2, <3>3, LineEndIsFirm DEF Inv, Cursors
  <2> QED BY <2>1, <2>2 DEF BlocksAreApart
<1> QED BY Invariance, <1>1, PTL

(* A caller that sleeps in finish_read() or in join() has a worker that    *)
(* will still answer it.                                                   *)
THEOREM WorkerCorrect == Spec => []WorkerAnswers
<1>1. Inv => WorkerAnswers
  BY DEF Inv, Phases, Handshake, WorkerAnswers
<1> QED BY Invariance, <1>1, PTL

-----------------------------------------------------------------------------
(* LineReader implements LineSource: the bytes in the caller's blocks are  *)
(* the bytes of the file in their place, nothing is lost or repeated       *)
(* between the blocks and the worker, and the end of the file is only      *)
(* taken for the end when it is.                                           *)

(* What the worker has read and the caller has not yet taken.              *)
Ahead == IF read_byte_count = None THEN 0 ELSE read_byte_count

(* The caller's bytes are the bytes of the file, in their place; while a   *)
(* block is taken over, the last of them are still in the third.           *)
Contents ==
  /\ \A i \in data_begin .. data_end - 1 :
       (pc = "copy" => i < BlockLen) => buffer[i] = base + i + 1
  /\ pc = "copy" => \A i \in BlockLen .. data_end - 1 : buffer[i + BlockLen] = base + i + 1
  /\ \A j \in 0 .. Ahead - 1 : buffer[2 * BlockLen + j] = offset - Ahead + j + 1

(* What is in the blocks, or ahead of them, is all that was read; a read   *)
(* that gives less than a block has come to the end of the file.           *)
Whole(blocks) ==
  /\ base + data_end = offset - Ahead
  /\ data_end = blocks * BlockLen \/ (offset = Len(file) /\ Ahead = 0)
Cut  == limit = base + data_end /\ data_end <= BlockLen
Over == data_begin = data_end /\ base + data_end >= limit

Places ==
  /\ data_begin < 2 * BlockLen /\ limit <= Len(file)
  /\ worker = "none" => read_byte_count = None
  /\ read_byte_count # None /\ read_byte_count < BlockLen => offset = Len(file)
  /\ pc = "open" => offset = 0 /\ base = 0
  /\ pc \in {"open", "start", "finish", "asleep", "copy", "restart"} => limit = Len(file)
  /\ pc \notin {"open", "failed"} /\ ~valid => offset = Len(file) /\ read_byte_count = None
  /\ pc = "start" => Whole(2)
  /\ pc \in {"finish", "asleep"} => Whole(1)
  /\ pc \in {"copy", "restart"} =>
       /\ base + data_end = offset
       /\ data_end = 2 * BlockLen \/ offset = Len(file)
  /\ pc \in {"idle", "scan"} => Cut \/ Over \/ (limit = Len(file) /\ Whole(2))

-----------------------------------------------------------------------------
(* The invariant is preserved                                              *)

(* The numbers the proofs calculate with.                                  *)
LEMMA Numbers ==
  Inv => /\ data_begin \in Nat /\ data_end \in Nat /\ data_begin <= data_end
         /\ data_end <= 2 * BlockLen
         /\ base \in Nat /\ limit \in Nat /\ Len(file) \in Nat
         /\ offset \in Nat /\ offset <= Len(file)
         /\ DOMAIN buffer = 0 .. 3 * BlockLen - 1
         /\ Ahead \in 0 .. BlockLen
  BY BlockLenPositive, Positions DEF Inv, TypeOK, Cursors, Ahead, None

(* Every byte stays in its place, through moving, copying and reading      *)
(* ahead.                                                                  *)
LEMMA ContentsStep == Inv /\ Inv' /\ Contents /\ Places /\ [Next]_vars => Contents'
<1> SUFFICES ASSUME Inv, Inv', Contents, Places, [Next]_vars PROVE Contents'
  OBVIOUS
<1> USE BlockLenPositive, Numbers DEF source, reader, cursor, given
<1>1. CASE OpenFails
  BY <1>1 DEF OpenFails, Inv, TypeOK, Contents, Ahead
<1>2. CASE StartRead
  BY <1>2 DEF StartRead, Inv, TypeOK, Contents, Ahead
<1>3. CASE AtEnd
  BY <1>3 DEF AtEnd, Inv, TypeOK, Contents, Ahead
<1>4. CASE FinishRead
  <2>1. CASE pc' = "copy"
    <3>1. /\ data_end' = data_end + Ahead /\ Ahead' = Ahead /\ pc = "finish"
          /\ UNCHANGED <<buffer, offset, base, data_begin>>
      BY <1>4, <2>1 DEF FinishRead, Ahead
    <3>2. /\ base + data_end = offset - Ahead /\ data_end <= BlockLen
          /\ data_end = BlockLen \/ Ahead = 0
      BY <3>1 DEF Places, Whole, Inv, Cursors
    <3>3. ASSUME NEW i \in data_begin .. data_end' - 1, i < BlockLen
          PROVE  buffer[i] = base + i + 1
      <4>1. i \in Int /\ data_begin <= i /\ i <= data_end + Ahead - 1
        BY <3>1
      <4>2. i \in data_begin .. data_end - 1
        BY SMTT(30), ZenonT(20), <3>2, <3>3, <4>1
      <4> QED BY <3>1, <4>2 DEF Contents
    <3>4. ASSUME NEW i \in BlockLen .. data_end' - 1
          PROVE  buffer[i + BlockLen] = base + i + 1
      <4>1. i - BlockLen \in 0 .. Ahead - 1 /\ data_end = BlockLen
        BY SMTT(30), <3>1, <3>2
      <4>2. buffer[2 * BlockLen + (i - BlockLen)] = offset - Ahead + (i - BlockLen) + 1
        BY <4>1 DEF Contents
      <4>3. 2 * BlockLen + (i - BlockLen) = i + BlockLen
        OBVIOUS
      <4> QED BY SMTT(30), <3>1, <3>2, <4>1, <4>2, <4>3
    <3> QED BY <2>1, <3>1, <3>3, <3>4 DEF Contents
  <2>2. CASE pc' # "copy"
    BY <1>4, <2>2 DEF FinishRead, Contents, Ahead
  <2> QED BY <2>1, <2>2
<1>5. CASE TooLong
  BY <1>5 DEF TooLong, Inv, TypeOK, Contents, Ahead
<1>6. CASE Destroy
  BY <1>6 DEF Destroy, Inv, TypeOK, Contents, Ahead
<1>7. CASE Terminate
  BY <1>7 DEF Terminate, Inv, TypeOK, Contents, Ahead
<1>8. CASE Join
  BY <1>8 DEF Join, Inv, TypeOK, Contents, Ahead
<1>9. CASE WorkerWait
  BY <1>9 DEF WorkerWait, Inv, TypeOK, Contents, Ahead
<1>10. CASE WorkerFails
  BY <1>10 DEF WorkerFails, WakeCaller, Inv, TypeOK, Contents, Ahead
<1>11. CASE SpuriousWakeup
  BY <1>11 DEF SpuriousWakeup, Inv, TypeOK, Contents, Ahead
<1>12. CASE Construct
  <2> DEFINE n == Available(2 * BlockLen)
  <2>1. 2 * BlockLen \in Nat
    OBVIOUS
  <2>2. n \in 0 .. 2 * BlockLen
    BY <2>1, AvailableRange DEF Inv
  <2> HIDE DEF n
  <2>3. /\ data_end' = n /\ buffer' = Filled(buffer, 0, n) /\ pc' # "copy"
        /\ offset = 0 /\ base' = 0 /\ Ahead' = 0
    BY <1>12 DEF Construct, n, Places, Inv, Phases, Ahead
  <2>4. \A i \in 0 .. n - 1 : buffer'[i] = i + 1
    BY <2>2, <2>3 DEF Filled
  <2>5. data_begin' \in Nat
    BY DEF Inv, TypeOK
  <2> QED BY <2>2, <2>3, <2>4, <2>5 DEF Contents
<1>13. CASE NextLine
  <2>1. CASE data_begin >= BlockLen
    <3>1. /\ data_begin' = data_begin - BlockLen /\ data_end' = data_end - BlockLen
          /\ base' = base + BlockLen /\ offset' = offset /\ Ahead' = Ahead
          /\ pc # "copy" /\ pc' # "copy"
          /\ buffer' = [i \in DOMAIN buffer |->
                          IF i < BlockLen THEN buffer[i + BlockLen] ELSE buffer[i]]
      BY <1>13, <2>1 DEF NextLine, Ahead
    <3>2. ASSUME NEW i \in data_begin' .. data_end' - 1 PROVE buffer'[i] = base' + i + 1
      <4>1. i \in Int /\ data_begin - BlockLen <= i /\ i <= data_end - BlockLen - 1
        BY <3>1
      <4>2. i + BlockLen \in data_begin .. data_end - 1 /\ i < BlockLen
            /\ i \in 0 .. 3 * BlockLen - 1
        BY <2>1, <4>1
      <4>3. buffer[i + BlockLen] = base + (i + BlockLen) + 1
        BY <3>1, <4>2 DEF Contents
      <4>4. buffer'[i] = buffer[i + BlockLen]
        BY <3>1, <4>2
      <4>5. base + (i + BlockLen) + 1 = (base + BlockLen) + i + 1
        BY <4>1
      <4> QED BY <3>1, <4>3, <4>4, <4>5
    <3>3. ASSUME NEW j \in 0 .. Ahead - 1
          PROVE  buffer'[2 * BlockLen + j] = offset - Ahead + j + 1
      <4>1. 2 * BlockLen + j \in 0 .. 3 * BlockLen - 1 /\ ~(2 * BlockLen + j < BlockLen)
        OBVIOUS
      <4> QED BY <3>1, <4>1 DEF Contents
    <3> QED BY <3>1, <3>2, <3>3 DEF Contents
  <2>2. CASE ~(data_begin >= BlockLen)
    BY <1>13, <2>2 DEF NextLine, Contents, Ahead
  <2> QED BY <2>1, <2>2
<1>14. CASE FinishReadInline
  <2>1. CASE pc' = "copy"
    <3> DEFINE n == Available(desired_byte_count)
    <3>1. desired_byte_count = BlockLen /\ read_byte_count = None /\ Ahead = 0
      BY <1>14 DEF FinishReadInline, Inv, Phases, Handshake, Ahead, None
    <3>2. n \in 0 .. BlockLen /\ (offset = Len(file) => n = 0)
      BY <3>1, AvailableRange DEF Inv, Available
    <3> HIDE DEF n
    <3>3. /\ data_end' = data_end + n /\ pc = "finish" /\ Ahead' = 0
          /\ buffer' = Filled(buffer, 2 * BlockLen, n)
          /\ UNCHANGED <<base, data_begin>>
      BY <1>14, <2>1, <3>1 DEF FinishReadInline, Ahead, n
    <3>4. /\ base + data_end = offset /\ data_end <= BlockLen
          /\ data_end = BlockLen \/ n = 0
      BY <3>1, <3>2, <3>3 DEF Places, Whole, Inv, Cursors
    <3>5. ASSUME NEW i \in data_begin .. data_end' - 1, i < BlockLen
          PROVE  buffer'[i] = base + i + 1
      <4>1. i \in Int /\ data_begin <= i /\ i <= data_end + n - 1
        BY <3>2, <3>3
      <4>2. i \in 0 .. 3 * BlockLen - 1 /\ i \in data_begin .. data_end - 1
            /\ i \notin 2 * BlockLen .. 2 * BlockLen + n - 1
        BY <3>2, <3>4, <3>5, <4>1
      <4> QED BY <3>3, <4>2 DEF Contents, Filled
    <3>6. ASSUME NEW i \in BlockLen .. data_end' - 1
          PROVE  buffer'[i + BlockLen] = base + i + 1
      <4>1. i + BlockLen \in 0 .. 3 * BlockLen - 1 /\ data_end = BlockLen
            /\ i + BlockLen \in 2 * BlockLen .. 2 * BlockLen + n - 1
        BY SMTT(30), <3>2, <3>3, <3>4
      <4>2. buffer'[i + BlockLen] = offset + (i + BlockLen) - 2 * BlockLen + 1
        BY <3>3, <4>1 DEF Filled
      <4> QED BY <3>4, <4>1, <4>2
    <3> QED BY <2>1, <3>3, <3>5, <3>6 DEF Contents
  <2>2. CASE pc' # "copy"
    BY <1>14, <2>2 DEF FinishReadInline, Contents, Ahead
  <2> QED BY <2>1, <2>2
<1>15. CASE CopyBlock
  <2>1. /\ buffer' = [i \in DOMAIN buffer |->
                         IF i \in BlockLen .. 2 * BlockLen - 1
                           THEN buffer[i + BlockLen] ELSE buffer[i]]
        /\ pc = "copy" /\ pc' # "copy" /\ Ahead' = Ahead
        /\ UNCHANGED <<offset, base, data_begin, data_end>>
    BY <1>15 DEF CopyBlock, Ahead
  <2>2. ASSUME NEW i \in data_begin .. data_end - 1 PROVE buffer'[i] = base + i + 1
    <3>1. i \in 0 .. 3 * BlockLen - 1
      OBVIOUS
    <3>2. CASE i < BlockLen
      BY <2>1, <3>1, <3>2 DEF Contents
    <3>3. CASE ~(i < BlockLen)
      <4>1. i \in BlockLen .. 2 * BlockLen - 1 /\ i \in BlockLen .. data_end - 1
        BY <3>3
      <4> QED BY <2>1, <3>1, <4>1 DEF Contents
    <3> QED BY <3>2, <3>3
  <2>3. ASSUME NEW j \in 0 .. Ahead - 1
        PROVE  buffer'[2 * BlockLen + j] = offset - Ahead + j + 1
    <3>1. 2 * BlockLen + j \in 0 .. 3 * BlockLen - 1
          /\ 2 * BlockLen + j \notin BlockLen .. 2 * BlockLen - 1
      OBVIOUS
    <3> QED BY <2>1, <3>1 DEF Contents
  <2> QED BY <2>1, <2>2, <2>3 DEF Contents
<1>16. CASE CutLine
  <2>1. PICK racy \in BOOLEAN : CutAt(LineEnd(racy))
    BY <1>16 DEF CutLine
  <2> DEFINE line_end == LineEnd(racy)
             cr == line_end # data_begin /\ Holds(line_end - 1, CR)
  <2>2. line_end \in data_begin .. data_end
    BY LineEndRange DEF Inv
  <2>3. /\ line_end - data_begin + 1 <= BlockLen /\ pc' # "copy" /\ pc # "copy"
        /\ data_begin' = line_end + 1 /\ data_end' = EndAfter(line_end)
        /\ Ahead' = Ahead /\ UNCHANGED <<offset, base>>
    BY <1>16, <2>1, CutFits DEF CutLine, CutAt, Ahead, Inv, Cursors
  <2>4. buffer' = [i \in DOMAIN buffer |->
                     IF i = line_end \/ (cr /\ i = line_end - 1) THEN 0 ELSE buffer[i]]
    BY <1>16, <2>1 DEF CutLine, CutAt, Exceeds
  <2>5. data_begin < BlockLen
    BY <1>16 DEF CutLine, Inv, Cursors
  <2> HIDE DEF line_end, cr
  <2>6. ASSUME NEW i \in data_begin' .. data_end' - 1 PROVE buffer'[i] = base + i + 1
    <3>1. i \in Int /\ line_end + 1 <= i /\ i <= EndAfter(line_end) - 1
      BY <2>3
    <3>2. i \in data_begin .. data_end - 1 /\ i > line_end /\ i \in 0 .. 3 * BlockLen - 1
      BY <2>2, <3>1 DEF EndAfter
    <3>3. buffer'[i] = buffer[i]
      BY <2>2, <2>4, <3>2
    <3> QED BY <2>3, <3>2, <3>3 DEF Contents
  <2>7. ASSUME NEW j \in 0 .. Ahead - 1
        PROVE  buffer'[2 * BlockLen + j] = offset - Ahead + j + 1
    <3>1. 2 * BlockLen + j \in 0 .. 3 * BlockLen - 1 /\ 2 * BlockLen + j > line_end
      BY <2>2, <2>3, <2>5
    <3>2. buffer'[2 * BlockLen + j] = buffer[2 * BlockLen + j]
      BY <2>2, <2>4, <3>1
    <3> QED BY <3>2 DEF Contents
  <2> QED BY <2>3, <2>6, <2>7 DEF Contents
<1>17. CASE WorkerRead
  <2> DEFINE n == Available(desired_byte_count)
  <2>1. desired_byte_count = BlockLen /\ pc # "copy"
    BY <1>17 DEF WorkerRead, Inv, Phases, Handshake, None
  <2>2. n \in 0 .. BlockLen
    BY <2>1, AvailableRange DEF Inv
  <2> HIDE DEF n
  <2>3. /\ buffer' = Filled(buffer, 2 * BlockLen, n) /\ offset' = offset + n
        /\ Ahead' = n /\ pc' # "copy" /\ UNCHANGED <<data_begin, data_end, base>>
    BY <1>17, <2>1, <2>2 DEF WorkerRead, WakeCaller, Ahead, None, n
  <2>4. ASSUME NEW i \in data_begin .. data_end - 1 PROVE buffer'[i] = base + i + 1
    <3>1. i \in 0 .. 3 * BlockLen - 1 /\ i \notin 2 * BlockLen .. 2 * BlockLen + n - 1
      OBVIOUS
    <3> QED BY <2>1, <2>3, <3>1 DEF Contents, Filled
  <2>5. ASSUME NEW j \in 0 .. n - 1
        PROVE  buffer'[2 * BlockLen + j] = offset' - n + j + 1
    <3>1. 2 * BlockLen + j \in 0 .. 3 * BlockLen - 1
          /\ 2 * BlockLen + j \in 2 * BlockLen .. 2 * BlockLen + n - 1
      BY <2>2
    <3>2. buffer'[2 * BlockLen + j] = offset + (2 * BlockLen + j) - 2 * BlockLen + 1
      BY <2>3, <3>1 DEF Filled
    <3> QED BY <2>2, <2>3, <3>2
  <2> QED BY <2>3, <2>4, <2>5 DEF Contents
<1>18. CASE UNCHANGED vars
  BY <1>18 DEF vars, Inv, TypeOK, Contents, Ahead
<1> QED BY Steps, <1>1, <1>2, <1>3, <1>4, <1>5, <1>6, <1>7, <1>8, <1>9,
           <1>10, <1>11, <1>12, <1>13, <1>14, <1>15, <1>16, <1>17, <1>18 DEF Quiet, Busy

(* No byte is lost between the blocks and the worker.                      *)
LEMMA PlacesStep == Inv /\ Inv' /\ Contents /\ Places /\ [Next]_vars => Places'
<1> SUFFICES ASSUME Inv, Inv', Contents, Places, [Next]_vars PROVE Places'
  OBVIOUS
<1> USE BlockLenPositive, Numbers DEF source, reader, cursor, given
<1>1. CASE OpenFails
  BY <1>1 DEF OpenFails, Inv, TypeOK, Places, Whole, Cut, Over, Ahead, None, Cursors,
              Phases, Handshake
<1>2. CASE StartRead
  BY <1>2 DEF StartRead, WakeWorker, Inv, TypeOK, Places, Whole, Cut, Over, Ahead,
              None, Cursors, Phases, Handshake
<1>3. CASE AtEnd
  BY <1>3 DEF AtEnd, Inv, TypeOK, Places, Whole, Cut, Over, Ahead, None, Cursors,
              Phases, Handshake
<1>4. CASE FinishRead
  <2>1. CASE pc' = "copy"
    <3>1. /\ data_end' = data_end + Ahead /\ Ahead' = Ahead /\ pc = "finish"
          /\ read_byte_count # None /\ read_byte_count = Ahead
          /\ UNCHANGED <<file, offset, base, data_begin, limit, worker, valid,
                         read_byte_count>>
      BY <1>4, <2>1 DEF FinishRead, Ahead
    <3>2. /\ base + data_end = offset - Ahead /\ limit = Len(file)
          /\ data_end = BlockLen \/ (offset = Len(file) /\ Ahead = 0)
          /\ Ahead < BlockLen => offset = Len(file)
      BY <3>1 DEF Places, Whole
    <3>3. /\ base + (data_end + Ahead) = offset
          /\ data_end + Ahead = 2 * BlockLen \/ offset = Len(file)
      BY SMTT(30), <3>2
    <3> QED BY <2>1, <3>1, <3>2, <3>3 DEF Places
  <2>2. CASE pc' = "asleep"
    BY <1>4, <2>2 DEF FinishRead, Places, Whole, Ahead
  <2>3. CASE pc' = "idle"
    <3>1. /\ limit' = base + data_end /\ pc = "finish"
          /\ UNCHANGED <<file, offset, base, data_begin, data_end, worker, valid,
                         read_byte_count>>
      BY <1>4, <2>3 DEF FinishRead
    <3>2. base + data_end = offset - Ahead /\ data_end <= BlockLen
      BY <3>1 DEF Places, Whole, Inv, Cursors
    <3>3. Cut' /\ limit' <= Len(file)
      BY <3>1, <3>2 DEF Cut
    <3> QED BY <2>3, <3>1, <3>3 DEF Places
  <2> QED BY <1>4, <2>1, <2>2, <2>3 DEF FinishRead
<1>5. CASE TooLong
  BY <1>5 DEF TooLong, Inv, TypeOK, Places, Whole, Cut, Over, Ahead, None, Cursors,
              Phases, Handshake
<1>6. CASE Destroy
  BY <1>6 DEF Destroy, Inv, TypeOK, Places, Whole, Cut, Over, Ahead, None, Cursors,
              Phases, Handshake
<1>7. CASE Terminate
  BY <1>7 DEF Terminate, WakeWorker, Inv, TypeOK, Places, Whole, Cut, Over, Ahead,
              None, Cursors, Phases, Handshake
<1>8. CASE Join
  BY <1>8 DEF Join, Inv, TypeOK, Places, Whole, Cut, Over, Ahead, None, Cursors,
              Phases, Handshake
<1>9. CASE WorkerWait
  BY <1>9 DEF WorkerWait, Inv, TypeOK, Places, Whole, Cut, Over, Ahead, None, Cursors,
              Phases, Handshake
<1>10. CASE WorkerFails
  BY <1>10 DEF WorkerFails, WakeCaller, Inv, TypeOK, Places, Whole, Cut, Over, Ahead,
               None, Cursors, Phases, Handshake
<1>11. CASE SpuriousWakeup
  BY <1>11 DEF SpuriousWakeup, Inv, TypeOK, Places, Whole, Cut, Over, Ahead, None,
               Cursors, Phases, Handshake
<1>12. CASE Construct
  <2> DEFINE n == Available(2 * BlockLen)
  <2>1. 2 * BlockLen \in Nat
    OBVIOUS
  <2>2. n \in 0 .. 2 * BlockLen /\ (offset = 0 => n = 2 * BlockLen \/ n = Len(file))
    BY <2>1, AvailableRange DEF Inv, Available
  <2> HIDE DEF n
  <2>3. /\ data_end' = n /\ offset' = n /\ data_begin' \in {0, Len(Mark)}
        /\ offset = 0 /\ base' = 0 /\ base = 0 /\ limit = Len(file)
        /\ UNCHANGED <<file, limit, read_byte_count>>
    BY <1>12 DEF Construct, n, Places
  <2>4. read_byte_count = None /\ Ahead' = 0
    BY <1>12, <2>3 DEF Construct, Inv, Phases, Ahead
  <2>5. data_begin' < 2 * BlockLen
    BY <2>3, LineReaderConstants
  <2>6. /\ pc' = IF valid' THEN "start" ELSE "idle"
        /\ valid' = (n = 2 * BlockLen)
    BY <1>12 DEF Construct, n
  <2>7. n = 2 * BlockLen \/ n = Len(file)
    BY <2>2, <2>3
  <2>8. Whole(2)'
    BY <2>2, <2>3, <2>4, <2>7 DEF Whole
  <2>9. ~valid' => offset' = Len(file)
    BY <2>3, <2>6, <2>7
  <2> QED BY <2>3, <2>4, <2>5, <2>6, <2>8, <2>9 DEF Places
<1>13. CASE NextLine
  <2>1. /\ pc = "idle" /\ data_begin # data_end /\ data_begin < data_end
        /\ Ahead' = Ahead
        /\ UNCHANGED <<file, offset, limit, worker, valid, read_byte_count>>
    BY <1>13 DEF NextLine, Ahead
  <2>2. Cut \/ (limit = Len(file) /\ Whole(2))
    BY <2>1 DEF Places, Over
  <2>3. CASE data_begin >= BlockLen
    <3>1. /\ data_begin' = data_begin - BlockLen /\ data_end' = data_end - BlockLen
          /\ base' = base + BlockLen /\ pc' = IF valid THEN "finish" ELSE "scan"
      BY <1>13, <2>3 DEF NextLine
    <3>2. limit = Len(file) /\ Whole(2)
      BY <2>1, <2>2, <2>3 DEF Cut
    <3>3. Whole(1)'
      BY SMTT(30), <2>1, <3>1, <3>2 DEF Whole
    <3>4. ~valid => Cut'
      <4>1. ~valid => offset = Len(file) /\ Ahead = 0
        BY <2>1 DEF Places, Ahead
      <4> QED BY SMTT(30), <2>1, <3>1, <3>2, <4>1 DEF Whole, Cut
    <3>5. data_begin' < 2 * BlockLen
      BY SMTT(30), ZenonT(20), <2>1, <3>1
    <3> QED BY <2>1, <3>1, <3>2, <3>3, <3>4, <3>5 DEF Places
  <2>4. CASE ~(data_begin >= BlockLen)
    BY <1>13, <2>1, <2>2, <2>4 DEF NextLine, Places, Whole, Cut
  <2> QED BY <2>3, <2>4
<1>14. CASE FinishReadInline
  <2>1. /\ desired_byte_count = BlockLen /\ read_byte_count = None /\ pc = "finish"
        /\ valid /\ Ahead = 0 /\ Ahead' = 0
        /\ UNCHANGED <<file, base, data_begin, worker, valid, read_byte_count>>
    BY <1>14 DEF FinishReadInline, Inv, Phases, Handshake, Ahead, None
  <2>2. /\ base + data_end = offset /\ data_end <= BlockLen /\ limit = Len(file)
        /\ data_end = BlockLen \/ offset = Len(file)
    BY <2>1 DEF Places, Whole, Inv, Cursors
  <2>3. CASE pc' = "copy"
    <3> DEFINE n == Available(BlockLen)
    <3>1. n \in 0 .. BlockLen /\ (n < BlockLen => offset + n = Len(file))
          /\ (offset = Len(file) => n = 0)
      BY AvailableRange DEF Inv, Available
    <3> HIDE DEF n
    <3>2. data_end' = data_end + n /\ offset' = offset + n /\ limit' = limit
      BY <1>14, <2>1, <2>3 DEF FinishReadInline, n
    <3>3. /\ base + (data_end + n) = offset + n
          /\ data_end + n = 2 * BlockLen \/ offset + n = Len(file)
      BY <2>2, <3>1
    <3> QED BY <2>1, <2>2, <2>3, <3>2, <3>3 DEF Places
  <2>4. CASE pc' = "idle"
    <3>1. /\ limit' = base + data_end /\ UNCHANGED <<data_end, offset>>
      BY <1>14, <2>4 DEF FinishReadInline
    <3>2. Cut' /\ limit' <= Len(file)
      BY <2>1, <2>2, <3>1 DEF Cut
    <3> QED BY <2>1, <2>4, <3>1, <3>2 DEF Places
  <2> QED BY <1>14, <2>3, <2>4 DEF FinishReadInline
<1>15. CASE CopyBlock
  BY <1>15 DEF CopyBlock, Inv, TypeOK, Places, Whole, Cut, Over, Ahead, None, Cursors,
               Phases, Handshake
<1>16. CASE CutLine
  <2>1. PICK racy \in BOOLEAN : CutAt(LineEnd(racy))
    BY <1>16 DEF CutLine
  <2> DEFINE line_end == LineEnd(racy)
  <2>2. line_end \in data_begin .. data_end
    BY LineEndRange DEF Inv
  <2>3. /\ line_end - data_begin + 1 <= BlockLen /\ pc = "scan" /\ pc' = "idle"
        /\ data_begin' = line_end + 1 /\ data_end' = EndAfter(line_end)
        /\ Ahead' = Ahead
        /\ UNCHANGED <<file, offset, base, limit, worker, valid, read_byte_count>>
    BY <1>16, <2>1, CutFits DEF CutLine, CutAt, Ahead, Inv, Cursors
  <2> HIDE DEF line_end
  <2>4. data_begin < BlockLen /\ data_begin < data_end
    BY <2>3 DEF Inv, Cursors
  <2>5. Cut \/ (limit = Len(file) /\ Whole(2))
    BY <2>3, <2>4 DEF Places, Over
  <2>6. data_begin' < 2 * BlockLen
    BY <2>2, <2>3, <2>4
  <2>7. CASE line_end = data_end
    <3>1. data_end # 2 * BlockLen
      BY SMTT(30), ZenonT(20), <2>3, <2>4, <2>7
    <3>2. base + data_end = limit
      BY <2>5, <3>1 DEF Cut, Whole
    <3>3. Over'
      BY <2>3, <2>7, <3>2 DEF Over, EndAfter
    <3> QED BY <2>3, <2>6, <3>3 DEF Places
  <2>8. CASE line_end # data_end
    <3>1. data_end' = data_end
      BY <2>3, <2>8 DEF EndAfter
    <3>2. Cut' \/ (limit' = Len(file)' /\ Whole(2)')
      BY <2>3, <2>5, <3>1 DEF Cut, Whole
    <3> QED BY <2>3, <2>6, <3>1, <3>2 DEF Places
  <2> QED BY <2>7, <2>8
<1>17. CASE WorkerRead
  <2> DEFINE n == Available(BlockLen)
  <2>1. /\ desired_byte_count = BlockLen /\ read_byte_count = None /\ Ahead = 0
        /\ valid /\ threaded
        /\ pc \notin {"open", "failed", "start", "copy", "restart"}
    BY <1>17 DEF WorkerRead, Inv, Phases, Handshake, Ahead, None
  <2>2. n \in 0 .. BlockLen /\ (n < BlockLen => offset + n = Len(file))
        /\ (offset = Len(file) => n = 0)
    BY AvailableRange DEF Inv, Available
  <2>3. /\ offset' = offset + n /\ read_byte_count' = n /\ pc' = WakeCaller
        /\ worker' # "none"
        /\ UNCHANGED <<file, data_begin, data_end, base, limit, valid>>
    BY <1>17, <2>1 DEF WorkerRead
  <2> HIDE DEF n
  <2>4. Ahead' = n
    BY <2>2, <2>3 DEF Ahead, None
  <2>5. /\ Whole(1) => Whole(1)'
        /\ Whole(2) => Whole(2)'
        /\ Cut => Cut'
        /\ Over => Over'
    BY <2>1, <2>2, <2>3, <2>4 DEF Whole, Cut, Over
  <2> QED BY <2>1, <2>2, <2>3, <2>5 DEF Places, WakeCaller
<1>18. CASE UNCHANGED vars
  BY <1>18 DEF vars, Inv, TypeOK, Places, Whole, Cut, Over, Ahead, None, Cursors, Phases, Handshake
<1> QED BY Steps, <1>1, <1>2, <1>3, <1>4, <1>5, <1>6, <1>7, <1>8, <1>9,
           <1>10, <1>11, <1>12, <1>13, <1>14, <1>15, <1>16, <1>17, <1>18 DEF Quiet, Busy

(* What the blocks hold is the file, always.                               *)
THEOREM ContentsInvariance == Spec => [](Inv /\ Contents /\ Places)
<1>1. Init => Contents /\ Places
  BY BlockLenPositive, InitInv
     DEF Init, Contents, Places, Whole, Cut, Over, Ahead, None, Inv, TypeOK
<1>2. Inv /\ Inv' /\ Contents /\ Places /\ [Next]_vars => Contents' /\ Places'
  BY ContentsStep, PlacesStep
<1> QED BY Invariance, <1>1, <1>2, PTL DEF Spec

-----------------------------------------------------------------------------
(* Every step is a step of LineSource                                      *)

(* The bytes between the cursors are the next bytes of the file.           *)
LEMMA HoldsFile ==
  ASSUME Inv, Contents, pc # "copy", NEW byte,
         NEW i \in data_begin .. data_end - 1
  PROVE  Holds(i, byte) <=> file[base + i + 1] = byte
<1>1. buffer[i] = base + i + 1
  BY DEF Contents
<1>2. base + i + 1 # 0
  BY Numbers
<1> QED BY <1>1, <1>2 DEF Holds

(* What a scan has passed over in the blocks is no line break in the file. *)
LEMMA ScanIsSound ==
  ASSUME Inv, Contents, Places, pc = "scan", NEW racy \in BOOLEAN
  PROVE  /\ NextByte = base + data_begin + 1
         /\ LineEnd(racy) \in data_begin .. data_end
         /\ base + data_end <= limit /\ data_begin < data_end /\ data_begin < BlockLen
         /\ \A k \in NextByte .. base + LineEnd(racy) : file[k] # LF
         /\ LineEnd(racy) < data_end => file[base + LineEnd(racy) + 1] = LF
         /\ LineEnd(racy) = data_end =>
              base + data_end = limit \/ data_end = 2 * BlockLen
<1> DEFINE line_end == LineEnd(racy)
<1>1. NextByte = base + data_begin + 1
  BY DEF NextByte
<1>2. /\ line_end \in data_begin .. data_end
      /\ Holds(line_end, LF) \/ line_end = data_end
      /\ \A i \in data_begin .. line_end - 1 : ~Holds(i, LF)
  BY LineEndRange, Numbers DEF Inv
<1> HIDE DEF line_end
<1>3. data_begin < data_end /\ data_begin < BlockLen
  BY DEF Inv, Cursors
<1>4. /\ base + data_end <= limit
      /\ base + data_end = limit \/ data_end = 2 * BlockLen
  <2>1. Cut \/ (limit = Len(file) /\ Whole(2))
    BY <1>3, Numbers DEF Places, Over
  <2> QED BY <2>1, Numbers DEF Cut, Whole
<1>5. ASSUME NEW k \in NextByte .. base + line_end PROVE file[k] # LF
  <2>1. k - base - 1 \in data_begin .. line_end - 1 /\ k - base - 1 \in data_begin .. data_end - 1
    BY SMTT(30), <1>1, <1>2, Numbers
  <2>2. base + (k - base - 1) + 1 = k
    BY SMTT(30), ZenonT(20), <1>1, Numbers
  <2> QED BY <1>2, <2>1, <2>2, HoldsFile
<1>6. line_end < data_end => file[base + line_end + 1] = LF
  <2> SUFFICES ASSUME line_end < data_end PROVE file[base + line_end + 1] = LF
    OBVIOUS
  <2>1. line_end \in data_begin .. data_end - 1 /\ Holds(line_end, LF)
    BY <1>2, Numbers
  <2> QED BY <2>1, HoldsFile
<1> QED BY <1>1, <1>2, <1>3, <1>4, <1>5, <1>6 DEF line_end

(* A line that is cut is the next line of the file.                        *)
LEMMA CutLineGives ==
  ASSUME Inv, Contents, Places, CutLine
  PROVE  Source!GiveLine
<1>1. PICK racy \in BOOLEAN : CutAt(LineEnd(racy))
  BY DEF CutLine
<1> DEFINE line_end == LineEnd(racy)
           q == base + line_end + 1
           cr == line_end # data_begin /\ Holds(line_end - 1, CR)
           last == IF cr THEN line_end - 2 ELSE line_end - 1
<1>2. /\ pc = "scan" /\ pc' = "idle" /\ line_end - data_begin + 1 <= BlockLen
      /\ data_begin' = line_end + 1 /\ answer' = "line"
      /\ lines' = Append(lines, [k \in 1 .. last - data_begin + 1 |->
                                   buffer[data_begin + k - 1]])
      /\ UNCHANGED <<file, limit, file_line, base>>
  BY <1>1, CutFits DEF CutLine, CutAt, source, reader, Inv, Cursors
<1>3. /\ NextByte = base + data_begin + 1
      /\ line_end \in data_begin .. data_end
      /\ base + data_end <= limit /\ data_begin < data_end /\ data_begin < BlockLen
      /\ \A k \in NextByte .. base + line_end : file[k] # LF
      /\ line_end < data_end => file[base + line_end + 1] = LF
      /\ line_end = data_end => base + data_end = limit \/ data_end = 2 * BlockLen
  BY <1>2, ScanIsSound
<1> HIDE DEF line_end
<1> USE BlockLenPositive
<1>a. /\ base \in Nat /\ limit \in Nat /\ data_begin \in Nat /\ data_end \in Nat
      /\ line_end \in Nat /\ data_begin <= line_end /\ line_end <= data_end
      /\ NextByte = base + data_begin + 1 /\ NextByte \in Nat
      /\ base + data_end <= limit /\ data_begin < data_end
  BY SMTT(30), <1>3, Numbers
<1>4. q \in NextByte .. limit + 1 /\ NextByte <= limit
  BY <1>a
<1>5. q <= limit => file[q] = LF
  <2>1. CASE line_end = data_end
    <3>1. data_end # 2 * BlockLen
      BY <1>2, <1>3, <1>a, <2>1
    <3>2. ~(q <= limit)
      BY <1>3, <1>a, <2>1, <3>1
    <3> QED BY <3>2
  <2>2. CASE line_end # data_end
    <3>1. line_end < data_end
      BY <1>a, <2>2
    <3> QED BY <1>3, <3>1
  <2> QED BY <2>1, <2>2
<1>6. Source!EndsAt(NextByte, q)
  <2>1. \A k \in NextByte .. q - 1 : file[k] # LF
    <3>1. q - 1 = base + line_end
      BY <1>a
    <3> QED BY <1>3, <3>1
  <2> QED BY <1>4, <1>5, <2>1 DEF Source!EndsAt
<1>7. q - NextByte + 1 <= BlockLen
  BY <1>2, <1>a
<1>8. NextByte' = q + 1 /\ Asked' = Asked + 1
  <2>1. file_line \in Nat
    BY DEF Inv, TypeOK
  <2>2. NextByte' = base' + data_begin' + 1 /\ Asked' = file_line'
    BY <1>2 DEF NextByte, Asked
  <2>3. Asked = file_line - 1
    BY <1>2 DEF Asked
  <2> QED BY <1>2, <1>a, <2>1, <2>2, <2>3
<1>9. lines' = Append(lines, Source!Bytes(NextByte, q))
  <2>1. cr <=> (q > NextByte /\ file[q - 1] = CR)
    <3>1. CASE line_end = data_begin
      BY <1>a, <3>1
    <3>2. CASE line_end # data_begin
      <4>1. line_end - 1 \in data_begin .. data_end - 1 /\ q > NextByte
            /\ base + (line_end - 1) + 1 = q - 1
        BY <1>a, <3>2
      <4> QED BY <1>2, <3>2, <4>1, HoldsFile
    <3> QED BY <3>1, <3>2
  <2> DEFINE end == IF q > NextByte /\ file[q - 1] = CR THEN q - 2 ELSE q - 1
  <2>2. last - data_begin + 1 = end - NextByte + 1
    BY <1>a, <2>1
  <2>3. ASSUME NEW k \in 1 .. last - data_begin + 1
        PROVE  buffer[data_begin + k - 1] = NextByte + k - 1
    <3>1. last \in {line_end - 1, line_end - 2}
      OBVIOUS
    <3> HIDE DEF last
    <3>2. data_begin + k - 1 \in data_begin .. data_end - 1 /\ k \in Int
      BY <1>a, <3>1
    <3>3. buffer[data_begin + k - 1] = base + (data_begin + k - 1) + 1
      BY <1>2, <3>2 DEF Contents
    <3> QED BY <1>a, <3>3, <3>2
  <2> HIDE DEF last, q, cr
  <2>4. [k \in 1 .. last - data_begin + 1 |-> buffer[data_begin + k - 1]]
          = [k \in 1 .. end - NextByte + 1 |-> NextByte + k - 1]
    BY <2>2, <2>3
  <2> QED BY <1>2, <2>4 DEF Source!Bytes
<1> HIDE DEF q
<1> QED BY <1>2, <1>4, <1>6, <1>7, <1>8, <1>9 DEF Source!GiveLine

(* A line that is refused is too long in the file as well: its line break  *)
(* may lie beyond the blocks, but never before the end of the scan.        *)
LEMMA TooLongRefuses ==
  ASSUME Inv, Contents, Places, TooLong
  PROVE  Source!RefuseLine
<1>1. PICK racy \in BOOLEAN : Exceeds(LineEnd(racy))
  BY DEF TooLong
<1> DEFINE line_end == LineEnd(racy)
           S == {q \in NextByte .. limit + 1 : q <= limit => file[q] = LF}
<1>2. /\ pc = "scan" /\ pc' = "idle" /\ line_end - data_begin + 1 > BlockLen
      /\ answer' = "too_long"
      /\ UNCHANGED <<file, limit, lines, file_line, base, data_begin>>
  BY <1>1 DEF TooLong, Exceeds, source, reader, cursor
<1>3. /\ NextByte = base + data_begin + 1
      /\ line_end \in data_begin .. data_end
      /\ base + data_end <= limit /\ data_begin < data_end
      /\ \A k \in NextByte .. base + line_end : file[k] # LF
  BY <1>2, ScanIsSound
<1> HIDE DEF line_end
<1> USE BlockLenPositive
<1>a. /\ base \in Nat /\ limit \in Nat /\ data_begin \in Nat /\ data_end \in Nat
      /\ line_end \in Nat /\ data_begin <= line_end /\ line_end <= data_end
      /\ NextByte = base + data_begin + 1 /\ NextByte \in Nat
      /\ base + data_end <= limit /\ data_begin < data_end
  BY SMTT(30), ZenonT(20), <1>3, Numbers
<1>4. NextByte \in Nat /\ NextByte <= limit
  BY <1>a
<1>5. S \in SUBSET Nat /\ limit + 1 \in S
  BY <1>a, <1>4
<1>6. PICK x \in S : \A y \in S : x <= y
  BY <1>5, SmallestExists
<1>7. x \in NextByte .. limit + 1 /\ (x <= limit => file[x] = LF)
  OBVIOUS
<1>8. ASSUME NEW k \in NextByte .. x - 1 PROVE file[k] # LF
  <2>1. k \in NextByte .. limit + 1 /\ k < x
    BY <1>a, <1>7
  <2>2. k \notin S
    BY <1>6, <1>7, <2>1
  <2> QED BY <2>1, <2>2
<1> HIDE DEF S
<1>9. Source!EndsAt(NextByte, x)
  BY <1>7, <1>8 DEF Source!EndsAt
<1>10. x > base + line_end
  <2> SUFFICES ASSUME x <= base + line_end PROVE FALSE
    BY <1>a, <1>7
  <2>1. x \in NextByte .. base + line_end /\ x <= limit
    BY <1>a, <1>7
  <2> QED BY <1>3, <1>7, <2>1
<1>11. x - NextByte + 1 > BlockLen
  BY <1>2, <1>a, <1>7, <1>10
<1>12. NextByte' = NextByte /\ Asked' = Asked + 1
  <2>1. file_line \in Nat
    BY DEF Inv, TypeOK
  <2> QED BY <1>2, <1>3, <2>1 DEF NextByte, Asked
<1> QED BY <1>2, <1>4, <1>7, <1>9, <1>11, <1>12 DEF Source!RefuseLine

(* What reads the file shows nothing but its failure.                      *)
LEMMA FinishReadRefines ==
  ASSUME Inv, Contents, Places, FinishRead \/ FinishReadInline
  PROVE  Source!ReadFails \/ UNCHANGED Source!sourceVars
<1> USE Numbers, BlockLenPositive DEF source, reader, cursor
<1>1. /\ pc = "finish" /\ pc' \in {"idle", "asleep", "copy"}
      /\ UNCHANGED <<file, lines, file_line, base, data_begin>>
  BY DEF FinishRead, FinishReadInline
<1>2. NextByte = base + data_begin + 1 /\ NextByte' = NextByte
  BY <1>1 DEF NextByte
<1>3. CASE pc' = "idle"
  <2>1. limit' = base + data_end /\ answer' = "read_error"
    BY <1>3 DEF FinishRead, FinishReadInline
  <2>2. base + data_end <= limit /\ data_begin < data_end
    BY <1>1 DEF Places, Whole, Inv, Cursors
  <2>3. Asked' = Asked + 1
    <3>1. file_line \in Nat
      BY DEF Inv, TypeOK
    <3> QED BY <1>1, <1>3, <3>1 DEF Asked
  <2>4. NextByte <= limit /\ limit' \in NextByte .. limit
    BY SMTT(30), <1>2, <2>1, <2>2
  <2> QED BY <1>1, <1>2, <2>1, <2>3, <2>4 DEF Source!ReadFails
<1>4. CASE pc' # "idle"
  <2>1. limit' = limit /\ answer' = answer
    BY <1>4 DEF FinishRead, FinishReadInline, given
  <2>2. Asked' = Asked
    BY <1>1, <1>4 DEF Asked
  <2> QED BY <1>1, <1>2, <2>1, <2>2 DEF Source!sourceVars
<1> QED BY <1>3, <1>4

(* Reading the first two blocks and dropping the mark is not seen.         *)
LEMMA ConstructShowsNothing ==
  ASSUME Inv, Places, Construct
  PROVE  UNCHANGED Source!sourceVars
<1> DEFINE n == Available(2 * BlockLen)
           marked == SubSeq(file, 1, Len(Mark)) = Mark
<1>1. 2 * BlockLen \in Nat /\ Len(Mark) \in Nat /\ Len(Mark) <= BlockLen
  BY BlockLenPositive, LineReaderConstants
<1>2. /\ offset = 0 /\ base' = 0
      /\ data_begin' = IF n >= Len(Mark) /\ marked THEN Len(Mark) ELSE 0
      /\ pc = "open" /\ pc' \in {"start", "idle"}
      /\ UNCHANGED <<file, limit, lines, answer, file_line>>
  BY DEF Construct, Places, given
<1>3. n >= Len(Mark) <=> Len(file) >= Len(Mark)
  BY <1>1, <1>2, Numbers, BlockLenPositive DEF Available
<1>4. NextByte = IF Len(file) >= Len(Mark) /\ marked THEN Len(Mark) + 1 ELSE 1
  BY <1>2 DEF NextByte
<1>5. NextByte' = base' + data_begin' + 1
  BY <1>2 DEF NextByte
<1> HIDE DEF n, marked
<1>6. NextByte' = NextByte
  BY <1>1, <1>2, <1>3, <1>4, <1>5
<1>7. Asked' = Asked
  BY <1>2 DEF Asked
<1> QED BY <1>2, <1>6, <1>7 DEF Source!sourceVars

(* The end is said when every byte has been given, and only then.          *)
LEMMA AtEndSaysSo ==
  ASSUME Inv, Places, AtEnd
  PROVE  Source!SayEnd
<1> USE Numbers, BlockLenPositive DEF source, reader, cursor
<1>1. /\ pc = "idle" /\ data_begin = data_end /\ answer' = "end"
      /\ UNCHANGED <<pc, file, limit, lines, file_line, base, data_begin>>
  BY DEF AtEnd
<1>2. base + data_begin >= limit
  BY <1>1 DEF Places, Cut, Over, Whole
<1>3. NextByte = base + data_begin + 1 /\ NextByte' = NextByte
  BY <1>1 DEF NextByte
<1>4. Asked' = Asked
  BY <1>1 DEF Asked
<1> QED BY <1>1, <1>2, <1>3, <1>4 DEF Source!SayEnd

(* The steps the caller of next_line() sees nothing of.                    *)
LEMMA Unseen ==
  ASSUME Inv,
         \/ OpenFails \/ StartRead \/ NextLine \/ CopyBlock \/ Destroy \/ Terminate
         \/ Join \/ Worker \/ SpuriousWakeup \/ UNCHANGED vars
  PROVE  UNCHANGED Source!sourceVars
<1> USE Numbers, BlockLenPositive DEF source, reader, cursor, given
<1>1. CASE OpenFails
  BY <1>1 DEF OpenFails, Source!sourceVars, NextByte, Asked
<1>2. CASE StartRead
  BY <1>2 DEF StartRead, Source!sourceVars, NextByte, Asked
<1>3. CASE NextLine
  <2>1. /\ pc = "idle" /\ pc' \in {"finish", "scan"} /\ file_line' = file_line + 1
        /\ base' + data_begin' = base + data_begin
        /\ UNCHANGED <<file, limit, lines, answer>>
    BY SMTT(30), <1>3 DEF NextLine
  <2>2. NextByte' = NextByte
    BY <2>1 DEF NextByte
  <2>3. Asked' = Asked
    <3>1. file_line \in Nat
      BY DEF Inv, TypeOK
    <3> QED BY <2>1, <3>1 DEF Asked
  <2> QED BY <2>1, <2>2, <2>3 DEF Source!sourceVars
<1>4. CASE CopyBlock
  BY <1>4 DEF CopyBlock, Source!sourceVars, NextByte, Asked
<1>5. CASE Destroy
  BY <1>5 DEF Destroy, Source!sourceVars, NextByte, Asked
<1>6. CASE Terminate
  BY <1>6 DEF Terminate, Source!sourceVars, NextByte, Asked
<1>7. CASE Join
  BY <1>7 DEF Join, Source!sourceVars, NextByte, Asked
<1>8. CASE Worker
  BY <1>8 DEF Worker, WorkerWait, WorkerRead, WorkerFails, WakeCaller,
              Source!sourceVars, NextByte, Asked
<1>9. CASE SpuriousWakeup
  BY <1>9 DEF SpuriousWakeup, Source!sourceVars, NextByte, Asked
<1>10. CASE UNCHANGED vars
  BY <1>10 DEF vars, Source!sourceVars, NextByte, Asked
<1> QED BY <1>1, <1>2, <1>3, <1>4, <1>5, <1>6, <1>7, <1>8, <1>9, <1>10

(* LineReader implements LineSource: whatever the length of a block, the   *)
(* file, and the interleaving with the worker, the caller of next_line()   *)
(* is given the lines of the file, in order, each once and whole.          *)
THEOREM GivesTheLinesCorrect == Spec => GivesTheLines
<1>1. Init => Source!Init
  BY DEF Init, Source!Init, Source!Marked, NextByte, Asked
<1>2. Inv /\ Contents /\ Places /\ [Next]_vars => [Source!Next]_(Source!sourceVars)
  <2> SUFFICES ASSUME Inv, Contents, Places, [Next]_vars
               PROVE  Source!Next \/ UNCHANGED Source!sourceVars
    OBVIOUS
  <2>1. CASE CutLine
    BY <2>1, CutLineGives DEF Source!Next
  <2>2. CASE TooLong
    BY <2>2, TooLongRefuses DEF Source!Next
  <2>3. CASE FinishRead \/ FinishReadInline
    BY <2>3, FinishReadRefines DEF Source!Next
  <2>4. CASE AtEnd
    BY <2>4, AtEndSaysSo DEF Source!Next
  <2>5. CASE Construct
    BY <2>5, ConstructShowsNothing
  <2>6. CASE \/ OpenFails \/ StartRead \/ NextLine \/ CopyBlock \/ Destroy \/ Terminate
             \/ Join \/ Worker \/ SpuriousWakeup \/ UNCHANGED vars
    BY <2>6, Unseen
  <2> QED BY <2>1, <2>2, <2>3, <2>4, <2>5, <2>6 DEF Next, InCall
<1> QED BY <1>1, <1>2, ContentsInvariance, PTL DEF Spec, GivesTheLines, Source!Spec
=============================================================================
