----------------------------- MODULE LineReader -----------------------------
(***************************************************************************)
(* LineReader and the readers under it (csv.h): a buffer of three blocks,  *)
(* of which the caller scans the first two for lines while a worker thread *)
(* reads the third from the file.  One action per stretch of code between  *)
(* two points where the other thread can run: the mutex is held by the     *)
(* worker for the whole of a read, and by everyone else within an action.  *)
(* A byte is its position in the file; 0 is NUL, or never written.         *)
(***************************************************************************)
EXTENDS Integers, Sequences

CONSTANTS
  BlockLen,     (* block_len                                               *)
  Files,        (* the byte sequences the file may hold                    *)
  LF, CR, Mark, (* the bytes the code looks for                            *)
  MaxCalls      (* bound: calls of next_line() that get past its first test *)

ASSUME LineReaderConstants ==
  /\ BlockLen \in Nat /\ BlockLen >= Len(Mark) /\ Len(Mark) > 0
  /\ Len(Mark) \in Nat /\ MaxCalls \in Nat /\ LF # CR
  /\ \A f \in Files : Len(f) \in Nat /\ DOMAIN f = 1 .. Len(f)

VARIABLES
  file, offset, (* the byte source: its bytes, how many it has given       *)
  threaded,     (* AsynchronousReader, or SynchronousReader (CSV_IO_NO_THREAD) *)
  pc,           (* where the caller is in LineReader                       *)
  worker,       (* where the worker thread is                              *)
  valid,        (* is_valid(): the reader has the byte source              *)
  desired_byte_count, read_byte_count, read_error, termination_requested,
  buffer, alive,(* the three blocks, and whether they are still allocated  *)
  data_begin, data_end, file_line,
  base,         (* history: the position in the file before buffer[0]      *)
  limit,        (* history: the end of the file, or of what was read       *)
  lines, answer (* history: the lines returned, how the last call ended    *)

source == <<file, offset, threaded>>
reader == <<worker, valid, desired_byte_count, read_byte_count, read_error,
            termination_requested>>
cursor == <<data_begin, data_end, file_line, base>>
given  == <<limit, lines, answer>>
vars   == <<source, pc, reader, buffer, alive, cursor, given>>

None  == -1
Third == 2 * BlockLen .. 3 * BlockLen - 1

Init ==
  /\ file \in Files /\ offset = 0 /\ threaded \in BOOLEAN
  /\ pc = "open" /\ worker = "none" /\ valid = FALSE
  /\ desired_byte_count = None /\ read_byte_count = None
  /\ read_error = FALSE /\ termination_requested = FALSE
  /\ buffer = [i \in 0 .. 3 * BlockLen - 1 |-> 0] /\ alive = TRUE
  /\ data_begin = 0 /\ data_end = 0 /\ file_line = 0 /\ base = 0
  /\ limit = Len(file) /\ lines = <<>> /\ answer = "none"

-----------------------------------------------------------------------------
(* What the steps are built from                                           *)

(* ByteSourceBase::read(): as many bytes as asked for, fewer only at the   *)
(* end; the same for a FILE, a stream and a string.                        *)
Available(n) == IF n <= Len(file) - offset THEN n ELSE Len(file) - offset

Filled(buf, from, n) ==
  [i \in DOMAIN buf |-> IF i \in from .. from + n - 1
                          THEN offset + i - from + 1 ELSE buf[i]]

WakeWorkerForgotten == worker
WakeCallerForgotten == pc

(* notify_one(): who waits looks again.                                    *)
WakeWorker == IF worker = "asleep" THEN "awake" ELSE worker
WakeCaller == IF pc = "asleep" THEN "finish" ELSE pc

Locked == worker = "reading"

Holds(i, byte) == buffer[i] # 0 /\ file[buffer[i]] = byte

-----------------------------------------------------------------------------
(* The caller: constructor, next_line(), destructor                        *)

OpenFails ==
  /\ pc = "open" /\ pc' = "failed"
  /\ UNCHANGED <<source, reader, buffer, alive, cursor, given>>

Construct ==
  LET n == Available(2 * BlockLen)
  IN  /\ pc = "open" /\ offset' = n
      /\ buffer' = Filled(buffer, 0, n) /\ data_end' = n
      /\ data_begin' = IF n >= Len(Mark) /\ SubSeq(file, 1, Len(Mark)) = Mark
                         THEN Len(Mark) ELSE 0
      /\ valid' = (n = 2 * BlockLen)
      /\ worker' = IF valid' /\ threaded THEN "awake" ELSE worker
      /\ pc' = IF valid' THEN "start" ELSE "idle"
  /\ UNCHANGED <<file, threaded, desired_byte_count, read_byte_count, read_error,
                 termination_requested, alive, file_line, base, given>>

StartRead ==
  /\ pc \in {"start", "restart"} /\ ~Locked
  /\ desired_byte_count' = BlockLen
  /\ read_byte_count' = None
  /\ worker' = WakeWorker
  /\ pc' = IF pc = "start" THEN "idle" ELSE "scan"
  /\ UNCHANGED <<source, valid, read_error, termination_requested, buffer, alive,
                 cursor, given>>

AtEnd ==
  /\ pc = "idle" /\ data_begin = data_end /\ answer' = "end"
  /\ UNCHANGED <<source, pc, reader, buffer, alive, cursor, limit, lines>>

NextLine ==
  /\ pc = "idle" /\ data_begin # data_end /\ file_line < MaxCalls
  /\ file_line' = file_line + 1
  /\ IF data_begin >= BlockLen
       THEN /\ buffer' = [i \in DOMAIN buffer |->
                            IF i < BlockLen THEN buffer[i + BlockLen] ELSE buffer[i]]
            /\ data_begin' = data_begin - BlockLen
            /\ data_end' = data_end - BlockLen /\ base' = base + BlockLen
            /\ pc' = IF valid THEN "finish" ELSE "scan"
       ELSE /\ pc' = "scan" /\ UNCHANGED <<buffer, data_begin, data_end, base>>
  /\ UNCHANGED <<source, reader, alive, given>>

(* finish_read() sleeps until the worker has answered; what it throws goes *)
(* through next_line() to the caller.                                      *)
FinishRead ==
  /\ pc = "finish" /\ threaded /\ ~Locked
  /\ IF read_error
       THEN /\ pc' = "idle" /\ answer' = "read_error"
            /\ limit' = base + data_end /\ UNCHANGED data_end
       ELSE /\ IF read_byte_count = None
                 THEN pc' = "asleep" /\ UNCHANGED data_end
                 ELSE pc' = "copy" /\ data_end' = data_end + read_byte_count
            /\ UNCHANGED <<limit, answer>>
  /\ UNCHANGED <<source, reader, buffer, alive, data_begin, file_line, base, lines>>

FinishReadInline ==
  /\ pc = "finish" /\ ~threaded
  /\ \/ LET n == Available(desired_byte_count)
        IN  /\ buffer' = Filled(buffer, 2 * BlockLen, n) /\ offset' = offset + n
            /\ data_end' = data_end + n /\ pc' = "copy"
            /\ UNCHANGED <<limit, answer>>
     \/ /\ pc' = "idle" /\ answer' = "read_error" /\ limit' = base + data_end
        /\ UNCHANGED <<buffer, offset, data_end>>
  /\ UNCHANGED <<file, threaded, reader, alive, data_begin, file_line, base, lines>>

CopyBlockForgotten ==
  /\ pc = "copy" /\ pc' = "restart"
  /\ UNCHANGED <<source, reader, buffer, alive, cursor, given>>

CopyBlock ==
  /\ pc = "copy" /\ pc' = "restart"
  /\ buffer' = [i \in DOMAIN buffer |->
                  IF i \in BlockLen .. 2 * BlockLen - 1
                    THEN buffer[i + BlockLen] ELSE buffer[i]]
  /\ UNCHANGED <<source, reader, alive, cursor, given>>

(* The scan takes no lock: a byte that the worker may be writing is a line *)
(* break or not, as it comes.                                              *)
IsBreak(i, racy) == IF Locked /\ i \in Third THEN racy ELSE Holds(i, LF)

(* Where the scan for the line break stops: at data_end at the latest, but *)
(* only after a look at the byte that is there.                            *)
LineEnd(racy) ==
  CHOOSE e \in data_begin .. data_end :
    /\ IsBreak(e, racy) \/ e = data_end
    /\ \A i \in data_begin .. e - 1 : ~IsBreak(i, racy)
LookedAt(racy) == data_begin .. LineEnd(racy)

ExceedsBoth(line_end) == line_end - data_begin > 2 * BlockLen

(* A line may fill one block, its break included.                          *)
Exceeds(line_end) == line_end - data_begin + 1 > BlockLen

TooLong ==
  /\ pc = "scan" /\ \E racy \in BOOLEAN : Exceeds(LineEnd(racy))
  /\ pc' = "idle" /\ answer' = "too_long"
  /\ UNCHANGED <<source, reader, buffer, alive, cursor, limit, lines>>

EndAfterUnmoved(line_end) == data_end
EndAfterAlways(line_end) == data_end + 1

(* Some files are missing the newline at the end of the last line.         *)
EndAfter(line_end) == IF line_end = data_end THEN data_end + 1 ELSE data_end

CutAt(line_end) ==
  LET cr   == line_end # data_begin /\ Holds(line_end - 1, CR)
      last == IF cr THEN line_end - 2 ELSE line_end - 1
  IN  /\ ~Exceeds(line_end)
      /\ data_end' = EndAfter(line_end)
      /\ buffer' = [i \in DOMAIN buffer |->
                      IF i = line_end \/ (cr /\ i = line_end - 1) THEN 0 ELSE buffer[i]]
      /\ lines' = Append(lines, [k \in 1 .. last - data_begin + 1 |->
                                   buffer[data_begin + k - 1]])
      /\ data_begin' = line_end + 1
      /\ pc' = "idle" /\ answer' = "line"

CutLine ==
  /\ pc = "scan" /\ \E racy \in BOOLEAN : CutAt(LineEnd(racy))
  /\ UNCHANGED <<source, reader, alive, file_line, base, limit>>

(* The members go in the reverse order of their declaration: the reader,   *)
(* which joins its worker, before the buffer.                              *)
Destroy ==
  /\ pc = "idle"
  /\ IF valid /\ threaded THEN pc' = "stop" /\ UNCHANGED alive
                          ELSE pc' = "closed" /\ alive' = FALSE
  /\ UNCHANGED <<source, reader, buffer, cursor, given>>

Terminate ==
  /\ pc = "stop" /\ ~Locked
  /\ termination_requested' = TRUE /\ worker' = WakeWorker /\ pc' = "join"
  /\ UNCHANGED <<source, valid, desired_byte_count, read_byte_count, read_error, buffer,
                 alive, cursor, given>>

Join ==
  /\ pc = "join" /\ worker = "exited"
  /\ pc' = "closed" /\ alive' = FALSE
  /\ UNCHANGED <<source, reader, buffer, cursor, given>>

-----------------------------------------------------------------------------
(* The worker thread                                                       *)

WorkerWait ==
  /\ worker = "awake"
  /\ worker' = IF termination_requested THEN "exited"
               ELSE IF desired_byte_count = None THEN "asleep" ELSE "reading"
  /\ UNCHANGED <<source, pc, valid, desired_byte_count, read_byte_count, read_error,
                 termination_requested, buffer, alive, cursor, given>>

WorkerRead ==
  LET n == Available(desired_byte_count)
  IN  /\ worker = "reading"
      /\ buffer' = Filled(buffer, 2 * BlockLen, n) /\ offset' = offset + n
      /\ read_byte_count' = n /\ desired_byte_count' = None
      /\ worker' = IF n = 0 THEN "exited" ELSE "awake"
      /\ pc' = WakeCaller
      /\ UNCHANGED <<file, threaded, valid, read_error, termination_requested, alive,
                     cursor, given>>

WorkerFails ==
  /\ worker = "reading" /\ worker' = "exited"
  /\ read_error' = TRUE /\ pc' = WakeCaller
  /\ UNCHANGED <<source, valid, desired_byte_count, read_byte_count,
                 termination_requested, buffer, alive, cursor, given>>

(* A condition variable may wake its waiter without a notification.        *)
SpuriousWakeup ==
  /\ \/ worker = "asleep" /\ worker' = "awake" /\ UNCHANGED pc
     \/ pc = "asleep" /\ pc' = "finish" /\ UNCHANGED worker
  /\ UNCHANGED <<source, valid, desired_byte_count, read_byte_count, read_error,
                 termination_requested, buffer, alive, cursor, given>>

Worker == WorkerWait \/ WorkerRead \/ WorkerFails

InCall == StartRead \/ FinishRead \/ FinishReadInline \/ CopyBlock \/ TooLong \/ CutLine
          \/ Terminate \/ Join

Next ==
  \/ OpenFails \/ Construct \/ AtEnd \/ NextLine \/ Destroy
  \/ InCall \/ Worker \/ SpuriousWakeup

Spec == Init /\ [][Next]_vars

(* Both threads run: a call that has begun goes on, and so does the worker. *)
FairSpec == Spec /\ WF_vars(InCall) /\ WF_vars(Worker)

-----------------------------------------------------------------------------
(* Properties                                                              *)

Bytes == {0} \cup UNION {DOMAIN f : f \in Files}

(* Every variable keeps to its values; the cursors stay inside the buffer. *)
TypeOK ==
  /\ file \in Files /\ offset \in 0 .. Len(file) /\ threaded \in BOOLEAN
  /\ pc \in {"open", "failed", "start", "idle", "finish", "asleep", "copy", "restart",
             "scan", "stop", "join", "closed"}
  /\ worker \in {"none", "awake", "asleep", "reading", "exited"}
  /\ valid \in BOOLEAN /\ desired_byte_count \in {None, BlockLen}
  /\ read_byte_count \in None .. BlockLen
  /\ read_error \in BOOLEAN /\ termination_requested \in BOOLEAN
  /\ buffer \in [0 .. 3 * BlockLen - 1 -> Bytes] /\ alive \in BOOLEAN
  /\ data_begin \in 0 .. 2 * BlockLen /\ data_end \in 0 .. 2 * BlockLen
  /\ file_line \in 0 .. MaxCalls /\ base \in Nat /\ limit \in Nat
  /\ lines \in Seq(Seq(Bytes))
  /\ answer \in {"none", "line", "too_long", "read_error", "end"}

(* The assertions at the head of next_line() hold whenever it is called:   *)
(* there is something between the cursors and it lies in the two blocks    *)
(* that are the caller's.                                                  *)
AssertsHold ==
  pc = "idle" /\ data_begin # data_end
    => data_begin < data_end /\ data_end <= 2 * BlockLen

(* While the worker reads into the third block, that block is allocated    *)
(* and the caller neither copies from it nor writes to it.  Of its bytes   *)
(* the scan may look at the first alone, without the lock, when it finds   *)
(* no line break in the two blocks before: what it sees there changes      *)
(* nothing, and such a line is refused and not cut.                        *)
BlocksAreApart ==
  Locked =>
    /\ alive /\ pc # "copy"
    /\ pc = "scan" => \A racy \in BOOLEAN :
         /\ LookedAt(racy) \cap Third \subseteq {data_end} /\ LineEnd(racy) = LineEnd(~racy)
         /\ LineEnd(racy) \in Third => Exceeds(LineEnd(racy))

(* Whoever waits is waited for by no one: a caller asleep in finish_read() *)
(* or in join() has a worker that will still answer it.                    *)
WorkerAnswers ==
  /\ pc = "asleep" => worker \in {"awake", "reading"}
  /\ pc = "join" => worker # "asleep"

(* Where the next line starts and how many were asked for, as the caller   *)
(* of next_line() sees it: a call counts when it returns.                  *)
NextByte ==
  IF pc \in {"open", "failed"}
    THEN IF Len(file) >= Len(Mark) /\ SubSeq(file, 1, Len(Mark)) = Mark
           THEN Len(Mark) + 1 ELSE 1
    ELSE base + data_begin + 1
Asked ==
  IF pc \in {"finish", "asleep", "copy", "restart", "scan"}
    THEN file_line - 1 ELSE file_line

(* LineReader implements LineSource: the blocks, the cursors and the two   *)
(* threads show their caller nothing but the lines of the file.            *)
Source == INSTANCE LineSource WITH MaxLine <- BlockLen, at <- NextByte, asked <- Asked
GivesTheLines == Source!Spec

(* Every call returns: next_line() with a line, an error or the end of the *)
(* file, the destructor with the worker joined.                            *)
CallsReturn ==
  pc \notin {"open", "failed", "idle", "closed"} ~> pc \in {"idle", "closed"}
=============================================================================
