# Verification of simple-dgps

simple-dgps is a C++ library that a rover or base station program links:
`CommCore` talks to a u-blox GPS receiver over a serial port, `SimpleDGps` does
the mathematics of code range differential GPS, and `src/include` carries two
readers of CSV files. This directory holds TLA+ models of all three, TLC
configurations that check them on small instances, and TLAPS proofs of theorems
about them. Paths are relative to the
repository; line numbers are those of the commit modelled.

## 1. The system

| Component | Source | State | Operations | Model |
|---|---|---|---|---|
| Session | `src/commCore.cpp`, `.h` | the port, the poll timer, `m_inputBuf`, `m_inData` | `start`, the destructor, the read handler, the timer handler, `sendMessage`, `processInputData` | `UbxSession`, `PositionFeed` |
| Frame parser | COMMS library, cc.ublox (not in the repository) | none between calls | `processAllWithDispatch` | `UbxFrame` |
| Satellite position | `src/simpleDGps.cpp` 41-70, 184-225 | none | `calcTimeFromEpoch`, `calcEccentricAnomaly`, `calcSatPos` | `GpsTime` (the age only) |
| Corrections | `src/simpleDGps.cpp` 227-288 | maps the caller keeps | `calcSatRangeCorrection`, `applyCorrectionOnPseudoRange` | `DgpsPipeline` |
| Trilateration | `src/simpleDGps.cpp` 6-20, 324-516 | matrices on the heap, arrays on the stack | `trillatPosFromRange`, `leastSquareReg`, the matrix functions | `LinearAlgebra`, `Trilateration` |
| Coordinates, distances | `src/simpleDGps.cpp` 72-182 | none | conversions | not modelled |
| `boost_wrap.h` | `src/include` | none | names of types; an unused `post` | not modelled |
| `coreTest` | `test/coreTest.cpp` | local variables | the order in which a caller uses the maths | the caller in `DgpsPipeline` |
| `csv.h`: lines | `src/include/csv.h` 142-502 | a buffer of three blocks, `data_begin`, `data_end`, `file_line`; the worker thread, its mutex and two condition variables | constructor, `next_line`, destructor | `LineReader`, `LineSource` |
| `csv.h`: rows | `src/include/csv.h` 502-1271 | `column_names`, `col_order`, `row`, the caller's variables | `set_header`, `read_header`, `has_column`, `read_row`, `next_line`, the converters | `CsvRow`, `CsvReader` |
| `minicsv.h` | `src/include/minicsv.h` | the stream, `str`, `pos`, `token`, the byte order mark flags, delimiters and escapes | `open`, `<<`, `>>`, `read_line`, `skip_line`, `get_delimited_str`, `get_rest_of_line`, `num_of_delimiter` | `MiniCsv` |

How they interact. The owner of an `io_context` creates a `Session`, starts it and
calls `run()`. From then on everything is a completion handler on the thread
inside `run()`: the read handler appends what arrived to `m_inData`, lets the
parser dispatch whole frames to `handle()`, erases what was consumed and starts
the next read; the timer handler sends a poll and arms the timer again. Both
handlers capture `this`. A failed read or write stops the `io_context`; nobody is
told otherwise. The mathematics is a set of functions called in sequence: locate
satellites, compare true and pseudo ranges at the base, apply the corrections at
the rover, trilaterate. The two parts share no state: `handle()` only prints. The CSV readers
are headers of their own that no file of the library includes yet; a program that
links it may. In `csv.h` the `CSVReader` of rows calls the `LineReader`, which hands
blocks of the buffer to a worker thread and back; `minicsv.h` is sequential.

What is hard, and what correctness means:

* **Session.** Interleavings of reads, polls, writes that fail in the middle,
  `stop()`, `start()` again, and destruction with completions queued. Correct: one
  read and one timer chain, never doubled and never lost; no byte lost, repeated
  or reordered however reads cut the stream; every whole frame handled once, in
  order; frames on the wire contiguous; nothing touches a destroyed session; polls
  keep coming.
* **Age of an ephemeris.** Times of week wrap. Correct: the true age as long as
  it is under half a week.
* **Corrections.** Two receivers that see different satellites at different
  moments, while errors drift. Correct: a correction removes the error it was computed from and leaves
  the drift since, only shared satellites are combined, nothing is looked up that is not there.
* **Trilateration.** Fixed array sizes against a variable number of satellites,
  null results, integers too small, lifetimes. Correct: memory is never left, and
  the result solves the least squares problem of the right equations. Much of
  this the code does not do: see section 5.

* **Lines.** Two threads, three blocks, one mutex. Correct: what the worker reads into,
  the caller neither copies nor cuts; no wakeup is lost and both threads end; the caller gets exactly the
  file's lines wherever block boundaries, line breaks, the mark and a failed read fall.
* **Rows.** Two scans that must read quotes the same way, arithmetic on the edge of a type,
  a row whose conversion stops half way, pointers kept from an earlier line. Correct: what was
  written is what is read, under its name; an error says where it was found.
* **`minicsv.h`.** A writer and a reader whose configurations must mirror each other, stream
  state bits, a mark recognised by its bytes. Correct: values and lines come back; every call returns.

The file `PROJECT.json` lists every hazard at its line, with the properties about it.

## 2. Modules

### UbxFrame, UbxSession, PositionFeed, MCUbxSession

`UbxFrame` stands for the external parser: a byte is "the pos-th byte of frame f", where
frame 0 is traffic that is no NAV-POSLLH frame but whose first byte looks like a
sync header. At a position the parser finds an intact frame (dispatch, skip
it), an unfinished one (stop and wait) or neither (skip a byte). A false header
claims `LureLen` bytes and so holds back what follows until they have arrived.

`UbxSession` has the members of the class under their own names. The variable `pc`
says which of the session's functions the thread executes: `owner` (outside
`run()`), `run` (waiting for a completion), `write` (the loop of `sendMessage`),
`poll`, `arm` (the two halves of `sendPosPoll`), `parse` (`processInputData`),
`read` (`performRead`), `crashed`. `resume` and `caller` are the call stack.
Completions wait in `ready` in the order asio queues them; `readPending` and
`timerPending` count operations not yet completed.

| Code | Actions |
|---|---|
| `start()` 27-46 | `StartFails` (open error), `StartThrows` (`set_option` throws, port left open), `StartConfigures`, then `SendPosPoll`, `ArmTimer`, `PerformRead` |
| `sendMessage` 108-133 | `WriteSome` (any part of the buffer), `WriteFails` (stops the io_context, returns) |
| `sendPosPoll` 92-106 | `SendPosPoll`, `ArmTimer` (re-arming cancels a pending wait) |
| read handler 64-81 | `HandleAborted`, `HandleReadError`, `HandleRead`, then `HandleNavPosllh` / `SkipByte` per parser step, `EraseConsumed`, `PerformRead` |
| timer handler 99-105 | `HandleAborted`, `HandleTimer` |
| `~Session` 25 | `Destroy`: what is pending completes as aborted; what is already queued keeps its result |
| a handler after the destructor | `HandleDangling` |
| asio, device, owner | `DeviceSends`, `ReadCompletes`, `PortFails`, `TimerExpires`, `Run`, `RunReturns`, `LoopStops`, `Restart` |

The handler's steps are separate actions only where something else can happen in between:
the device sends while the thread computes. Reads and expiries are noticed only
in `run`, as one thread runs everything.

`PositionFeed` is the abstract specification: bytes come in, and the next whole
frame in them is delivered, none skipped, none twice. `ImplementsFeed` says that
`UbxSession` implements it, with `taken` and `handled` (history variables of the
session) as its variables.

### GpsTime

`calcTimeFromEpoch` as an operator with its strict comparisons, called by
`calcSatPos` in a world where a clock ticks and the receiver hands over
ephemerides for any moment within `MaxLead` of now. Only times of week reach the
code. Seconds are integers; `HalfWeek` is 302400 in the code.

### DgpsPipeline, MCDgpsPipeline

A `std::map` is a function on the satellite ids it holds. One round is the
sequence of `coreTest.cpp`: `BaseObserves`, `CalcSatRangeCorrection`,
`ApplyCorrection` (with the rover's own observation), `Trilaterate` (the lookups of
`trillatPosFromRange`; `wild` collects the ids whose iterator was `end()`).
`SkyChanges` happens between any two steps. Each receiver observes any subset of
the sky. `Difference` is line 257. `baseBias` and `roverBias` remember the errors at the two observations. True distances are constants, so what
`calcSatToStationRange` computes is left out; an error ("bias") is added to a
distance to give a pseudo range and is common to base and rover, which is the
assumption differential GPS rests on.

### LinearAlgebra, Trilateration, MCTrilateration

`LinearAlgebra` has the matrix functions on the memory that `allocate2Ddouble`
lays out: one block of numbers and one pointer per row. An index past a row's end reads the next
row; past the block, or past the row pointers, it is outside and reads `junk`.
Numbers are integers, so there is no rounding; after the division of line 446 every number
stands for itself over `det`, which is kept beside it. `ToInt` is the conversion of line 433: it takes a number in units of
1 / `one`, cuts what is behind the point, towards zero, and where the rest does not fit an `int` of `IntMax` gives any
`int` at all, 0 included. A length is a whole number of 1 / `Unit`; a determinant of normal equations is a product of six
lengths, hence in units of `One`.

`Trilateration` is one call: `Call` (line 462-480), `FillRow` per satellite (480-506),
`Transpose`, `MultiplyNormal`, `CalcInverse`, `MultiplyPseudo`, `MultiplyVector`
(453-457) and `ReadResult` (511-515). Undefined behaviour is a choice over outcomes: before each step
`Faults` says in which ways it is about to leave its memory; then the step reads
any value of `Junk` (and a write outside changes nothing of this call), or the
process crashes. A null matrix always crashes. Since a call shares no state with
another, one call is one behaviour, which ends in `done` or `crashed`: the
trilateration configurations therefore switch the deadlock check off. The places of the user
lie `Radius` from the centre of the earth, as the code assumes (line 494).

### LineSource, LineReader, MCLineReader

`LineReader` cuts `csv.h` at the points where the other thread can run. The mutex is
held by the worker during a read (`Locked`) and within one action by everybody else. A byte in the
buffer is its position in the file, so a byte that is lost, repeated or moved is seen. `threaded`
chooses between `AsynchronousReader` and the `SynchronousReader` of `CSV_IO_NO_THREAD`.

| Code | Actions |
|---|---|
| constructors 371-420, `init` 349-369 | `OpenFails`, `Construct`, `StartRead` |
| `next_line` 446-500 | `AtEnd`, `NextLine`, then when a block is used up `FinishRead` or `FinishReadInline`, `CopyBlock`, `StartRead`; then `CutLine` or `TooLong`, which end the scan of 467-470. Where the scan looks at the byte at `data_end` while the worker may be writing it, that byte is a break or not (`IsBreak`) |
| worker 214-238 | `WorkerWait`, `WorkerRead`, `WorkerFails` (the read throws) |
| destructors, `~AsynchronousReader` 267-276 | `Destroy`, `Terminate`, `Join` |
| condition variables | `SpuriousWakeup`; `WakeWorker` and `WakeCaller` are the two `notify_one` |

`LineSource` is the abstract specification: the lines of a file, in order, each once, without break
or mark; too long a line is refused; a failed read moves the end of the file to wherever the reader
had got. `GivesTheLines` is the refinement (`Source == INSTANCE LineSource WITH ...`): the
position of the next line is computed from the cursors (`NextByte`), and a call is counted when it returns (`Asked`).

### CsvRow, CsvReader, MiniCsv and their MC modules

`CsvRow` is `read_row` on one line, one action per round of a loop: `CutColumn`, `CutDone` for
`parse_line`; `SkipColumn`, `TakeText`, `StartNumber` for `parse_helper`; `Digit`, `Overflow`, `EndDigits`,
`AssignInteger` for the integers, which have the 8 bits of a `char` type; `FloatDigit`, `FloatMark`,
`StartPower`, `RaisePower`, `EndPower` for the floats, which are a mantissa and a decimal exponent without rounding,
infinite beyond the power `MaxPower` of ten and 0 below its inverse, with 0 times infinity not a number (`MultiplyByBase`).
The exponent is an 8-bit integer too, where the code has an `int`; `MaxPower` is any natural number, and the runs take it far smaller
than the largest exponent, as it is in C. `Unescape` does what the code's quote policy does.

`CsvReader` has a call per action: `SetHeader`, `ReadHeader`, `ReadRow`, `SkipLine` (`next_line`), on a
file that is already lines of cells. A `char*` is the line and the column it points into, so a stale
pointer is told from a fresh one.

`MiniCsv` runs a list of output operations (`PutString`, `PutOther`, `PutNewline`, `PutSep`), then a
list of input operations (`OpenFile`, `SetInputString`, `EnableTrimQuote`, `SetSep`, `ReadLine`, `SkipLine`,
`ReadColumn`, `RestOfLine`) with the loops of `read_line` (`LineRound`) and `get_delimited_str` (`LastColumn`,
`DoubledQuote`, `ColumnChar`) in rounds. The four stream classes are two with a different source and sink. `std::getline` is
modelled by what it does to the position and to the two error bits. What is run is a job: a record of the configuration, the text
that is there before, and the two lists (`Job`). Its stream is opened before it is read (`OpensFirst`), and where `lines`
is set it is opened once and no line skipped; the properties about the k-th line are about those. `Form` is what an operator `<<` makes
of a value: the escapes of the writer, and the quotes around it. Two histories relate the two halves: `written` has the
values of each line with the delimiter in force and the operator that put them, `got` what each call of `read_line` and the
column calls behind it gave. `Faithful` states which columns can come back as they were; `AskedFor`, that they were read with the
delimiter that stands behind them.

In all three one thread makes all calls, and a behaviour ends when its job is done, so their deadlock check is off.
They and `Trilateration` have no type invariant among their runs: the ranges of their variables follow from the lines
and matrices given, and the properties checked are about those contents.

## 3. Runs

| Run | Question | Bounds and why they are enough |
|---|---|---|
| `session_safety` | every interleaving of one session | Frames of 3 bytes read 2 at a time: a frame needs several reads and a read can hold the end of one frame and the start of another. A lure of 4 bytes is longer than a frame and holds a whole one back. Two pieces from the line, two `start()` calls, one failed write, one restart, three polls: each chain goes around more than once and every failure can hit every step. 746,632 states. |
| `session_liveness` | do polls and reads go on | one piece of the line, frames of 2 bytes, reads of 1. 14,070 states. |
| `gps_time` | the age across rollovers | a week of 8 with 2.5 weeks of clock: two rollovers, ages from ahead of time to over two weeks. 56,224 states. |
| `dgps_pipeline` | do corrections stay with what they correct | two satellites, errors of both signs and none, two changes of the sky at any moment, rounds without end: every way a satellite can be missed at base or rover, or set between two steps, and corrections of one round after those of another. 201,996 states. |
| `trilateration` | memory and equations | four ids, four positions (three of them independent, and repeated positions make singular matrices), two places, zero to four satellites, all ranges or all but one; a length is in thirds (`Unit` 3) and an `int` has 4 bits (`IntMax` 7), so that determinants are 0, below one on either side of it, in range, and too large. 284,654 states. |
| `line_reader` | the lines of a file through three blocks and two threads | blocks of 3 bytes and files up to `MaxFile` 6 and a tail: empty lines, both kinds of break, lines that just fit and that do not, last lines with and without a break, a mark or half of one, a line that fills both blocks, each at every offset from a block boundary; both readers, a failed read at any block, wakeups for no reason. 115,970 states. |
| `csv_row` | one line into the caller's variables | up to three columns; every text of up to two characters out of a letter, the separator, the quote and a blank, bare, quoted and padded, and every quoted text of three; integers of up to four digits around 127, 128 and 255 under each overflow policy; exponents to beyond -128 with a float that ends at 10^8 (`MaxPower`), so that results and squared bases are infinite, 0 and not a number. 38,736 states. |
| `csv_reader` | headers, rows and errors over a file | four calls on four lines, two variables: a header good, with a column more, fewer, doubled or unclosed; rows good and bad; a second header over an earlier row. 106,881 states. |
| `mini_csv` | what is written is read; every call returns | rows under every combination of escape, surrounding quotes and quote escape, delimiters that change within a row, two rows with a number; texts of blank lines with a mark, part of one or none; a file that is not there. 61,620 states. |

The properties of each are explained in the modules. The ones that say most:

* `StreamIntact`, `HandledExactly`, `ImplementsFeed`: what was read is exactly what was
  erased, kept and in flight, and the frames handled are exactly the intact ones, however reads cut them.
* `LeftoverIsOneFrame`: the unbounded `m_inData` holds less than one claimed frame after a read.
* `NeverDeaf`, `NeverMute`: the two chains are never broken, except by a failed read.
* `FailedStartIsFinal`: a `start()` that throws with the port open spoils every later one of that session.
* `DanglesOnlyIfStale`: the destructor's cancellation suffices for what is pending but
  not for completions already queued; if the owner destroys the session and runs the `io_context` again,
  those use a destroyed object. The repository says nothing on that order of calls, so it is a
  boundary stated as an invariant, not a finding.
* `AgeCorrect`: exact within half a week, off by whole weeks beyond.
* `CorrectionLeavesTheDrift`, `WildOnlyIfUnobserved`: what a correction leaves of the rover's error is what drifted
  between the two observations of this round, never something older; and the wild read has no other cause than a missed satellite.
* `ThreeStayInside`, `RowsDescribeAntipode`, `NormalEquations`, `SmallIsSingular`: the parts of the trilateration
  that are right, and which matrices end in the null pointer.
* `GivesTheLines`, `BlocksAreApart`, `WorkerAnswers`: the hand-over of blocks shows its caller nothing but lines,
  the one byte in which the threads may meet changes nothing, and nobody sleeps on a worker that will not answer. `CallsReturn`: every call ends.
* `ColumnsComeBack` (both readers) and `NumbersAreExact`: the round trip. The conditions on what is written are
  the places where the readers do not give back what they were given.
* `BadColumnSplitsTheRow`, `StaleColumnsAreNotInTheOrder`: how far a failed row or header reaches.
* `ExponentLoopEnds`, `MiniCsv`'s `CallsReturn`: loops end. What hangs in the code (section 5) is left out by the condition
  of each and not asserted by it.

Fairness. `session_liveness`: `FairSpec` asks weak fairness for the thread's own
steps and for the owner's `run()`, and strong fairness for the completion of reads that have data and
of expired timers: the reactor is polled between handlers, so such an event is
noticed even if the thread keeps leaving `run` for handlers. The device, faults, `stop()`,
`restart()` and the destructor are owed nothing. `MaxPolls` stands for "for ever" in `PollsKeepComing`.
`line_reader`: weak fairness for a call that has begun (`InCall`) and for the worker: both threads are scheduled;
no new call and no spurious wakeup is owed. `csv_row` and `mini_csv`: weak fairness for the steps of a loop that was entered.

Every property has a mutant in `PROJECT.json`: an alternative form of one mapped definition, kept
beside it in the module, under which the run must fail.

## 4. Proofs

All for every value of the constants, checked by TLAPS with SMT, Zenon and LS4.

**UbxSessionProofs** proves `TypeCorrect`. `TypeOK` is not inductive alone: a read completion
carries a count that must not exceed what is in the buffer, which `CountsFit` adds.
Lemmas state what cutting and joining sequences preserves.

It then proves `OneRead`, `OneTimer`, `NeverDeaf`, `NeverMute`, `DanglesOnlyIfStale`
and `QuietAfterStop`. The inductive invariant `ChainInv` joins the first four, which need
each other, to four facts about the code: nothing is pending before the port is open
(`NothingBeforeOpen`), the session's code runs only with an open port (`CodeNeedsPort`), what
`start()` executes comes before any completion (`StartIsFirst`) and a failed read is on record
(`FailuresRecorded`). The argument rests on lemmas about `Live`, the positions of completions in
the queue that will not return early, under append, tail and cancellation. `OneRead` depends on
`CanOpen`: nothing but the error of opening an open port stops a second `start()` from doubling the chains.
`FailedStartIsFinal`, an action property, follows from the same invariant.

The rest of the module follows the bytes. `StreamInv`: `m_inData` is the stretch of the input right behind what was erased
(`Kept1to1`); what is not in it is the count of the one read still queued (`RestInFlight`, which needs `OneRead`); the
parser stays inside `m_inData` (`ParserInside`) and stops only before a frame that is not all there (`LeftoverWaits`).
From it `StreamIntact` and `LeftoverIsOneFrame`. `HandledExactly` is not inductive: bytes that arrive later could turn a
skipped byte into the head of a whole frame. `Settled` excludes that: every head the parser has passed had all the bytes of
its frame there. With both, `FeedImplemented` proves the refinement: a completed read is bytes received by
`PositionFeed` (`FeedReceives`), a handled frame its next delivery (`FeedDelivers`), and every other step a stutter.
On the way out it proves `WireFramed`: the wire followed by the rest of the message being sent has every byte behind
its predecessor or at the head of a frame (`Contiguous`), and has at most as many frames cut short as writes have failed.
Appending a whole frame adds no cut one (`FrameAppended`), stopping early adds one at the most (`OutputTruncated`).

**LineReaderProofs** proves `TypeOK`, `AssertsHold`, `BlocksAreApart` and `WorkerAnswers` for every block length and every file.
The invariant adds where the cursors can be at each point of a call (`Cursors`), when there is a worker and when it is told to stop
(`Phases`), and the handshake: a read that was asked for is answered, being answered, or still can be (`Served`), or the
file has ended and nothing will be asked for again (`Drained`).

For `BlocksAreApart` the scan is looked at with either value of the byte it may share with the worker: it stops at
`data_end` both times, and a line that long is refused.

From it follows `GivesTheLines`. `Contents`: each byte in the caller's blocks is the byte of the file that belongs
there, through moving, copying and reading ahead; `Places`: what is in the blocks or ahead of them is all that was read, and
less than a block is given only at the end of the file. Then every step is shown to be a step of `LineSource` or none:
`CutLineGives` the next line, `TooLongRefuses`, `FinishReadRefines`, `AtEndSaysSo`, and the rest is `Unseen`.

**CsvReaderProofs** proves `RowsAreUnderTheirHeader`, `StaleColumnsAreNotInTheOrder` and `ErrorsSayWhere` for any files, names
and calls. Each is about the answer of one call; what carries them from call to call is that no variable is set from two
columns of a line (`OrderIsOneToOne`), that a header taken whole is the order in force and lacks nothing the caller did not let
be missing (`HeaderIsTheOrder`), and that only columns of the order are filled over an empty row (`RestIsNull`; a header
read over a row breaks it, which is why the property excludes that). `OrderIs` says what `read_header` makes of a list of
cells, from the first column at which it stops.

**CsvRowProofs** proves `NumbersAreExact`, `BadColumnSplitsTheRow` and `ColumnsComeBack` for every text, type, order of
columns and policy.

* Control (`StateOK`): the columns before `r` are assigned, those behind it untouched, and after an error nothing moves. From it
  `BadColumnSplitsTheRow`, with `ThrownOK` for what the bad column holds.
* Numbers (`NumbersOK`). At each step of a conversion some number `k` of characters of its text has been read, and the variables
  say what these are worth (`DigitsOK`, `WholeOK`, `FractionOK`, `MarkedOK`). The overflow test fails exactly for a value the
  type cannot hold (`OverflowsIs`); values only grow with each digit (`ValueGrows`), so the whole number is then out of range
  too (`BeyondIs`). In the loop over the bits of an exponent, the power of ten reached and `e` times the `base` left, cut at
  `MaxPower`, are always the power that is written (`RaiseOK`), and the form the number has by then (finite, infinite, not a number) is the one `FormAfter` says.
* Columns (`ColumnsOK`): what is left of the line is the line of the fields not read yet. A scan is inside quotes where
  it has passed an odd number of them, and this adds up over texts that are joined (`InsideJoins`); so a field that is well written
  is one column however many separators it holds (`WrittenColumn`), trimming and unescaping it gives its text back
  (`CoreComesBack`, `TextComesBack`), and a line is its first field, a separator, and the line of the rest (`LineSplits`).

What is defined by recursion over a text (`Value`, `FlattenSeq`) is unfolded by least elements: a text at which the claim fails
would have a shortest beginning at which it fails (`SmallestExists`, from the well-foundedness of the natural numbers).

**MiniCsvProofs** proves `LinesComeBack` and `ColumnsComeBack` for every alphabet, every set of jobs, and texts, escapes and
delimiters of any length and kind, and `StaysStuck`, an action property that says which calls of `read_line` never return. Everything starts from `TypeInv`
and `FlowInv` (`MiniTypeCorrect`), the order in which calls can come: all is written before anything is read, a line is forgotten where it
ends, the mark is known once it may be looked for.

* Lines (`LinesInv`). While the stream has not ended it stands behind exactly as many counted ends of lines as calls of
  `read_line` returned (`StreamPlace`); once it has, there are no more than that (`AllCounted`); and until a column
  is taken `str` is the last of these lines, whole (`LineHeld`). A round of the loop passes one end: the line is given, or it is
  blank and not counted, or it is the first and its mark is cut (`RoundInText`, `RoundAtEnd`).
* A value to its token and back. The text of a column is cut into one part per character of its value (`Parts`), and `Replace` on
  text that is cut where its occurrences stand replaces parts (`ReplaceParts`). Escaping, quoting and their reverse become maps
  over parts, and `TokenBack` follows: the token the reader makes of a faithful column is turned back into the value. `ScanExists` is the other half:
  `get_delimited_str` goes through what was put from the first character to the last (`Scan`), one at a time or two at a
  doubled quote, sees no delimiter outside of quotes on its way, and is outside of quotes when it is through.
* What was written (`WrittenInv`). There is a place in the text for every column and every line end (`Placed`), each column standing as its
  `Form` behind the one before and its delimiter. The history says which values were written, not where: without the
  places an induction over the reader's steps has nothing to compare its position with.
* The reader (`ColumnsInv`). For any such places: between two lines the stream is where the next one was put (`NextAt`), between
  two columns the line is held up to the delimiter passed last (`HeldAt`), and in a column the reader is at one of the
  points of `Scan`, with that much of the token (`ColumnAt`). `ValuesComeBack` alone is not inductive: it says nothing of a
  column half read. `num_of_delimiter` is counted column by column (`ColumnEven`): quotes are even where a column ends and odd at
  each delimiter in it, so the counted ones are those between columns.

**TrilaterationProofs** proves `ThreeStayInside`, `RowsDescribeAntipode`, `NormalEquations` and `SmallIsSingular` for
any satellites, positions and ranges. Where a loop goes depends on the shapes of the matrices only (`ShapesOK`), whatever numbers
are in them, so with three satellites every index is inside (`FaultsOfThree`). Each row that was filled holds at the
antipode (`RowsFilled`, from `Antipode`), which needs the user `Radius` from the centre and the ranges to be exact. `SumOfThree`
turns the fold over three indices into a sum. `EntriesOK`: what the determinant is computed from are integers. `NullEnds`: a null pointer was made
only where the determinant, in units of `One`, was cut to 0 or did not fit (`CutIsExact`), nothing runs after it was read, and a
determinant cut to 0 always ends in it.

**GpsTimeProofs** proves `AgeIsCorrect`, from `AgeIsExact` and `AgeIsFolded`. A time is its week number times the week
plus its time of week (`WeekNumber`), so the folded difference is off by whole weeks (`Folded`), and
a whole number of weeks within half a week on either side is none (`FewWeeks`, `Exact`).

**DgpsPipelineProofs** proves `DriftIsLeft`, `WildReads`, `SharedOnly` and `PipelineTypeCorrect` for any
satellites, ranges and errors. The invariants speak of one step of the round each; `RoundInv`, which is
inductive, says what each map holds at every step: after the observation the base's ranges are true ranges
plus the errors of that moment (`Observed`), and from then on the corrections are the sizes of those errors,
for exactly the located satellites the base observed (`Corrections`); the rover's ranges are its true ranges plus
the errors of the later moment (`ObservedByRover`). `SignRemovesError` puts the two together.

Assumptions: the named ASSUMEs of the modules (`FrameLengths`, `SessionConstants`, `TimeConstants`,
`PipelineConstants`, `LineReaderConstants`, `CsvReaderConstants`, `RowConstants`, `TrilaterationConstants`, `MiniCsvConstants`),
which TLC evaluates on the instances. Those of the rows say that no name occurs twice among a reader's columns, that an order sends no two columns
to one variable; that of the trilateration, that the user is at
`Radius`; those of `MiniCsv`, that the escape of quotes is not empty and holds no quote and no line break, and what `OpensFirst`
asks of a job.

All safety properties that hold are proved, of every module. Only model-checked are the liveness properties (`PollsKeepComing`,
`LineDrains`, `ExponentLoopEnds`, `CallsReturn` of `LineReader` and of `MiniCsv`: fairness and ENABLED
are outside what the prover handles), and that the properties of the three violation runs fail.

## 5. Where the code differs from what it says

Three runs expect a violation. Each checks one property taken from a comment or the header.

| Run | The code | What is said |
|---|---|---|
| `dgps_apply` | line 280 returns the correction | header line 102: corrections are applied to pseudo ranges |
| `trilat_determinant` | line 337 recurses on the matrix itself | comment line 322 |
| `trilat_dangling` | line 411 returns a local array | header line 99 |

Further defects are in the models, and the properties that hold say how far each reaches:

* Line 257 takes the absolute value, where `README.md` line 11 has "substracting the observed pseudo range from the
  calculated pseudo range": the rover cannot know which way a correction goes. `CorrectionLeavesTheDrift` therefore leaves the sign open.
* Line 484 uses the result of `find()` unchecked, and line 486 tests the wrong iterator: `WildOnlyIfUnobserved`.
* Line 456 reads the null pointer that line 437 returns for a matrix it takes for singular. `int det` (line 433) cuts a
  determinant below one to 0, of either sign, and the conversion of one that does not fit is undefined: `SmallIsSingular`.
* Line 494 gives `Dm` the sign of the antipode: `RowsDescribeAntipode`.
* `calcAdjoint` (line 362) fills the adjoint with one number up to sign, the 2 by 2 value of
  `clacDeterminant` on the whole matrix; the determinant of satellite coordinates does not fit `int det`; and the result of a call is therefore no least squares solution even where
  nothing leaves its memory.
* `csv.h` line 468 reads `buffer[line_end]` before it compares `line_end` with `data_end`. A line without a break in both
  blocks makes it read the first byte of the third, which the worker may be writing: a data race, undefined in C++. The model gives that
  byte either value (`IsBreak`), and `BlocksAreApart` says that neither makes a difference, as line 472 refuses the line.
* `csv.h` line 1066: an exponent of the smallest `int`, which every smaller one becomes, never ends its loop
  (left out of `ExponentLoopEnds`). Line 1073: the base is squared until it is infinite or 0, so `0e1000` is read as
  not a number and a small enough decimal with a large enough exponent as infinite (`NumbersAreExact`). Lines 1152 and 896: a header read over a row keeps that row's pointers, one that
  throws half way keeps half an order (`StaleColumnsAreNotInTheOrder`). Line 614 formats a line number that
  `read_header` never sets (`ErrorsSayWhere`). Line 461: after a failed read the reader goes on with what it has and then
  reports the end of the file (`ReadFails` of `LineSource`). The message of line 136 speaks of a limit of 2^24-1
  characters, the block of line 322 has 2^20.
* `minicsv.h` line 148 takes one byte of three for a mark (`LinesComeBack`). Line 126: the reader opened by a C string has an empty
  quote escape, although line 23 says the default is "&quot;", and a column read with it never returns; line 220: neither does
  `read_line` where blank lines are skipped, on a stream that failed without reaching its end (`StaysStuck`). `CallsReturn` is about all other calls. Line 275: a quote at the head of a column is told by today's delimiter
  (`Faithful`).

Beyond three satellites `vectorB` overflows (line 499), and below three the matrix loops leave
their blocks (line 391). Both are in the model; `ThreeStayInside` states the number for which they do not happen.

## 6. Not modelled

* Floating point: rounding, and in `CsvRow` the asymmetry of a float's range, whose smallest numbers are not the inverses of
  its largest. The conversions between coordinates, the true
  distance and the orbit are closed formulas with no control to check. Units (radians, degrees, metres,
  kilometres) are not modelled.
* `calcEccentricAnomaly`'s loop (line 62): whether it ends is a fact about rounded sines alone; a model that assumed a
  contraction would give back that assumption.
* `getCofactor` (dead code), `free2Dchar` (never called), memory that is never freed.
* `boost_wrap.h` (names of types), build files, and the output on `std::cout`.
* In `csv.h` the names and line numbers a caller sets by hand and the text of messages; in `minicsv.h` the build with
  `boost::lexical_cast`, the range test of `NChar`, and `close` and `flush`, which only forward.
* Several sessions, or several threads in `run()`: the class has no protection against the second and
  nothing in the repository does it.
* A receiver that answers the polls. What it sends is any traffic in `UbxSession`, which includes every answer; the
  repository has no code of the receiver to model one from.

## 7. Plan

Written, in the order of importance: the session with its refinement; the age of an ephemeris; the corrections; the
trilateration; the lines of `csv.h` with their refinement; its rows; `minicsv.h`; the proofs of every safety property.

Still worth doing:

1. A specification of one whole position fix (least squares over the right equations) that the
   trilateration would implement if the defects of section 5 were repaired.
