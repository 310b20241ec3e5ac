----------------------------- MODULE UbxSession -----------------------------
(***************************************************************************)
(* ublox::simple_pos::Session (commCore.h, commCore.cpp): opens a serial   *)
(* port, configures the receiver, polls it for its position every second   *)
(* and dispatches the NAV-POSLLH frames that come back.  Everything runs   *)
(* as completion handlers on one thread inside io_context::run(); what     *)
(* interleaves with the handlers is the serial line, the timer, and the    *)
(* owner, who starts and destroys the session and runs the io_context.     *)
(***************************************************************************)
EXTENDS UbxFrame, FiniteSets

CONSTANTS
  BufSize,      (* capacity of m_inputBuf (512 in commCore.h)              *)
  OutLen,       (* bytes of an outgoing frame                              *)
  Pieces,       (* byte strings the receiver may put on the line           *)
  MaxPieces,    (* bound: pieces sent by the receiver                      *)
  MaxPolls,     (* bound: calls of sendPosPoll                             *)
  MaxFaults,    (* bound: failed writes                                    *)
  MaxStarts,    (* bound: calls of start()                                 *)
  MaxRestarts   (* bound: io_context::restart() by the owner               *)

ASSUME SessionConstants ==
  /\ BufSize \in Nat \ {0}
  /\ OutLen \in Nat \ {0}
  /\ Pieces \subseteq Seq(Byte)
  /\ {MaxPieces, MaxPolls, MaxFaults, MaxStarts, MaxRestarts} \subseteq Nat

VARIABLES
  alive,        (* the Session object exists                               *)
  serialOpen,   (* m_serial.is_open()                                      *)
  m_inputBuf,   (* the bytes ever read into the array; a later read        *)
                (* overwrites them from the front                          *)
  m_inData,     (* bytes not yet consumed by the frame parser              *)
  pc,           (* where the thread is: "owner" and "run" are outside the  *)
                (* session's code, the others name the call being executed *)
  caller,       (* "start" or "handler": who called the code at pc         *)
  consumed,     (* processInputData: bytes parsed so far                   *)
  buf,          (* sendMessage: bytes still to write                       *)
  resume,       (* where sendMessage returns to                            *)
  ioStopped,    (* io_context::stopped()                                   *)
  readPending,  (* reads given to m_serial and not completed               *)
  timerPending, (* waits given to m_pollTimer and not completed            *)
  ready,        (* completions queued in the io_context, oldest first      *)
  rx,           (* bytes that arrived at the port and were not read        *)
  wire,         (* every byte written to the port                          *)
  taken,        (* history: every byte read from the port                  *)
  erased,       (* history: how many of those m_inData dropped             *)
  handled,      (* history: for each handle(NavPosllh), where its frame    *)
                (* starts in taken                                         *)
  readFailed,   (* history: a read completed with an error                 *)
  writeFaults,  (* history: failed writes                                  *)
  stale,        (* history: the session was destroyed with a completion    *)
                (* other than operation_aborted in the queue               *)
  starts, startsOk, polls, pieces, restarts   (* counters                  *)

lifeVars   == <<alive, serialOpen, starts, startsOk, stale>>
threadVars == <<pc, caller>>
sendVars   == <<buf, resume, wire, writeFaults>>
parseVars  == <<m_inData, consumed, erased, handled>>
loopVars   == <<ioStopped, restarts>>
readVars   == <<readPending, m_inputBuf, rx, taken, readFailed>>
timerVars  == <<timerPending, polls>>

vars == <<lifeVars, threadVars, sendVars, parseVars, loopVars, readVars,
          timerVars, ready, pieces>>

(* A handler given this completion returns before it touches the session.  *)
ReturnsEarlyNever(c) == FALSE
ReturnsEarly(c) == c.ec = "aborted"

Completion == [op : {"read", "timer"}, ec : {"ok", "error", "aborted"}, n : Nat]
Aborted(op) == [op |-> op, ec |-> "aborted", n |-> 0]
AllAborted(op, count) == [i \in 1 .. count |-> Aborted(op)]

OutByte  == [msg : {"CfgPrtUsb", "NavPosllhPoll"}, pos : 1 .. OutLen]
FrameOneTooLong(msg) == [i \in 1 .. OutLen + 1 |-> [msg |-> msg, pos |-> i]]
Frame(msg) == [i \in 1 .. OutLen |-> [msg |-> msg, pos |-> i]]

Init ==
  /\ alive = TRUE /\ serialOpen = FALSE
  /\ m_inputBuf = <<>> /\ m_inData = <<>>
  /\ pc = "owner" /\ caller = "start"
  /\ consumed = 0 /\ buf = <<>> /\ resume = "poll"
  /\ ioStopped = FALSE /\ readPending = 0 /\ timerPending = 0 /\ ready = <<>>
  /\ rx = <<>> /\ wire = <<>> /\ taken = <<>> /\ erased = 0 /\ handled = <<>>
  /\ readFailed = FALSE /\ writeFaults = 0 /\ stale = FALSE
  /\ starts = 0 /\ startsOk = 0 /\ polls = 0 /\ pieces = 0 /\ restarts = 0
-----------------------------------------------------------------------------
(* start(), called by the owner outside run().                             *)

CallStart ==
  /\ pc = "owner" /\ alive /\ starts < MaxStarts
  /\ starts' = starts + 1

(* open() succeeds only on a closed port; error::already_open otherwise.   *)
CanOpenTwice == TRUE
CanOpen == ~serialOpen

(* open() reports an error: no such device, or the port is already open.   *)
StartFails ==
  /\ CallStart
  /\ UNCHANGED <<alive, serialOpen, startsOk, stale, threadVars, sendVars,
                 parseVars, loopVars, readVars, timerVars, ready, pieces>>

(* set_option() throws: start() is left with the port open.                *)
StartThrows ==
  /\ CallStart
  /\ CanOpen
  /\ serialOpen' = TRUE
  /\ UNCHANGED <<alive, startsOk, stale, threadVars, sendVars, parseVars,
                 loopVars, readVars, timerVars, ready, pieces>>

SendMessage(msg, then) ==
  /\ buf' = Frame(msg)
  /\ resume' = then
  /\ pc' = "write"
  /\ UNCHANGED <<wire, writeFaults>>

(* configureUbxOutput(): one frame, UBX in and out, no NMEA.               *)
ConfigureUbxOutput == SendMessage("CfgPrtUsb", "poll")

(* The port opens and takes its options; configureUbxOutput() begins.      *)
StartConfigures ==
  /\ CallStart
  /\ CanOpen
  /\ serialOpen' = TRUE
  /\ caller' = "start"
  /\ ConfigureUbxOutput
  /\ UNCHANGED <<alive, startsOk, stale, parseVars, loopVars, readVars,
                 timerVars, ready, pieces>>
-----------------------------------------------------------------------------
(* sendMessage(): blocking writes until the frame is out or one fails.     *)

UnsentFromLast(count) == SubSeq(buf, count, Len(buf))
Unsent(count) == SubSeq(buf, count + 1, Len(buf))

WriteSome ==
  /\ pc = "write"
  /\ \E count \in 1 .. Len(buf) :
       /\ wire' = wire \o SubSeq(buf, 1, count)
       /\ buf' = Unsent(count)
  /\ pc' = IF buf' = <<>> THEN resume ELSE "write"
  /\ UNCHANGED <<caller, resume, writeFaults, lifeVars, parseVars, loopVars,
                 readVars, timerVars, ready, pieces>>

(* A failed write stops the io_context; the caller is not told and goes on. *)
AfterFaultPollAgain == "poll"
AfterFaultGiveUp == IF caller = "start" THEN resume ELSE "run"
AfterFault == resume

WriteFails ==
  /\ pc = "write" /\ writeFaults < MaxFaults
  /\ writeFaults' = writeFaults + 1
  /\ ioStopped' = TRUE
  /\ buf' = <<>>
  /\ pc' = AfterFault
  /\ UNCHANGED <<caller, resume, wire, restarts, lifeVars, parseVars,
                 readVars, timerVars, ready, pieces>>

(* sendPosPoll(): the poll is sent, then the timer is armed.               *)
AfterPollOnlyOnce == IF caller = "start" THEN "arm" ELSE "run"
AfterPoll == "arm"

SendPosPoll ==
  /\ pc = "poll"
  /\ polls' = polls + 1
  /\ SendMessage("NavPosllhPoll", AfterPoll)
  /\ UNCHANGED <<caller, timerPending, lifeVars, parseVars, loopVars,
                 readVars, ready, pieces>>

(* expires_from_now() cancels the waits it finds; async_wait() adds one.   *)
ArmTimer ==
  /\ pc = "arm"
  /\ ready' = ready \o AllAborted("timer", timerPending)
  /\ timerPending' = 1
  /\ pc' = IF caller = "start" THEN "read" ELSE "run"
  /\ UNCHANGED <<caller, polls, lifeVars, sendVars, parseVars, loopVars,
                 readVars, pieces>>

(* performRead(): the last call of start() and of the read handler.        *)
PerformRead ==
  /\ pc = "read"
  /\ readPending' = readPending + 1
  /\ pc' = IF caller = "start" THEN "owner" ELSE "run"
  /\ startsOk' = IF caller = "start" THEN startsOk + 1 ELSE startsOk
  /\ UNCHANGED <<caller, alive, serialOpen, starts, stale, sendVars, parseVars,
                 loopVars, m_inputBuf, rx, taken, readFailed, timerVars,
                 ready, pieces>>
-----------------------------------------------------------------------------
(* The handlers, run one at a time in the order of their completions.      *)

Dispatch(op) ==
  /\ pc = "run" /\ ~ioStopped
  /\ ready # <<>> /\ Head(ready).op = op
  /\ ready' = Tail(ready)

(* operation_aborted: the handler returns before it touches the session.   *)
HandleAborted ==
  /\ \E op \in {"read", "timer"} : Dispatch(op)
  /\ ReturnsEarly(Head(ready))
  /\ UNCHANGED <<lifeVars, threadVars, sendVars, parseVars, loopVars,
                 readVars, timerVars, pieces>>

HandleReadError ==
  /\ Dispatch("read")
  /\ alive /\ Head(ready).ec = "error"
  /\ ioStopped' = TRUE
  /\ UNCHANGED <<restarts, lifeVars, threadVars, sendVars, parseVars,
                 readVars, timerVars, pieces>>

(* The first bytesCount bytes of the buffer, not the whole array.          *)
ReceivedWholeBuffer(bytesCount) == m_inputBuf
Received(bytesCount) == SubSeq(m_inputBuf, 1, bytesCount)

HandleRead ==
  /\ Dispatch("read")
  /\ alive /\ Head(ready).ec = "ok"
  /\ m_inData' = m_inData \o Received(Head(ready).n)
  /\ consumed' = 0
  /\ pc' = "parse" /\ caller' = "handler"
  /\ UNCHANGED <<erased, handled, lifeVars, sendVars, loopVars, readVars,
                 timerVars, pieces>>

HandleTimer ==
  /\ Dispatch("timer")
  /\ alive /\ ~ReturnsEarly(Head(ready))
  /\ pc' = "poll" /\ caller' = "handler"
  /\ UNCHANGED <<lifeVars, sendVars, parseVars, loopVars, readVars, timerVars,
                 pieces>>

(* The handler of a completion that was queued before the session was      *)
(* destroyed goes past its ec check and uses the destroyed object.         *)
HandleDangling ==
  /\ \E op \in {"read", "timer"} : Dispatch(op)
  /\ ~alive /\ ~ReturnsEarly(Head(ready))
  /\ pc' = "crashed"
  /\ UNCHANGED <<caller, lifeVars, sendVars, parseVars, loopVars, readVars,
                 timerVars, pieces>>
-----------------------------------------------------------------------------
(* processInputData(): the parser advances over m_inData, then what it     *)
(* consumed is erased.                                                     *)

Unparsed == consumed < Len(m_inData)

HandleNavPosllh ==
  /\ pc = "parse" /\ Unparsed
  /\ IntactAt(m_inData, consumed + 1)
  /\ handled' = Append(handled, erased + consumed + 1)
  /\ consumed' = consumed + PosLen
  /\ UNCHANGED <<m_inData, erased, lifeVars, threadVars, sendVars, loopVars,
                 readVars, timerVars, ready, pieces>>

SkipByte ==
  /\ pc = "parse" /\ Unparsed
  /\ ~IntactAt(m_inData, consumed + 1)
  /\ ~NotEnoughData(m_inData, consumed + 1)
  /\ consumed' = consumed + 1
  /\ UNCHANGED <<m_inData, erased, handled, lifeVars, threadVars, sendVars,
                 loopVars, readVars, timerVars, ready, pieces>>

ParserStops == Unparsed => NotEnoughData(m_inData, consumed + 1)

KeptNothing == <<>>
KeptAll == m_inData
Kept == SubSeq(m_inData, consumed + 1, Len(m_inData))

AfterParseNoRead == "run"
AfterParse == "read"

EraseConsumed ==
  /\ pc = "parse"
  /\ ParserStops
  /\ m_inData' = Kept
  /\ erased' = erased + consumed
  /\ consumed' = 0
  /\ pc' = AfterParse
  /\ UNCHANGED <<handled, caller, lifeVars, sendVars, loopVars, readVars,
                 timerVars, ready, pieces>>
-----------------------------------------------------------------------------
(* What asio and the line do while the thread waits inside run().          *)

DeviceSends ==
  /\ pieces < MaxPieces
  /\ pieces' = pieces + 1
  /\ \E s \in Pieces : rx' = rx \o s
  /\ UNCHANGED <<lifeVars, threadVars, sendVars, parseVars, loopVars,
                 readPending, m_inputBuf, taken, readFailed, timerVars, ready>>

ReadCompletes ==
  /\ pc = "run" /\ ~ioStopped /\ readPending > 0
  /\ \E n \in 1 .. Len(rx) :
       /\ n <= BufSize
       /\ m_inputBuf' = SubSeq(rx, 1, n) \o SubSeq(m_inputBuf, n + 1, Len(m_inputBuf))
       /\ taken' = taken \o SubSeq(rx, 1, n)
       /\ rx' = SubSeq(rx, n + 1, Len(rx))
       /\ ready' = Append(ready, [op |-> "read", ec |-> "ok", n |-> n])
  /\ readPending' = readPending - 1
  /\ UNCHANGED <<readFailed, lifeVars, threadVars, sendVars, parseVars,
                 loopVars, timerVars, pieces>>

PortFails ==
  /\ pc = "run" /\ ~ioStopped /\ readPending > 0
  /\ ready' = Append(ready, [op |-> "read", ec |-> "error", n |-> 0])
  /\ readPending' = readPending - 1
  /\ readFailed' = TRUE
  /\ UNCHANGED <<m_inputBuf, rx, taken, lifeVars, threadVars, sendVars,
                 parseVars, loopVars, timerVars, pieces>>

TimerExpires ==
  /\ pc = "run" /\ ~ioStopped /\ timerPending > 0
  /\ polls < MaxPolls
  /\ ready' = Append(ready, [op |-> "timer", ec |-> "ok", n |-> 0])
  /\ timerPending' = timerPending - 1
  /\ UNCHANGED <<polls, lifeVars, threadVars, sendVars, parseVars, loopVars,
                 readVars, pieces>>
-----------------------------------------------------------------------------
(* The owner of the io_context and of the session.                         *)

Run ==
  /\ pc = "owner"
  /\ pc' = "run"
  /\ UNCHANGED <<caller, lifeVars, sendVars, parseVars, loopVars, readVars,
                 timerVars, ready, pieces>>

RunReturns ==
  /\ pc = "run" /\ ioStopped
  /\ pc' = "owner"
  /\ UNCHANGED <<caller, lifeVars, sendVars, parseVars, loopVars, readVars,
                 timerVars, ready, pieces>>

(* run() out of work stops, and so does a stop() posted by the owner.      *)
LoopStops ==
  /\ pc = "run" /\ ~ioStopped
  /\ ioStopped' = TRUE
  /\ UNCHANGED <<restarts, lifeVars, threadVars, sendVars, parseVars,
                 readVars, timerVars, ready, pieces>>

Restart ==
  /\ pc = "owner" /\ ioStopped /\ restarts < MaxRestarts
  /\ ioStopped' = FALSE
  /\ restarts' = restarts + 1
  /\ UNCHANGED <<lifeVars, threadVars, sendVars, parseVars, readVars,
                 timerVars, ready, pieces>>

(* ~Session(): the timer and the port cancel what is pending on them.      *)
Destroy ==
  /\ pc = "owner" /\ alive
  /\ alive' = FALSE /\ serialOpen' = FALSE
  /\ stale' = (\E i \in DOMAIN ready : ready[i].ec # "aborted")
  /\ ready' = ready \o AllAborted("timer", timerPending)
                    \o AllAborted("read", readPending)
  /\ timerPending' = 0 /\ readPending' = 0
  /\ UNCHANGED <<starts, startsOk, threadVars, sendVars, parseVars, loopVars,
                 m_inputBuf, rx, taken, readFailed, polls, pieces>>

(* The process has crashed; nothing moves any more.                        *)
Crashed == pc = "crashed" /\ UNCHANGED vars
-----------------------------------------------------------------------------
Start   == StartFails \/ StartThrows \/ StartConfigures
Send    == WriteSome \/ SendPosPoll \/ ArmTimer \/ PerformRead
Handler == HandleAborted \/ HandleReadError \/ HandleRead \/ HandleTimer
Parse   == HandleNavPosllh \/ SkipByte \/ EraseConsumed
Asio    == ReadCompletes \/ PortFails \/ TimerExpires
Owner   == Run \/ RunReturns \/ LoopStops \/ Restart \/ Destroy

Next == \/ Start \/ Send \/ WriteFails \/ Handler \/ HandleDangling \/ Parse
        \/ DeviceSends \/ Asio \/ Owner \/ Crashed

Spec == Init /\ [][Next]_vars

(***************************************************************************)
(* The thread runs the session's code and the handlers whenever it can,    *)
(* and the owner runs the loop.  The reactor is polled between any two     *)
(* handlers, so an expired timer and arrived bytes are noticed although    *)
(* the thread keeps leaving run() for a handler: strong fairness.  Nothing *)
(* obliges the device, a fault or the owner's other calls to happen.       *)
(***************************************************************************)
Fairness ==
  /\ WF_vars(Send \/ Handler \/ Parse)
  /\ WF_vars(Run)
  /\ SF_vars(ReadCompletes)
  /\ SF_vars(TimerExpires)

FairSpec == Spec /\ Fairness
-----------------------------------------------------------------------------
(* Properties                                                              *)

TypeOK ==
  /\ alive \in BOOLEAN /\ serialOpen \in BOOLEAN
  /\ m_inputBuf \in Seq(Byte) /\ m_inData \in Seq(Byte)
  /\ pc \in {"owner", "run", "poll", "write", "arm", "read", "parse", "crashed"}
  /\ caller \in {"start", "handler"}
  /\ consumed \in Nat /\ buf \in Seq(OutByte) /\ resume \in {"poll", "arm"}
  /\ ioStopped \in BOOLEAN /\ readPending \in Nat /\ timerPending \in Nat
  /\ ready \in Seq(Completion)
  /\ rx \in Seq(Byte) /\ wire \in Seq(OutByte) /\ taken \in Seq(Byte)
  /\ erased \in Nat /\ handled \in Seq(Nat)
  /\ readFailed \in BOOLEAN /\ writeFaults \in Nat /\ stale \in BOOLEAN
  /\ starts \in Nat /\ startsOk \in Nat /\ polls \in Nat /\ pieces \in Nat
  /\ restarts \in Nat

(* Completions queued for a handler that will not return early.            *)
Live(queue, op) ==
  {i \in DOMAIN queue : queue[i].op = op /\ queue[i].ec # "aborted"}
Queued(op) == Live(ready, op)

ReadInHandler == pc \in {"parse", "read"}
PollInHandler == pc \in {"poll", "arm"} \/ (pc = "write" /\ caller = "handler")

(* One buffer, one reader: two reads are never outstanding at once, whether *)
(* given to the port, queued for the handler or being handled, so no read   *)
(* overwrites m_inputBuf before the handler has copied it.                  *)
OneRead ==
  /\ readPending <= 1
  /\ \A i, j \in Queued("read") : i = j
  /\ readPending = 1 => Queued("read") = {}
  /\ ReadInHandler => readPending = 0 /\ Queued("read") = {}

(* The same for the poll timer: start() and the handler never leave two     *)
(* chains of polls running.                                                 *)
OneTimer ==
  /\ timerPending <= 1
  /\ \A i, j \in Queued("timer") : i = j
  /\ timerPending = 1 => Queued("timer") = {}
  /\ PollInHandler => timerPending = 0 /\ Queued("timer") = {}

(* A started session keeps listening: unless a read failed, a read is       *)
(* pending, completed, or its handler is about to start the next one.       *)
NeverDeaf ==
  alive /\ startsOk > 0 /\ ~readFailed =>
    readPending = 1 \/ Queued("read") # {} \/ ReadInHandler

(* A started session keeps polling, through failed writes too.              *)
NeverMute ==
  alive /\ startsOk > 0 =>
    timerPending = 1 \/ Queued("timer") # {} \/ PollInHandler

(* Bytes read but not yet in m_inData.                                      *)
InFlight ==
  IF \E i \in Queued("read") : ready[i].ec = "ok"
  THEN SubSeq(m_inputBuf, 1, ready[CHOOSE i \in Queued("read") : TRUE].n)
  ELSE <<>>

(* No byte is lost, duplicated or reordered on its way to the parser: what  *)
(* was read is what was erased, then m_inData, then the completed read.     *)
StreamIntact ==
  alive => m_inData \o InFlight = SubSeq(taken, erased + 1, Len(taken))

(* However the reads cut the stream, each whole frame in what was parsed is *)
(* handled exactly once and in order, and nothing else is.                  *)
HandledExactly ==
  /\ \A i, j \in DOMAIN handled : i < j => handled[i] < handled[j]
  /\ {handled[i] : i \in DOMAIN handled} =
       {i \in 1 .. erased + consumed : IntactAt(taken, i)}

(* What is left in m_inData after a read is at most one unfinished frame,   *)
(* and every frame not yet handled is behind that frame's header.           *)
LeftoverIsOneFrame ==
  pc \in {"run", "owner", "read"} /\ m_inData # <<>> =>
    IsHeader(m_inData[1]) /\ Len(m_inData) < Claimed(m_inData[1])

(* What goes out is whole, contiguous frames: a frame is cut short only by  *)
(* a failed write, and partial writes lose or repeat nothing.               *)
WireFramed ==
  LET out == wire \o buf
      starts1(j) == out[j].pos = 1
      follows(j) == j > 1 /\ out[j - 1] = [out[j] EXCEPT !.pos = @ - 1]
      cut == {j \in DOMAIN out : out[j].pos < OutLen
                                  /\ (j = Len(out) \/ starts1(j + 1))}
  IN  /\ \A j \in DOMAIN out : starts1(j) \/ follows(j)
      /\ Cardinality(cut) <= writeFaults

(* A handler uses a destroyed session only if its completion was already in *)
(* the queue when the session was destroyed: everything the destructor      *)
(* cancels is harmless.                                                     *)
DanglesOnlyIfStale == pc = "crashed" => stale

(* The session implements the feed its users rely on: bytes come in, and    *)
(* the next whole frame, never a later one, is delivered.                   *)
Feed == INSTANCE PositionFeed
ImplementsFeed == Feed!Spec

(* A start() that threw leaves the port open, and that is final: no later   *)
(* start() of this session writes a byte, reads one or arms the timer.      *)
LeftOpen ==
  /\ alive /\ serialOpen /\ startsOk = 0 /\ pc \in {"owner", "run"}
  /\ wire = <<>> /\ readPending = 0 /\ timerPending = 0 /\ ready = <<>>
FailedStartIsFinal == [][LeftOpen => LeftOpen' \/ ~alive']_vars

(* Once the io_context is stopped only start() still writes to the port:    *)
(* the timer handler neither retries nor polls again.                       *)
QuietAfterStop == [][ioStopped /\ wire' # wire => caller = "start"]_vars

(* The polls of a started session keep coming until the loop is stopped or  *)
(* the session destroyed (the bound MaxPolls stands for forever).           *)
PollsKeepComing ==
  timerPending = 1 ~> polls = MaxPolls \/ ioStopped \/ ~alive

(* Every byte that arrives is read while the loop runs and the port works.  *)
LineDrains ==
  (readPending = 1 /\ rx # <<>>) ~> (rx = <<>> \/ ioStopped \/ ~alive \/ readFailed)
=============================================================================
