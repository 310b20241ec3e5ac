-------------------------- MODULE UbxSessionProofs --------------------------
(* The state of a session: every variable keeps its type, and the two      *)
(* chains, reads and polls, are never doubled and never broken.  Then its  *)
(* bytes, from the port through its two buffers to the frame parser: none  *)
(* is lost, repeated or moved, every whole frame is handled once, and what *)
(* goes out is whole frames.  Proved for every value of the constants.     *)
EXTENDS UbxSession, SequenceTheorems, FiniteSetTheorems, TLAPS

(* A function on 1 .. n is a sequence.                                     *)
LEMMA FunctionIsSeq ==
  ASSUME NEW S, NEW n \in Nat, NEW f \in [1 .. n -> S]
  PROVE  f \in Seq(S) /\ Len(f) = n
<1>1. f \in Seq(S)
  BY SeqDef
<1>2. QED
  BY <1>1, LenProperties

(* An outgoing frame is OutLen bytes.                                      *)
LEMMA FrameIsBytes ==
  ASSUME NEW msg \in {"CfgPrtUsb", "NavPosllhPoll"}
  PROVE  Frame(msg) \in Seq(OutByte) /\ Len(Frame(msg)) = OutLen
<1>1. Frame(msg) \in [1 .. OutLen -> OutByte]
  BY SessionConstants DEF Frame, OutByte
<1>2. QED
  BY <1>1, FunctionIsSeq, SessionConstants

(* Cancelling count operations queues that many aborted completions.       *)
LEMMA AbortedAreCompletions ==
  ASSUME NEW op \in {"read", "timer"}, NEW count \in Nat
  PROVE  /\ AllAborted(op, count) \in Seq(Completion)
         /\ Len(AllAborted(op, count)) = count
         /\ \A i \in 1 .. count : AllAborted(op, count)[i] = Aborted(op)
<1>1. Aborted(op) \in Completion
  BY DEF Aborted, Completion
<1>2. AllAborted(op, count) \in [1 .. count -> Completion]
  BY <1>1 DEF AllAborted
<1>3. QED
  BY <1>2, FunctionIsSeq DEF AllAborted

(* All of them are aborted and carry no bytes.                             *)
LEMMA AbortedFields ==
  ASSUME NEW op \in {"read", "timer"}, NEW count \in Nat
  PROVE  /\ AllAborted(op, count) \in Seq(Completion)
         /\ \A i \in 1 .. Len(AllAborted(op, count)) :
              AllAborted(op, count)[i].n = 0 /\ AllAborted(op, count)[i].ec = "aborted"
<1>1. /\ AllAborted(op, count) \in Seq(Completion)
      /\ Len(AllAborted(op, count)) = count
      /\ \A i \in 1 .. count : AllAborted(op, count)[i] = Aborted(op)
  BY AbortedAreCompletions
<1>2. Aborted(op).n = 0 /\ Aborted(op).ec = "aborted"
  BY DEF Aborted
<1>3. QED
  BY <1>1, <1>2

(* Prefixes and suffixes of a sequence.                                    *)
LEMMA Cuts ==
  ASSUME NEW S, NEW s \in Seq(S), NEW n \in 0 .. Len(s)
  PROVE  /\ SubSeq(s, 1, n) \in Seq(S)
         /\ Len(SubSeq(s, 1, n)) = n
         /\ SubSeq(s, n + 1, Len(s)) \in Seq(S)
         /\ Len(SubSeq(s, n + 1, Len(s))) = Len(s) - n
<1>1. Len(s) \in Nat /\ \A i \in 1 .. Len(s) : s[i] \in S
  BY LenProperties, ElementOfSeq
<1>2. QED
  BY <1>1, SubSeqProperties

(* What is left of a sequence behind its first n elements.                 *)
LEMMA RestOf ==
  ASSUME NEW S, NEW s \in Seq(S), NEW n \in 0 .. Len(s)
  PROVE  /\ SubSeq(s, n + 1, Len(s)) \in Seq(S)
         /\ Len(SubSeq(s, n + 1, Len(s))) = Len(s) - n
         /\ \A k \in 1 .. Len(s) - n : SubSeq(s, n + 1, Len(s))[k] = s[n + k]
<1>1. /\ Len(s) \in Nat /\ n \in Nat /\ n + 1 \in Int /\ Len(s) \in Int
      /\ \A i \in n + 1 .. Len(s) : s[i] \in S
  BY LenProperties, ElementOfSeq
<1>2. \A k \in 1 .. Len(s) - (n + 1) + 1 : SubSeq(s, n + 1, Len(s))[k] = s[n + 1 + k - 1]
  BY <1>1, SubSeqProperties
<1>3. /\ Len(s) - (n + 1) + 1 = Len(s) - n
      /\ \A k \in 1 .. Len(s) - n : n + 1 + k - 1 = n + k
  BY <1>1
<1> QED BY <1>2, <1>3, Cuts

(* Both parts together are the sequence again.                             *)
LEMMA TwoParts ==
  ASSUME NEW S, NEW s \in Seq(S), NEW n \in 0 .. Len(s)
  PROVE  /\ SubSeq(s, 1, n) \in Seq(S) /\ SubSeq(s, n + 1, Len(s)) \in Seq(S)
         /\ SubSeq(s, 1, n) \o SubSeq(s, n + 1, Len(s)) = s
<1> DEFINE front == SubSeq(s, 1, n)  rest == SubSeq(s, n + 1, Len(s))
<1>1. Len(s) \in Nat /\ n \in Nat /\ \A i \in 1 .. n : s[i] \in S
  BY LenProperties, ElementOfSeq
<1>2. /\ front \in Seq(S) /\ Len(front) = n
      /\ rest \in Seq(S) /\ Len(rest) = Len(s) - n
      /\ \A k \in 1 .. Len(s) - n : rest[k] = s[n + k]
  BY RestOf, Cuts
<1>3. \A k \in 1 .. n : front[k] = s[k]
  <2>1. n - 1 + 1 = n /\ \A k \in 1 .. n : 1 + k - 1 = k
    BY <1>1
  <2>2. \A k \in 1 .. n - 1 + 1 : front[k] = s[1 + k - 1]
    BY <1>1, SubSeqProperties
  <2> QED BY <2>1, <2>2
<1> HIDE DEF front, rest
<1>4. /\ front \o rest \in Seq(S) /\ Len(front \o rest) = n + (Len(s) - n)
      /\ \A k \in 1 .. n + (Len(s) - n) :
           (front \o rest)[k] = IF k <= n THEN front[k] ELSE rest[k - n]
  BY <1>2, ConcatProperties
<1>5. n + (Len(s) - n) = Len(s)
  BY <1>1
<1>6. ASSUME NEW k \in 1 .. Len(s) PROVE (front \o rest)[k] = s[k]
  <2>1. CASE k <= n
    BY <1>1, <1>3, <1>4, <1>5, <2>1
  <2>2. CASE k > n
    <3>1. k - n \in 1 .. Len(s) - n /\ n + (k - n) = k /\ ~(k <= n)
      BY <1>1, <2>2
    <3> QED BY <1>2, <1>4, <1>5, <3>1
  <2>3. k <= n \/ k > n
    BY <1>1
  <2> QED BY <2>1, <2>2, <2>3
<1>7. front \o rest = s
  BY <1>4, <1>5, <1>6, SeqEqual
<1> QED BY <1>2, <1>7 DEF front, rest

(* What is left of a sequence from any position on.                        *)
LEMMA Suffix ==
  ASSUME NEW S, NEW s \in Seq(S), NEW n \in Nat
  PROVE  /\ SubSeq(s, n + 1, Len(s)) \in Seq(S)
         /\ Len(SubSeq(s, n + 1, Len(s))) = IF n + 1 <= Len(s) THEN Len(s) - n ELSE 0
<1>1. Len(s) \in Nat /\ \A i \in 1 .. Len(s) : s[i] \in S
  BY LenProperties, ElementOfSeq
<1>2. QED
  BY <1>1, SubSeqProperties
-----------------------------------------------------------------------------
(* Every variable keeps its type.  The handler of a read takes as many     *)
(* bytes as its completion says, so the buffer must hold that many.        *)
CountsFit == \A i \in 1 .. Len(ready) : ready[i].n <= Len(m_inputBuf)

TypeInv == TypeOK /\ CountsFit

LEMMA TypeInit == Init => TypeInv
<1>1. /\ <<>> \in Seq(Byte) /\ <<>> \in Seq(OutByte) /\ <<>> \in Seq(Completion)
      /\ <<>> \in Seq(Nat) /\ Len(<<>>) = 0
  BY EmptySeq
<1>2. Init => TypeOK
  <2> SUFFICES ASSUME Init PROVE TypeOK
    OBVIOUS
  <2>1. /\ m_inputBuf \in Seq(Byte) /\ m_inData \in Seq(Byte) /\ buf \in Seq(OutByte)
        /\ ready \in Seq(Completion) /\ rx \in Seq(Byte) /\ wire \in Seq(OutByte)
        /\ taken \in Seq(Byte) /\ handled \in Seq(Nat)
    BY <1>1 DEF Init
  <2>2. /\ consumed \in Nat /\ readPending \in Nat /\ timerPending \in Nat
        /\ erased \in Nat /\ writeFaults \in Nat /\ starts \in Nat
        /\ startsOk \in Nat /\ polls \in Nat /\ pieces \in Nat /\ restarts \in Nat
    BY DEF Init
  <2>3. /\ alive \in BOOLEAN /\ serialOpen \in BOOLEAN /\ ioStopped \in BOOLEAN
        /\ readFailed \in BOOLEAN /\ stale \in BOOLEAN
        /\ pc \in {"owner", "run", "poll", "write", "arm", "read", "parse", "crashed"}
        /\ caller \in {"start", "handler"} /\ resume \in {"poll", "arm"}
    BY DEF Init
  <2>4. QED
    BY <2>1, <2>2, <2>3 DEF TypeOK
<1>3. Init => CountsFit
  BY <1>1 DEF Init, CountsFit
<1>4. QED
  BY <1>2, <1>3 DEF TypeInv

LEMMA TypeStep == TypeInv /\ [Next]_vars => TypeOK'
<1> SUFFICES ASSUME TypeOK, CountsFit, [Next]_vars PROVE TypeOK'
  BY DEF TypeInv
<1> USE DEF lifeVars, threadVars, sendVars, parseVars, loopVars, readVars, timerVars
<1>1. CASE Start
  <2>1. Frame("CfgPrtUsb") \in Seq(OutByte)
    BY FrameIsBytes
  <2>2. CASE StartFails
    BY <2>2 DEF TypeOK, StartFails, CallStart
  <2>3. CASE StartThrows
    BY <2>3 DEF TypeOK, StartThrows, CallStart
  <2>4. CASE StartConfigures
    BY <2>1, <2>4 DEF TypeOK, StartConfigures, ConfigureUbxOutput, CallStart, SendMessage
  <2>5. QED
    BY <1>1, <2>2, <2>3, <2>4 DEF Start
<1>2. CASE WriteSome
  <2>1. PICK count \in 1 .. Len(buf) : /\ wire' = wire \o SubSeq(buf, 1, count)
                                        /\ buf' = SubSeq(buf, count + 1, Len(buf))
    BY <1>2 DEF WriteSome, Unsent
  <2>2. count \in 0 .. Len(buf)
    BY <2>1, LenProperties DEF TypeOK
  <2>3. SubSeq(buf, 1, count) \in Seq(OutByte) /\ buf' \in Seq(OutByte)
    BY <2>1, <2>2, Cuts DEF TypeOK
  <2>4. wire' \in Seq(OutByte)
    BY <2>1, <2>3, ConcatProperties DEF TypeOK
  <2>5. QED
    BY <1>2, <2>3, <2>4 DEF TypeOK, WriteSome
<1>3. CASE WriteFails
  BY <1>3, EmptySeq DEF TypeOK, WriteFails, AfterFault
<1>4. CASE SendPosPoll
  <2>1. Frame("NavPosllhPoll") \in Seq(OutByte)
    BY FrameIsBytes
  <2>2. QED
    BY <1>4, <2>1 DEF TypeOK, SendPosPoll, SendMessage, AfterPoll
<1>5. CASE ArmTimer
  <2>1. ready' \in Seq(Completion)
    BY <1>5, AbortedAreCompletions, ConcatProperties DEF ArmTimer, TypeOK
  <2>2. QED
    BY <1>5, <2>1 DEF TypeOK, ArmTimer
<1>6. CASE PerformRead
  BY <1>6 DEF TypeOK, PerformRead
<1>7. CASE Handler \/ HandleDangling
  <2>1. ready' \in Seq(Completion) /\ Head(ready) \in Completion
    BY <1>7, HeadTailProperties
    DEF TypeOK, Handler, HandleAborted, HandleReadError, HandleRead,
        HandleTimer, HandleDangling, Dispatch
  <2>2. CASE HandleRead
    <3>1. ready # <<>> /\ Head(ready).n <= Len(m_inputBuf) /\ Head(ready).n \in Nat
      BY <2>1, <2>2, LenProperties, EmptySeq
      DEF TypeOK, CountsFit, HandleRead, Dispatch, Completion
    <3>2. Head(ready).n \in 0 .. Len(m_inputBuf)
      BY <3>1, LenProperties DEF TypeOK
    <3>3. m_inData' \in Seq(Byte)
      BY <2>2, <3>2, Cuts, ConcatProperties DEF TypeOK, HandleRead, Received
    <3>4. QED
      BY <2>1, <2>2, <3>3 DEF TypeOK, HandleRead
  <2>3. CASE HandleAborted
    BY <2>1, <2>3 DEF TypeOK, HandleAborted
  <2>4. CASE HandleReadError
    BY <2>1, <2>4 DEF TypeOK, HandleReadError
  <2>5. CASE HandleTimer
    BY <2>1, <2>5 DEF TypeOK, HandleTimer
  <2>6. CASE HandleDangling
    BY <2>1, <2>6 DEF TypeOK, HandleDangling
  <2>7. QED
    BY <1>7, <2>2, <2>3, <2>4, <2>5, <2>6 DEF Handler
<1>8. CASE Parse
  <2>1. erased + consumed + 1 \in Nat /\ consumed + 1 \in Nat /\ consumed + PosLen \in Nat
    BY FrameLengths DEF TypeOK
  <2>2. CASE HandleNavPosllh
    BY <2>1, <2>2, AppendProperties DEF TypeOK, HandleNavPosllh
  <2>3. CASE SkipByte
    BY <2>1, <2>3 DEF TypeOK, SkipByte
  <2>4. CASE EraseConsumed
    <3>1. m_inData' \in Seq(Byte)
      BY <2>4, Suffix DEF TypeOK, EraseConsumed, Kept
    <3>2. QED
      BY <2>4, <3>1 DEF TypeOK, EraseConsumed, AfterParse
  <2>5. QED
    BY <1>8, <2>2, <2>3, <2>4 DEF Parse
<1>9. CASE DeviceSends
  <2>1. rx' \in Seq(Byte)
    BY <1>9, SessionConstants, ConcatProperties DEF TypeOK, DeviceSends
  <2>2. QED
    BY <1>9, <2>1 DEF TypeOK, DeviceSends
<1>10. CASE ReadCompletes
  <2>1. PICK n \in 1 .. Len(rx) :
          /\ m_inputBuf' = SubSeq(rx, 1, n) \o SubSeq(m_inputBuf, n + 1, Len(m_inputBuf))
          /\ taken' = taken \o SubSeq(rx, 1, n)
          /\ rx' = SubSeq(rx, n + 1, Len(rx))
          /\ ready' = Append(ready, [op |-> "read", ec |-> "ok", n |-> n])
    BY <1>10 DEF ReadCompletes
  <2>2. n \in 0 .. Len(rx) /\ n \in Nat
    BY <2>1, LenProperties DEF TypeOK
  <2>3. SubSeq(rx, 1, n) \in Seq(Byte) /\ rx' \in Seq(Byte)
    BY <2>1, <2>2, Cuts DEF TypeOK
  <2>4. SubSeq(m_inputBuf, n + 1, Len(m_inputBuf)) \in Seq(Byte)
    BY <2>2, Suffix DEF TypeOK
  <2>5. m_inputBuf' \in Seq(Byte) /\ taken' \in Seq(Byte)
    BY <2>1, <2>3, <2>4, ConcatProperties DEF TypeOK
  <2>6. ready' \in Seq(Completion)
    BY <2>1, <2>2, AppendProperties DEF TypeOK, Completion
  <2>7. QED
    BY SMTT(30), <1>10, <2>3, <2>5, <2>6 DEF TypeOK, ReadCompletes
<1>11. CASE PortFails \/ TimerExpires
  <2>1. /\ [op |-> "read", ec |-> "error", n |-> 0] \in Completion
        /\ [op |-> "timer", ec |-> "ok", n |-> 0] \in Completion
    BY DEF Completion
  <2>2. CASE PortFails
    <3>1. ready' \in Seq(Completion) /\ readPending' \in Nat
      BY <2>1, <2>2, AppendProperties DEF TypeOK, PortFails
    <3>2. QED
      BY <2>2, <3>1 DEF TypeOK, PortFails
  <2>3. CASE TimerExpires
    <3>1. ready' \in Seq(Completion) /\ timerPending' \in Nat
      BY <2>1, <2>3, AppendProperties DEF TypeOK, TimerExpires
    <3>2. QED
      BY <2>3, <3>1 DEF TypeOK, TimerExpires
  <2>4. QED
    BY <1>11, <2>2, <2>3
<1>12. CASE Owner
  <2>1. CASE Destroy
    <3>1. ready' \in Seq(Completion)
      BY <2>1, AbortedAreCompletions, ConcatProperties DEF Destroy, TypeOK
    <3>2. QED
      BY <2>1, <3>1 DEF TypeOK, Destroy
  <2>2. CASE Run \/ RunReturns
    BY <2>2 DEF TypeOK, Run, RunReturns
  <2>3. CASE LoopStops
    BY <2>3 DEF TypeOK, LoopStops
  <2>4. CASE Restart
    <3>1. ioStopped' = FALSE /\ restarts' = restarts + 1
      BY <2>4 DEF Restart
    <3>2. restarts' \in Nat
      BY <3>1 DEF TypeOK
    <3>3. QED
      BY <2>4, <3>1, <3>2 DEF TypeOK, Restart
  <2>5. QED
    BY <1>12, <2>1, <2>2, <2>3, <2>4 DEF Owner
<1>13. CASE UNCHANGED vars
  BY <1>13 DEF TypeOK, vars
<1>14. QED
  BY <1>1, <1>2, <1>3, <1>4, <1>5, <1>6, <1>7, <1>8, <1>9, <1>10, <1>11,
     <1>12, <1>13
  DEF Next, Send, Asio, Crashed

LEMMA CountsFitStep == TypeInv /\ [Next]_vars => CountsFit'
<1> SUFFICES ASSUME TypeOK, CountsFit, [Next]_vars PROVE CountsFit'
  BY DEF TypeInv
<1> USE DEF lifeVars, threadVars, sendVars, parseVars, loopVars, readVars, timerVars
<1>1. ready \in Seq(Completion) /\ m_inputBuf \in Seq(Byte)
  BY DEF TypeOK
<1>2. Len(ready) \in Nat /\ Len(m_inputBuf) \in Nat
  BY <1>1, LenProperties
<1>3. CASE UNCHANGED <<ready, m_inputBuf>>
  BY <1>3 DEF CountsFit
<1>4. CASE ArmTimer \/ Destroy
  <2>1. PICK extra \in Seq(Completion) :
          /\ ready' = ready \o extra
          /\ \A i \in 1 .. Len(extra) : extra[i].n = 0
    <3>1. \A op \in {"read", "timer"}, count \in Nat :
            /\ AllAborted(op, count) \in Seq(Completion)
            /\ \A i \in 1 .. Len(AllAborted(op, count)) : AllAborted(op, count)[i].n = 0
      BY AbortedFields
    <3>2. CASE ArmTimer
      BY <3>1, <3>2 DEF ArmTimer, TypeOK
    <3>3. CASE Destroy
      <4> DEFINE timers == AllAborted("timer", timerPending)
                 reads == AllAborted("read", readPending)
      <4>1. /\ timers \in Seq(Completion) /\ reads \in Seq(Completion)
            /\ \A i \in 1 .. Len(timers) : timers[i].n = 0
            /\ \A i \in 1 .. Len(reads) : reads[i].n = 0
        BY <3>1 DEF TypeOK
      <4>2. ready' = (ready \o timers) \o reads
        BY <3>3 DEF Destroy
      <4> HIDE DEF timers, reads
      <4>3. ready' = ready \o (timers \o reads)
        BY <1>1, <4>1, <4>2, ConcatAssociative
      <4>4. /\ timers \o reads \in Seq(Completion)
            /\ \A i \in 1 .. Len(timers \o reads) : (timers \o reads)[i].n = 0
        BY <4>1, ConcatProperties, LenProperties
      <4>5. QED
        BY <4>3, <4>4
    <3>4. QED
      BY <1>4, <3>2, <3>3
  <2>2. m_inputBuf' = m_inputBuf
    BY <1>4 DEF ArmTimer, Destroy
  <2>3. \A i \in 1 .. Len(ready') :
          (i \in 1 .. Len(ready) /\ ready'[i] = ready[i]) \/ ready'[i].n = 0
    <3>1. /\ Len(extra) \in Nat /\ Len(ready') = Len(ready) + Len(extra)
          /\ \A i \in 1 .. Len(ready) + Len(extra) :
               ready'[i] = IF i <= Len(ready) THEN ready[i] ELSE extra[i - Len(ready)]
      BY <1>1, <2>1, ConcatProperties, LenProperties
    <3>2. QED
      BY <1>2, <2>1, <3>1
  <2>4. QED
    BY <1>2, <2>2, <2>3 DEF CountsFit
<1>5. CASE Handler \/ HandleDangling
  <2>1. ready # <<>> /\ ready' = Tail(ready) /\ m_inputBuf' = m_inputBuf
    BY <1>5 DEF Handler, HandleAborted, HandleReadError, HandleRead,
                HandleTimer, HandleDangling, Dispatch
  <2>2. Len(ready') = Len(ready) - 1 /\ \A i \in 1 .. Len(ready') : ready'[i] = ready[i + 1]
    BY <2>1, HeadTailProperties DEF TypeOK
  <2>3. QED
    BY <1>2, <2>1, <2>2 DEF CountsFit
<1>6. CASE PortFails \/ TimerExpires
  <2>1. m_inputBuf' = m_inputBuf
    BY <1>6 DEF PortFails, TimerExpires
  <2>2. PICK c \in Completion : c.n = 0 /\ ready' = Append(ready, c)
    <3>1. /\ [op |-> "read", ec |-> "error", n |-> 0] \in Completion
          /\ [op |-> "timer", ec |-> "ok", n |-> 0] \in Completion
      BY DEF Completion
    <3>2. QED
      BY <1>6, <3>1 DEF PortFails, TimerExpires
  <2>3. \A i \in 1 .. Len(ready') :
          (i \in 1 .. Len(ready) /\ ready'[i] = ready[i]) \/ ready'[i].n = 0
    BY <1>1, <1>2, <2>2, AppendProperties
  <2>4. QED
    BY <1>2, <2>1, <2>3 DEF CountsFit
<1>7. CASE ReadCompletes
  <2>1. PICK n \in 1 .. Len(rx) :
          /\ m_inputBuf' = SubSeq(rx, 1, n) \o SubSeq(m_inputBuf, n + 1, Len(m_inputBuf))
          /\ ready' = Append(ready, [op |-> "read", ec |-> "ok", n |-> n])
    BY <1>7 DEF ReadCompletes
  <2>2. n \in 0 .. Len(rx) /\ n \in Nat
    BY <2>1, LenProperties DEF TypeOK
  <2>3. Len(m_inputBuf') >= n /\ Len(m_inputBuf') >= Len(m_inputBuf)
    <3>1. /\ SubSeq(rx, 1, n) \in Seq(Byte)
          /\ Len(SubSeq(rx, 1, n)) = n
      BY <2>2, Cuts DEF TypeOK
    <3>2. /\ SubSeq(m_inputBuf, n + 1, Len(m_inputBuf)) \in Seq(Byte)
          /\ Len(SubSeq(m_inputBuf, n + 1, Len(m_inputBuf))) =
               IF n + 1 <= Len(m_inputBuf) THEN Len(m_inputBuf) - n ELSE 0
      BY <2>2, <1>2, Suffix DEF TypeOK
    <3>3. QED
      BY <2>1, <2>2, <3>1, <3>2, <1>2, ConcatProperties
  <2>4. \A i \in 1 .. Len(ready') :
          (i <= Len(ready) /\ ready'[i] = ready[i]) \/ ready'[i].n = n
    BY SMTT(30), <1>2, <2>1, <2>2, AppendProperties DEF TypeOK, Completion
  <2>5. Len(m_inputBuf') \in Nat
    <3>1. TypeOK'
      BY TypeStep DEF TypeInv
    <3>2. m_inputBuf' \in Seq(Byte)
      BY <3>1 DEF TypeOK
    <3>3. QED
      BY <3>2, LenProperties
  <2>6. \A i \in 1 .. Len(ready) : ready[i].n \in Nat
    <3>1. \A i \in 1 .. Len(ready) : ready[i] \in Completion
      BY <1>1, ElementOfSeq
    <3>2. QED
      BY <3>1 DEF Completion
  <2>7. QED
    BY <1>2, <2>2, <2>3, <2>4, <2>5, <2>6 DEF CountsFit
<1>8. QED
  BY <1>3, <1>4, <1>5, <1>6, <1>7
  DEF Next, Start, StartFails, StartThrows, StartConfigures, ConfigureUbxOutput, Send, WriteSome,
      SendPosPoll, PerformRead, WriteFails, Parse, HandleNavPosllh, SkipByte,
      EraseConsumed, DeviceSends, Asio, Owner, Run, RunReturns, LoopStops,
      Restart, Crashed, vars

(* The type invariant holds in every reachable state of every instance.    *)
THEOREM TypeCorrect == Spec => []TypeOK
<1>1. TypeInv /\ [Next]_vars => TypeInv'
  BY TypeStep, CountsFitStep DEF TypeInv
<1>2. TypeInv => TypeOK
  BY DEF TypeInv
<1>3. QED
  BY TypeInit, <1>1, <1>2, PTL DEF Spec

-----------------------------------------------------------------------------
(* The two chains of a session, reads and polls: each is never doubled and *)
(* never broken.                                                           *)

(* Queueing cancelled operations leaves the live completions alone.        *)
LEMMA LiveAborted ==
  ASSUME NEW q \in Seq(Completion), NEW extra \in Seq(Completion), NEW op,
         \A i \in 1 .. Len(extra) : extra[i].ec = "aborted"
  PROVE  /\ Live(q \o extra, op) = Live(q, op)
         /\ \A i \in Live(q, op) : (q \o extra)[i] = q[i]
<1>1. /\ DOMAIN q = 1 .. Len(q) /\ Len(q) \in Nat
      /\ Len(extra) \in Nat
      /\ DOMAIN (q \o extra) = 1 .. Len(q) + Len(extra)
      /\ \A i \in 1 .. Len(q) + Len(extra) :
           (q \o extra)[i] = IF i <= Len(q) THEN q[i] ELSE extra[i - Len(q)]
  BY ConcatProperties, LenProperties
<1>2. QED
  BY <1>1 DEF Live

(* Queueing one completion makes it the only new live one, if it is live.  *)
LEMMA LiveAppend ==
  ASSUME NEW q \in Seq(Completion), NEW c \in Completion, NEW op
  PROVE  /\ Live(Append(q, c), op) =
              Live(q, op) \cup (IF c.op = op /\ c.ec # "aborted" THEN {Len(q) + 1} ELSE {})
         /\ \A i \in Live(q, op) : i # Len(q) + 1 /\ Append(q, c)[i] = q[i]
         /\ Append(q, c)[Len(q) + 1] = c
<1>1. /\ DOMAIN q = 1 .. Len(q) /\ Len(q) \in Nat
      /\ DOMAIN Append(q, c) = 1 .. Len(q) + 1
      /\ \A i \in 1 .. Len(q) : Append(q, c)[i] = q[i]
      /\ Append(q, c)[Len(q) + 1] = c
  BY AppendProperties, LenProperties
<1>2. QED
  BY <1>1 DEF Live

(* Taking the oldest completion shifts the live ones by one.               *)
LEMMA LiveTail ==
  ASSUME NEW q \in Seq(Completion), q # <<>>, NEW op
  PROVE  /\ Live(Tail(q), op) = {i \in 1 .. Len(q) - 1 : i + 1 \in Live(q, op)}
         /\ \A i \in Live(Tail(q), op) : Tail(q)[i] = q[i + 1]
         /\ 1 \in Live(q, op) <=> Head(q).op = op /\ Head(q).ec # "aborted"
         /\ Live(q, op) \subseteq 1 .. Len(q)
<1>1. /\ DOMAIN q = 1 .. Len(q) /\ Len(q) \in Nat \ {0}
      /\ DOMAIN Tail(q) = 1 .. Len(q) - 1
      /\ \A i \in 1 .. Len(q) - 1 : Tail(q)[i] = q[i + 1]
      /\ Head(q) = q[1]
  BY HeadTailProperties, LenProperties, EmptySeq
<1>2. QED
  BY <1>1 DEF Live

(* What that does to a queue with at most one live completion of a kind.   *)
LEMMA LiveAfterDispatch ==
  ASSUME NEW q \in Seq(Completion), q # <<>>, NEW op,
         \A i, j \in Live(q, op) : i = j
  PROVE  /\ \A i, j \in Live(Tail(q), op) : i = j
         /\ Live(q, op) = {} => Live(Tail(q), op) = {}
         /\ Head(q).op = op /\ Head(q).ec # "aborted" =>
              Live(Tail(q), op) = {} /\ \E i \in Live(q, op) : q[i] = Head(q)
         /\ ~(Head(q).op = op /\ Head(q).ec # "aborted") /\ Live(q, op) # {}
              => Live(Tail(q), op) # {}
         /\ \A i \in Live(Tail(q), op) : \E j \in Live(q, op) : Tail(q)[i] = q[j]
<1>1. Len(q) \in Nat \ {0}
  BY EmptySeq
<1>2. /\ Live(Tail(q), op) = {i \in 1 .. Len(q) - 1 : i + 1 \in Live(q, op)}
      /\ \A i \in Live(Tail(q), op) : Tail(q)[i] = q[i + 1]
      /\ 1 \in Live(q, op) <=> Head(q).op = op /\ Head(q).ec # "aborted"
      /\ Live(q, op) \subseteq 1 .. Len(q)
  BY LiveTail
<1>3. \A i \in Live(q, op) : i = 1 \/ i - 1 \in Live(Tail(q), op)
  <2> TAKE i \in Live(q, op)
  <2>1. i \in 1 .. Len(q)
    BY <1>2
  <2>2. i # 1 => i - 1 \in 1 .. Len(q) - 1 /\ (i - 1) + 1 = i
    BY <1>1, <2>1
  <2>3. QED
    BY <1>2, <2>2
<1>4. /\ \A i, j \in Live(Tail(q), op) : i = j
      /\ Live(q, op) = {} => Live(Tail(q), op) = {}
      /\ \A i \in Live(Tail(q), op) : \E j \in Live(q, op) : Tail(q)[i] = q[j]
  <2>1. \A i \in Live(Tail(q), op) : i \in Nat /\ i + 1 \in Live(q, op)
    BY <1>1, <1>2
  <2>2. \A i, j \in Live(Tail(q), op) : i = j
    BY <2>1
  <2>3. Live(q, op) = {} => Live(Tail(q), op) = {}
    BY <2>1
  <2>4. QED
    BY <1>2, <2>1, <2>2, <2>3
<1>5. 1 \in Live(q, op) => Live(Tail(q), op) = {}
  BY <1>1, <1>2
<1>6. 1 \notin Live(q, op) /\ Live(q, op) # {} => Live(Tail(q), op) # {}
  BY <1>3
<1>7. Head(q) = q[1]
  BY <1>1, LenProperties
<1>8. QED
  BY <1>2, <1>4, <1>5, <1>6, <1>7
(* The destructor queues aborted completions only.                         *)
LEMMA LiveAfterDestroy ==
  ASSUME Destroy, ready \in Seq(Completion), readPending \in Nat, timerPending \in Nat
  PROVE  /\ Live(ready', "read") = Live(ready, "read")
         /\ Live(ready', "timer") = Live(ready, "timer")
         /\ \A i \in Live(ready, "read") : ready'[i] = ready[i]
<1> DEFINE timers == AllAborted("timer", timerPending)
           reads == AllAborted("read", readPending)
<1>1. /\ timers \in Seq(Completion) /\ reads \in Seq(Completion)
      /\ \A i \in 1 .. Len(timers) : timers[i].ec = "aborted"
      /\ \A i \in 1 .. Len(reads) : reads[i].ec = "aborted"
  BY AbortedFields
<1>2. ready' = (ready \o timers) \o reads
  BY DEF Destroy
<1> HIDE DEF timers, reads
<1>3. ready \o timers \in Seq(Completion)
  BY <1>1, ConcatProperties
<1>4. \A op \in {"read", "timer"} :
        /\ Live(ready \o timers, op) = Live(ready, op)
        /\ \A i \in Live(ready, op) : (ready \o timers)[i] = ready[i]
  BY <1>1, LiveAborted
<1>5. \A op \in {"read", "timer"} :
        /\ Live(ready', op) = Live(ready \o timers, op)
        /\ \A i \in Live(ready \o timers, op) : ready'[i] = (ready \o timers)[i]
  <2> DEFINE most == ready \o timers
  <2>1. most \in Seq(Completion)
    BY <1>3
  <2>2. ready' = most \o reads
    BY <1>2
  <2> HIDE DEF most
  <2>3. \A op \in {"read", "timer"} :
          /\ Live(most \o reads, op) = Live(most, op)
          /\ \A i \in Live(most, op) : (most \o reads)[i] = most[i]
    BY <1>1, <2>1, LiveAborted
  <2>4. \A op \in {"read", "timer"} :
          /\ Live(ready', op) = Live(most, op)
          /\ \A i \in Live(most, op) : ready'[i] = most[i]
    BY <2>2, <2>3
  <2>5. QED
    BY <2>4 DEF most
<1>6. QED
  BY <1>4, <1>5
-----------------------------------------------------------------------------
InCode == pc \in {"poll", "write", "arm", "read", "parse"}

(* A session nobody has opened has nothing outstanding.                    *)
NothingBeforeOpen ==
  alive /\ ~serialOpen => readPending = 0 /\ timerPending = 0 /\ ready = <<>>

(* The code runs on a live session with an open port, and a session that   *)
(* was started has its port open, so it cannot be started again.           *)
CodeNeedsPort ==
  /\ InCode => alive /\ serialOpen
  /\ alive /\ startsOk > 0 => serialOpen
  /\ pc = "parse" => caller = "handler"

(* start() finds neither chain running and starts the polls, then the reads. *)
StartIsFirst ==
  InCode /\ caller = "start" =>
    /\ startsOk = 0 /\ readPending = 0 /\ Queued("read") = {}
    /\ pc = "read" => timerPending = 1
    /\ pc # "read" => timerPending = 0 /\ Queued("timer") = {}

(* A completed read that failed is on record.                              *)
FailuresRecorded ==
  \A i \in Queued("read") : ready[i].ec = "error" => readFailed

ChainInv ==
  /\ OneRead /\ OneTimer /\ NeverDeaf /\ NeverMute
  /\ NothingBeforeOpen /\ CodeNeedsPort /\ StartIsFirst /\ FailuresRecorded

LEMMA ChainInit == Init => ChainInv
<1>1. Init => Queued("read") = {} /\ Queued("timer") = {}
  <2>1. Len(<<>>) = 0 /\ DOMAIN <<>> = {}
    OBVIOUS
  <2>2. QED
    BY <2>1 DEF Init, Queued, Live
<1>2. QED
  BY <1>1 DEF Init, ChainInv, OneRead, OneTimer, NeverDeaf, NeverMute,
       NothingBeforeOpen, CodeNeedsPort, StartIsFirst, FailuresRecorded, InCode,
       ReadInHandler, PollInHandler

(* One step per action: what it does to the live completions first, then   *)
(* the invariant from those facts alone.                                   *)
LEMMA ChainStep == TypeInv /\ ChainInv /\ [Next]_vars => ChainInv'
<1> SUFFICES ASSUME TypeOK, ChainInv, [Next]_vars PROVE ChainInv'
  BY DEF TypeInv
<1> USE DEF lifeVars, threadVars, sendVars, parseVars, loopVars, readVars, timerVars
<1> USE DEF OneRead, OneTimer, NeverDeaf, NeverMute, NothingBeforeOpen,
            CodeNeedsPort, StartIsFirst, FailuresRecorded, InCode,
            ReadInHandler, PollInHandler, Queued
<1>1. /\ ready \in Seq(Completion) /\ readPending \in Nat /\ timerPending \in Nat
      /\ startsOk \in Nat
      /\ pc \in {"owner", "run", "poll", "write", "arm", "read", "parse", "crashed"}
      /\ caller \in {"start", "handler"} /\ resume \in {"poll", "arm"}
  BY DEF TypeOK
<1>2. CASE StartFails
  BY <1>1, <1>2 DEF StartFails, CallStart, ChainInv
<1>3. CASE StartThrows
  BY <1>1, <1>3 DEF StartThrows, CallStart, CanOpen, ChainInv
<1>4. CASE StartConfigures
  <2>1. ready = <<>> /\ readPending = 0 /\ timerPending = 0 /\ startsOk = 0
    BY <1>1, <1>4 DEF StartConfigures, CallStart, CanOpen, ChainInv
  <2>2. Live(ready, "read") = {} /\ Live(ready, "timer") = {}
    BY <2>1 DEF Live
  <2>3. QED
    BY <1>1, <1>4, <2>1, <2>2 DEF StartConfigures, ConfigureUbxOutput, CallStart, SendMessage,
       ChainInv
<1>5. CASE WriteSome
  BY <1>1, <1>5 DEF WriteSome, ChainInv
<1>6. CASE WriteFails
  BY <1>1, <1>6 DEF WriteFails, AfterFault, ChainInv
<1>7. CASE SendPosPoll
  BY <1>1, <1>7 DEF SendPosPoll, SendMessage, AfterPoll, ChainInv
<1>8. CASE PerformRead
  BY <1>1, <1>8 DEF PerformRead, ChainInv
<1>9. CASE Parse
  BY <1>1, <1>9 DEF Parse, HandleNavPosllh, SkipByte, EraseConsumed, AfterParse, ChainInv
<1>10. CASE DeviceSends
  BY <1>1, <1>10 DEF DeviceSends, ChainInv
<1>11. CASE Run
  BY <1>1, <1>11 DEF Run, ChainInv
<1>12. CASE RunReturns
  BY <1>1, <1>12 DEF RunReturns, ChainInv
<1>13. CASE LoopStops
  BY <1>1, <1>13 DEF LoopStops, ChainInv
<1>14. CASE Restart
  BY <1>1, <1>14 DEF Restart, ChainInv
<1>15. CASE ArmTimer
  <2>1. /\ AllAborted("timer", timerPending) \in Seq(Completion)
        /\ \A i \in 1 .. Len(AllAborted("timer", timerPending)) :
             AllAborted("timer", timerPending)[i].ec = "aborted"
    BY <1>1, AbortedFields
  <2>2. /\ ready' = ready \o AllAborted("timer", timerPending)
        /\ serialOpen /\ startsOk' = startsOk
    BY <1>15 DEF ArmTimer, ChainInv
  <2>3. /\ Live(ready', "read") = Live(ready, "read")
        /\ Live(ready', "timer") = Live(ready, "timer")
        /\ \A i \in Live(ready, "read") : ready'[i] = ready[i]
    BY <1>1, <2>1, <2>2, LiveAborted
  <2>4. QED
    <3>1. OneRead'
      BY <1>1, <1>15, <2>2, <2>3 DEF ArmTimer, ChainInv
    <3>2. OneTimer'
      BY <1>1, <1>15, <2>2, <2>3 DEF ArmTimer, ChainInv
    <3>3. NeverDeaf' /\ NeverMute'
      BY <1>1, <1>15, <2>2, <2>3 DEF ArmTimer, ChainInv
    <3>4. NothingBeforeOpen' /\ CodeNeedsPort'
      BY <1>1, <1>15, <2>2, <2>3 DEF ArmTimer, ChainInv
    <3>5. StartIsFirst'
      BY <1>1, <1>15, <2>2, <2>3 DEF ArmTimer, ChainInv
    <3>6. FailuresRecorded'
      BY <1>1, <1>15, <2>2, <2>3 DEF ArmTimer, ChainInv
    <3>7. QED
      BY <3>1, <3>2, <3>3, <3>4, <3>5, <3>6 DEF ChainInv
<1>16. CASE Handler \/ HandleDangling
  <2>1. ready # <<>> /\ ready' = Tail(ready)
    BY <1>16 DEF Handler, HandleAborted, HandleReadError, HandleRead,
                 HandleTimer, HandleDangling, Dispatch
  <2> DEFINE Unique(queue, op) == \A i, j \in Live(queue, op) : i = j
             Next1(op) == Head(ready).op = op /\ Head(ready).ec # "aborted"
             Dispatched(queue, op) ==
               /\ Unique(queue, op)
               /\ Live(ready, op) = {} => Live(queue, op) = {}
               /\ Next1(op) => /\ Live(queue, op) = {}
                               /\ \E i \in Live(ready, op) : ready[i] = Head(ready)
               /\ ~Next1(op) /\ Live(ready, op) # {} => Live(queue, op) # {}
               /\ \A i \in Live(queue, op) : \E j \in Live(ready, op) : queue[i] = ready[j]
  <2>2. Dispatched(ready', "read")
    <3>1. Unique(ready, "read")
      BY DEF ChainInv
    <3>2. Dispatched(Tail(ready), "read")
      BY <1>1, <2>1, <3>1, LiveAfterDispatch
    <3>3. QED
      BY <2>1, <3>2
  <2>3. Dispatched(ready', "timer")
    <3>1. Unique(ready, "timer")
      BY DEF ChainInv
    <3>2. Dispatched(Tail(ready), "timer")
      BY <1>1, <2>1, <3>1, LiveAfterDispatch
    <3>3. QED
      BY <2>1, <3>2
  <2>4. CASE HandleAborted
    BY <1>1, <2>1, <2>2, <2>3, <2>4 DEF HandleAborted, Dispatch, ReturnsEarly, ChainInv
  <2>5. CASE HandleReadError
    BY <1>1, <2>1, <2>2, <2>3, <2>5 DEF HandleReadError, Dispatch, ChainInv
  <2>6. CASE HandleRead
    BY <1>1, <2>1, <2>2, <2>3, <2>6 DEF HandleRead, Dispatch, ChainInv
  <2>7. CASE HandleTimer
    <3>1. OneRead'
      BY <1>1, <2>1, <2>2, <2>3, <2>7 DEF HandleTimer, Dispatch, ReturnsEarly, ChainInv
    <3>2. OneTimer'
      BY <1>1, <2>1, <2>2, <2>3, <2>7 DEF HandleTimer, Dispatch, ReturnsEarly, ChainInv
    <3>3. NeverDeaf' /\ NeverMute'
      BY <1>1, <2>1, <2>2, <2>3, <2>7 DEF HandleTimer, Dispatch, ReturnsEarly, ChainInv
    <3>4. NothingBeforeOpen' /\ CodeNeedsPort'
      BY <1>1, <2>1, <2>2, <2>3, <2>7 DEF HandleTimer, Dispatch, ReturnsEarly, ChainInv
    <3>5. StartIsFirst'
      BY <1>1, <2>1, <2>2, <2>3, <2>7 DEF HandleTimer, Dispatch, ReturnsEarly, ChainInv
    <3>6. FailuresRecorded'
      BY <1>1, <2>1, <2>2, <2>3, <2>7 DEF HandleTimer, Dispatch, ReturnsEarly, ChainInv
    <3>7. QED
      BY <3>1, <3>2, <3>3, <3>4, <3>5, <3>6 DEF ChainInv
  <2>8. CASE HandleDangling
    BY <1>1, <2>1, <2>2, <2>3, <2>8 DEF HandleDangling, Dispatch, ChainInv
  <2>9. QED
    BY <1>16, <2>4, <2>5, <2>6, <2>7, <2>8 DEF Handler
<1>17. CASE Asio
  <2>1. PICK c \in Completion :
          /\ ready' = Append(ready, c)
          /\ \/ ReadCompletes /\ c.op = "read" /\ c.ec = "ok"
             \/ PortFails /\ c.op = "read" /\ c.ec = "error"
             \/ TimerExpires /\ c.op = "timer" /\ c.ec = "ok"
    <3>1. \A op \in {"read", "timer"}, ec \in {"ok", "error", "aborted"}, n \in Nat :
            [op |-> op, ec |-> ec, n |-> n] \in Completion
      BY DEF Completion
    <3>2. CASE ReadCompletes
      <4>1. PICK n \in 1 .. Len(rx) : ready' = Append(ready, [op |-> "read", ec |-> "ok", n |-> n])
        BY <3>2 DEF ReadCompletes
      <4>2. QED
        BY <3>1, <3>2, <4>1
    <3>3. CASE PortFails
      BY <3>1, <3>3 DEF PortFails
    <3>4. CASE TimerExpires
      BY <3>1, <3>4 DEF TimerExpires
    <3>5. QED
      BY <1>17, <3>2, <3>3, <3>4 DEF Asio
  <2>2. /\ Live(ready', "read") = Live(ready, "read") \cup
             (IF c.op = "read" /\ c.ec # "aborted" THEN {Len(ready) + 1} ELSE {})
        /\ Live(ready', "timer") = Live(ready, "timer") \cup
             (IF c.op = "timer" /\ c.ec # "aborted" THEN {Len(ready) + 1} ELSE {})
        /\ \A i \in Live(ready, "read") : i # Len(ready) + 1 /\ ready'[i] = ready[i]
        /\ ready'[Len(ready) + 1] = c
    <3>1. \A op : /\ Live(Append(ready, c), op) = Live(ready, op) \cup
                       (IF c.op = op /\ c.ec # "aborted" THEN {Len(ready) + 1} ELSE {})
                  /\ \A i \in Live(ready, op) : i # Len(ready) + 1 /\ Append(ready, c)[i] = ready[i]
                  /\ Append(ready, c)[Len(ready) + 1] = c
      BY <1>1, <2>1, LiveAppend
    <3>2. ready' = Append(ready, c)
      BY <2>1
    <3>3. QED
      BY <3>1, <3>2
  <2>3. CASE ReadCompletes /\ c.op = "read" /\ c.ec = "ok"
    <3>1. OneRead'
      <4>1. /\ readPending' = 0 /\ pc' = "run"
        BY <1>1, <2>3 DEF ReadCompletes, ChainInv
      <4>2. Live(ready, "read") = {}
        BY <1>1, <2>3 DEF ReadCompletes, ChainInv
      <4>3. Live(ready', "read") = {Len(ready) + 1}
        BY <2>2, <2>3, <4>2
      <4>4. QED
        BY <4>1, <4>3
    <3>2. OneTimer'
      BY <1>1, <2>1, <2>2, <2>3 DEF ReadCompletes, ChainInv
    <3>3. NeverDeaf' /\ NeverMute'
      BY <1>1, <2>1, <2>2, <2>3 DEF ReadCompletes, ChainInv
    <3>4. NothingBeforeOpen' /\ CodeNeedsPort'
      BY <1>1, <2>1, <2>2, <2>3 DEF ReadCompletes, ChainInv
    <3>5. StartIsFirst'
      BY <1>1, <2>1, <2>2, <2>3 DEF ReadCompletes, ChainInv
    <3>6. FailuresRecorded'
      BY <1>1, <2>1, <2>2, <2>3 DEF ReadCompletes, ChainInv
    <3>7. QED
      BY <3>1, <3>2, <3>3, <3>4, <3>5, <3>6 DEF ChainInv
  <2>4. CASE PortFails /\ c.op = "read" /\ c.ec = "error"
    BY <1>1, <2>1, <2>2, <2>4 DEF PortFails, ChainInv
  <2>5. CASE TimerExpires /\ c.op = "timer" /\ c.ec = "ok"
    <3>1. OneRead'
      BY <1>1, <2>1, <2>2, <2>5 DEF TimerExpires, ChainInv
    <3>2. OneTimer'
      BY <1>1, <2>1, <2>2, <2>5 DEF TimerExpires, ChainInv
    <3>3. NeverDeaf' /\ NeverMute'
      BY <1>1, <2>1, <2>2, <2>5 DEF TimerExpires, ChainInv
    <3>4. NothingBeforeOpen' /\ CodeNeedsPort'
      BY <1>1, <2>1, <2>2, <2>5 DEF TimerExpires, ChainInv
    <3>5. StartIsFirst'
      BY <1>1, <2>1, <2>2, <2>5 DEF TimerExpires, ChainInv
    <3>6. FailuresRecorded'
      BY <1>1, <2>1, <2>2, <2>5 DEF TimerExpires, ChainInv
    <3>7. QED
      BY <3>1, <3>2, <3>3, <3>4, <3>5, <3>6 DEF ChainInv
  <2>6. QED
    BY <2>1, <2>3, <2>4, <2>5
<1>18. CASE Destroy
  <2>1. /\ Live(ready', "read") = Live(ready, "read")
        /\ Live(ready', "timer") = Live(ready, "timer")
        /\ \A i \in Live(ready, "read") : ready'[i] = ready[i]
    BY <1>1, <1>18, LiveAfterDestroy
  <2>2. QED
    <3>1. OneRead'
      BY <1>1, <1>18, <2>1 DEF Destroy, ChainInv
    <3>2. OneTimer'
      BY <1>1, <1>18, <2>1 DEF Destroy, ChainInv
    <3>3. NeverDeaf' /\ NeverMute'
      BY <1>1, <1>18, <2>1 DEF Destroy, ChainInv
    <3>4. NothingBeforeOpen' /\ CodeNeedsPort'
      BY <1>1, <1>18, <2>1 DEF Destroy, ChainInv
    <3>5. StartIsFirst'
      BY <1>1, <1>18, <2>1 DEF Destroy, ChainInv
    <3>6. FailuresRecorded'
      BY <1>1, <1>18, <2>1 DEF Destroy, ChainInv
    <3>7. QED
      BY <3>1, <3>2, <3>3, <3>4, <3>5, <3>6 DEF ChainInv
<1>19. CASE UNCHANGED vars
  BY <1>19 DEF vars, ChainInv
<1>20. QED
  BY <1>2, <1>3, <1>4, <1>5, <1>6, <1>7, <1>8, <1>9, <1>10, <1>11, <1>12, <1>13,
     <1>14, <1>15, <1>16, <1>17, <1>18, <1>19
  DEF Next, Start, Send, Owner, Crashed

LEMMA ChainCorrect == Spec => [](TypeInv /\ ChainInv)
<1>1. Init => TypeInv /\ ChainInv
  BY TypeInit, ChainInit
<1>2. TypeInv /\ ChainInv /\ [Next]_vars => (TypeInv /\ ChainInv)'
  BY TypeStep, CountsFitStep, ChainStep DEF TypeInv
<1>3. QED
  BY <1>1, <1>2, PTL DEF Spec

(* The single input buffer has a single reader: performRead() is reached   *)
(* only from start() on an unopened port and from the one read handler.    *)
THEOREM OneReadCorrect == Spec => []OneRead
<1>1. ChainInv => OneRead
  BY DEF ChainInv
<1>2. QED
  BY <1>1, ChainCorrect, PTL

(* The session never runs two chains of polls on its one timer.            *)
THEOREM OneTimerCorrect == Spec => []OneTimer
<1>1. ChainInv => OneTimer
  BY DEF ChainInv
<1>2. QED
  BY <1>1, ChainCorrect, PTL

(* A started session is always about to hear the next bytes, until a read  *)
(* fails.                                                                  *)
THEOREM NeverDeafCorrect == Spec => []NeverDeaf
<1>1. ChainInv => NeverDeaf
  BY DEF ChainInv
<1>2. QED
  BY <1>1, ChainCorrect, PTL

(* A started session always has its next poll coming, failed writes or not. *)
THEOREM NeverMuteCorrect == Spec => []NeverMute
<1>1. ChainInv => NeverMute
  BY DEF ChainInv
<1>2. QED
  BY <1>1, ChainCorrect, PTL
-----------------------------------------------------------------------------
(* Nothing is pending on a destroyed session, and only what was already in *)
(* the queue can still reach its handlers.                                 *)
NothingAfterDestroy ==
  /\ ~alive => readPending = 0 /\ timerPending = 0
  /\ ~alive /\ ~stale => Queued("read") = {} /\ Queued("timer") = {}
  /\ DanglesOnlyIfStale

LEMMA AfterDestroyStep ==
  TypeInv /\ ChainInv /\ NothingAfterDestroy /\ [Next]_vars => NothingAfterDestroy'
<1> SUFFICES ASSUME TypeOK, ChainInv, NothingAfterDestroy, [Next]_vars
             PROVE  NothingAfterDestroy'
  BY DEF TypeInv
<1> USE DEF lifeVars, threadVars, sendVars, parseVars, loopVars, readVars,
            timerVars, NothingAfterDestroy, DanglesOnlyIfStale, Queued
<1>1. /\ ready \in Seq(Completion) /\ readPending \in Nat /\ timerPending \in Nat
      /\ InCode => alive
  BY DEF TypeOK, ChainInv, CodeNeedsPort
<1>2. CASE Start
  BY <1>2 DEF Start, StartFails, StartThrows, StartConfigures, ConfigureUbxOutput, CallStart,
     SendMessage
<1>3. CASE Send \/ WriteFails
  <2>1. alive /\ alive' /\ pc' # "crashed"
    BY <1>1, <1>3 DEF Send, WriteSome, SendPosPoll, ArmTimer, PerformRead, WriteFails,
                      SendMessage, InCode, AfterFault, AfterPoll, TypeOK
  <2>2. QED
    BY <2>1
<1>4. CASE Parse
  <2>1. alive /\ alive' /\ pc' # "crashed"
    BY <1>1, <1>4 DEF Parse, HandleNavPosllh, SkipByte, EraseConsumed, AfterParse, InCode
  <2>2. QED
    BY <2>1
<1>5. CASE Handler \/ HandleDangling
  <2>1. ready # <<>> /\ ready' = Tail(ready)
    BY <1>5 DEF Handler, HandleAborted, HandleReadError, HandleRead,
                HandleTimer, HandleDangling, Dispatch
  <2>2. /\ Live(ready, "read") = {} => Live(ready', "read") = {}
        /\ Live(ready, "timer") = {} => Live(ready', "timer") = {}
    <3>1. \A op : Live(Tail(ready), op) = {i \in 1 .. Len(ready) - 1 : i + 1 \in Live(ready, op)}
      BY <1>1, <2>1, LiveTail
    <3>2. QED
      BY <2>1, <3>1
  <2>3. CASE HandleDangling
    <3>1. 1 \in DOMAIN ready /\ Head(ready) = ready[1] /\ Head(ready) \in Completion
      BY <1>1, <2>1, EmptySeq, LenProperties, HeadTailProperties
    <3>2. Head(ready).ec # "aborted" /\ Head(ready).op \in {"read", "timer"}
      BY <2>3 DEF HandleDangling, Dispatch, ReturnsEarly
    <3>3. Live(ready, "read") # {} \/ Live(ready, "timer") # {}
      BY <3>1, <3>2 DEF Live
    <3>4. stale /\ stale' = stale /\ alive' = alive
          /\ readPending' = readPending /\ timerPending' = timerPending
      BY <2>3, <3>3 DEF HandleDangling
    <3>5. QED
      BY <3>4
  <2>4. CASE Handler
    BY <2>2, <2>4 DEF Handler, HandleAborted, HandleReadError, HandleRead, HandleTimer
  <2>5. QED
    BY <1>5, <2>3, <2>4
<1>6. CASE DeviceSends
  BY <1>6 DEF DeviceSends
<1>7. CASE Asio
  <2>1. alive /\ alive' /\ pc' # "crashed"
    BY <1>1, <1>7 DEF Asio, ReadCompletes, PortFails, TimerExpires
  <2>2. QED
    BY <2>1
<1>8. CASE Destroy
  <2>1. pc' # "crashed" /\ readPending' = 0 /\ timerPending' = 0
    BY <1>8 DEF Destroy
  <2>2. ~stale' => Live(ready, "read") = {} /\ Live(ready, "timer") = {}
    BY <1>8 DEF Destroy, Live
  <2>3. Live(ready', "read") = Live(ready, "read") /\ Live(ready', "timer") = Live(ready, "timer")
    BY <1>1, <1>8, LiveAfterDestroy
  <2>4. QED
    BY <2>1, <2>2, <2>3
<1>9. CASE Run \/ RunReturns \/ LoopStops \/ Restart
  BY <1>9 DEF Run, RunReturns, LoopStops, Restart
<1>10. CASE UNCHANGED vars
  BY <1>10 DEF vars
<1>11. QED
  BY <1>2, <1>3, <1>4, <1>5, <1>6, <1>7, <1>8, <1>9, <1>10 DEF Next, Owner, Crashed

(* Whatever ~Session() cancels is harmless: only a completion that was     *)
(* queued before the destructor ran can touch the destroyed session.       *)
THEOREM DanglingCorrect == Spec => []DanglesOnlyIfStale
<1>1. Init => NothingAfterDestroy
  BY DEF Init, NothingAfterDestroy, DanglesOnlyIfStale
<1>2. NothingAfterDestroy => DanglesOnlyIfStale
  BY DEF NothingAfterDestroy
<1>3. QED
  BY <1>1, <1>2, AfterDestroyStep, ChainCorrect, PTL DEF Spec
-----------------------------------------------------------------------------
(* A timer handler that is still polling has not stopped the loop, and its *)
(* poll goes on to the timer, never to a second poll.                      *)
PollsWhileRunning ==
  caller = "handler" /\ pc \in {"poll", "write"} =>
    ~ioStopped /\ (pc = "write" => resume = "arm")

LEMMA PollsWhileRunningStep == PollsWhileRunning /\ [Next]_vars => PollsWhileRunning'
<1> SUFFICES ASSUME PollsWhileRunning, [Next]_vars PROVE PollsWhileRunning'
  OBVIOUS
<1> USE DEF PollsWhileRunning, lifeVars, threadVars, sendVars, parseVars,
            loopVars, readVars, timerVars
<1>1. CASE Start \/ Send
  BY <1>1 DEF Start, StartFails, StartThrows, StartConfigures, ConfigureUbxOutput, Send, WriteSome,
              SendPosPoll, ArmTimer, PerformRead, SendMessage, AfterPoll
<1>2. CASE WriteFails
  BY <1>2 DEF WriteFails, AfterFault
<1>3. CASE Handler \/ HandleDangling
  BY <1>3 DEF Handler, HandleAborted, HandleReadError, HandleRead, HandleTimer,
              HandleDangling, Dispatch
<1>4. CASE Parse \/ DeviceSends \/ Asio
  BY <1>4 DEF Parse, HandleNavPosllh, SkipByte, EraseConsumed, AfterParse,
              DeviceSends, Asio, ReadCompletes, PortFails, TimerExpires
<1>5. CASE Owner
  BY <1>5 DEF Owner, Run, RunReturns, LoopStops, Restart, Destroy
<1>6. CASE UNCHANGED vars
  BY <1>6 DEF vars
<1>7. QED
  BY <1>1, <1>2, <1>3, <1>4, <1>5, <1>6 DEF Next, Crashed

(* After the loop was stopped nothing but a start() in progress writes to  *)
(* the port: a failed poll is neither retried nor followed by another one. *)
THEOREM QuietCorrect == Spec => QuietAfterStop
<1>1. PollsWhileRunning /\ TypeInv /\ [Next]_vars
        => [ioStopped /\ wire' # wire => caller = "start"]_vars
  <2> SUFFICES ASSUME PollsWhileRunning, TypeOK, [Next]_vars, ioStopped, wire' # wire
               PROVE  caller = "start"
    BY DEF TypeInv
  <2>1. pc = "write"
    BY DEF Next, Start, StartFails, StartThrows, StartConfigures, ConfigureUbxOutput, Send,
       WriteSome,
       SendPosPoll, ArmTimer, PerformRead, SendMessage, WriteFails, Handler,
       HandleAborted, HandleReadError, HandleRead, HandleTimer, HandleDangling,
       Parse, HandleNavPosllh, SkipByte, EraseConsumed, DeviceSends, Asio,
       ReadCompletes, PortFails, TimerExpires, Owner, Run, RunReturns, LoopStops,
       Restart, Destroy, Crashed, vars, sendVars
  <2>2. QED
    BY <2>1 DEF PollsWhileRunning, TypeOK
<1>2. Init => PollsWhileRunning
  BY DEF Init, PollsWhileRunning
<1>3. QED
  BY <1>1, <1>2, PollsWhileRunningStep, ChainCorrect, PTL DEF Spec, QuietAfterStop
-----------------------------------------------------------------------------
(* A session whose start() threw with the port open stays silent until it  *)
(* is destroyed, however often it is started and its loop is run.          *)
THEOREM FailedStartCorrect == Spec => FailedStartIsFinal
<1>1. [Next]_vars => [LeftOpen => LeftOpen' \/ ~alive']_vars
  <2> SUFFICES ASSUME [Next]_vars, LeftOpen, alive' PROVE LeftOpen'
    OBVIOUS
  <2> USE DEF LeftOpen, lifeVars, threadVars, sendVars, parseVars, loopVars,
              readVars, timerVars
  <2>1. CASE Start
    BY <2>1 DEF Start, StartFails, StartThrows, StartConfigures, CallStart, CanOpen
  <2>2. CASE Send \/ WriteFails \/ Parse
    BY <2>2 DEF Send, WriteSome, SendPosPoll, ArmTimer, PerformRead, WriteFails, Parse,
                HandleNavPosllh, SkipByte, EraseConsumed
  <2>3. CASE Handler \/ HandleDangling
    BY <2>3 DEF Handler, HandleAborted, HandleReadError, HandleRead, HandleTimer,
                HandleDangling, Dispatch
  <2>4. CASE DeviceSends \/ Asio
    BY <2>4 DEF DeviceSends, Asio, ReadCompletes, PortFails, TimerExpires
  <2>5. CASE Owner
    BY <2>5 DEF Owner, Run, RunReturns, LoopStops, Restart, Destroy
  <2>6. CASE UNCHANGED vars
    BY <2>6 DEF vars
  <2>7. QED
    BY <2>1, <2>2, <2>3, <2>4, <2>5, <2>6 DEF Next, Crashed
<1>2. QED
  BY <1>1, PTL DEF Spec, FailedStartIsFinal

-----------------------------------------------------------------------------
(* The bytes                                                               *)

(* The completed read that is still queued, if there is one, brought count *)
(* bytes.                                                                  *)
InFlightCount(count) ==
  \/ count = 0 /\ \A i \in Queued("read") : ready[i].ec # "ok"
  \/ \E i \in Queued("read") : ready[i].ec = "ok" /\ ready[i].n = count

LEMMA FlightOfDispatch ==
  ASSUME TypeInv, ChainInv, NEW op \in {"read", "timer"}, Dispatch(op),
         NEW count \in Nat, InFlightCount(count)
  PROVE  /\ op = "read" /\ Head(ready).ec = "ok" => count = Head(ready).n
         /\ op = "read" /\ Head(ready).ec # "aborted" => InFlightCount(0)'
         /\ ~(op = "read" /\ Head(ready).ec = "ok") => InFlightCount(count)'
<1>1. /\ ready \in Seq(Completion) /\ ready # <<>> /\ ready' = Tail(ready)
      /\ Head(ready).op = op
      /\ \A i, j \in Live(ready, "read") : i = j
  BY DEF TypeInv, TypeOK, ChainInv, OneRead, Queued, Dispatch
<1>2. /\ Head(ready).op = "read" /\ Head(ready).ec # "aborted" =>
           Live(ready', "read") = {} /\ \E i \in Live(ready, "read") : ready[i] = Head(ready)
      /\ ~(Head(ready).op = "read" /\ Head(ready).ec # "aborted") /\ Live(ready, "read") # {}
           => Live(ready', "read") # {}
      /\ \A i \in Live(ready', "read") : \E j \in Live(ready, "read") : ready'[i] = ready[j]
  <2>1. /\ Head(ready).op = "read" /\ Head(ready).ec # "aborted" =>
             Live(Tail(ready), "read") = {} /\ \E i \in Live(ready, "read") : ready[i] = Head(ready)
        /\ ~(Head(ready).op = "read" /\ Head(ready).ec # "aborted") /\ Live(ready, "read") # {}
             => Live(Tail(ready), "read") # {}
        /\ \A i \in Live(Tail(ready), "read") : \E j \in Live(ready, "read") : Tail(ready)[i] = ready[j]
    BY <1>1, LiveAfterDispatch
  <2> QED BY <1>1, <2>1
<1>3. CASE op = "read" /\ Head(ready).ec # "aborted"
  <2>1. PICK i \in Live(ready, "read") : ready[i] = Head(ready)
    BY <1>1, <1>2, <1>3
  <2>2. InFlightCount(0)'
    BY <1>1, <1>2, <1>3 DEF InFlightCount, Queued
  <2>3. \A j \in Live(ready, "read") : ready[j] = Head(ready)
    BY <1>1, <2>1
  <2>4. Head(ready).ec = "ok" => count = Head(ready).n
    BY <2>1, <2>3 DEF InFlightCount, Queued
  <2>5. Head(ready).ec # "ok" => count = 0
    BY <2>1, <2>3 DEF InFlightCount, Queued
  <2> QED BY <1>3, <2>2, <2>4, <2>5
<1>4. CASE ~(op = "read" /\ Head(ready).ec # "aborted")
  <2>1. CASE count = 0 /\ \A i \in Live(ready, "read") : ready[i].ec # "ok"
    BY <1>2, <1>4, <2>1 DEF InFlightCount, Queued
  <2>2. CASE \E i \in Live(ready, "read") : ready[i].ec = "ok" /\ ready[i].n = count
    <3>1. PICK i \in Live(ready, "read") : ready[i].ec = "ok" /\ ready[i].n = count
      BY <2>2
    <3>2. PICK k \in Live(ready', "read") : TRUE
      <4>1. Live(ready, "read") # {}
        BY <3>1
      <4>2. Live(ready', "read") # {}
        BY <1>1, <1>2, <1>4, <4>1
      <4> QED BY <4>2
    <3>3. ready'[k] = ready[i]
      BY <1>1, <1>2, <3>2
    <3> QED BY <1>4, <3>1, <3>2, <3>3 DEF InFlightCount, Queued
  <2> QED BY <1>4, <2>1, <2>2 DEF InFlightCount, Queued
<1> QED BY <1>3, <1>4

(* Only a read that completes, or its handler, changes what is in flight.  *)
LEMMA FlightKept ==
  ASSUME TypeInv, ChainInv, [Next]_vars, alive, NEW count \in Nat, InFlightCount(count),
         ~ReadCompletes, ~HandleRead
  PROVE  InFlightCount(count)'
<1> USE DEF lifeVars, threadVars, sendVars, parseVars, loopVars, readVars, timerVars
<1>1. ready \in Seq(Completion) /\ readPending \in Nat /\ timerPending \in Nat
  BY DEF TypeInv, TypeOK
<1>2. CASE ready' = ready
  BY <1>2 DEF InFlightCount, Queued
<1>3. ASSUME Live(ready', "read") = Live(ready, "read"),
             \A i \in Live(ready, "read") : ready'[i] = ready[i]
      PROVE  InFlightCount(count)'
  BY <1>3 DEF InFlightCount, Queued
<1>4. CASE ArmTimer
  <2>1. /\ AllAborted("timer", timerPending) \in Seq(Completion)
        /\ \A i \in 1 .. Len(AllAborted("timer", timerPending)) :
             AllAborted("timer", timerPending)[i].ec = "aborted"
    BY <1>1, AbortedFields
  <2>2. ready' = ready \o AllAborted("timer", timerPending)
    BY <1>4 DEF ArmTimer
  <2> QED BY <1>1, <1>3, <2>1, <2>2, LiveAborted
<1>5. CASE Destroy
  BY <1>1, <1>3, <1>5, LiveAfterDestroy
<1>6. CASE Handler
  <2>1. CASE HandleAborted
    BY <2>1, FlightOfDispatch DEF HandleAborted, ReturnsEarly
  <2>2. CASE HandleReadError
    BY <2>2, FlightOfDispatch DEF HandleReadError
  <2>3. CASE HandleTimer
    BY <2>3, FlightOfDispatch DEF HandleTimer
  <2> QED BY <1>6, <2>1, <2>2, <2>3 DEF Handler
<1>7. CASE TimerExpires
  <2>1. PICK c \in Completion : c.op = "timer" /\ ready' = Append(ready, c)
    <3>1. [op |-> "timer", ec |-> "ok", n |-> 0] \in Completion
      BY DEF Completion
    <3> QED BY <1>7, <3>1 DEF TimerExpires
  <2>2. /\ Live(Append(ready, c), "read") = Live(ready, "read")
        /\ \A i \in Live(ready, "read") : Append(ready, c)[i] = ready[i]
    <3>1. \A op : /\ Live(Append(ready, c), op) = Live(ready, op) \cup
                       (IF c.op = op /\ c.ec # "aborted" THEN {Len(ready) + 1} ELSE {})
                  /\ \A i \in Live(ready, op) : i # Len(ready) + 1 /\ Append(ready, c)[i] = ready[i]
                  /\ Append(ready, c)[Len(ready) + 1] = c
      BY <1>1, <2>1, LiveAppend
    <3> QED BY <2>1, <3>1
  <2> QED BY <1>3, <2>1, <2>2
<1>8. CASE PortFails
  <2>1. PICK c \in Completion : c.op = "read" /\ c.ec = "error" /\ ready' = Append(ready, c)
    <3>1. [op |-> "read", ec |-> "error", n |-> 0] \in Completion
      BY DEF Completion
    <3> QED BY <1>8, <3>1 DEF PortFails
  <2>2. Live(ready, "read") = {}
    BY <1>1, <1>8 DEF PortFails, ChainInv, OneRead, Queued
  <2>3. count = 0
    BY <2>2 DEF InFlightCount, Queued
  <2>4. \A i \in Live(ready', "read") : ready'[i].ec # "ok"
    <3>1. \A op : Live(Append(ready, c), op) = Live(ready, op) \cup
                     (IF c.op = op /\ c.ec # "aborted" THEN {Len(ready) + 1} ELSE {})
      BY <1>1, <2>1, LiveAppend
    <3>2. Append(ready, c)[Len(ready) + 1] = c
      BY <1>1, <2>1, LiveAppend
    <3> QED BY <2>1, <2>2, <3>1, <3>2
  <2> QED BY <2>3, <2>4 DEF InFlightCount, Queued
<1>9. CASE HandleDangling
  BY <1>9 DEF HandleDangling
<1> QED
  BY <1>2, <1>4, <1>5, <1>6, <1>7, <1>8, <1>9
  DEF Next, Start, StartFails, StartThrows, StartConfigures, ConfigureUbxOutput, CallStart,
      Send, WriteSome, SendPosPoll, PerformRead, SendMessage, WriteFails, Parse, HandleNavPosllh,
      SkipByte, EraseConsumed, DeviceSends, Asio, Owner, Run, RunReturns, LoopStops,
      Restart, Crashed, vars
-----------------------------------------------------------------------------
(* m_inData is a stretch of what was read from the port, right behind what *)
(* was erased; what is in flight comes right behind it.                    *)
Kept1to1 ==
  /\ erased + Len(m_inData) <= Len(taken)
  /\ \A k \in 1 .. Len(m_inData) : m_inData[k] = taken[erased + k]

RestIs(count) ==
  /\ count <= Len(m_inputBuf) /\ Len(taken) = erased + Len(m_inData) + count
  /\ \A k \in 1 .. count : m_inputBuf[k] = taken[erased + Len(m_inData) + k]

RestInFlight == alive => \E count \in Nat : InFlightCount(count) /\ RestIs(count)

ParserInside ==
  /\ pc = "parse" => consumed <= Len(m_inData)
  /\ pc # "parse" => consumed = 0

LeftoverWaits ==
  pc # "parse" /\ m_inData # <<>> =>
    IsHeader(m_inData[1]) /\ Len(m_inData) < Claimed(m_inData[1])

StreamInv == Kept1to1 /\ RestInFlight /\ ParserInside /\ LeftoverWaits

LEMMA StreamInit == Init => StreamInv
<1> SUFFICES ASSUME Init PROVE StreamInv
  OBVIOUS
<1>1. /\ erased = 0 /\ consumed = 0 /\ Len(m_inData) = 0 /\ Len(taken) = 0
      /\ Len(m_inputBuf) = 0 /\ m_inData = <<>> /\ ready = <<>> /\ DOMAIN ready = {}
      /\ pc = "owner"
  BY DEF Init
<1>2. InFlightCount(0)
  BY <1>1 DEF InFlightCount, Queued, Live
<1>3. RestIs(0)
  BY <1>1 DEF RestIs
<1> QED BY <1>1, <1>2, <1>3 DEF StreamInv, Kept1to1, RestInFlight, ParserInside, LeftoverWaits

LEMMA StreamNumbers ==
  ASSUME TypeInv
  PROVE  /\ Len(m_inData) \in Nat /\ Len(taken) \in Nat /\ Len(m_inputBuf) \in Nat
         /\ erased \in Nat /\ consumed \in Nat
         /\ \A k \in 1 .. Len(m_inData) : m_inData[k] \in Byte
         /\ \A k \in 1 .. Len(taken) : taken[k] \in Byte
  BY LenProperties, ElementOfSeq DEF TypeInv, TypeOK

(* The handler appends what its completion brought: what was in flight.    *)
LEMMA StreamOfHandleRead == TypeInv /\ ChainInv /\ StreamInv /\ HandleRead => StreamInv'
<1> SUFFICES ASSUME TypeInv, ChainInv, StreamInv, HandleRead PROVE StreamInv'
  OBVIOUS
<1> USE DEF lifeVars, readVars
<1> DEFINE n == Head(ready).n  old == Len(m_inData)
<1>1. /\ Dispatch("read") /\ Head(ready).ec = "ok" /\ alive /\ pc' = "parse" /\ consumed' = 0
      /\ m_inData' = m_inData \o SubSeq(m_inputBuf, 1, n)
      /\ UNCHANGED <<erased, taken, m_inputBuf>>
  BY DEF HandleRead, Received
<1>2. PICK count \in Nat : InFlightCount(count) /\ RestIs(count)
  BY <1>1 DEF StreamInv, RestInFlight
<1>3. count = n /\ InFlightCount(0)'
  BY <1>1, <1>2, FlightOfDispatch
<1>4. n \in 0 .. Len(m_inputBuf)
  BY <1>2, <1>3, StreamNumbers DEF RestIs
<1> HIDE DEF n
<1>5. /\ SubSeq(m_inputBuf, 1, n) \in Seq(Byte) /\ Len(SubSeq(m_inputBuf, 1, n)) = n
      /\ \A k \in 1 .. n : SubSeq(m_inputBuf, 1, n)[k] = m_inputBuf[k]
  <2>1. m_inputBuf \in Seq(Byte) /\ \A k \in 1 .. n : m_inputBuf[k] \in Byte
    BY <1>4, StreamNumbers, ElementOfSeq DEF TypeInv, TypeOK
  <2> QED BY <1>4, <2>1, SubSeqProperties
<1>6. /\ Len(m_inData') = old + n
      /\ \A k \in 1 .. old + n :
           m_inData'[k] = IF k <= old THEN m_inData[k] ELSE SubSeq(m_inputBuf, 1, n)[k - old]
  <2> DEFINE part == SubSeq(m_inputBuf, 1, n)
  <2>1. m_inData \in Seq(Byte) /\ part \in Seq(Byte) /\ Len(part) = n /\ m_inData' = m_inData \o part
    BY <1>1, <1>5 DEF TypeInv, TypeOK, n
  <2> HIDE DEF part
  <2>2. /\ Len(m_inData') = old + n
        /\ \A k \in 1 .. old + n : m_inData'[k] = IF k <= old THEN m_inData[k] ELSE part[k - old]
    BY <2>1, ConcatProperties
  <2> QED BY <2>2 DEF part
<1>7. Len(taken) = erased + old + n
  BY <1>2, <1>3 DEF RestIs
<1>8. ASSUME NEW k \in 1 .. old + n PROVE m_inData'[k] = taken[erased + k]
  <2>1. CASE k <= old
    BY <1>4, <1>6, <2>1, StreamNumbers DEF StreamInv, Kept1to1
  <2>2. CASE k > old
    <3>1. k - old \in 1 .. n /\ erased + old + (k - old) = erased + k
      BY <1>4, <2>2, StreamNumbers
    <3>2. m_inputBuf[k - old] = taken[erased + old + (k - old)]
      BY <1>2, <1>3, <3>1 DEF RestIs
    <3> QED BY <1>5, <1>6, <2>2, <3>1, <3>2
  <2> QED BY <2>1, <2>2, <1>4, StreamNumbers
<1>9. Kept1to1'
  BY <1>1, <1>6, <1>7, <1>8, <1>4, StreamNumbers DEF Kept1to1
<1>10. RestIs(0)'
  BY <1>1, <1>4, <1>6, <1>7, StreamNumbers DEF RestIs
<1> QED
  BY <1>1, <1>3, <1>4, <1>6, <1>9, <1>10, StreamNumbers
  DEF StreamInv, RestInFlight, ParserInside, LeftoverWaits

(* A read completes only when nothing is in flight, so it overwrites       *)
(* nothing the handler still needs.                                        *)
LEMMA StreamOfReadCompletes ==
  TypeInv /\ ChainInv /\ StreamInv /\ ReadCompletes => StreamInv'
<1> SUFFICES ASSUME TypeInv, ChainInv, StreamInv, ReadCompletes PROVE StreamInv'
  OBVIOUS
<1> USE DEF lifeVars, threadVars, parseVars
<1>1. PICK n \in 1 .. Len(rx) :
        /\ m_inputBuf' = SubSeq(rx, 1, n) \o SubSeq(m_inputBuf, n + 1, Len(m_inputBuf))
        /\ taken' = taken \o SubSeq(rx, 1, n)
        /\ ready' = Append(ready, [op |-> "read", ec |-> "ok", n |-> n])
  BY DEF ReadCompletes
<1>2. /\ pc = "run" /\ readPending > 0 /\ UNCHANGED <<pc, alive, m_inData, erased, consumed>>
  BY DEF ReadCompletes
<1>3. n \in Nat /\ n \in 0 .. Len(rx)
  BY LenProperties DEF TypeInv, TypeOK
<1>4. /\ SubSeq(rx, 1, n) \in Seq(Byte) /\ Len(SubSeq(rx, 1, n)) = n
      /\ SubSeq(m_inputBuf, n + 1, Len(m_inputBuf)) \in Seq(Byte)
  BY <1>3, Cuts, Suffix DEF TypeInv, TypeOK
<1>5. /\ n <= Len(m_inputBuf') /\ \A k \in 1 .. n : m_inputBuf'[k] = SubSeq(rx, 1, n)[k]
  <2>1. Len(SubSeq(m_inputBuf, n + 1, Len(m_inputBuf))) \in Nat
    BY <1>4, LenProperties
  <2> QED BY <1>1, <1>3, <1>4, <2>1, ConcatProperties
<1>6. /\ Len(taken') = Len(taken) + n
      /\ \A k \in 1 .. Len(taken) + n :
           taken'[k] = IF k <= Len(taken) THEN taken[k] ELSE SubSeq(rx, 1, n)[k - Len(taken)]
  BY <1>1, <1>4, ConcatProperties, SMTT(30) DEF TypeInv, TypeOK
<1>7. alive => Len(taken) = erased + Len(m_inData)
  <2>1. readPending = 1
    BY <1>2 DEF ChainInv, OneRead, TypeInv, TypeOK
  <2>2. Queued("read") = {}
    BY <2>1 DEF ChainInv, OneRead
  <2>3. \A count \in Nat : InFlightCount(count) => count = 0
    BY <2>2 DEF InFlightCount
  <2> QED BY <2>3, StreamNumbers DEF StreamInv, RestInFlight, RestIs
<1>8. InFlightCount(n)'
  <2>1. PICK c \in Completion :
          c.op = "read" /\ c.ec = "ok" /\ c.n = n /\ ready' = Append(ready, c)
    <3>1. [op |-> "read", ec |-> "ok", n |-> n] \in Completion
      BY <1>3 DEF Completion
    <3> QED BY <1>1, <3>1
  <2>2. /\ \A op : Live(Append(ready, c), op) = Live(ready, op) \cup
                    (IF c.op = op /\ c.ec # "aborted" THEN {Len(ready) + 1} ELSE {})
        /\ Append(ready, c)[Len(ready) + 1] = c
    BY <2>1, LiveAppend, SMTT(30) DEF TypeInv, TypeOK
  <2>3. Len(ready) + 1 \in Live(ready', "read") /\ ready'[Len(ready) + 1] = c
    BY <2>1, <2>2
  <2> QED BY <2>1, <2>3 DEF InFlightCount, Queued
<1>9. Kept1to1'
  BY <1>2, <1>3, <1>6, StreamNumbers DEF StreamInv, Kept1to1
<1>10. alive => RestIs(n)'
  <2> SUFFICES ASSUME alive PROVE RestIs(n)'
    OBVIOUS
  <2>1. ASSUME NEW k \in 1 .. n
        PROVE  m_inputBuf'[k] = taken'[erased + Len(m_inData) + k]
    <3>1. Len(taken) + k \in 1 .. Len(taken) + n /\ ~(Len(taken) + k <= Len(taken))
          /\ (Len(taken) + k) - Len(taken) = k
      BY <1>3, StreamNumbers
    <3>2. taken'[Len(taken) + k] = SubSeq(rx, 1, n)[k]
      BY <1>6, <3>1
    <3> QED BY <1>5, <1>7, <3>2
  <2> QED BY <1>2, <1>5, <1>6, <1>7, <2>1 DEF RestIs
<1> QED
  BY <1>2, <1>3, <1>8, <1>9, <1>10
  DEF StreamInv, RestInFlight, ParserInside, LeftoverWaits

(* The parser moves on, or what it consumed is dropped from both counts.   *)
LEMMA StreamOfParse == TypeInv /\ ChainInv /\ StreamInv /\ Parse => StreamInv'
<1> SUFFICES ASSUME TypeInv, ChainInv, StreamInv, Parse PROVE StreamInv'
  OBVIOUS
<1> USE DEF lifeVars, readVars
<1>1. pc = "parse" /\ UNCHANGED <<alive, ready, m_inputBuf, taken>> /\ consumed <= Len(m_inData)
  BY DEF Parse, HandleNavPosllh, SkipByte, EraseConsumed, StreamInv, ParserInside
<1>2. CASE HandleNavPosllh \/ SkipByte
  <2>1. pc' = "parse" /\ UNCHANGED <<m_inData, erased>>
    BY <1>1, <1>2 DEF HandleNavPosllh, SkipByte, threadVars
  <2>2. consumed' <= Len(m_inData)
    BY <1>2, FrameLengths, StreamNumbers DEF HandleNavPosllh, SkipByte, IntactAt, Unparsed
  <2> QED
    BY <1>1, <2>1, <2>2
    DEF StreamInv, Kept1to1, RestInFlight, RestIs, InFlightCount, Queued, ParserInside,
        LeftoverWaits
<1>3. CASE EraseConsumed
  <2>1. /\ m_inData' = SubSeq(m_inData, consumed + 1, Len(m_inData)) /\ erased' = erased + consumed
        /\ consumed' = 0 /\ pc' = "read" /\ ParserStops
    BY <1>3 DEF EraseConsumed, Kept, AfterParse
  <2>2. /\ Len(m_inData') = Len(m_inData) - consumed
        /\ \A k \in 1 .. Len(m_inData) - consumed : m_inData'[k] = m_inData[consumed + k]
    <3>1. consumed \in 0 .. Len(m_inData) /\ m_inData \in Seq(Byte)
      BY <1>1, StreamNumbers DEF TypeInv, TypeOK
    <3> QED BY <2>1, <3>1, RestOf
  <2>3. Kept1to1'
    <3>1. ASSUME NEW k \in 1 .. Len(m_inData) - consumed
          PROVE  m_inData'[k] = taken[erased + consumed + k]
      <4>1. consumed + k \in 1 .. Len(m_inData)
            /\ erased + (consumed + k) = erased + consumed + k
        BY <1>1, StreamNumbers
      <4> QED BY <2>2, <4>1 DEF StreamInv, Kept1to1
    <3>2. erased' + Len(m_inData') = erased + Len(m_inData)
      BY <1>1, <2>1, <2>2, StreamNumbers
    <3>3. erased + Len(m_inData) <= Len(taken)
      BY DEF StreamInv, Kept1to1
    <3>4. \A k \in 1 .. Len(m_inData') : m_inData'[k] = taken'[erased' + k]
      BY <1>1, <2>1, <2>2, <3>1
    <3> QED BY <1>1, <3>2, <3>3, <3>4 DEF Kept1to1
  <2>4. RestInFlight'
    <3> SUFFICES ASSUME alive PROVE \E count \in Nat : InFlightCount(count)' /\ RestIs(count)'
      BY <1>1 DEF RestInFlight
    <3>1. PICK count \in Nat : InFlightCount(count) /\ RestIs(count)
      BY DEF StreamInv, RestInFlight
    <3>2. InFlightCount(count)'
      BY <1>1, <3>1 DEF InFlightCount, Queued
    <3>3. erased' + Len(m_inData') = erased + Len(m_inData)
      BY <1>1, <2>1, <2>2, StreamNumbers
    <3>4. RestIs(count)'
      BY <1>1, <3>1, <3>3 DEF RestIs
    <3> QED BY <3>2, <3>4
  <2>5. LeftoverWaits'
    <3> SUFFICES ASSUME m_inData' # <<>>
                 PROVE  IsHeader(m_inData'[1]) /\ Len(m_inData') < Claimed(m_inData'[1])
      BY DEF LeftoverWaits
    <3>1. Unparsed
      <4>1. ~Unparsed => Len(m_inData') = 0 /\ m_inData' \in Seq(Byte)
        BY <1>1, <2>1, <2>2, StreamNumbers, Suffix DEF Unparsed, TypeInv, TypeOK
      <4> QED BY <4>1, EmptySeq
    <3>2. NotEnoughData(m_inData, consumed + 1) /\ m_inData'[1] = m_inData[consumed + 1]
      BY <2>1, <2>2, <3>1, StreamNumbers DEF ParserStops, Unparsed
    <3>3. m_inData[consumed + 1] \in Byte /\ Claimed(m_inData[consumed + 1]) \in Nat
      BY <3>1, StreamNumbers, FrameLengths DEF Unparsed, Claimed
    <3> QED BY <2>2, <3>2, <3>3, StreamNumbers DEF NotEnoughData
  <2> QED BY <2>1, <2>3, <2>4, <2>5 DEF StreamInv, ParserInside
<1> QED BY <1>2, <1>3 DEF Parse

(* All other actions leave the bytes that were read alone.                 *)
LEMMA OnlyReadsMoveBytes ==
  ASSUME TypeInv, [Next]_vars, ~(HandleRead \/ ReadCompletes \/ Parse)
  PROVE  /\ UNCHANGED <<m_inputBuf, m_inData, taken, erased, consumed, handled>>
         /\ alive' => alive
         /\ pc' = "parse" <=> pc = "parse"
<1> USE DEF lifeVars, threadVars, sendVars, parseVars, loopVars, readVars, timerVars
<1>1. CASE Start
  BY <1>1 DEF Start, StartFails, StartThrows, StartConfigures, ConfigureUbxOutput,
              CallStart, CanOpen, SendMessage
<1>2. CASE Send
  <2>1. resume \in {"poll", "arm"}
    BY DEF TypeInv, TypeOK
  <2> QED
    BY <1>2, <2>1 DEF Send, WriteSome, SendPosPoll, ArmTimer, PerformRead, SendMessage,
                      AfterPoll
<1>3. CASE Handler /\ ~HandleRead
  BY <1>3 DEF Handler, HandleAborted, HandleReadError, HandleTimer, HandleDangling, Dispatch
<1>4. CASE DeviceSends \/ (Asio /\ ~ReadCompletes)
  BY <1>4 DEF DeviceSends, Asio, PortFails, TimerExpires
<1>5. CASE WriteFails
  <2>1. resume \in {"poll", "arm"}
    BY DEF TypeInv, TypeOK
  <2> QED BY <1>5, <2>1 DEF WriteFails, AfterFault
<1>6. CASE HandleDangling
  BY <1>6 DEF HandleDangling, Dispatch
<1>7. CASE Destroy
  BY <1>7 DEF Destroy
<1>8. CASE Owner /\ ~Destroy
  BY <1>8 DEF Owner, Run, RunReturns, LoopStops, Restart
<1>9. CASE UNCHANGED vars
  BY <1>9 DEF vars
<1> QED
  BY <1>1, <1>2, <1>3, <1>4, <1>5, <1>6, <1>7, <1>8, <1>9 DEF Next, Crashed

LEMMA StreamStep == TypeInv /\ ChainInv /\ StreamInv /\ [Next]_vars => StreamInv'
<1> SUFFICES ASSUME TypeInv, ChainInv, StreamInv, [Next]_vars PROVE StreamInv'
  OBVIOUS
<1>1. CASE HandleRead \/ ReadCompletes \/ Parse
  BY <1>1, StreamOfHandleRead, StreamOfReadCompletes, StreamOfParse
<1>2. CASE ~(HandleRead \/ ReadCompletes \/ Parse)
  <2>1. /\ UNCHANGED <<m_inputBuf, m_inData, taken, erased, consumed>>
        /\ alive' => alive
        /\ pc' = "parse" <=> pc = "parse"
    BY <1>2, OnlyReadsMoveBytes
  <2>2. RestInFlight'
    <3> SUFFICES ASSUME alive, alive'
                 PROVE  \E count \in Nat : InFlightCount(count)' /\ RestIs(count)'
      BY <2>1 DEF RestInFlight
    <3>1. PICK count \in Nat : InFlightCount(count) /\ RestIs(count)
      BY DEF StreamInv, RestInFlight
    <3>2. InFlightCount(count)'
      BY <1>2, <3>1, FlightKept
    <3>3. RestIs(count)'
      BY <2>1, <3>1 DEF RestIs
    <3> QED BY <3>2, <3>3
  <2> QED BY <2>1, <2>2 DEF StreamInv, Kept1to1, ParserInside, LeftoverWaits
<1> QED BY <1>1, <1>2

LEMMA StreamCorrect == Spec => [](TypeInv /\ ChainInv /\ StreamInv)
<1>1. Init => StreamInv
  BY StreamInit
<1>2. QED
  BY <1>1, StreamStep, ChainCorrect, PTL DEF Spec

(* However reads, handlers and the destructor interleave, what was read    *)
(* from the port is what was erased, then m_inData, then the read that is  *)
(* still queued: nothing is lost, repeated or out of order.                *)
THEOREM StreamIntactCorrect == Spec => []StreamIntact
<1>1. TypeInv /\ ChainInv /\ StreamInv => StreamIntact
  <2> SUFFICES ASSUME TypeInv, ChainInv, StreamInv, alive
               PROVE  m_inData \o InFlight = SubSeq(taken, erased + 1, Len(taken))
    BY DEF StreamIntact
  <2>1. PICK count \in Nat : InFlightCount(count) /\ RestIs(count)
    BY DEF StreamInv, RestInFlight
  <2> DEFINE rest == SubSeq(taken, erased + 1, Len(taken))  old == Len(m_inData)
  <2>2. /\ InFlight \in Seq(Byte) /\ Len(InFlight) = count
        /\ \A k \in 1 .. count : InFlight[k] = m_inputBuf[k]
    <3>1. CASE \E i \in Queued("read") : ready[i].ec = "ok"
      <4>1. \A i, j \in Queued("read") : i = j
        BY DEF ChainInv, OneRead
      <4>2. ready[CHOOSE i \in Queued("read") : TRUE].n = count
        BY <2>1, <3>1, <4>1 DEF InFlightCount
      <4>3. InFlight = SubSeq(m_inputBuf, 1, count)
        BY <3>1, <4>2 DEF InFlight
      <4>4. \A k \in 1 .. count : m_inputBuf[k] \in Byte
        BY <2>1, StreamNumbers, ElementOfSeq DEF RestIs, TypeInv, TypeOK
      <4> QED BY <4>3, <4>4, SubSeqProperties
    <3>2. CASE ~\E i \in Queued("read") : ready[i].ec = "ok"
      <4>1. count = 0 /\ InFlight = <<>>
        BY <2>1, <3>2 DEF InFlightCount, InFlight
      <4> QED BY <4>1, EmptySeq
    <3> QED BY <3>1, <3>2
  <2> HIDE DEF InFlight
  <2>3. /\ m_inData \o InFlight \in Seq(Byte) /\ Len(m_inData \o InFlight) = old + count
        /\ \A k \in 1 .. old + count :
             (m_inData \o InFlight)[k] = IF k <= old THEN m_inData[k] ELSE InFlight[k - old]
    BY <2>2, ConcatProperties DEF TypeInv, TypeOK
  <2>4. /\ rest \in Seq(Byte) /\ Len(rest) = old + count
        /\ \A k \in 1 .. old + count : rest[k] = taken[erased + k]
    <3>1. Len(taken) = erased + old + count /\ taken \in Seq(Byte)
      BY <2>1 DEF RestIs, TypeInv, TypeOK
    <3>2. erased \in 0 .. Len(taken) /\ Len(taken) - erased = old + count
      BY <3>1, StreamNumbers
    <3>3. /\ rest \in Seq(Byte) /\ Len(rest) = Len(taken) - erased
          /\ \A k \in 1 .. Len(taken) - erased : rest[k] = taken[erased + k]
      BY <3>1, <3>2, RestOf
    <3> QED BY <3>2, <3>3
  <2>5. ASSUME NEW k \in 1 .. old + count PROVE (m_inData \o InFlight)[k] = rest[k]
    <3>1. CASE k <= old
      <4>1. k \in 1 .. Len(m_inData)
        BY <3>1, StreamNumbers
      <4>2. m_inData[k] = taken[erased + k]
        BY <4>1 DEF StreamInv, Kept1to1
      <4>3. (m_inData \o InFlight)[k] = m_inData[k]
        BY <2>3, <3>1
      <4>4. rest[k] = taken[erased + k]
        BY <2>4
      <4> QED BY <4>2, <4>3, <4>4
    <3>2. CASE k > old
      <4>1. k - old \in 1 .. count /\ erased + old + (k - old) = erased + k
        BY <3>2, StreamNumbers
      <4>2. m_inputBuf[k - old] = taken[erased + old + (k - old)]
        BY <2>1, <4>1 DEF RestIs
      <4>3. (m_inData \o InFlight)[k] = InFlight[k - old]
        BY <2>3, <3>2, StreamNumbers
      <4>4. InFlight[k - old] = m_inputBuf[k - old]
        BY <2>2, <4>1
      <4>5. rest[k] = taken[erased + k]
        BY <2>4
      <4> QED BY <4>1, <4>2, <4>3, <4>4, <4>5
    <3>3. k <= old \/ k > old
      BY StreamNumbers
    <3> QED BY <3>1, <3>2, <3>3
  <2> QED BY <2>3, <2>4, <2>5, SeqEqual
<1>2. QED
  BY <1>1, StreamCorrect, PTL

(* Between two reads m_inData holds nothing, or one frame that has begun   *)
(* and not arrived; so it never outgrows the longest frame that a header   *)
(* can claim.                                                              *)
THEOREM LeftoverCorrect == Spec => []LeftoverIsOneFrame
<1>1. StreamInv => LeftoverIsOneFrame
  BY DEF StreamInv, LeftoverWaits, LeftoverIsOneFrame
<1>2. QED
  BY <1>1, StreamCorrect, PTL
-----------------------------------------------------------------------------
(* A whole frame stays one where its bytes come to lie, and the other way  *)
(* round where all its bytes were there already.                           *)
LEMMA IntactMoves ==
  ASSUME NEW s \in Seq(Byte), NEW t \in Seq(Byte), NEW d \in Nat, NEW i \in 1 .. Len(s),
         Len(s) + d <= Len(t), \A k \in 1 .. Len(s) : t[d + k] = s[k]
  PROVE  /\ IntactAt(s, i) => IntactAt(t, d + i)
         /\ i + PosLen - 1 <= Len(s) /\ IntactAt(t, d + i) => IntactAt(s, i)
<1>1. Len(s) \in Nat /\ Len(t) \in Nat /\ PosLen \in Nat \ {0}
  BY LenProperties, FrameLengths
<1>2. ASSUME i + PosLen - 1 <= Len(s)
      PROVE  /\ d + i + PosLen - 1 <= Len(t)
             /\ t[d + i] = s[i]
             /\ \A k \in 0 .. PosLen - 1 : t[d + i + k] = s[i + k]
  <2>1. ASSUME NEW k \in 0 .. PosLen - 1 PROVE t[d + i + k] = s[i + k]
    <3>1. i + k \in 1 .. Len(s) /\ d + (i + k) = d + i + k
      BY <1>1, <1>2
    <3> QED BY <3>1
  <2> QED BY <1>1, <1>2, <2>1, SMTT(30), ZenonT(30)
<1> QED BY <1>2 DEF IntactAt

(* A whole frame starts with a header.                                     *)
LEMMA IntactStart ==
  ASSUME NEW s, NEW i \in Nat, IntactAt(s, i)
  PROVE  s[i].frame # 0 /\ s[i].pos = 1
<1>1. 0 \in 0 .. PosLen - 1
  BY FrameLengths
<1>2. s[i + 0] = [frame |-> s[i].frame, pos |-> 0 + 1]
  BY <1>1 DEF IntactAt
<1>3. s[i] = [frame |-> s[i].frame, pos |-> 1]
  BY <1>2
<1> QED BY <1>3 DEF IntactAt

(* Inside a whole frame no other one starts.                               *)
LEMMA FrameInside ==
  ASSUME NEW s, NEW i \in Nat \ {0}, IntactAt(s, i), NEW k \in 1 .. PosLen - 1
  PROVE  s[i + k].pos # 1 /\ ~IntactAt(s, i + k)
<1>1. s[i + k] = [frame |-> s[i].frame, pos |-> k + 1] /\ k \in Nat \ {0}
  BY FrameLengths DEF IntactAt
<1>2. IntactAt(s, i + k) => s[i + k].pos = 1
  BY <1>1, IntactStart
<1> QED BY <1>1, <1>2

(* While the parser works nothing is in flight: m_inData is all that was   *)
(* read and not erased.                                                    *)
LEMMA ParserSeesAll ==
  ASSUME TypeInv, ChainInv, StreamInv, pc = "parse"
  PROVE  /\ Len(taken) = erased + Len(m_inData)
         /\ \A k \in 1 .. Len(m_inData) :
              IntactAt(m_inData, k) <=> IntactAt(taken, erased + k)
<1>1. alive /\ Queued("read") = {}
  BY DEF ChainInv, CodeNeedsPort, InCode, OneRead, ReadInHandler
<1>2. PICK count \in Nat : InFlightCount(count) /\ RestIs(count)
  BY <1>1 DEF StreamInv, RestInFlight
<1>3. count = 0
  BY <1>1, <1>2 DEF InFlightCount
<1>4. Len(taken) = erased + Len(m_inData)
  BY <1>2, <1>3, StreamNumbers DEF RestIs
<1>5. ASSUME NEW k \in 1 .. Len(m_inData)
      PROVE  IntactAt(m_inData, k) <=> IntactAt(taken, erased + k)
  <2>1. /\ m_inData \in Seq(Byte) /\ taken \in Seq(Byte) /\ erased \in Nat
        /\ Len(m_inData) + erased <= Len(taken)
        /\ \A n \in 1 .. Len(m_inData) : taken[erased + n] = m_inData[n]
    BY <1>4, StreamNumbers DEF TypeInv, TypeOK, StreamInv, Kept1to1
  <2>2. /\ IntactAt(m_inData, k) => IntactAt(taken, erased + k)
        /\ k + PosLen - 1 <= Len(m_inData) /\ IntactAt(taken, erased + k) => IntactAt(m_inData, k)
    BY <2>1, IntactMoves
  <2>3. IntactAt(taken, erased + k) => k + PosLen - 1 <= Len(m_inData)
    BY <1>4, StreamNumbers, FrameLengths DEF IntactAt
  <2> QED BY <2>2, <2>3
<1> QED BY <1>4, <1>5

(* What was parsed is settled: every frame that begins there was all there *)
(* when the parser came by, so bytes that come later change no verdict.    *)
Settled ==
  \A i \in 1 .. erased + consumed :
    taken[i].pos = 1 /\ taken[i].frame # 0 => i + PosLen - 1 <= Len(taken)

HandledInv == HandledExactly /\ Settled

LEMMA HandledInit == Init => HandledInv
<1> SUFFICES ASSUME Init PROVE HandledInv
  OBVIOUS
<1>1. /\ erased + consumed = 0 /\ handled = <<>> /\ DOMAIN handled = {}
  BY DEF Init
<1>2. \A i : ~(i \in 1 .. erased + consumed)
  BY <1>1
<1> QED BY <1>1, <1>2 DEF HandledInv, HandledExactly, Settled

(* A read that completes adds bytes behind the settled ones.               *)
LEMMA HandledOfReadCompletes ==
  TypeInv /\ ChainInv /\ StreamInv /\ HandledInv /\ ReadCompletes => HandledInv'
<1> SUFFICES ASSUME TypeInv, ChainInv, StreamInv, HandledInv, ReadCompletes PROVE HandledInv'
  OBVIOUS
<1>1. PICK n \in 1 .. Len(rx) : taken' = taken \o SubSeq(rx, 1, n)
  BY DEF ReadCompletes
<1>2. UNCHANGED <<handled, erased, consumed>>
  BY DEF ReadCompletes, parseVars
<1>3. /\ taken \in Seq(Byte) /\ taken' \in Seq(Byte) /\ Len(taken) <= Len(taken')
      /\ Len(taken) \in Nat /\ Len(taken') \in Nat
      /\ \A k \in 1 .. Len(taken) : taken'[k] = taken[k]
  <2>1. n \in 0 .. Len(rx) /\ rx \in Seq(Byte) /\ taken \in Seq(Byte)
    BY LenProperties DEF TypeInv, TypeOK
  <2>2. SubSeq(rx, 1, n) \in Seq(Byte) /\ Len(SubSeq(rx, 1, n)) = n
    BY <2>1, Cuts
  <2> DEFINE more == SubSeq(rx, 1, n)
  <2> HIDE DEF more
  <2>3. more \in Seq(Byte) /\ Len(more) = n /\ taken' = taken \o more
    BY <1>1, <2>2 DEF more
  <2>4. /\ taken \o more \in Seq(Byte) /\ Len(taken \o more) = Len(taken) + n
        /\ \A k \in 1 .. Len(taken) + n :
             (taken \o more)[k] = IF k <= Len(taken) THEN taken[k] ELSE more[k - Len(taken)]
    BY <2>1, <2>3, ConcatProperties
  <2> QED BY <2>1, <2>3, <2>4, StreamNumbers
<1>4. erased + consumed <= Len(taken) /\ erased + consumed \in Nat
  BY StreamNumbers DEF StreamInv, Kept1to1, ParserInside
<1>5. ASSUME NEW i \in 1 .. erased + consumed
      PROVE  IntactAt(taken', i) <=> IntactAt(taken, i)
  <2>1. i \in 1 .. Len(taken) /\ i \in Nat /\ 0 + i = i
    BY <1>3, <1>4
  <2>2. \A k \in 1 .. Len(taken) : taken'[0 + k] = taken[k]
    BY <1>3
  <2>3. /\ IntactAt(taken, i) => IntactAt(taken', 0 + i)
        /\ i + PosLen - 1 <= Len(taken) /\ IntactAt(taken', 0 + i) => IntactAt(taken, i)
    <3> DEFINE later == taken'
    <3>1. later \in Seq(Byte) /\ Len(taken) + 0 <= Len(later)
          /\ \A k \in 1 .. Len(taken) : later[0 + k] = taken[k]
      BY <1>3, <2>2
    <3> HIDE DEF later
    <3>2. /\ IntactAt(taken, i) => IntactAt(later, 0 + i)
          /\ i + PosLen - 1 <= Len(taken) /\ IntactAt(later, 0 + i) => IntactAt(taken, i)
      BY <1>3, <2>1, <3>1, IntactMoves
    <3> QED BY <3>2 DEF later
  <2>4. IntactAt(taken', i) => i + PosLen - 1 <= Len(taken)
    <3> SUFFICES ASSUME IntactAt(taken', i) PROVE i + PosLen - 1 <= Len(taken)
      OBVIOUS
    <3>1. taken'[i].frame # 0 /\ taken'[i].pos = 1
      BY <2>1, IntactStart
    <3> QED BY <1>3, <2>1, <3>1 DEF HandledInv, Settled
  <2> QED BY <2>1, <2>3, <2>4
<1>6. HandledExactly'
  BY <1>2, <1>5 DEF HandledInv, HandledExactly
<1>7. Settled'
  <2> SUFFICES ASSUME NEW i \in 1 .. erased + consumed, taken'[i].pos = 1, taken'[i].frame # 0
               PROVE  i + PosLen - 1 <= Len(taken')
    BY <1>2 DEF Settled
  <2>1. taken'[i] = taken[i]
    BY <1>3, <1>4
  <2>2. i + PosLen - 1 <= Len(taken)
    BY <2>1 DEF HandledInv, Settled
  <2> QED BY <1>3, <2>2, FrameLengths
<1> QED BY <1>6, <1>7 DEF HandledInv

(* One frame handled: it is the next whole one.                            *)
LEMMA HandledOfFrame ==
  TypeInv /\ ChainInv /\ StreamInv /\ HandledInv /\ HandleNavPosllh => HandledInv'
<1> SUFFICES ASSUME TypeInv, ChainInv, StreamInv, HandledInv, HandleNavPosllh PROVE HandledInv'
  OBVIOUS
<1> DEFINE last == erased + consumed
<1>1. /\ pc = "parse" /\ consumed < Len(m_inData) /\ IntactAt(m_inData, consumed + 1)
      /\ handled' = Append(handled, last + 1) /\ consumed' = consumed + PosLen
      /\ UNCHANGED <<erased, taken>>
  BY DEF HandleNavPosllh, Unparsed, readVars
<1>2. /\ last \in Nat /\ PosLen \in Nat \ {0} /\ erased' + consumed' = last + PosLen
      /\ consumed + 1 \in 1 .. Len(m_inData) /\ erased + (consumed + 1) = last + 1
  BY <1>1, StreamNumbers, FrameLengths, SMTT(30)
<1>3. IntactAt(taken, last + 1)
  <2>1. IntactAt(taken, erased + (consumed + 1))
    BY <1>1, <1>2, ParserSeesAll
  <2> QED BY <1>2, <2>1
<1>4. \A i \in last + 2 .. last + PosLen : taken[i].pos # 1 /\ ~IntactAt(taken, i)
  <2> TAKE i \in last + 2 .. last + PosLen
  <2>1. i - (last + 1) \in 1 .. PosLen - 1 /\ (last + 1) + (i - (last + 1)) = i
        /\ last + 1 \in Nat \ {0}
    BY <1>2
  <2>2. taken[(last + 1) + (i - (last + 1))].pos # 1 /\ ~IntactAt(taken, (last + 1) + (i - (last + 1)))
    BY <1>3, <2>1, FrameInside
  <2> QED BY <2>1, <2>2
<1>5. handled \in Seq(Nat) /\ Len(handled) \in Nat /\ DOMAIN handled = 1 .. Len(handled)
  BY LenProperties DEF TypeInv, TypeOK
<1>6. /\ DOMAIN handled' = 1 .. Len(handled) + 1 /\ handled'[Len(handled) + 1] = last + 1
      /\ \A n \in 1 .. Len(handled) : handled'[n] = handled[n]
  BY <1>1, <1>2, <1>5, AppendProperties
<1> HIDE DEF last
<1>7. \A n \in 1 .. Len(handled) : handled[n] \in 1 .. last /\ IntactAt(taken, handled[n])
  BY <1>5 DEF HandledInv, HandledExactly, last
<1>8. \A i, j \in DOMAIN handled' : i < j => handled'[i] < handled'[j]
  <2> TAKE i, j \in DOMAIN handled'
  <2> HAVE i < j
  <2>1. i \in 1 .. Len(handled) /\ (j \in 1 .. Len(handled) \/ j = Len(handled) + 1)
    BY <1>5, <1>6
  <2>2. CASE j \in 1 .. Len(handled)
    BY <1>5, <1>6, <2>1, <2>2 DEF HandledInv, HandledExactly
  <2>3. CASE j = Len(handled) + 1
    <3>1. handled'[i] \in 1 .. last /\ handled'[j] = last + 1
      BY <1>6, <1>7, <2>1, <2>3
    <3> QED BY <1>2, <3>1
  <2> QED BY <2>1, <2>2, <2>3
<1>9. {handled'[n] : n \in DOMAIN handled'} = {i \in 1 .. last + PosLen : IntactAt(taken, i)}
  <2>1. ASSUME NEW n \in DOMAIN handled'
        PROVE  handled'[n] \in 1 .. last + PosLen /\ IntactAt(taken, handled'[n])
    <3>1. CASE n \in 1 .. Len(handled)
      BY <1>2, <1>6, <1>7, <3>1
    <3>2. CASE n = Len(handled) + 1
      BY <1>2, <1>3, <1>6, <3>2
    <3> QED BY <1>5, <1>6, <3>1, <3>2
  <2>2. ASSUME NEW i \in 1 .. last + PosLen, IntactAt(taken, i)
        PROVE  \E n \in DOMAIN handled' : handled'[n] = i
    <3>1. i \in 1 .. last \/ i = last + 1 \/ i \in last + 2 .. last + PosLen
      BY <1>2
    <3>2. CASE i \in 1 .. last
      <4>1. PICK n \in DOMAIN handled : handled[n] = i
        BY <2>2, <3>2 DEF HandledInv, HandledExactly, last
      <4> QED BY <1>5, <1>6, <4>1
    <3>3. CASE i = last + 1
      BY <1>5, <1>6, <3>3
    <3> QED BY <1>4, <2>2, <3>1, <3>2, <3>3
  <2> QED BY <2>1, <2>2
<1>10. Settled'
  <2> SUFFICES ASSUME NEW i \in 1 .. last + PosLen, taken[i].pos = 1, taken[i].frame # 0
               PROVE  i + PosLen - 1 <= Len(taken)
    BY <1>1, <1>2 DEF Settled
  <2>1. i \in 1 .. last \/ i = last + 1 \/ i \in last + 2 .. last + PosLen
    BY <1>2
  <2>2. CASE i \in 1 .. last
    BY <2>2 DEF HandledInv, Settled, last
  <2>3. CASE i = last + 1
    BY <1>3, <2>3 DEF IntactAt
  <2> QED BY <1>4, <2>1, <2>2, <2>3
<1> QED BY <1>1, <1>2, <1>8, <1>9, <1>10 DEF HandledInv, HandledExactly

(* One byte skipped: no whole frame starts there, and none ever will.      *)
LEMMA HandledOfSkip ==
  TypeInv /\ ChainInv /\ StreamInv /\ HandledInv /\ SkipByte => HandledInv'
<1> SUFFICES ASSUME TypeInv, ChainInv, StreamInv, HandledInv, SkipByte PROVE HandledInv'
  OBVIOUS
<1> DEFINE last == erased + consumed
<1>1. /\ pc = "parse" /\ consumed < Len(m_inData) /\ ~IntactAt(m_inData, consumed + 1)
      /\ ~NotEnoughData(m_inData, consumed + 1) /\ consumed' = consumed + 1
      /\ UNCHANGED <<handled, erased, taken>>
  BY DEF SkipByte, Unparsed, readVars
<1>2. /\ last \in Nat /\ erased' + consumed' = last + 1
      /\ consumed + 1 \in 1 .. Len(m_inData) /\ erased + (consumed + 1) = last + 1
  BY <1>1, StreamNumbers
<1>3. ~IntactAt(taken, last + 1)
  <2>1. ~IntactAt(taken, erased + (consumed + 1))
    BY <1>1, <1>2, ParserSeesAll
  <2> QED BY <1>2, <2>1
<1>4. taken[last + 1].pos = 1 /\ taken[last + 1].frame # 0 => last + 1 + PosLen - 1 <= Len(taken)
  <2>1. m_inData[consumed + 1] = taken[last + 1]
    <3>1. m_inData[consumed + 1] = taken[erased + (consumed + 1)]
      BY <1>2 DEF StreamInv, Kept1to1
    <3> QED BY <1>2, <3>1
  <2>2. Len(taken) = erased + Len(m_inData)
    BY <1>1, ParserSeesAll
  <2>3. taken[last + 1].pos = 1 /\ taken[last + 1].frame # 0 =>
          ~(consumed + 1 + PosLen - 1 > Len(m_inData))
    BY <1>1, <2>1 DEF NotEnoughData, IsHeader, Claimed
  <2> QED BY <2>2, <2>3, StreamNumbers, FrameLengths
<1>5. \A i \in 1 .. last + 1 : i \in 1 .. last \/ i = last + 1
  BY <1>2
<1>6. 1 .. last \subseteq 1 .. last + 1
  BY <1>2
<1> HIDE DEF last
<1>7. HandledExactly'
  <2>1. {i \in 1 .. last + 1 : IntactAt(taken, i)} = {i \in 1 .. last : IntactAt(taken, i)}
    BY <1>3, <1>5, <1>6
  <2> QED BY <1>1, <1>2, <2>1 DEF HandledInv, HandledExactly, last
<1>8. Settled'
  <2> SUFFICES ASSUME NEW i \in 1 .. last + 1, taken[i].pos = 1, taken[i].frame # 0
               PROVE  i + PosLen - 1 <= Len(taken)
    BY <1>1, <1>2 DEF Settled
  <2>1. CASE i \in 1 .. last
    BY <2>1 DEF HandledInv, Settled, last
  <2> QED BY <1>4, <1>5, <2>1
<1> QED BY <1>7, <1>8 DEF HandledInv

LEMMA HandledStep ==
  TypeInv /\ ChainInv /\ StreamInv /\ HandledInv /\ [Next]_vars => HandledInv'
<1> SUFFICES ASSUME TypeInv, ChainInv, StreamInv, HandledInv, [Next]_vars PROVE HandledInv'
  OBVIOUS
<1>1. ASSUME UNCHANGED <<handled, taken>>, erased' + consumed' = erased + consumed
      PROVE  HandledInv'
  BY <1>1 DEF HandledInv, HandledExactly, Settled
<1>2. CASE HandleRead
  <2>1. /\ pc = "run" /\ consumed' = 0 /\ UNCHANGED <<handled, taken, erased>>
    BY <1>2 DEF HandleRead, Dispatch, readVars
  <2>2. consumed = 0
    BY <2>1 DEF StreamInv, ParserInside
  <2> QED BY <1>1, <2>1, <2>2
<1>3. CASE EraseConsumed
  <2>1. /\ erased' = erased + consumed /\ consumed' = 0 /\ UNCHANGED <<handled, taken>>
    BY <1>3 DEF EraseConsumed, readVars
  <2> QED BY <1>1, <2>1, StreamNumbers
<1>4. CASE ~(HandleRead \/ ReadCompletes \/ Parse)
  BY <1>1, <1>4, OnlyReadsMoveBytes
<1> QED
  BY <1>2, <1>3, <1>4, HandledOfReadCompletes, HandledOfFrame, HandledOfSkip DEF Parse

LEMMA HandledCorrect == Spec => [](TypeInv /\ ChainInv /\ StreamInv /\ HandledInv)
<1>1. Init => HandledInv
  BY HandledInit
<1>2. QED
  BY <1>1, HandledStep, StreamCorrect, PTL DEF Spec

(* However the reads cut the stream, the frames handled are the whole ones *)
(* of what was parsed, each once and in order, and nothing else.           *)
THEOREM HandledExactlyCorrect == Spec => []HandledExactly
<1>1. HandledInv => HandledExactly
  BY DEF HandledInv
<1>2. QED
  BY <1>1, HandledCorrect, PTL
-----------------------------------------------------------------------------
(* A read that completes is bytes received by the feed.                    *)
LEMMA FeedReceives ==
  ASSUME TypeInv, ReadCompletes
  PROVE  Feed!Receive
<1>1. PICK n \in 1 .. Len(rx) : taken' = taken \o SubSeq(rx, 1, n)
  BY DEF ReadCompletes
<1>2. /\ taken \in Seq(Byte) /\ SubSeq(rx, 1, n) \in Seq(Byte) /\ Len(SubSeq(rx, 1, n)) = n
      /\ n \in Nat \ {0}
  <2>1. n \in 0 .. Len(rx) /\ n \in Nat \ {0} /\ rx \in Seq(Byte) /\ taken \in Seq(Byte)
    BY LenProperties DEF TypeInv, TypeOK
  <2> QED BY <2>1, Cuts
<1> DEFINE more == SubSeq(rx, 1, n)  later == taken'
<1>3. more \in Seq(Byte) /\ Len(more) = n /\ later = taken \o more
  BY <1>1, <1>2
<1> HIDE DEF more, later
<1>4. /\ later \in Seq(Byte) /\ Len(later) = Len(taken) + n
      /\ \A k \in 1 .. Len(taken) + n :
           later[k] = IF k <= Len(taken) THEN taken[k] ELSE more[k - Len(taken)]
  BY <1>2, <1>3, ConcatProperties
<1>5. /\ Len(taken) \in 0 .. Len(later) /\ Len(later) > Len(taken)
      /\ \A k \in 1 .. Len(taken) : later[k] = taken[k]
  BY <1>2, <1>4, LenProperties
<1>6. SubSeq(later, 1, Len(taken)) = taken
  <2>1. /\ SubSeq(later, 1, Len(taken)) \in Seq(Byte)
        /\ Len(SubSeq(later, 1, Len(taken))) = Len(taken)
    BY <1>4, <1>5, Cuts
  <2>2. \A k \in 1 .. Len(taken) : SubSeq(later, 1, Len(taken))[k] = taken[k]
    <3>1. \A k \in 1 .. Len(taken) : later[k] \in Byte
      BY <1>5, StreamNumbers
    <3>2. Len(taken) \in Int /\ Len(taken) - 1 + 1 = Len(taken)
          /\ \A k \in 1 .. Len(taken) : 1 + k - 1 = k
      BY StreamNumbers
    <3>3. \A k \in 1 .. Len(taken) - 1 + 1 : SubSeq(later, 1, Len(taken))[k] = later[1 + k - 1]
      BY <3>1, <3>2, SubSeqProperties
    <3> QED BY <1>5, <3>2, <3>3
  <2> QED BY <1>2, <2>1, <2>2, SeqEqual
<1>7. UNCHANGED handled
  BY DEF ReadCompletes, parseVars
<1> QED BY <1>5, <1>6, <1>7 DEF later, Feed!Receive

(* A frame handled is the feed's next delivery: no whole frame that was    *)
(* received lies between it and the one before.                            *)
LEMMA FeedDelivers ==
  ASSUME TypeInv, ChainInv, StreamInv, HandledInv, HandleNavPosllh
  PROVE  Feed!Deliver
<1> DEFINE last == erased + consumed
<1>1. /\ pc = "parse" /\ consumed < Len(m_inData) /\ IntactAt(m_inData, consumed + 1)
      /\ handled' = Append(handled, last + 1) /\ UNCHANGED taken
  BY DEF HandleNavPosllh, Unparsed, readVars
<1>2. /\ last \in Nat /\ consumed + 1 \in 1 .. Len(m_inData)
      /\ erased + (consumed + 1) = last + 1
  BY <1>1, StreamNumbers
<1>3. IntactAt(taken, last + 1) /\ last + 1 <= Len(taken)
  <2>1. /\ Len(taken) = erased + Len(m_inData)
        /\ IntactAt(taken, erased + (consumed + 1))
    BY <1>1, <1>2, ParserSeesAll
  <2> QED BY <1>1, <1>2, <2>1, StreamNumbers
<1> HIDE DEF last
<1>4. handled \in Seq(Nat) /\ Len(handled) \in Nat /\ DOMAIN handled = 1 .. Len(handled)
  BY LenProperties DEF TypeInv, TypeOK
<1>5. \A n \in 1 .. Len(handled) : handled[n] \in 1 .. last
  BY <1>4 DEF HandledInv, HandledExactly, last
<1>6. Feed!LastHandled \in 0 .. last
  <2>1. handled # <<>> => Len(handled) \in 1 .. Len(handled)
    BY <1>4, EmptySeq
  <2> QED BY <1>2, <1>5, <2>1 DEF Feed!LastHandled
<1>7. \A n \in 1 .. Len(handled) : handled[n] <= Feed!LastHandled
  <2> TAKE n \in 1 .. Len(handled)
  <2>1. Len(handled) \in 1 .. Len(handled) /\ handled # <<>>
    BY <1>4, EmptySeq
  <2>2. n < Len(handled) => handled[n] < handled[Len(handled)]
    BY <1>4, <2>1 DEF HandledInv, HandledExactly
  <2>3. handled[n] \in Nat /\ handled[Len(handled)] \in Nat
    BY <1>4, <2>1, ElementOfSeq
  <2> QED BY <1>4, <2>1, <2>2, <2>3 DEF Feed!LastHandled
<1>8. ASSUME NEW j \in Feed!LastHandled + 1 .. last, IntactAt(taken, j) PROVE FALSE
  <2>1. j \in 1 .. last
    BY <1>2, <1>6
  <2>2. PICK n \in DOMAIN handled : handled[n] = j
    BY <1>8, <2>1 DEF HandledInv, HandledExactly, last
  <2> QED BY <1>2, <1>4, <1>6, <1>7, <2>2
<1>9. \A j \in Feed!LastHandled + 1 .. (last + 1) - 1 : ~IntactAt(taken, j)
  BY <1>2, <1>8
<1>10. last + 1 \in Feed!LastHandled + 1 .. Len(taken)
  BY <1>2, <1>3, <1>6, StreamNumbers
<1> QED BY <1>1, <1>3, <1>9, <1>10 DEF Feed!Deliver, Feed!IntactAt, IntactAt

LEMMA FeedStep ==
  TypeInv /\ ChainInv /\ StreamInv /\ HandledInv /\ [Next]_vars => [Feed!Next]_Feed!feedVars
<1> SUFFICES ASSUME TypeInv, ChainInv, StreamInv, HandledInv, [Next]_vars
             PROVE  Feed!Next \/ UNCHANGED <<taken, handled>>
  BY DEF Feed!feedVars
<1>1. CASE ReadCompletes
  BY <1>1, FeedReceives DEF Feed!Next
<1>2. CASE HandleNavPosllh
  BY <1>2, FeedDelivers DEF Feed!Next
<1>3. CASE HandleRead \/ SkipByte \/ EraseConsumed
  BY <1>3 DEF HandleRead, SkipByte, EraseConsumed, readVars
<1>4. CASE ~(HandleRead \/ ReadCompletes \/ Parse)
  BY <1>4, OnlyReadsMoveBytes
<1> QED BY <1>1, <1>2, <1>3, <1>4 DEF Parse

(* The session implements the position feed: each of its steps receives    *)
(* bytes, delivers the next whole frame, or does neither.                  *)
THEOREM FeedImplemented == Spec => ImplementsFeed
<1>1. Init => Feed!Init
  BY DEF Init, Feed!Init
<1>2. Spec => Feed!Spec
  BY <1>1, FeedStep, HandledCorrect, PTL DEF Spec, Feed!Spec
<1>3. QED
  BY <1>2 DEF ImplementsFeed

-----------------------------------------------------------------------------
(* What a session writes to the port is whole frames: writes that take a   *)
(* part at a time lose and repeat nothing, and each failed write cuts at   *)
(* most one frame short.                                                   *)

(* The byte that goes before this one in its frame.                        *)
OneBefore(b) == [b EXCEPT !.pos = @ - 1]

LEMMA OneBeforeIs ==
  ASSUME NEW msg, NEW i \in Nat
  PROVE  OneBefore([msg |-> msg, pos |-> i]) = [msg |-> msg, pos |-> i - 1]
  BY DEF OneBefore

(* The two halves of WireFramed, of any output.                            *)
Contiguous(out) ==
  \A j \in DOMAIN out :
    \/ out[j].pos = 1
    \/ j > 1 /\ out[j - 1] = OneBefore(out[j])

CutShort(out) ==
  {j \in DOMAIN out : out[j].pos < OutLen /\ (j = Len(out) \/ out[j + 1].pos = 1)}

Output == wire \o buf

WireInv ==
  /\ pc # "write" => buf = <<>>
  /\ Contiguous(Output)
  /\ Cardinality(CutShort(Output)) <= writeFaults

LEMMA CutsAreFinite ==
  ASSUME NEW out \in Seq(OutByte)
  PROVE  IsFiniteSet(CutShort(out)) /\ Cardinality(CutShort(out)) \in Nat
<1>1. IsFiniteSet(1 .. Len(out))
  BY LenProperties, FS_Interval
<1>2. CutShort(out) \in SUBSET (1 .. Len(out))
  BY LenProperties DEF CutShort
<1>3. IsFiniteSet(CutShort(out))
  BY <1>1, <1>2, FS_Subset
<1> QED BY <1>3, FS_CardinalityType

(* A frame behind the output so far: a frame that was cut before is still  *)
(* cut, and the new one is not.                                            *)
LEMMA FrameAppended ==
  ASSUME NEW out \in Seq(OutByte), Contiguous(out), NEW msg \in {"CfgPrtUsb", "NavPosllhPoll"}
  PROVE  Contiguous(out \o Frame(msg)) /\ CutShort(out \o Frame(msg)) = CutShort(out)
<1> DEFINE f == Frame(msg)  new == out \o f
<1>1. /\ f \in Seq(OutByte) /\ Len(f) = OutLen
      /\ \A i \in 1 .. OutLen : f[i] = [msg |-> msg, pos |-> i]
  BY FrameIsBytes DEF Frame
<1>2. DOMAIN out = 1 .. Len(out)
  BY LenProperties
<1>3. Len(out) \in Nat /\ OutLen \in Nat \ {0}
  BY LenProperties, SessionConstants
<1> HIDE DEF f
<1>4. /\ new \in Seq(OutByte) /\ Len(new) = Len(out) + OutLen
      /\ \A k \in 1 .. Len(out) + OutLen :
           new[k] = IF k <= Len(out) THEN out[k] ELSE f[k - Len(out)]
  BY <1>1, ConcatProperties
<1>5. DOMAIN new = 1 .. Len(out) + OutLen
  BY <1>4, LenProperties
<1> HIDE DEF new
<1>6. \A k \in 1 .. Len(out) : k \in 1 .. Len(out) + OutLen /\ new[k] = out[k]
  BY <1>3, <1>4
<1>7. \A i \in 1 .. OutLen : Len(out) + i \in 1 .. Len(out) + OutLen
                             /\ new[Len(out) + i] = [msg |-> msg, pos |-> i]
                             /\ new[Len(out) + i].pos = i
  <2> TAKE i \in 1 .. OutLen
  <2>1. /\ Len(out) + i \in 1 .. Len(out) + OutLen /\ ~(Len(out) + i <= Len(out))
        /\ (Len(out) + i) - Len(out) = i
    BY <1>3
  <2>2. new[Len(out) + i] = f[i] /\ f[i] = [msg |-> msg, pos |-> i]
    BY <1>1, <1>4, <2>1
  <2>3. [msg |-> msg, pos |-> i].pos = i
    OBVIOUS
  <2> QED BY <2>1, <2>2, <2>3
<1>8. \A k \in 1 .. Len(out) + OutLen :
        k \in 1 .. Len(out) \/ \E i \in 1 .. OutLen : k = Len(out) + i
  <2> TAKE k \in 1 .. Len(out) + OutLen
  <2>1. CASE k > Len(out)
    <3>1. k - Len(out) \in 1 .. OutLen /\ k = Len(out) + (k - Len(out))
      BY <1>3, <2>1
    <3> QED BY <3>1
  <2> QED BY <1>3, <2>1
<1>9. Contiguous(new)
  <2> SUFFICES ASSUME NEW k \in 1 .. Len(out) + OutLen, new[k].pos # 1
               PROVE  k > 1 /\ new[k - 1] = OneBefore(new[k])
    BY <1>5 DEF Contiguous
  <2>1. CASE k \in 1 .. Len(out)
    <3>1. out[k].pos # 1
      BY <1>6, <2>1
    <3>2. k > 1 /\ out[k - 1] = OneBefore(out[k])
      BY <1>2, <2>1, <3>1 DEF Contiguous
    <3>3. k - 1 \in 1 .. Len(out)
      BY <1>3, <2>1, <3>2
    <3> QED BY <1>6, <2>1, <3>2, <3>3
  <2>2. ASSUME NEW i \in 1 .. OutLen, k = Len(out) + i
        PROVE  k > 1 /\ new[k - 1] = OneBefore(new[k])
    <3>1. new[k] = [msg |-> msg, pos |-> i] /\ i # 1
      BY <1>7, <2>2
    <3>2. i - 1 \in 1 .. OutLen /\ k - 1 = Len(out) + (i - 1) /\ k > 1
      BY <1>3, <2>2, <3>1
    <3>3. new[k - 1] = [msg |-> msg, pos |-> i - 1]
      BY <1>7, <3>2
    <3>4. OneBefore(new[k]) = [msg |-> msg, pos |-> i - 1]
      BY <3>1, OneBeforeIs
    <3> QED BY <3>2, <3>3, <3>4
  <2> QED BY <1>8, <2>1, <2>2
<1>10. CutShort(new) = CutShort(out)
  <2>1. /\ CutShort(new) \subseteq 1 .. Len(out) + OutLen
        /\ \A j \in 1 .. Len(out) + OutLen :
             j \in CutShort(new) <=>
               new[j].pos < OutLen /\ (j = Len(out) + OutLen \/ new[j + 1].pos = 1)
    BY <1>4, <1>5 DEF CutShort
  <2>2. /\ CutShort(out) \subseteq 1 .. Len(out)
        /\ \A j \in 1 .. Len(out) :
             j \in CutShort(out) <=> out[j].pos < OutLen /\ (j = Len(out) \/ out[j + 1].pos = 1)
    BY <1>2 DEF CutShort
  <2>3. ASSUME NEW j \in 1 .. Len(out) PROVE j \in CutShort(new) <=> j \in CutShort(out)
    <3>1. j \in 1 .. Len(out) + OutLen /\ new[j] = out[j] /\ j # Len(out) + OutLen
      BY <1>3, <1>6
    <3>2. CASE j = Len(out)
      <4>1. 1 \in 1 .. OutLen
        BY <1>3
      <4>2. new[j + 1].pos = 1
        BY <1>7, <3>2, <4>1
      <4> QED BY <2>1, <2>2, <3>1, <3>2, <4>2
    <3>3. CASE j # Len(out)
      <4>1. j + 1 \in 1 .. Len(out)
        BY <1>3, <3>3
      <4>2. new[j + 1] = out[j + 1]
        BY <1>6, <4>1
      <4> QED BY <2>1, <2>2, <3>1, <3>3, <4>2
    <3> QED BY <3>2, <3>3
  <2>4. ASSUME NEW i \in 1 .. OutLen PROVE Len(out) + i \notin CutShort(new)
    <3>1. Len(out) + i \in 1 .. Len(out) + OutLen /\ new[Len(out) + i].pos = i
      BY <1>7
    <3>2. CASE i = OutLen
      <4>1. ~(new[Len(out) + i].pos < OutLen)
        BY <1>3, <3>1, <3>2
      <4> QED BY <2>1, <3>1, <4>1
    <3>3. CASE i # OutLen
      <4>1. /\ i + 1 \in 1 .. OutLen /\ (Len(out) + i) + 1 = Len(out) + (i + 1) /\ i + 1 # 1
            /\ Len(out) + i # Len(out) + OutLen
        BY <1>3, <3>3
      <4>2. new[(Len(out) + i) + 1].pos = i + 1
        BY <1>7, <4>1
      <4> QED BY <2>1, <3>1, <4>1, <4>2
    <3> QED BY <3>2, <3>3
  <2>5. ASSUME NEW j, j \in CutShort(new) PROVE j \in CutShort(out)
    BY <1>8, <2>1, <2>3, <2>4, <2>5
  <2>6. ASSUME NEW j, j \in CutShort(out) PROVE j \in CutShort(new)
    BY <2>2, <2>3, <2>6
  <2> QED BY <2>5, <2>6
<1> QED BY <1>9, <1>10 DEF new, f

(* An output that stops early has one more cut frame at the most: its last. *)
LEMMA OutputTruncated ==
  ASSUME NEW out \in Seq(OutByte), Contiguous(out), NEW part \in Seq(OutByte),
         Len(part) <= Len(out), \A k \in 1 .. Len(part) : part[k] = out[k]
  PROVE  /\ Contiguous(part)
         /\ Cardinality(CutShort(part)) <= Cardinality(CutShort(out)) + 1
<1>1. /\ Len(out) \in Nat /\ DOMAIN out = 1 .. Len(out)
      /\ Len(part) \in Nat /\ DOMAIN part = 1 .. Len(part)
  BY LenProperties
<1>2. Contiguous(part)
  <2> SUFFICES ASSUME NEW k \in 1 .. Len(part), part[k].pos # 1
               PROVE  k > 1 /\ part[k - 1] = OneBefore(part[k])
    BY <1>1 DEF Contiguous
  <2>1. k \in 1 .. Len(out) /\ part[k] = out[k]
    BY <1>1
  <2>2. k > 1 /\ out[k - 1] = OneBefore(out[k])
    BY <1>1, <2>1 DEF Contiguous
  <2>3. k - 1 \in 1 .. Len(part)
    BY <1>1, <2>2
  <2> QED BY <2>1, <2>2, <2>3
<1>3. CutShort(part) \subseteq CutShort(out) \cup {Len(part)}
  <2>1. /\ CutShort(part) \subseteq 1 .. Len(part)
        /\ \A j \in 1 .. Len(part) :
             j \in CutShort(part) => part[j].pos < OutLen /\ (j = Len(part) \/ part[j + 1].pos = 1)
    BY <1>1 DEF CutShort
  <2>2. \A j \in 1 .. Len(out) :
          out[j].pos < OutLen /\ out[j + 1].pos = 1 => j \in CutShort(out)
    BY <1>1 DEF CutShort
  <2>3. ASSUME NEW j \in 1 .. Len(part), j # Len(part), j \in CutShort(part)
        PROVE  j \in CutShort(out)
    <3>1. j + 1 \in 1 .. Len(part) /\ j \in 1 .. Len(out)
      BY <1>1, <2>3
    <3>2. part[j] = out[j] /\ part[j + 1] = out[j + 1]
      BY <3>1
    <3> QED BY <2>1, <2>2, <2>3, <3>1, <3>2
  <2> QED BY <2>1, <2>3
<1>4. /\ IsFiniteSet(CutShort(out) \cup {Len(part)})
      /\ Cardinality(CutShort(out) \cup {Len(part)}) <= Cardinality(CutShort(out)) + 1
  <2>1. IsFiniteSet(CutShort(out)) /\ Cardinality(CutShort(out)) \in Nat
    BY CutsAreFinite
  <2>2. \A x : /\ IsFiniteSet(CutShort(out) \cup {x})
               /\ Cardinality(CutShort(out) \cup {x}) =
                    IF x \in CutShort(out) THEN Cardinality(CutShort(out))
                                           ELSE Cardinality(CutShort(out)) + 1
    BY <2>1, FS_AddElement
  <2>3. \/ Cardinality(CutShort(out) \cup {Len(part)}) = Cardinality(CutShort(out))
        \/ Cardinality(CutShort(out) \cup {Len(part)}) = Cardinality(CutShort(out)) + 1
    BY <2>2
  <2>4. Cardinality(CutShort(out) \cup {Len(part)}) <= Cardinality(CutShort(out)) + 1
    BY <2>1, <2>3
  <2> QED BY <2>2, <2>4
<1>5. Cardinality(CutShort(part)) <= Cardinality(CutShort(out) \cup {Len(part)})
  BY <1>3, <1>4, FS_Subset
<1>6. Cardinality(CutShort(out) \cup {Len(part)}) \in Nat
  BY <1>4, FS_CardinalityType
<1> QED BY <1>2, <1>4, <1>5, <1>6, CutsAreFinite
-----------------------------------------------------------------------------
LEMMA WireInit == Init => WireInv
<1> SUFFICES ASSUME Init PROVE WireInv
  OBVIOUS
<1>1. buf = <<>> /\ wire \o buf = <<>> /\ writeFaults = 0
  BY DEF Init
<1>2. DOMAIN Output = {}
  BY <1>1 DEF Output
<1>3. CutShort(Output) = {} /\ Contiguous(Output)
  BY <1>2 DEF CutShort, Contiguous
<1> QED BY <1>1, <1>3, FS_EmptySet DEF WireInv

(* A message to send is a new frame behind the output: nothing of the one  *)
(* before is still waiting.                                                *)
LEMMA WireOfSend ==
  ASSUME TypeInv, WireInv, pc # "write", NEW msg \in {"CfgPrtUsb", "NavPosllhPoll"},
         buf' = Frame(msg), pc' = "write", UNCHANGED <<wire, writeFaults>>
  PROVE  WireInv'
<1>1. wire \in Seq(OutByte) /\ buf = <<>> /\ Output = wire
  BY ConcatEmptySeq DEF TypeInv, TypeOK, WireInv, Output
<1>2. Output' = wire \o Frame(msg)
  BY DEF Output
<1>3. /\ Contiguous(wire \o Frame(msg))
      /\ CutShort(wire \o Frame(msg)) = CutShort(wire)
  BY <1>1, FrameAppended DEF WireInv
<1> QED BY <1>1, <1>2, <1>3 DEF WireInv

(* A partial write moves bytes from buf to the wire: the output stays.     *)
LEMMA WireOfWriteSome == TypeInv /\ WireInv /\ WriteSome => WireInv'
<1> SUFFICES ASSUME TypeInv, WireInv, WriteSome PROVE WireInv'
  OBVIOUS
<1>1. PICK count \in 1 .. Len(buf) :
        wire' = wire \o SubSeq(buf, 1, count) /\ buf' = SubSeq(buf, count + 1, Len(buf))
  BY DEF WriteSome, Unsent
<1>2. /\ wire \in Seq(OutByte) /\ buf \in Seq(OutByte) /\ count \in 0 .. Len(buf)
      /\ resume \in {"poll", "arm"}
  BY LenProperties DEF TypeInv, TypeOK
<1> DEFINE sent == SubSeq(buf, 1, count)  unsent == SubSeq(buf, count + 1, Len(buf))
<1>3. sent \in Seq(OutByte) /\ unsent \in Seq(OutByte) /\ sent \o unsent = buf
  BY <1>2, TwoParts
<1>4. Output' = (wire \o sent) \o unsent
  BY <1>1 DEF Output
<1> HIDE DEF sent, unsent
<1>5. (wire \o sent) \o unsent = wire \o (sent \o unsent)
  <2>1. wire \in Seq(OutByte) /\ sent \in Seq(OutByte) /\ unsent \in Seq(OutByte)
    BY <1>2, <1>3
  <2> QED BY <2>1, ConcatAssociative, SMTT(30)
<1>6. Output' = Output
  BY <1>3, <1>4, <1>5 DEF Output
<1>7. (pc' # "write" => buf' = <<>>) /\ writeFaults' = writeFaults
  BY <1>2 DEF WriteSome
<1> QED BY <1>6, <1>7 DEF WireInv

(* A failed write drops what it had not written.                           *)
LEMMA WireOfWriteFails == TypeInv /\ WireInv /\ WriteFails => WireInv'
<1> SUFFICES ASSUME TypeInv, WireInv, WriteFails PROVE WireInv'
  OBVIOUS
<1>1. wire \in Seq(OutByte) /\ buf \in Seq(OutByte) /\ writeFaults \in Nat
  BY DEF TypeInv, TypeOK
<1>2. wire' = wire /\ buf' = <<>> /\ writeFaults' = writeFaults + 1
  BY DEF WriteFails
<1>3. Output' = wire
  BY <1>1, <1>2, ConcatEmptySeq DEF Output
<1>4. /\ Output \in Seq(OutByte) /\ Len(wire) <= Len(Output)
      /\ \A k \in 1 .. Len(wire) : wire[k] = Output[k]
  <2>1. Len(wire) \in Nat /\ Len(buf) \in Nat
    BY <1>1, LenProperties
  <2>2. /\ Output \in Seq(OutByte) /\ Len(Output) = Len(wire) + Len(buf)
        /\ \A k \in 1 .. Len(wire) + Len(buf) :
             Output[k] = IF k <= Len(wire) THEN wire[k] ELSE buf[k - Len(wire)]
    BY <1>1, ConcatProperties DEF Output
  <2> QED BY <2>1, <2>2
<1>5. /\ Contiguous(wire)
      /\ Cardinality(CutShort(wire)) <= Cardinality(CutShort(Output)) + 1
  BY <1>1, <1>4, OutputTruncated DEF WireInv
<1>6. Cardinality(CutShort(wire)) \in Nat /\ Cardinality(CutShort(Output)) \in Nat
  BY <1>1, <1>4, CutsAreFinite
<1>7. Cardinality(CutShort(wire)) <= writeFaults + 1
  BY <1>1, <1>5, <1>6 DEF WireInv
<1> QED BY <1>2, <1>3, <1>5, <1>7 DEF WireInv

(* No other action touches the output.                                     *)
LEMMA OnlySendsWrite ==
  ASSUME TypeInv, [Next]_vars, ~(StartConfigures \/ SendPosPoll \/ WriteSome \/ WriteFails)
  PROVE  UNCHANGED <<wire, buf, writeFaults>> /\ (pc' # "write" => pc # "write")
<1> USE DEF lifeVars, threadVars, sendVars, parseVars, loopVars, readVars, timerVars
<1>1. CASE StartFails \/ StartThrows
  BY <1>1 DEF StartFails, StartThrows, CallStart
<1>2. CASE ArmTimer \/ PerformRead
  BY <1>2 DEF ArmTimer, PerformRead
<1>3. CASE Handler \/ HandleDangling
  BY <1>3 DEF Handler, HandleAborted, HandleReadError, HandleRead, HandleTimer, HandleDangling,
              Dispatch
<1>4. CASE Parse
  BY <1>4 DEF Parse, HandleNavPosllh, SkipByte, EraseConsumed
<1>5. CASE DeviceSends \/ Asio
  BY <1>5 DEF DeviceSends, Asio, ReadCompletes, PortFails, TimerExpires
<1>6. CASE Owner
  BY <1>6 DEF Owner, Run, RunReturns, LoopStops, Restart, Destroy
<1>7. CASE UNCHANGED vars
  BY <1>7 DEF vars
<1> QED BY <1>1, <1>2, <1>3, <1>4, <1>5, <1>6, <1>7 DEF Next, Start, Send, Crashed

LEMMA WireStep == TypeInv /\ WireInv /\ [Next]_vars => WireInv'
<1> SUFFICES ASSUME TypeInv, WireInv, [Next]_vars PROVE WireInv'
  OBVIOUS
<1>1. CASE StartConfigures
  BY <1>1, WireOfSend DEF StartConfigures, ConfigureUbxOutput, CallStart, SendMessage
<1>2. CASE SendPosPoll
  BY <1>2, WireOfSend DEF SendPosPoll, SendMessage
<1>3. CASE ~(StartConfigures \/ SendPosPoll \/ WriteSome \/ WriteFails)
  BY <1>3, OnlySendsWrite DEF WireInv, Output
<1> QED BY <1>1, <1>2, <1>3, WireOfWriteSome, WireOfWriteFails

(* What goes out is whole frames, but for one cut short by each failed     *)
(* write, however many pieces the writes take.                             *)
THEOREM WireFramedCorrect == Spec => []WireFramed
<1>1. WireInv => WireFramed
  BY DEF WireInv, WireFramed, Contiguous, OneBefore, CutShort, Output
<1>2. Init => WireInv
  BY WireInit
<1>3. QED
  BY <1>1, <1>2, WireStep, ChainCorrect, PTL DEF Spec
=============================================================================
