--------------------- MODULE RealTimeStreamWorker_proofs ----------------------
(* The worker of a RealTimeStream: its frame, its streams, how long a stop  *)
(* takes, what it tells and its position, for every number of attempts, 0   *)
(* included, all time stamps and every choice of the bounds.                *)
EXTENDS RealTimeStreamWorker, TLAPS

(* The frame lives from where it is read or reconnected to where it is      *)
(* last used; a frame pushed as it was read is pushed once.                 *)
Usable == frame = "live" \/ (frame = "none" /\ m_streamReconnectTimes = 0)
Frames ==
  /\ At("convert") => Usable
  /\ wpc \in {"push", "reconnectOut", "openAgain"} /\ ~info.convert => Usable
  /\ At("read") => frame = "none"
  /\ At("reconnectIn") /\ caller = "pull" /\ tries = 0 => frame = "none"
  /\ At("reconnectIn") /\ caller = "pull" /\ tries > 0 /\ rc = 0
     => frame = "live"
  /\ ~info.convert => left = 0 /\ ~At("convert")

(* The output is opened again only when an attempt is left.                 *)
Counted == At("openAgain") => tries < m_streamReconnectTimes

(* Between opening and closing there is an input, and an output but where   *)
(* it is being reconnected.                                                 *)
HasInput ==
  {"openOut", "codec", "begin", "loop", "read", "sleep", "reconnectIn",
   "convert", "push", "reconnectOut", "openAgain", "progress"}
HasOutput ==
  {"codec", "begin", "loop", "read", "sleep", "reconnectIn", "convert",
   "push", "progress"}
Streams ==
  /\ wpc \in HasInput => m_streamIn # "none"
  /\ wpc \in HasOutput => m_streamOut
  /\ wpc \in {"start", "openIn", "openOut"} => ~m_streamOut
  /\ At("done") =>
       (m_streamIn = "none" /\ ~m_streamOut) \/ lastError = "codec"

(* Nothing is opened where m_stop was seen FALSE on the way, and a round of *)
(* reconnections counts with tries.                                         *)
Bounded ==
  /\ StopBound
  /\ ~m_stop \/ wpc \in {"start", "openIn", "read", "openAgain"}
     => inputs = 0 /\ outputs = 0
  /\ At("openOut") => outputs = 0
  /\ At("reconnectIn") =>
       inputs <= tries /\ (caller = "pull" => outputs = 0)

(* The loop is left without an error only for a reason.                     *)
Excused ==
  /\ wpc \in {"end", "fini"} /\ lastError = "ok" => m_stop \/ isPlayOver
  /\ told # "nothing" => wpc \in {"fini", "done"}
  /\ ErrorTold

(* The position of an input counts from when it was opened, and a sleep     *)
(* that is not cut off ends when the position has been reached.             *)
Clock ==
  /\ began <= m_starttime
  /\ At("sleep") /\ ~odd => 0 <= pts_time /\ pts_time <= wake - m_starttime
  /\ ~At("sleep") /\ ~odd =>
       0 <= m_audioCurrent /\ m_audioCurrent <= now - m_starttime
  /\ wpc \in {"start", "openIn"} => playSeconds = 0
  /\ PacedByClock

IInv ==
  TypeOK /\ Counted /\ Frames /\ Streams /\ Bounded /\ Excused /\ Clock

-----------------------------------------------------------------------------
(* The lemmas about a step do not depend on why it is allowed: what a part  *)
(* of the invariant needs of the other parts is in its lemma's assumptions. *)
USE BoundsAssumption, InfosAssumption, WordsAssumption
DEF m_streamReconnectTimes

LEMMA InitIInv == Init => IInv
<1> SUFFICES ASSUME Init PROVE IInv
  OBVIOUS
<1> USE DEF Init, At
<1>1. TypeOK
  <2>1. {m_stop, m_enableReportStop, m_streamOut, odd, shownOdd}
        \subseteq BOOLEAN
    OBVIOUS
  <2> QED
    BY <2>1 DEF TypeOK, Labels, Codes
<1>2. Counted /\ Frames
  BY DEF Counted, Frames, Usable
<1>3. Streams
  BY DEF Streams, HasInput, HasOutput
<1>4. Bounded
  BY DEF Bounded, StopBound
<1>5. Excused
  BY DEF Excused, ErrorTold
<1>6. Clock
  BY DEF Clock, PacedByClock
<1> QED
  BY <1>1, <1>2, <1>3, <1>4, <1>5, <1>6 DEF IInv

(* A number below the modulus is its own remainder.                         *)
LEMMA SmallMod ==
  ASSUME NEW x \in Nat, NEW w \in Nat, x < w PROVE x % w = x
<1>1. w > 0 /\ x = 0 * w + x
  OBVIOUS
<1> QED
  BY <1>1

LEMMA ModType ==
  ASSUME NEW x \in Int, NEW w \in Nat, w > 0 PROVE x % w \in Int
OBVIOUS

(* What audiotime makes of a time stamp.                                    *)
LEMMA Reading ==
  ASSUME TypeOK, NEW dts \in Dts, audiotime(dts), odd' = Odd(dts)
  PROVE  /\ m_startPtsTime' \in Dts \cup {-1}
         /\ pts_time' \in Int /\ wake' \in Int /\ odd' \in BOOLEAN
         /\ ~odd' => 0 <= pts_time' /\ pts_time' <= wake' - m_starttime
<1> DEFINE position == dts - First(dts)
           rest == Rest(position)
<1>1. First(dts) \in Dts \cup {-1} /\ First(dts) \in Int /\ dts \in Int
  BY DEF First, TypeOK
<1>2. now \in Int /\ m_starttime \in Int
  BY DEF TypeOK
<1>3. position \in Int
  BY <1>1
<1>4. rest \in Int /\ rest = position - (now - m_starttime)
  BY <1>2, <1>3 DEF Rest
<1>5. /\ m_startPtsTime' = First(dts) /\ pts_time' = position
      /\ wake' = now + (IF rest > 0 THEN rest % SleepWord ELSE 0)
  BY DEF audiotime
<1>6. odd' = (position < 0 \/ rest >= SleepWord)
  BY DEF Odd
<1> HIDE DEF position, rest
<1>7. rest % SleepWord \in Int
  BY <1>4, ModType
<1>8. odd' \in BOOLEAN
  BY <1>6, Zenon
<1>9. ASSUME ~odd'
      PROVE  0 <= pts_time' /\ pts_time' <= wake' - m_starttime
  <2>1. ~(position < 0) /\ ~(rest >= SleepWord)
    BY <1>6, <1>9, Zenon
  <2>2. CASE rest > 0
    <3>1. rest \in Nat /\ rest < SleepWord
      BY <1>4, <2>1, <2>2
    <3>2. rest % SleepWord = rest
      BY <3>1, SmallMod
    <3>3. wake' = now + rest
      BY <1>5, <2>2, <3>2
    <3> QED
      BY ONLY <3>3, <1>5, <1>4, <1>3, <1>2, <2>1
  <2>3. CASE ~(rest > 0)
    <3>1. wake' = now
      BY <1>5, <1>2, <2>3
    <3> QED
      BY ONLY <3>1, <1>5, <1>4, <1>3, <1>2, <2>1, <2>3
  <2> QED
    BY <2>2, <2>3
<1>10. wake' \in Int
  BY <1>5, <1>7, <1>2
<1> QED
  BY <1>1, <1>3, <1>5, <1>8, <1>9, <1>10

LEMMA ReadStep ==
  ASSUME TypeOK, Read
  PROVE  /\ m_startPtsTime' \in Dts \cup {-1}
         /\ pts_time' \in Int /\ wake' \in Int /\ odd' \in BOOLEAN
         /\ ~odd' => 0 <= pts_time' /\ pts_time' <= wake' - m_starttime
         /\ At("read") /\ wpc' = "sleep" /\ m_streamIn = "open" /\ m_streamOut
         /\ UNCHANGED <<info, m_streamIn, m_starttime, m_audioCurrent,
                        m_streamOut, result, progress, stopper, history, frame,
                        tries, rc, caller, left, now>>
<1>1. PICK dts \in Dts : audiotime(dts) /\ odd' = Odd(dts)
  BY Zenon DEF Read
<1>2. /\ m_startPtsTime' \in Dts \cup {-1}
      /\ pts_time' \in Int /\ wake' \in Int /\ odd' \in BOOLEAN
      /\ ~odd' => 0 <= pts_time' /\ pts_time' <= wake' - m_starttime
  BY <1>1, Reading, Zenon
<1>3. /\ At("read") /\ wpc' = "sleep" /\ m_streamIn = "open" /\ m_streamOut
      /\ UNCHANGED <<info, m_streamIn, m_starttime, m_audioCurrent,
                     m_streamOut, result, progress, stopper, history, frame,
                     tries, rc, caller, left, now>>
  BY Zenon DEF Read, GoTo
<1> QED
  BY <1>2, <1>3, Zenon

(* The position shown is the one reached, if that fits an int.              *)
LEMMA Shown ==
  ASSUME NEW x \in Int
  PROVE  /\ ToInt(x) \in Int
         /\ x \in 0..MaxTime => ToInt(x) = x
<1>1. IntWord > 0
  OBVIOUS
<1>2. x % IntWord \in Int
  BY <1>1, ModType
<1>3. ToInt(x) \in Int
  BY <1>2 DEF ToInt
<1>4. ASSUME x \in 0..MaxTime PROVE ToInt(x) = x
  <2>1. x \in Nat /\ x < IntWord /\ 2 * x < IntWord
    BY <1>4
  <2>2. x % IntWord = x
    BY <2>1, SmallMod
  <2> QED
    BY <2>1, <2>2 DEF ToInt
<1> QED
  BY <1>3, <1>4

(* What an attempt of reconnectStreamIn leaves.                             *)
LEMMA Attempted ==
  ASSUME TypeOK, ReconnectIn
  PROVE  /\ m_streamIn' \in {"closed", "open"}
         /\ m_starttime' = now /\ m_startPtsTime' \in Dts \cup {-1}
         /\ m_audioCurrent' = 0 /\ odd' \in BOOLEAN
         /\ UNCHANGED <<pts_time, wake>>
         /\ rc' \in {0, -1}
         /\ frame' \in {"none", "live", "deleted"}
         /\ rc' = 0 /\ caller = "pull" => frame' = "live"
         /\ inputs' \in Nat
         /\ inputs' \in inputs..(inputs + 1)
         /\ ~m_stop => inputs' = inputs
         /\ At("reconnectIn") /\ tries < m_streamReconnectTimes
         /\ tries' = tries + 1
         /\ UNCHANGED <<info, wpc, m_streamOut, result, progress, stopper,
                        began, outputs, caller, left, now>>
<1>1. PICK attempt \in Attempts, dts \in Dts :
        /\ NewInput(IF attempt = "not opened" THEN "closed" ELSE "open",
                    IF attempt = "read" THEN dts ELSE -1)
        /\ rc' = IF attempt = "read" THEN 0 ELSE -1
        /\ frame' = IF attempt = "read" /\ caller = "pull" THEN "live"
                    ELSE IF frame = "none" THEN "none" ELSE "deleted"
  BY DEF ReconnectIn
<1>2. /\ m_streamIn' = (IF attempt = "not opened" THEN "closed" ELSE "open")
      /\ m_starttime' = now
      /\ m_startPtsTime' = (IF attempt = "read" THEN dts ELSE -1)
      /\ m_audioCurrent' = 0 /\ odd' \in BOOLEAN
      /\ UNCHANGED <<pts_time, wake>>
      /\ inputs' = IF m_stop THEN inputs + 1 ELSE inputs
  BY <1>1 DEF NewInput
<1>3. inputs \in Nat
  BY DEF TypeOK
<1>4. /\ inputs' \in Nat
      /\ inputs' \in inputs..(inputs + 1)
      /\ ~m_stop => inputs' = inputs
  <2>1. inputs' \in {inputs, inputs + 1} /\ (~m_stop => inputs' = inputs)
    BY <1>2, Zenon
  <2>2. inputs' \in Nat /\ inputs' \in inputs..(inputs + 1)
    BY <2>1, <1>3
  <2> QED
    BY <2>1, <2>2
<1>5. /\ m_streamIn' \in {"closed", "open"}
      /\ m_startPtsTime' \in Dts \cup {-1}
      /\ rc' \in {0, -1}
      /\ frame' \in {"none", "live", "deleted"}
  BY <1>1, <1>2
<1>6. rc' = 0 /\ caller = "pull" => frame' = "live"
  <2>1. attempt # "read" => rc' = -1
    BY <1>1
  <2>2. attempt = "read" /\ caller = "pull" => frame' = "live"
    BY <1>1
  <2> QED
    BY <2>1, <2>2
<1>7. /\ At("reconnectIn") /\ tries < m_streamReconnectTimes
      /\ tries' = tries + 1
      /\ UNCHANGED <<info, wpc, m_streamOut, result, progress, stopper,
                     began, outputs, caller, left, now>>
  BY Zenon DEF ReconnectIn
<1> QED
  BY <1>2, <1>4, <1>5, <1>6, <1>7

(* Types.                                                                   *)
LEMMA TypeKept ==
  ASSUME TypeOK, Counted, [Next]_vars PROVE TypeOK'
<1> USE DEF At, GoTo, input, result, progress, stopper, history
<1>1. CASE Start
  BY <1>1 DEF Start, TypeOK, Labels, Codes
<1>2. CASE OpenIn
  <2>1. odd' \in BOOLEAN
    BY <1>2 DEF OpenIn, NewInput
  <2> QED
    BY <1>2, <2>1 DEF OpenIn, NewInput, TypeOK, Labels,
       Codes
<1>3. CASE OpenInFails
  <2>1. odd' \in BOOLEAN
    BY <1>3 DEF OpenInFails, NewInput
  <2> QED
    BY <1>3, <2>1 DEF OpenInFails, NewInput, GiveUp, ReportStop, TypeOK,
       Labels, Codes
<1>4. CASE OpenOut
  BY <1>4 DEF OpenOut, NewOutput, TypeOK, Labels, Codes
<1>5. CASE OpenOutFails
  <2>1. m_streamOut' \in BOOLEAN
    BY <1>5 DEF OpenOutFails, NewOutput
  <2> QED
    BY <1>5, <2>1 DEF OpenOutFails, NewOutput, GiveUp, ReportStop, TypeOK,
       Labels, Codes
<1>6. CASE InitCodec
  BY <1>6 DEF InitCodec, TypeOK, Labels, Codes
<1>7. CASE InitCodecFails
  BY <1>7 DEF InitCodecFails, GiveUp, ReportStop, TypeOK, Labels, Codes
<1>8. CASE Begin
  <2>1. shownOdd' \in BOOLEAN
    BY <1>8 DEF Begin
  <2> QED
    BY <1>8, <2>1 DEF Begin, TypeOK, Labels,
       Codes
<1>9. CASE Loop
  BY <1>9 DEF Loop, isPlayOver, TypeOK, Labels, Codes
<1>10. CASE Read
  BY <1>10, ReadStep DEF TypeOK, Labels, Codes
<1>11. CASE WakeUp
  <2>1. Unsigned(pts_time) \in Int
    BY DEF Unsigned, TypeOK
  <2> QED
    BY <1>11, <2>1 DEF WakeUp, UseFrame, TypeOK, Labels, Codes
<1>12. CASE ReadFails
  BY <1>12 DEF ReadFails, TypeOK, Labels, Codes
<1>13. CASE ReconnectIn
  <2>1. tries' \in 0..m_streamReconnectTimes
    BY <1>13, Attempted DEF TypeOK
  <2> QED
    BY <1>13, <2>1, Attempted DEF TypeOK
<1>14. CASE InputBack
  BY <1>14 DEF InputBack, UseFrame, TypeOK, Labels, Codes
<1>15. CASE Convert
  BY <1>15 DEF Convert, TypeOK, Labels, Codes
<1>16. CASE Push
  BY <1>16 DEF Push, Pushed, TypeOK, Labels, Codes
<1>17. CASE PushFails
  BY <1>17 DEF PushFails, TypeOK, Labels, Codes
<1>18. CASE RetryOut
  BY <1>18 DEF RetryOut, TypeOK, Labels, Codes
<1>19. CASE ReconnectOutFails
  <2>1. m_streamOut' \in BOOLEAN
    BY <1>19 DEF ReconnectOutFails, NewOutput
  <2>2. outputs' \in Nat
    BY <1>19 DEF ReconnectOutFails, NewOutput, TypeOK
  <2>3. tries' \in 0..m_streamReconnectTimes
    BY <1>19 DEF ReconnectOutFails, TypeOK, Counted
  <2> QED
    BY <1>19, <2>1, <2>2, <2>3 DEF ReconnectOutFails, TypeOK, Labels
<1>20. CASE ReconnectOut
  BY <1>20 DEF ReconnectOut, NewOutput, TypeOK, Labels, Codes
<1>21. CASE InputTried
  BY <1>21 DEF InputTried, Pushed, TypeOK, Labels, Codes
<1>22. CASE Progress
  <2>1. ToInt(m_audioCurrent) \in Int
    BY Shown DEF TypeOK
  <2> QED
    BY <1>22, <2>1 DEF Progress, TypeOK, Labels, Codes
<1>23. CASE End
  BY <1>23 DEF End, ReportStop, TypeOK, Labels, Codes
<1>24. CASE finiStream
  <2>1. m_streamOut' \in BOOLEAN
    BY <1>24 DEF finiStream
  <2> QED
    BY <1>24, <2>1 DEF finiStream, TypeOK, Labels
<1>25. CASE Stop
  BY <1>25 DEF Stop, TypeOK, Labels, Codes
<1>26. CASE Join
  BY <1>26 DEF Join, TypeOK, Labels, Codes
<1>27. CASE Tick
  BY <1>27 DEF Tick, TypeOK, Labels, Codes
<1>28. CASE UNCHANGED vars
  BY <1>28 DEF vars, TypeOK, Labels, Codes
<1> QED
  BY <1>1, <1>2, <1>3, <1>4, <1>5, <1>6, <1>7, <1>8, <1>9, <1>10, <1>11,
     <1>12, <1>13, <1>14, <1>15, <1>16, <1>17, <1>18, <1>19, <1>20, <1>21,
     <1>22, <1>23, <1>24, <1>25, <1>26, <1>27, <1>28
  DEF Next, Worker, Step, Operation

(* The attempts at the output.                                              *)
LEMMA CountedKept ==
  ASSUME TypeOK, Counted, [Next]_vars PROVE Counted'
<1> USE DEF At, GoTo, input, result, progress, stopper, history
<1>1. CASE Start
  BY <1>1 DEF Start, Counted, TypeOK
<1>2. CASE OpenIn
  BY <1>2 DEF OpenIn, NewInput, Counted, TypeOK
<1>3. CASE OpenInFails
  BY <1>3 DEF OpenInFails, NewInput, GiveUp, ReportStop, Counted, TypeOK
<1>4. CASE OpenOut
  BY <1>4 DEF OpenOut, NewOutput, Counted, TypeOK
<1>5. CASE OpenOutFails
  BY <1>5 DEF OpenOutFails, NewOutput, GiveUp, ReportStop, Counted, TypeOK
<1>6. CASE InitCodec
  BY <1>6 DEF InitCodec, Counted, TypeOK
<1>7. CASE InitCodecFails
  BY <1>7 DEF InitCodecFails, GiveUp, ReportStop, Counted, TypeOK
<1>8. CASE Begin
  BY <1>8 DEF Begin, Counted, TypeOK
<1>9. CASE Loop
  BY <1>9 DEF Loop, isPlayOver, Counted, TypeOK
<1>10. CASE Read
  BY <1>10, ReadStep DEF Counted, TypeOK
<1>11. CASE WakeUp
  BY <1>11 DEF WakeUp, UseFrame, Counted, TypeOK
<1>12. CASE ReadFails
  BY <1>12 DEF ReadFails, Counted, TypeOK
<1>13. CASE ReconnectIn
  BY <1>13 DEF ReconnectIn, Attempts, NewInput, Counted, TypeOK
<1>14. CASE InputBack
  BY <1>14 DEF InputBack, UseFrame, Counted, TypeOK
<1>15. CASE Convert
  BY <1>15 DEF Convert, Counted, TypeOK
<1>16. CASE Push
  BY <1>16 DEF Push, Pushed, Counted, TypeOK
<1>17. CASE PushFails
  BY <1>17 DEF PushFails, Counted, TypeOK
<1>18. CASE RetryOut
  BY <1>18 DEF RetryOut, Counted, TypeOK
<1>19. CASE ReconnectOutFails
  BY <1>19 DEF ReconnectOutFails, NewOutput, Counted, TypeOK
<1>20. CASE ReconnectOut
  BY <1>20 DEF ReconnectOut, NewOutput, Counted, TypeOK
<1>21. CASE InputTried
  BY <1>21 DEF InputTried, Pushed, Counted, TypeOK
<1>22. CASE Progress
  BY <1>22 DEF Progress, Counted, TypeOK
<1>23. CASE End
  BY <1>23 DEF End, ReportStop, Counted, TypeOK
<1>24. CASE finiStream
  BY <1>24 DEF finiStream, Counted, TypeOK
<1>25. CASE Stop
  BY <1>25 DEF Stop, Counted, TypeOK
<1>26. CASE Join
  BY <1>26 DEF Join, Counted, TypeOK
<1>27. CASE Tick
  BY <1>27 DEF Tick, Counted, TypeOK
<1>28. CASE UNCHANGED vars
  BY <1>28 DEF vars, Counted, TypeOK
<1> QED
  BY <1>1, <1>2, <1>3, <1>4, <1>5, <1>6, <1>7, <1>8, <1>9, <1>10, <1>11,
     <1>12, <1>13, <1>14, <1>15, <1>16, <1>17, <1>18, <1>19, <1>20, <1>21,
     <1>22, <1>23, <1>24, <1>25, <1>26, <1>27, <1>28
  DEF Next, Worker, Step, Operation

(* The frame: what reads it last never follows what deletes it.            *)
LEMMA FramesKept ==
  ASSUME TypeOK, Frames, [Next]_vars PROVE Frames'
<1> USE DEF At, GoTo, input, result, progress, stopper, history
<1>1. CASE Start
  BY <1>1 DEF Start, Frames, Usable, TypeOK, Labels, Codes
<1>2. CASE OpenIn
  BY <1>2 DEF OpenIn, NewInput, Frames, Usable, TypeOK, Labels, Codes
<1>3. CASE OpenInFails
  BY <1>3 DEF OpenInFails, NewInput, GiveUp, ReportStop, Frames, Usable,
     TypeOK, Labels, Codes
<1>4. CASE OpenOut
  BY <1>4 DEF OpenOut, NewOutput, Frames, Usable, TypeOK, Labels, Codes
<1>5. CASE OpenOutFails
  BY <1>5 DEF OpenOutFails, NewOutput, GiveUp, ReportStop, Frames, Usable,
     TypeOK, Labels, Codes
<1>6. CASE InitCodec
  BY <1>6 DEF InitCodec, Frames, Usable, TypeOK, Labels, Codes
<1>7. CASE InitCodecFails
  BY <1>7 DEF InitCodecFails, GiveUp, ReportStop, Frames, Usable, TypeOK,
     Labels, Codes
<1>8. CASE Begin
  BY <1>8 DEF Begin, Frames, Usable, TypeOK, Labels, Codes
<1>9. CASE Loop
  BY <1>9 DEF Loop, isPlayOver, Frames, Usable, TypeOK, Labels, Codes
<1>10. CASE Read
  BY <1>10, ReadStep DEF Frames, Usable, TypeOK, Labels, Codes
<1>11. CASE WakeUp
  BY <1>11 DEF WakeUp, UseFrame, Frames, Usable, TypeOK, Labels, Codes
<1>12. CASE ReadFails
  BY <1>12 DEF ReadFails, Frames, Usable, TypeOK, Labels, Codes
<1>13. CASE ReconnectIn
  BY <1>13, Attempted DEF Frames, Usable, TypeOK
<1>14. CASE InputBack
  BY <1>14 DEF InputBack, UseFrame, Frames, Usable, TypeOK, Labels, Codes
<1>15. CASE Convert
  BY <1>15 DEF Convert, Frames, Usable, TypeOK, Labels, Codes
<1>16. CASE Push
  BY <1>16 DEF Push, Pushed, Frames, Usable, TypeOK, Labels, Codes
<1>17. CASE PushFails
  BY <1>17 DEF PushFails, Frames, Usable, TypeOK, Labels, Codes
<1>18. CASE RetryOut
  BY <1>18 DEF RetryOut, Frames, Usable, TypeOK, Labels, Codes
<1>19. CASE ReconnectOutFails
  BY <1>19 DEF ReconnectOutFails, NewOutput, Frames, Usable, TypeOK, Labels,
     Codes
<1>20. CASE ReconnectOut
  BY <1>20 DEF ReconnectOut, NewOutput, Frames, Usable, TypeOK, Labels, Codes
<1>21. CASE InputTried
  BY <1>21 DEF InputTried, Pushed, Frames, Usable, TypeOK, Labels, Codes
<1>22. CASE Progress
  BY <1>22 DEF Progress, Frames, Usable, TypeOK, Labels, Codes
<1>23. CASE End
  BY <1>23 DEF End, ReportStop, Frames, Usable, TypeOK, Labels, Codes
<1>24. CASE finiStream
  BY <1>24 DEF finiStream, Frames, Usable, TypeOK, Labels, Codes
<1>25. CASE Stop
  BY <1>25 DEF Stop, Frames, Usable, TypeOK, Labels, Codes
<1>26. CASE Join
  BY <1>26 DEF Join, Frames, Usable, TypeOK, Labels, Codes
<1>27. CASE Tick
  BY <1>27 DEF Tick, Frames, Usable, TypeOK, Labels, Codes
<1>28. CASE UNCHANGED vars
  BY <1>28 DEF vars, Frames, Usable, TypeOK, Labels, Codes
<1> QED
  BY <1>1, <1>2, <1>3, <1>4, <1>5, <1>6, <1>7, <1>8, <1>9, <1>10, <1>11,
     <1>12, <1>13, <1>14, <1>15, <1>16, <1>17, <1>18, <1>19, <1>20, <1>21,
     <1>22, <1>23, <1>24, <1>25, <1>26, <1>27, <1>28
  DEF Next, Worker, Step, Operation

(* Each stream is deleted only on the way to the end, or replaced.          *)
LEMMA StreamsKept ==
  ASSUME TypeOK, Streams, [Next]_vars PROVE Streams'
<1> USE DEF At, GoTo, input, result, progress, stopper, history
<1>1. CASE Start
  BY <1>1 DEF Start, Streams, HasInput, HasOutput, TypeOK, Labels, Codes
<1>2. CASE OpenIn
  BY <1>2 DEF OpenIn, NewInput, Streams, HasInput, HasOutput, TypeOK, Labels,
     Codes
<1>3. CASE OpenInFails
  BY <1>3 DEF OpenInFails, NewInput, GiveUp, ReportStop, Streams, HasInput,
     HasOutput, TypeOK, Labels, Codes
<1>4. CASE OpenOut
  BY <1>4 DEF OpenOut, NewOutput, Streams, HasInput, HasOutput, TypeOK,
     Labels, Codes
<1>5. CASE OpenOutFails
  BY <1>5 DEF OpenOutFails, NewOutput, GiveUp, ReportStop, Streams, HasInput,
     HasOutput, TypeOK, Labels, Codes
<1>6. CASE InitCodec
  BY <1>6 DEF InitCodec, Streams, HasInput, HasOutput, TypeOK, Labels, Codes
<1>7. CASE InitCodecFails
  BY <1>7 DEF InitCodecFails, GiveUp, ReportStop, Streams, HasInput,
     HasOutput, TypeOK, Labels, Codes
<1>8. CASE Begin
  BY <1>8 DEF Begin, Streams, HasInput, HasOutput, TypeOK, Labels, Codes
<1>9. CASE Loop
  BY <1>9 DEF Loop, isPlayOver, Streams, HasInput, HasOutput, TypeOK, Labels,
     Codes
<1>10. CASE Read
  BY <1>10, ReadStep DEF Streams, HasInput, HasOutput, TypeOK, Labels, Codes
<1>11. CASE WakeUp
  BY <1>11 DEF WakeUp, UseFrame, Streams, HasInput, HasOutput, TypeOK,
     Labels, Codes
<1>12. CASE ReadFails
  BY <1>12 DEF ReadFails, Streams, HasInput, HasOutput, TypeOK, Labels, Codes
<1>13. CASE ReconnectIn
  BY <1>13 DEF ReconnectIn, Attempts, NewInput, Streams, HasInput, HasOutput,
     TypeOK, Labels, Codes
<1>14. CASE InputBack
  BY <1>14 DEF InputBack, UseFrame, Streams, HasInput, HasOutput, TypeOK,
     Labels, Codes
<1>15. CASE Convert
  BY <1>15 DEF Convert, Streams, HasInput, HasOutput, TypeOK, Labels, Codes
<1>16. CASE Push
  BY <1>16 DEF Push, Pushed, Streams, HasInput, HasOutput, TypeOK, Labels,
     Codes
<1>17. CASE PushFails
  BY <1>17 DEF PushFails, Streams, HasInput, HasOutput, TypeOK, Labels, Codes
<1>18. CASE RetryOut
  BY <1>18 DEF RetryOut, Streams, HasInput, HasOutput, TypeOK, Labels, Codes
<1>19. CASE ReconnectOutFails
  BY <1>19 DEF ReconnectOutFails, NewOutput, Streams, HasInput, HasOutput,
     TypeOK, Labels, Codes
<1>20. CASE ReconnectOut
  BY <1>20 DEF ReconnectOut, NewOutput, Streams, HasInput, HasOutput, TypeOK,
     Labels, Codes
<1>21. CASE InputTried
  BY <1>21 DEF InputTried, Pushed, Streams, HasInput, HasOutput, TypeOK,
     Labels, Codes
<1>22. CASE Progress
  BY <1>22 DEF Progress, Streams, HasInput, HasOutput, TypeOK, Labels, Codes
<1>23. CASE End
  BY <1>23 DEF End, ReportStop, Streams, HasInput, HasOutput, TypeOK, Labels,
     Codes
<1>24. CASE finiStream
  BY <1>24 DEF finiStream, Streams, HasInput, HasOutput, TypeOK, Labels,
     Codes
<1>25. CASE Stop
  BY <1>25 DEF Stop, Streams, HasInput, HasOutput, TypeOK, Labels, Codes
<1>26. CASE Join
  BY <1>26 DEF Join, Streams, HasInput, HasOutput, TypeOK, Labels, Codes
<1>27. CASE Tick
  BY <1>27 DEF Tick, Streams, HasInput, HasOutput, TypeOK, Labels, Codes
<1>28. CASE UNCHANGED vars
  BY <1>28 DEF vars, Streams, HasInput, HasOutput, TypeOK, Labels, Codes
<1> QED
  BY <1>1, <1>2, <1>3, <1>4, <1>5, <1>6, <1>7, <1>8, <1>9, <1>10, <1>11,
     <1>12, <1>13, <1>14, <1>15, <1>16, <1>17, <1>18, <1>19, <1>20, <1>21,
     <1>22, <1>23, <1>24, <1>25, <1>26, <1>27, <1>28
  DEF Next, Worker, Step, Operation

(* What is opened after m_stop was set.                                     *)
LEMMA BoundedKept ==
  ASSUME TypeOK, Bounded, [Next]_vars PROVE Bounded'
<1> USE DEF At, GoTo, input, result, progress, stopper, history
<1>1. CASE Start
  BY <1>1 DEF Start, Bounded, StopBound, TypeOK, Labels, Codes
<1>2. CASE OpenIn
  BY <1>2 DEF OpenIn, NewInput, Bounded, StopBound, TypeOK, Labels, Codes
<1>3. CASE OpenInFails
  BY <1>3 DEF OpenInFails, NewInput, GiveUp, ReportStop, Bounded, StopBound,
     TypeOK, Labels, Codes
<1>4. CASE OpenOut
  BY <1>4 DEF OpenOut, NewOutput, Bounded, StopBound, TypeOK, Labels, Codes
<1>5. CASE OpenOutFails
  BY <1>5 DEF OpenOutFails, NewOutput, GiveUp, ReportStop, Bounded,
     StopBound, TypeOK, Labels, Codes
<1>6. CASE InitCodec
  BY <1>6 DEF InitCodec, Bounded, StopBound, TypeOK, Labels, Codes
<1>7. CASE InitCodecFails
  BY <1>7 DEF InitCodecFails, GiveUp, ReportStop, Bounded, StopBound, TypeOK,
     Labels, Codes
<1>8. CASE Begin
  BY <1>8 DEF Begin, Bounded, StopBound, TypeOK, Labels, Codes
<1>9. CASE Loop
  BY <1>9 DEF Loop, isPlayOver, Bounded, StopBound, TypeOK, Labels, Codes
<1>10. CASE Read
  BY <1>10, ReadStep DEF Bounded, StopBound, TypeOK, Labels, Codes
<1>11. CASE WakeUp
  BY <1>11 DEF WakeUp, UseFrame, Bounded, StopBound, TypeOK, Labels, Codes
<1>12. CASE ReadFails
  BY <1>12 DEF ReadFails, Bounded, StopBound, TypeOK, Labels, Codes
<1>13. CASE ReconnectIn
  BY <1>13, Attempted DEF Bounded, StopBound, TypeOK
<1>14. CASE InputBack
  BY <1>14 DEF InputBack, UseFrame, Bounded, StopBound, TypeOK, Labels, Codes
<1>15. CASE Convert
  BY <1>15 DEF Convert, Bounded, StopBound, TypeOK, Labels, Codes
<1>16. CASE Push
  BY <1>16 DEF Push, Pushed, Bounded, StopBound, TypeOK, Labels, Codes
<1>17. CASE PushFails
  BY <1>17 DEF PushFails, Bounded, StopBound, TypeOK, Labels, Codes
<1>18. CASE RetryOut
  BY <1>18 DEF RetryOut, Bounded, StopBound, TypeOK, Labels, Codes
<1>19. CASE ReconnectOutFails
  BY <1>19 DEF ReconnectOutFails, NewOutput, Bounded, StopBound, TypeOK,
     Labels, Codes
<1>20. CASE ReconnectOut
  BY <1>20 DEF ReconnectOut, NewOutput, Bounded, StopBound, TypeOK, Labels,
     Codes
<1>21. CASE InputTried
  BY <1>21 DEF InputTried, Pushed, Bounded, StopBound, TypeOK, Labels, Codes
<1>22. CASE Progress
  BY <1>22 DEF Progress, Bounded, StopBound, TypeOK, Labels, Codes
<1>23. CASE End
  BY <1>23 DEF End, ReportStop, Bounded, StopBound, TypeOK, Labels, Codes
<1>24. CASE finiStream
  BY <1>24 DEF finiStream, Bounded, StopBound, TypeOK, Labels, Codes
<1>25. CASE Stop
  BY <1>25 DEF Stop, Bounded, StopBound, TypeOK, Labels, Codes
<1>26. CASE Join
  BY <1>26 DEF Join, Bounded, StopBound, TypeOK, Labels, Codes
<1>27. CASE Tick
  BY <1>27 DEF Tick, Bounded, StopBound, TypeOK, Labels, Codes
<1>28. CASE UNCHANGED vars
  BY <1>28 DEF vars, Bounded, StopBound, TypeOK, Labels, Codes
<1> QED
  BY <1>1, <1>2, <1>3, <1>4, <1>5, <1>6, <1>7, <1>8, <1>9, <1>10, <1>11,
     <1>12, <1>13, <1>14, <1>15, <1>16, <1>17, <1>18, <1>19, <1>20, <1>21,
     <1>22, <1>23, <1>24, <1>25, <1>26, <1>27, <1>28
  DEF Next, Worker, Step, Operation

(* The reason of the end.                                                   *)
LEMMA ExcusedKept ==
  ASSUME TypeOK, Excused, [Next]_vars PROVE Excused'
<1> USE DEF At, GoTo, input, result, progress, stopper, history
<1>1. CASE Start
  BY <1>1 DEF Start, Excused, ErrorTold, isPlayOver, TypeOK, Labels, Codes
<1>2. CASE OpenIn
  BY <1>2 DEF OpenIn, NewInput, Excused, ErrorTold, isPlayOver, TypeOK,
     Labels, Codes
<1>3. CASE OpenInFails
  BY <1>3 DEF OpenInFails, NewInput, GiveUp, ReportStop, Excused, ErrorTold,
     isPlayOver, TypeOK, Labels, Codes
<1>4. CASE OpenOut
  BY <1>4 DEF OpenOut, NewOutput, Excused, ErrorTold, isPlayOver, TypeOK,
     Labels, Codes
<1>5. CASE OpenOutFails
  BY <1>5 DEF OpenOutFails, NewOutput, GiveUp, ReportStop, Excused,
     ErrorTold, isPlayOver, TypeOK, Labels, Codes
<1>6. CASE InitCodec
  BY <1>6 DEF InitCodec, Excused, ErrorTold, isPlayOver, TypeOK, Labels,
     Codes
<1>7. CASE InitCodecFails
  BY <1>7 DEF InitCodecFails, GiveUp, ReportStop, Excused, ErrorTold,
     isPlayOver, TypeOK, Labels, Codes
<1>8. CASE Begin
  BY <1>8 DEF Begin, Excused, ErrorTold, isPlayOver, TypeOK, Labels, Codes
<1>9. CASE Loop
  BY <1>9 DEF Loop, isPlayOver, Excused, ErrorTold, TypeOK, Labels, Codes
<1>10. CASE Read
  BY <1>10, ReadStep DEF Excused, ErrorTold, isPlayOver, TypeOK, Labels, Codes
<1>11. CASE WakeUp
  BY <1>11 DEF WakeUp, UseFrame, Excused, ErrorTold, isPlayOver, TypeOK,
     Labels, Codes
<1>12. CASE ReadFails
  BY <1>12 DEF ReadFails, Excused, ErrorTold, isPlayOver, TypeOK, Labels,
     Codes
<1>13. CASE ReconnectIn
  BY <1>13 DEF ReconnectIn, Attempts, NewInput, Excused, ErrorTold,
     isPlayOver, TypeOK, Labels, Codes
<1>14. CASE InputBack
  BY <1>14 DEF InputBack, UseFrame, Excused, ErrorTold, isPlayOver, TypeOK,
     Labels, Codes
<1>15. CASE Convert
  BY <1>15 DEF Convert, Excused, ErrorTold, isPlayOver, TypeOK, Labels, Codes
<1>16. CASE Push
  BY <1>16 DEF Push, Pushed, Excused, ErrorTold, isPlayOver, TypeOK, Labels,
     Codes
<1>17. CASE PushFails
  BY <1>17 DEF PushFails, Excused, ErrorTold, isPlayOver, TypeOK, Labels,
     Codes
<1>18. CASE RetryOut
  BY <1>18 DEF RetryOut, Excused, ErrorTold, isPlayOver, TypeOK, Labels,
     Codes
<1>19. CASE ReconnectOutFails
  BY <1>19 DEF ReconnectOutFails, NewOutput, Excused, ErrorTold, isPlayOver,
     TypeOK, Labels, Codes
<1>20. CASE ReconnectOut
  BY <1>20 DEF ReconnectOut, NewOutput, Excused, ErrorTold, isPlayOver,
     TypeOK, Labels, Codes
<1>21. CASE InputTried
  BY <1>21 DEF InputTried, Pushed, Excused, ErrorTold, isPlayOver, TypeOK,
     Labels, Codes
<1>22. CASE Progress
  BY <1>22 DEF Progress, Excused, ErrorTold, isPlayOver, TypeOK, Labels,
     Codes
<1>23. CASE End
  BY <1>23 DEF End, ReportStop, Excused, ErrorTold, isPlayOver, TypeOK,
     Labels, Codes
<1>24. CASE finiStream
  BY <1>24 DEF finiStream, Excused, ErrorTold, isPlayOver, TypeOK, Labels,
     Codes
<1>25. CASE Stop
  BY <1>25 DEF Stop, Excused, ErrorTold, isPlayOver, TypeOK, Labels, Codes
<1>26. CASE Join
  BY <1>26 DEF Join, Excused, ErrorTold, isPlayOver, TypeOK, Labels, Codes
<1>27. CASE Tick
  BY <1>27 DEF Tick, Excused, ErrorTold, isPlayOver, TypeOK, Labels, Codes
<1>28. CASE UNCHANGED vars
  BY <1>28 DEF vars, Excused, ErrorTold, isPlayOver, TypeOK, Labels, Codes
<1> QED
  BY <1>1, <1>2, <1>3, <1>4, <1>5, <1>6, <1>7, <1>8, <1>9, <1>10, <1>11,
     <1>12, <1>13, <1>14, <1>15, <1>16, <1>17, <1>18, <1>19, <1>20, <1>21,
     <1>22, <1>23, <1>24, <1>25, <1>26, <1>27, <1>28
  DEF Next, Worker, Step, Operation

(* The position and the clock.                                              *)
LEMMA ClockKept ==
  ASSUME TypeOK, Clock, [Next]_vars PROVE Clock'
<1> USE DEF At, GoTo, input, result, progress, stopper, history
<1>1. CASE Start
  BY <1>1 DEF Start, Clock, PacedByClock, TypeOK, Labels, Codes
<1>2. CASE OpenIn
  BY <1>2 DEF OpenIn, NewInput, Clock, PacedByClock, TypeOK, Labels, Codes
<1>3. CASE OpenInFails
  BY <1>3 DEF OpenInFails, NewInput, GiveUp, ReportStop, Clock, PacedByClock,
     TypeOK, Labels, Codes
<1>4. CASE OpenOut
  BY <1>4 DEF OpenOut, NewOutput, Clock, PacedByClock, TypeOK, Labels, Codes
<1>5. CASE OpenOutFails
  BY <1>5 DEF OpenOutFails, NewOutput, GiveUp, ReportStop, Clock,
     PacedByClock, TypeOK, Labels, Codes
<1>6. CASE InitCodec
  BY <1>6 DEF InitCodec, Clock, PacedByClock, TypeOK, Labels, Codes
<1>7. CASE InitCodecFails
  BY <1>7 DEF InitCodecFails, GiveUp, ReportStop, Clock, PacedByClock,
     TypeOK, Labels, Codes
<1>8. CASE Begin
  BY <1>8 DEF Begin, Clock, PacedByClock, TypeOK, Labels, Codes
<1>9. CASE Loop
  BY <1>9 DEF Loop, isPlayOver, Clock, PacedByClock, TypeOK, Labels, Codes
<1>10. CASE Read
  BY <1>10, ReadStep DEF Clock, PacedByClock, TypeOK, Labels, Codes
<1>11. CASE WakeUp
  BY <1>11 DEF WakeUp, Unsigned, UseFrame, Clock, PacedByClock, TypeOK, Labels,
     Codes
<1>12. CASE ReadFails
  BY <1>12 DEF ReadFails, Clock, PacedByClock, TypeOK, Labels, Codes
<1>13. CASE ReconnectIn
  BY <1>13, Attempted DEF Clock, PacedByClock, TypeOK
<1>14. CASE InputBack
  BY <1>14 DEF InputBack, UseFrame, Clock, PacedByClock, TypeOK, Labels,
     Codes
<1>15. CASE Convert
  BY <1>15 DEF Convert, Clock, PacedByClock, TypeOK, Labels, Codes
<1>16. CASE Push
  BY <1>16 DEF Push, Pushed, Clock, PacedByClock, TypeOK, Labels, Codes
<1>17. CASE PushFails
  BY <1>17 DEF PushFails, Clock, PacedByClock, TypeOK, Labels, Codes
<1>18. CASE RetryOut
  BY <1>18 DEF RetryOut, Clock, PacedByClock, TypeOK, Labels, Codes
<1>19. CASE ReconnectOutFails
  BY <1>19 DEF ReconnectOutFails, NewOutput, Clock, PacedByClock, TypeOK,
     Labels, Codes
<1>20. CASE ReconnectOut
  BY <1>20 DEF ReconnectOut, NewOutput, Clock, PacedByClock, TypeOK, Labels,
     Codes
<1>21. CASE InputTried
  BY <1>21 DEF InputTried, Pushed, Clock, PacedByClock, TypeOK, Labels, Codes
<1>22. CASE Progress
  <2>1. ~odd => 0 <= m_audioCurrent /\ m_audioCurrent <= now - m_starttime
    BY <1>22 DEF Progress, Clock
  <2>2. ~odd => m_audioCurrent \in 0..MaxTime
    BY <2>1 DEF TypeOK
  <2>3. ~odd => ToInt(m_audioCurrent) = m_audioCurrent
    BY <2>2, Shown DEF TypeOK
  <2> QED
    BY <1>22, <2>1, <2>3 DEF Progress, Clock, PacedByClock, TypeOK, Labels,
       Codes
<1>23. CASE End
  BY <1>23 DEF End, ReportStop, Clock, PacedByClock, TypeOK, Labels, Codes
<1>24. CASE finiStream
  BY <1>24 DEF finiStream, Clock, PacedByClock, TypeOK, Labels, Codes
<1>25. CASE Stop
  BY <1>25 DEF Stop, Clock, PacedByClock, TypeOK, Labels, Codes
<1>26. CASE Join
  BY <1>26 DEF Join, Clock, PacedByClock, TypeOK, Labels, Codes
<1>27. CASE Tick
  BY <1>27 DEF Tick, Clock, PacedByClock, TypeOK, Labels, Codes
<1>28. CASE UNCHANGED vars
  BY <1>28 DEF vars, Clock, PacedByClock, TypeOK, Labels, Codes
<1> QED
  BY <1>1, <1>2, <1>3, <1>4, <1>5, <1>6, <1>7, <1>8, <1>9, <1>10, <1>11,
     <1>12, <1>13, <1>14, <1>15, <1>16, <1>17, <1>18, <1>19, <1>20, <1>21,
     <1>22, <1>23, <1>24, <1>25, <1>26, <1>27, <1>28
  DEF Next, Worker, Step, Operation

LEMMA IInvHolds == Spec => []IInv
<1>1. IInv /\ [Next]_vars => IInv'
  BY TypeKept, CountedKept, FramesKept, StreamsKept, BoundedKept, ExcusedKept,
     ClockKept DEF IInv
<1> QED
  BY <1>1, InitIInv, PTL DEF Spec

-----------------------------------------------------------------------------
(* The variables of the worker keep their types.                            *)
THEOREM TypesCorrect == Spec => []TypeOK
<1>1. IInv => TypeOK
  BY DEF IInv
<1> QED
  BY <1>1, IInvHolds, PTL

(* pullAndpushFrame and pushFrame never decode or write a frame whose input *)
(* a reconnection has deleted, nor, if any attempt to reconnect is          *)
(* configured, one that was never set.                                      *)
THEOREM NothingDangling == Spec => []FrameAlive
<1>1. IInv => FrameAlive
  BY DEF IInv, Frames, Usable, FrameAlive, At
<1> QED
  BY <1>1, IInvHolds, PTL

(* They never use an input or an output that is not there, though           *)
(* reconnections delete both.                                               *)
THEOREM NothingMissing == Spec => []StreamsPresent
<1>1. IInv => StreamsPresent
  BY DEF IInv, Streams, StreamsPresent, HasInput, HasOutput, At
<1> QED
  BY <1>1, IInvHolds, PTL

(* Once m_stop is set at most m_streamReconnectTimes inputs, or the first   *)
(* one, and one output are opened before the worker ends.                   *)
THEOREM StopIsBounded == Spec => []StopBound
<1>1. IInv => StopBound
  BY DEF IInv, Bounded
<1> QED
  BY <1>1, IInvHolds, PTL

(* reportStop says "ok" only for a stream stopped or played to its end.     *)
THEOREM ErrorsAreTold == Spec => []ErrorTold
<1>1. IInv => ErrorTold
  BY DEF IInv, Excused
<1> QED
  BY <1>1, IInvHolds, PTL

(* The position reported is between 0 and the time that has passed, but     *)
(* while it comes from a stamp before its input's first or too far ahead to *)
(* be waited for.                                                           *)
THEOREM NeverAhead == Spec => []PacedByClock
<1>1. IInv => PacedByClock
  BY DEF IInv, Clock
<1> QED
  BY <1>1, IInvHolds, PTL
=============================================================================
