------------------------- MODULE RealTimeStreamWorker ------------------------
(* What the worker of a RealTimeStream does from its start to its end       *)
(* (RealTimeStream::svr, initStream, pullAndpushFrame, pushFrame,           *)
(* reconnectStreamIn), with the StreamInImp it reads from and the StreamOut *)
(* it writes to, while another thread stops it (RealTimeStream::stop).      *)
(*                                                                          *)
(* A step runs from one operation of the input or the output, or one look   *)
(* at m_stop, to the next; whatever these operations do they succeed, fail  *)
(* or take for ever.  Progress callbacks and formats are left out.          *)
EXTENDS Integers

CONSTANTS
  Infos,        \* m_info and what is configured: records
                \*   [duration, convert, stopCallback, reconnects]
  Dts,          \* time stamps the frames of the source may have, in seconds
  Outputs,      \* bound: frames the encoder makes of one
  MaxTime,      \* bound: seconds
  SleepWord,    \* 2^32 microseconds, what av_usleep is given wraps at
  PositionWord, \* 2^64 microseconds, and what m_audioCurrent wraps at
  IntWord       \* 2^32, and what playSeconds wraps at

(* ReconnectTimes of the configuration is not checked, and may be 0; a      *)
(* negative one is as good as 0.                                            *)
ASSUME InfosAssumption ==
  Infos \subseteq [duration : Nat, convert : BOOLEAN, stopCallback : BOOLEAN,
                   reconnects : Nat]
ASSUME BoundsAssumption ==
  Dts \subseteq Int /\ Outputs \in Nat /\ MaxTime \in Nat
ASSUME WordsAssumption ==
  /\ SleepWord \in Nat \ {0}
  /\ PositionWord \in Nat /\ MaxTime < PositionWord
  /\ IntWord \in Nat /\ 2 * MaxTime < IntWord

VARIABLES
  info,
  m_stop, m_enableReportStop,
  status, lastError,
  m_streamIn,     \* "none", "closed" (no AVFormatContext) or "open"
  m_starttime,    \* of the input: when it was opened,
  m_startPtsTime, \*   the time stamp of its first frame or -1,
  m_audioCurrent, \*   and its position
  pts_time, wake, \* in audiotime: the packet's position, the sleep's end,
                  \*   and 0 elsewhere
  m_streamOut,    \* there is an output
  wpc,            \* where the worker is
  frame,          \* fd.data: "none" (not set), "live" or "deleted"
  tries, rc,      \* i and rc of the reconnect loops
  caller,         \* who called reconnectStreamIn
  left,           \* encoded frames still to push
  startTime, playSeconds,
  now,            \* seconds
  told,           \* the error code of the stop callback, or "nothing"
  spc,            \* where the thread that stops the stream is
  \* History.
  began,          \* when the first input was opened
  inputs, outputs,\* how many were opened since m_stop was set
  odd, shownOdd   \* the position (the one shown) comes from a stamp that is
                  \*   before its input's first or too far ahead to wait for

input == <<m_streamIn, m_starttime, m_startPtsTime, m_audioCurrent, pts_time,
           wake, odd>>
result == <<status, lastError, told>>
progress == <<startTime, playSeconds, shownOdd>>
stopper == <<m_stop, m_enableReportStop, spc>>
history == <<began, inputs, outputs>>
vars == <<info, input, m_streamOut, result, progress, stopper, history, wpc,
          frame, tries, rc, caller, left, now>>

Init ==
  /\ info \in Infos
  /\ m_stop = FALSE /\ m_enableReportStop = TRUE /\ spc = "idle"
  /\ status = "init" /\ lastError = "ok" /\ told = "nothing"
  /\ m_streamIn = "none" /\ m_starttime = 0
  /\ m_startPtsTime = -1 /\ m_audioCurrent = 0
  /\ pts_time = 0 /\ wake = 0 /\ odd = FALSE /\ shownOdd = FALSE
  /\ m_streamOut = FALSE
  /\ wpc = "start" /\ frame = "none" /\ tries = 0 /\ rc = 0
  /\ caller = "pull" /\ left = 0
  /\ startTime = 0 /\ playSeconds = 0 /\ now = 0
  /\ began = 0 /\ inputs = 0 /\ outputs = 0

At(label) == wpc = label
GoTo(label) == wpc' = label
m_streamReconnectTimes == info.reconnects

-----------------------------------------------------------------------------
(* A new StreamInImp, what open() makes of it, and the first time stamp if  *)
(* a frame is read from it.                                                 *)
NewInput(state, dts) ==
  /\ m_streamIn' = state
  /\ m_starttime' = now
  /\ m_startPtsTime' = dts
  /\ m_audioCurrent' = 0 /\ odd' = FALSE
  /\ UNCHANGED <<pts_time, wake>>
  /\ inputs' = IF m_stop THEN inputs + 1 ELSE inputs

(* audiotime.  The position of a packet counts from the input's first one,  *)
(* in a signed 64 bit number; if less time than that has passed since the   *)
(* input was opened the reader sleeps the rest, cut off to 32 bits.         *)
First(dts) == IF m_startPtsTime = -1 THEN dts ELSE m_startPtsTime
Rest(position) == position - (now - m_starttime)

audiotime_NotRebased(dts) ==
  /\ m_startPtsTime' = First(dts)
  /\ pts_time' = dts
  /\ wake' = now + (IF Rest(dts) > 0 THEN Rest(dts) % SleepWord ELSE 0)

audiotime(dts) ==
  LET position == dts - First(dts) IN
  /\ m_startPtsTime' = First(dts)
  /\ pts_time' = position
  /\ wake' = now + (IF Rest(position) > 0 THEN Rest(position) % SleepWord
                                          ELSE 0)

Odd(dts) == dts - First(dts) < 0 \/ Rest(dts - First(dts)) >= SleepWord

(* m_audioCurrent is unsigned, and playSeconds an int made of it.           *)
Unsigned(x) == IF x < 0 THEN x + PositionWord ELSE x
ToInt(x) == IF 2 * (x % IntWord) < IntWord THEN x % IntWord
                                           ELSE (x % IntWord) - IntWord

NewOutput(ok) ==
  /\ m_streamOut' = ok
  /\ outputs' = IF m_stop THEN outputs + 1 ELSE outputs

(* reportStop                                                               *)
ReportStop(code) ==
  told' = IF m_enableReportStop /\ info.stopCallback THEN code ELSE "nothing"

(* Leaving svr before the loop: nothing is set but the status and the code. *)
GiveUp(code) ==
  /\ lastError' = code
  /\ status' = "stopped"
  /\ ReportStop(code)
  /\ GoTo("done")

-----------------------------------------------------------------------------
(* svr, up to the loop.                                                     *)
Start ==
  /\ At("start")
  /\ lastError' = "ok" /\ status' = "running"
  /\ GoTo("openIn")
  /\ UNCHANGED <<info, input, m_streamOut, told, progress, stopper, history,
                 frame, tries, rc, caller, left, now>>

(* initStream: a failure closes and deletes what is there (finiStream).     *)
OpenIn ==
  /\ At("openIn")
  /\ NewInput("open", -1)
  /\ began' = now
  /\ GoTo("openOut")
  /\ UNCHANGED <<info, m_streamOut, result, progress, stopper, outputs, frame,
                 tries, rc, caller, left, now>>

OpenInFails ==
  /\ At("openIn")
  /\ NewInput("none", -1)
  /\ GiveUp("streamIn")
  /\ UNCHANGED <<info, m_streamOut, progress, stopper, began, outputs, frame,
                 tries, rc, caller, left, now>>

OpenOut ==
  /\ At("openOut")
  /\ NewOutput(TRUE)
  /\ GoTo(IF info.convert THEN "codec" ELSE "begin")
  /\ UNCHANGED <<info, input, result, progress, stopper, began, inputs, frame,
                 tries, rc, caller, left, now>>

OpenOutFails_KeepsInput ==
  /\ At("openOut")
  /\ NewOutput(FALSE)
  /\ GiveUp("streamOut")
  /\ UNCHANGED <<info, input, progress, stopper, began, inputs, frame, tries,
                 rc, caller, left, now>>

OpenOutFails ==
  /\ At("openOut")
  /\ NewOutput(FALSE)
  /\ m_streamIn' = "none"
  /\ GiveUp("streamOut")
  /\ UNCHANGED <<info, m_starttime, m_startPtsTime, m_audioCurrent, pts_time,
                 wake, odd, progress, stopper, began, inputs, frame, tries, rc,
                 caller, left, now>>

(* initDecoder and initEncoder: when one fails the streams stay as they are *)
(* until the RealTimeStream is deleted.                                     *)
InitCodec ==
  /\ At("codec")
  /\ GoTo("begin")
  /\ UNCHANGED <<info, input, m_streamOut, result, progress, stopper, history,
                 frame, tries, rc, caller, left, now>>

InitCodecFails ==
  /\ At("codec")
  /\ GiveUp("codec")
  /\ UNCHANGED <<info, input, m_streamOut, progress, stopper, history, frame,
                 tries, rc, caller, left, now>>

Begin ==
  /\ At("begin")
  /\ startTime' = now /\ playSeconds' = 0 /\ shownOdd' = FALSE
  /\ GoTo("loop")
  /\ UNCHANGED <<info, input, m_streamOut, result, stopper, history, frame,
                 tries, rc, caller, left, now>>

-----------------------------------------------------------------------------
(* The loop of svr and pullAndpushFrame.                                    *)
isPlayOver == info.duration # 0 /\ now - startTime >= info.duration

Loop_IgnoresStop ==
  /\ At("loop")
  /\ GoTo(IF isPlayOver THEN "end" ELSE "read")
  /\ frame' = "none"
  /\ UNCHANGED <<info, input, m_streamOut, result, progress, stopper, history,
                 tries, rc, caller, left, now>>

Loop ==
  /\ At("loop")
  /\ GoTo(IF m_stop \/ isPlayOver THEN "end" ELSE "read")
  /\ frame' = "none"
  /\ UNCHANGED <<info, input, m_streamOut, result, progress, stopper, history,
                 tries, rc, caller, left, now>>

UseFrame == IF info.convert THEN "convert" ELSE "push"

(* readData, with audiotime and its sleep.  It passes over the packets of   *)
(* other sub streams, as many as there are, and only looks at an m_stop of  *)
(* the input that nothing sets: it ends when the source lets it.  The frame *)
(* is in a buffer of the input.                                             *)
Read ==
  /\ At("read")
  /\ m_streamIn = "open" /\ m_streamOut
  /\ \E dts \in Dts : audiotime(dts) /\ odd' = Odd(dts)
  /\ GoTo("sleep")
  /\ UNCHANGED <<info, m_streamIn, m_starttime, m_audioCurrent, m_streamOut,
                 result, progress, stopper, history, frame, tries, rc, caller,
                 left, now>>

WakeUp ==
  /\ At("sleep")
  /\ now >= wake
  /\ m_audioCurrent' = Unsigned(pts_time)
  /\ pts_time' = 0 /\ wake' = 0
  /\ frame' = "live"
  /\ GoTo(UseFrame)
  /\ UNCHANGED <<info, m_streamIn, m_starttime, m_startPtsTime, odd,
                 m_streamOut, result, progress, stopper, history, tries, rc,
                 caller, left, now>>

ReadFails_NoError ==
  /\ At("read")
  /\ m_streamIn # "none" /\ m_streamOut
  /\ GoTo("end")
  /\ UNCHANGED <<info, input, m_streamOut, result, progress, stopper, history,
                 frame, tries, rc, caller, left, now>>

ReadFails ==
  /\ At("read")
  /\ m_streamIn # "none" /\ m_streamOut
  /\ tries' = 0 /\ rc' = 0 /\ caller' = "pull"
  /\ GoTo("reconnectIn")
  /\ UNCHANGED <<info, input, m_streamOut, result, progress, stopper, history,
                 frame, left, now>>

(* reconnectStreamIn.  It goes through all of its attempts, whether one     *)
(* succeeds or not and whatever m_stop says; only the last one decides.     *)
(* Deleting the input deletes the frame.  Without an attempt the result is  *)
(* 0 and the frame what it was, in pullAndpushFrame not set.                *)
Attempts == {"not opened", "not read", "read"}
ReconnectIn ==
  /\ At("reconnectIn")
  /\ tries < m_streamReconnectTimes
  /\ \E attempt \in Attempts, dts \in Dts :
       /\ NewInput(IF attempt = "not opened" THEN "closed" ELSE "open",
                   IF attempt = "read" THEN dts ELSE -1)
       /\ rc' = IF attempt = "read" THEN 0 ELSE -1
       /\ frame' = IF attempt = "read" /\ caller = "pull" THEN "live"
                   ELSE IF frame = "none" THEN "none" ELSE "deleted"
  /\ tries' = tries + 1
  /\ UNCHANGED <<info, wpc, m_streamOut, result, progress, stopper, began,
                 outputs, caller, left, now>>

(* Back in pullAndpushFrame.                                                *)
InputBack_AnyAttempt ==
  /\ At("reconnectIn") /\ caller = "pull" /\ tries = m_streamReconnectTimes
  /\ IF m_streamIn # "open"
     THEN lastError' = "streamIn" /\ GoTo("end")
     ELSE GoTo(UseFrame) /\ UNCHANGED lastError
  /\ UNCHANGED <<info, input, m_streamOut, status, told, progress, stopper,
                 history, frame, tries, rc, caller, left, now>>

InputBack ==
  /\ At("reconnectIn") /\ caller = "pull" /\ tries = m_streamReconnectTimes
  /\ IF rc # 0 THEN lastError' = "streamIn" /\ GoTo("end")
               ELSE GoTo(UseFrame) /\ UNCHANGED lastError
  /\ UNCHANGED <<info, input, m_streamOut, status, told, progress, stopper,
                 history, frame, tries, rc, caller, left, now>>

(* Decoding and encoding.  A frame that cannot be decoded, or gives         *)
(* nothing, is passed over without progress.                                *)
Convert ==
  /\ At("convert")
  /\ \E n \in 0..Outputs :
       left' = n /\ GoTo(IF n = 0 THEN "loop" ELSE "push")
  /\ UNCHANGED <<info, input, m_streamOut, result, progress, stopper, history,
                 frame, tries, rc, caller, now>>

-----------------------------------------------------------------------------
(* pushFrame: after it, the next encoded frame or the progress.             *)
Pushed ==
  /\ left' = IF left > 0 THEN left - 1 ELSE 0
  /\ GoTo(IF left > 1 THEN "push" ELSE "progress")

Push ==
  /\ At("push")
  /\ Pushed
  /\ UNCHANGED <<info, input, m_streamOut, result, progress, stopper, history,
                 frame, tries, rc, caller, now>>

PushFails ==
  /\ At("push")
  /\ tries' = 0
  /\ GoTo("reconnectOut")
  /\ UNCHANGED <<info, input, m_streamOut, result, progress, stopper, history,
                 frame, rc, caller, left, now>>

RetryOut_IgnoresStop ==
  /\ At("reconnectOut")
  /\ IF tries = m_streamReconnectTimes
     THEN lastError' = "streamOut" /\ GoTo("end")
     ELSE GoTo("openAgain") /\ UNCHANGED lastError
  /\ UNCHANGED <<info, input, m_streamOut, status, told, progress, stopper,
                 history, frame, tries, rc, caller, left, now>>

RetryOut ==
  /\ At("reconnectOut")
  /\ IF m_stop \/ tries = m_streamReconnectTimes
     THEN lastError' = "streamOut" /\ GoTo("end")
     ELSE GoTo("openAgain") /\ UNCHANGED lastError
  /\ UNCHANGED <<info, input, m_streamOut, status, told, progress, stopper,
                 history, frame, tries, rc, caller, left, now>>

(* initStreamOut once more, deleting the output when it fails, and the      *)
(* frame again; then the input is reconnected too.                          *)
ReconnectOutFails ==
  /\ At("openAgain")
  /\ \E opened \in BOOLEAN : NewOutput(opened)
  /\ tries' = tries + 1
  /\ GoTo("reconnectOut")
  /\ UNCHANGED <<info, input, result, progress, stopper, began, inputs, frame,
                 rc, caller, left, now>>

ReconnectOut ==
  /\ At("openAgain")
  /\ NewOutput(TRUE)
  /\ tries' = 0 /\ rc' = 0 /\ caller' = "push"
  /\ GoTo("reconnectIn")
  /\ UNCHANGED <<info, input, result, progress, stopper, began, inputs, frame,
                 left, now>>

(* Back in pushFrame, which does not look at the result.                    *)
InputTried ==
  /\ At("reconnectIn") /\ caller = "push" /\ tries = m_streamReconnectTimes
  /\ Pushed
  /\ UNCHANGED <<info, input, m_streamOut, result, progress, stopper, history,
                 frame, tries, rc, caller, now>>

Progress ==
  /\ At("progress")
  /\ playSeconds' = ToInt(m_audioCurrent) /\ shownOdd' = odd
  /\ GoTo("loop")
  /\ UNCHANGED <<info, input, m_streamOut, result, startTime, stopper, history,
                 frame, tries, rc, caller, left, now>>

-----------------------------------------------------------------------------
(* The end of svr.                                                          *)
End ==
  /\ At("end")
  /\ status' = "stopped"
  /\ ReportStop(lastError)
  /\ GoTo("fini")
  /\ UNCHANGED <<info, input, m_streamOut, lastError, progress, stopper,
                 history, frame, tries, rc, caller, left, now>>

finiStream ==
  /\ At("fini")
  /\ m_streamIn' = "none" /\ m_streamOut' = FALSE
  /\ GoTo("done")
  /\ UNCHANGED <<info, m_starttime, m_startPtsTime, m_audioCurrent, pts_time,
                 wake, odd, result, progress, stopper, history, frame, tries,
                 rc, caller, left, now>>

(* stop(), with or without the callback; a second call only sets that.      *)
Stop ==
  /\ spc = "idle"
  /\ \E reportStop \in BOOLEAN : m_enableReportStop' = reportStop
  /\ m_stop' = TRUE
  /\ spc' = IF m_stop THEN "idle" ELSE "join"
  /\ UNCHANGED <<info, input, m_streamOut, result, progress, history, wpc,
                 frame, tries, rc, caller, left, now>>

Join ==
  /\ spc = "join" /\ At("done")
  /\ spc' = "idle"
  /\ UNCHANGED <<info, input, m_streamOut, result, progress, m_stop,
                 m_enableReportStop, history, wpc, frame, tries, rc, caller,
                 left, now>>

Tick ==
  /\ now < MaxTime
  /\ now' = now + 1
  /\ UNCHANGED <<info, input, m_streamOut, result, progress, stopper, history,
                 wpc, frame, tries, rc, caller, left>>

(* What the program does itself, and the operations of the input and the    *)
(* output, whose end is up to the network, to libraries and, for a sleep,   *)
(* to the time stamps of the source.                                        *)
Step ==
  \/ Start \/ InitCodec \/ InitCodecFails \/ Begin \/ Loop \/ InputBack
  \/ Convert \/ RetryOut \/ InputTried \/ Progress \/ End \/ finiStream
Operation ==
  \/ OpenIn \/ OpenInFails \/ OpenOut \/ OpenOutFails
  \/ Read \/ WakeUp \/ ReadFails \/ ReconnectIn
  \/ Push \/ PushFails \/ ReconnectOutFails \/ ReconnectOut
Worker == Step \/ Operation

Next == Worker \/ Stop \/ Join \/ Tick

(* The worker thread runs, and a join returns when it has ended.  Nothing   *)
(* is said of the operations.                                               *)
Spec == Init /\ [][Next]_vars
FairSpec == Spec /\ WF_vars(Step) /\ WF_vars(Join)
-----------------------------------------------------------------------------
Labels ==
  {"start", "openIn", "openOut", "codec", "begin", "loop", "read",
   "sleep", "reconnectIn", "convert", "push", "reconnectOut", "openAgain",
   "progress", "end", "fini", "done"}
Operations ==
  {"openIn", "openOut", "read", "sleep", "reconnectIn", "push", "openAgain"}
Codes == {"ok", "streamIn", "streamOut", "codec"}

TypeOK ==
  /\ info \in Infos
  /\ m_stop \in BOOLEAN /\ m_enableReportStop \in BOOLEAN
  /\ spc \in {"idle", "join"}
  /\ status \in {"init", "running", "stopped"}
  /\ lastError \in Codes /\ told \in Codes \cup {"nothing"}
  /\ m_streamIn \in {"none", "closed", "open"} /\ m_streamOut \in BOOLEAN
  /\ m_starttime \in 0..now /\ began \in 0..now /\ startTime \in 0..now
  /\ m_startPtsTime \in Dts \cup {-1}
  /\ m_audioCurrent \in Int /\ playSeconds \in Int
  /\ pts_time \in Int /\ wake \in Int
  /\ odd \in BOOLEAN /\ shownOdd \in BOOLEAN
  /\ wpc \in Labels
  /\ frame \in {"none", "live", "deleted"}
  /\ tries \in 0..m_streamReconnectTimes /\ rc \in {0, -1}
  /\ caller \in {"pull", "push"} /\ left \in 0..Outputs
  /\ now \in 0..MaxTime
  /\ inputs \in Nat /\ outputs \in Nat

(* Whenever a frame's bytes are decoded or written they are in the buffer   *)
(* of an input that still exists: reconnections delete the input under the  *)
(* frame and must put another one in its place (reconnectStreamIn,          *)
(* realTimeStream.cpp:642 and 660; streamIn.h:45 limits a frame's life).    *)
(* The one exception is a stream configured to make no attempt at all: it   *)
(* goes on with a frame that was never set (line 635 returns 0), and even   *)
(* then with none that was deleted.                                         *)
FrameAlive ==
  \/ At("convert")
  \/ wpc \in {"push", "openAgain"} /\ ~info.convert
  => \/ frame = "live"
     \/ frame = "none" /\ m_streamReconnectTimes = 0

(* Neither stream is missing where pullAndpushFrame and pushFrame use it,   *)
(* though a failed reconnection deletes the output (realTimeStream.cpp:241).*)
StreamsPresent ==
  /\ wpc \in {"read", "sleep", "push"} => m_streamIn # "none" /\ m_streamOut
  /\ status = "stopped" /\ At("done") =>
       (m_streamIn = "none" /\ ~m_streamOut) \/ lastError = "codec"

(* stop() waits for the worker; the loops that reconnect bound how long: at *)
(* most one round of inputs, or the first one, and one output are opened    *)
(* after m_stop is set (the loop over the inputs does not look at it).      *)
StopBound ==
  /\ inputs <= 1 \/ inputs <= m_streamReconnectTimes
  /\ outputs <= 1

(* The stop callback says "ok" only for a stream that was stopped or has    *)
(* played as long as it should, never for one whose input or output broke.  *)
ErrorTold == told = "ok" => m_stop \/ isPlayOver

(* The position a query shows is never negative and never ahead of the      *)
(* clock, over all reconnections and whatever time stamps the source starts *)
(* with, unless the packet it was taken from had a stamp before the first   *)
(* of its input or one 2^32 microseconds or more ahead of the clock         *)
(* (streamInImp.cpp:434 and 456).  The next packet in order, or the next    *)
(* reconnection, sets it right again.                                       *)
PacedByClock == ~shownOdd => playSeconds \in 0..(now - began)

(* stop() returns, whatever fails how often, unless one operation of the    *)
(* input or the output never does: no loop of the worker holds it.          *)
StopReturns ==
  \/ \E operation \in Operations : <>[]At(operation)
  \/ spc = "join" ~> spc = "idle"
=============================================================================
