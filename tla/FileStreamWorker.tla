-------------------------- MODULE FileStreamWorker --------------------------
(***************************************************************************)
(* What the worker of a FileStream does from its start to its end          *)
(* (FileStream::svr, pushFile, pushFrame, doCmd, onPause), while the HTTP  *)
(* threads pause, resume and stop it and jump in its play list             *)
(* (FileStream::setCmd, stop, updatePlayStack, filestreamJumpHandler).     *)
(*                                                                         *)
(* A step runs from one access to what the threads share (m_stop, the      *)
(* command slot under m_cmdLock, one call of the play stack's              *)
(* MessageQueue) to the next.  pop() waits while the stack is empty.       *)
(* Codec, file formats and callbacks are left out; operations of the input *)
(* and the output succeed or fail.                                         *)
(***************************************************************************)
EXTENDS Integers, Sequences, FiniteSets, SequencesExt

CONSTANTS
  Files,       \* the number of files in m_info.fileList()
  Infos,       \* m_info of the streams started: see InfoType
  Reconnects,  \* m_streamReconnectTimes
  Client,      \* HTTP threads
  JumpTo,      \* indexes clients jump to
  MaxJumps,    \* bound: jumps the clients ask for
  Inputs,      \* bound: StreamInImp objects referred to at a time
  MaxCycle,    \* bound: cycles are not counted any further
  MaxTime      \* bound: seconds since startTime

InfoType ==
  [mode : {"seq", "random"},  \* FM_SEQ or random
   cycle : Nat,               \* times the list is played, 0: without end
   duration : Nat,            \* seconds, 0: without end
   convert : BOOLEAN,         \* frames go through the codec
   silence : BOOLEAN]         \* there is a file of silence to push in a pause

ASSUME FileStreamWorkerAssumption ==
  /\ Files \in Nat \ {0}
  /\ Infos \subseteq InfoType
  /\ {Reconnects, MaxJumps, Inputs, MaxCycle, MaxTime} \subseteq Nat
  /\ Inputs > 3         \* three pointers may point to one each
  /\ \A i \in Infos : i.cycle <= MaxCycle
  /\ JumpTo \subseteq Int

Index == 0..Files - 1
Input == 1..Inputs
NoInput == 0
Current == -100       \* a jump without an index: in the current file

VARIABLES
  info,
  m_stop, m_cmd, m_playStack, m_cycle, m_pauseTime,
  m_streamIn,     \* the input read from
  m_streamOut,    \* there is an output
  status,
  curFile,        \* m_info.curFileIndex()
  now,            \* seconds since startTime
  fault,          \* undefined behaviour the process has run into
  wpc,            \* where the worker is
  paused,         \* it is in onPause
  rest,           \* createPlayStack's indexes still to push
  file,           \* the index popped from the play stack
  retry,          \* pushFrame's attempts to reconnect
  start, pauseTick,             \* the times doCmd and pushFrame remember
  deleted,        \* inputs deleted and still referred to
  opened,         \* the file each input is opened on
  hpc, hidx, harr, hrest,       \* of each client: where it is; index; arrays
  hcur,           \* the client jumps in the current file
  m_handlerIn,    \* filestreamJumpHandler::m_streamIn, one for all requests
  \* History.
  lost,           \* seconds spent in pauses and reconnections
  jumps,          \* how many jumps have been asked for
  asked,          \* the index each client's jump asked for
  astray          \* a jump met what the code does not provide for: Strays,
                  \* JumpIsLost

shared == <<m_stop, m_cmd, m_playStack>>
stream == <<info, m_cycle, m_pauseTime, m_streamIn, m_streamOut, status, curFile>>
worker == <<wpc, paused, rest, file, retry, start, pauseTick>>
clients == <<hpc, hidx, harr, hrest, hcur, m_handlerIn, jumps, asked>>
inputs == <<deleted, opened>>
vars == <<shared, stream, worker, clients, inputs, now, fault, lost, astray>>

NoCmd == [cmd |-> "none", index |-> 0, in |-> NoInput, asked |-> 0]
CmdType ==
  [cmd : {"none", "pause", "resume", "jump"}, index : Index \cup JumpTo,
   in : Input \cup {NoInput}, asked : Index \cup JumpTo]

StreamOK ==
  /\ info \in Infos
  /\ m_stop \in BOOLEAN
  /\ m_cmd \in CmdType
  /\ m_cmd.cmd = "jump" => m_cmd.index \in Index
  /\ m_playStack \in Seq(Int)
  /\ m_cycle \in 0..MaxCycle
  /\ m_pauseTime \in Nat
  /\ m_streamIn \in Input \cup {NoInput}
  /\ m_streamOut \in BOOLEAN
  /\ status \in {"running", "pause", "stopped"}
  /\ curFile \in Index

WorkerOK ==
  /\ wpc \in {"init", "cycle", "drain", "drainPop", "fill", "next", "take",
              "open", "loop", "cmd", "read", "push", "retry", "end", "done"}
  /\ paused \in BOOLEAN
  /\ rest \in Seq(Int)
  /\ file \in Int
  /\ retry \in 0..Reconnects
  /\ start \in 0..now
  /\ pauseTick \in 0..now

ClientsOK ==
  /\ hpc \in [Client -> {"idle", "update", "drainPop", "fill", "pop", "open",
                         "jump", "join"}]
  /\ hidx \in [Client -> Int]
  /\ \A c \in Client : hpc[c] = "jump" => hidx[c] \in Index
  /\ harr \in [Client -> Seq(Int)]
  /\ hrest \in [Client -> Seq(Int)]
  /\ hcur \in [Client -> BOOLEAN]
  /\ m_handlerIn \in Input \cup {NoInput}
  /\ asked \in [Client -> Index \cup JumpTo]
  /\ jumps \in 0..MaxJumps

TypeOK ==
  /\ StreamOK
  /\ WorkerOK
  /\ ClientsOK
  /\ deleted \in SUBSET Input /\ opened \in [Input -> Index]
  /\ now \in 0..MaxTime
  /\ fault \in {"none", "range", "noOutput", "deletedInput"}
  /\ lost \in Nat
  /\ astray \in BOOLEAN

Init ==
  /\ info \in Infos
  /\ m_stop = FALSE /\ m_cmd = NoCmd /\ m_playStack = <<>>
  /\ m_cycle = 0 /\ m_pauseTime = 0
  /\ m_streamIn = NoInput /\ m_streamOut = FALSE
  /\ status = "running" /\ curFile = 0
  /\ wpc = "init" /\ paused = FALSE /\ rest = <<>> /\ file = 0
  /\ retry = 0 /\ start = 0 /\ pauseTick = 0
  /\ deleted = {} /\ opened = [n \in Input |-> 0]
  /\ hpc = [c \in Client |-> "idle"] /\ hidx = [c \in Client |-> 0]
  /\ harr = [c \in Client |-> <<>>] /\ hrest = [c \in Client |-> <<>>]
  /\ hcur = [c \in Client |-> FALSE] /\ m_handlerIn = NoInput
  /\ now = 0 /\ fault = "none" /\ lost = 0
  /\ jumps = 0 /\ asked = [c \in Client |-> 0] /\ astray = FALSE

(* checkDuration(): the difference is unsigned, so a negative one is huge. *)
CheckDuration ==
  \/ info.cycle # 0 \/ info.duration = 0
  \/ now - m_pauseTime \in 0..info.duration - 1

(* An object for a new StreamInImp: one that nothing refers to.            *)
Fresh ==
  CHOOSE n \in Input : n \notin {m_streamIn, m_cmd.in, m_handlerIn}

(* Where the play stack is read or written by the worker.                  *)
BetweenFiles ==
  wpc \in {"init", "cycle", "drain", "drainPop", "fill", "next", "take", "open"}

Jumping(c) == hpc[c] \notin {"idle", "join"}

-----------------------------------------------------------------------------
(* The worker: svr() and createPlayStack().                                *)

WGoto(l) == wpc' = l

(* Files, codec and output are checked and opened.                         *)
WInit ==
  /\ wpc = "init"
  /\ \/ m_streamOut' = TRUE /\ WGoto("cycle")
     \/ WGoto("end") /\ UNCHANGED m_streamOut
  /\ UNCHANGED <<shared, info, m_cycle, m_pauseTime, m_streamIn, status, curFile,
                 paused, rest, file, retry, start, pauseTick, inputs>>

WCycle ==
  /\ wpc = "cycle"
  /\ WGoto(IF ~m_stop /\ (info.cycle = 0 \/ m_cycle < info.cycle) /\ CheckDuration
             THEN "drain" ELSE "end")
  /\ UNCHANGED <<shared, stream, paused, rest, file, retry, start, pauseTick,
                 inputs>>

Ascending(i) == [k \in 1..Files - i |-> i + k - 1]

(* What is on the stack is popped, one size() and one pop() at a time.     *)
WDrain ==
  /\ wpc = "drain"
  /\ \/ m_playStack # <<>> /\ WGoto("drainPop") /\ UNCHANGED rest
     \/ /\ m_playStack = <<>>
        /\ WGoto("fill")
        /\ IF info.mode = "seq" THEN rest' = Ascending(0)
           ELSE rest' \in SetToSeqs(Index)
  /\ UNCHANGED <<shared, stream, paused, file, retry, start, pauseTick, inputs>>

Shift == m_playStack # <<>> /\ m_playStack' = Tail(m_playStack)

WDrainPop ==
  /\ wpc = "drainPop"
  /\ Shift
  /\ WGoto("drain")
  /\ UNCHANGED <<m_stop, m_cmd, stream, paused, rest, file, retry, start,
                 pauseTick, inputs>>

WFill ==
  /\ wpc = "fill"
  /\ \/ /\ rest # <<>>
        /\ m_playStack' = Append(m_playStack, Head(rest))
        /\ rest' = Tail(rest)
        /\ UNCHANGED wpc
     \/ rest = <<>> /\ WGoto("next") /\ UNCHANGED <<m_playStack, rest>>
  /\ UNCHANGED <<m_stop, m_cmd, stream, paused, file, retry, start, pauseTick,
                 inputs>>

(* The list of a cycle is over when the stack is empty, or the stream is;  *)
(* failedCount is always 0 here.                                           *)
WNext ==
  /\ wpc = "next"
  /\ IF ~m_stop /\ m_playStack # <<>> /\ CheckDuration
       THEN WGoto("take") /\ UNCHANGED m_cycle
       ELSE /\ WGoto("cycle")
            /\ m_cycle' = IF m_cycle < MaxCycle THEN m_cycle + 1 ELSE m_cycle
  /\ UNCHANGED <<shared, info, m_pauseTime, m_streamIn, m_streamOut, status,
                 curFile, paused, rest, file, retry, start, pauseTick, inputs>>

WTake ==
  /\ wpc = "take"
  /\ Shift
  /\ file' = Head(m_playStack)
  /\ WGoto("open")
  /\ UNCHANGED <<m_stop, m_cmd, stream, paused, rest, retry, start, pauseTick,
                 inputs>>

-----------------------------------------------------------------------------
(* The worker: pushFile() and doCmd().                                     *)

Delete(n) == (deleted \cup {n}) \ {NoInput}

(* The old input is deleted, a new one opened; a file that cannot be       *)
(* opened ends the stream.                                                 *)
WOpen ==
  /\ wpc = "open"
  /\ file \in Index
  /\ \/ ~m_streamOut /\ WGoto("end") /\ UNCHANGED <<stream, inputs>>
     \/ /\ m_streamOut
        /\ m_streamIn' = Fresh
        /\ deleted' = Delete(m_streamIn) \ {Fresh}
        /\ opened' = [opened EXCEPT ![Fresh] = file]
        /\ \/ WGoto("end") /\ UNCHANGED <<status, curFile>>
           \/ WGoto("loop") /\ status' = "running" /\ curFile' = file
        /\ UNCHANGED <<info, m_cycle, m_pauseTime, m_streamOut>>
  /\ file' = 0
  /\ UNCHANGED <<shared, paused, rest, retry, start, pauseTick>>

(* Mutant: the duration is looked at between two files only.               *)
WLoop_Unlimited ==
  /\ wpc = "loop"
  /\ ~paused
  /\ WGoto(IF ~m_stop THEN "cmd" ELSE "next")
  /\ UNCHANGED <<shared, stream, paused, rest, file, retry, start, pauseTick,
                 inputs>>

(* The head of pushFile's loop, and of onPause's.                          *)
WLoop ==
  /\ wpc = "loop"
  /\ ~paused
  /\ WGoto(IF ~m_stop /\ CheckDuration THEN "cmd" ELSE "next")
  /\ UNCHANGED <<shared, stream, paused, rest, file, retry, start, pauseTick,
                 inputs>>

(* Mutant: the seconds of a pause are not counted.                         *)
Unpause_Uncounted ==
  /\ paused' = FALSE
  /\ start' = 0
  /\ status' = "running"
  /\ WGoto("read")
  /\ UNCHANGED m_pauseTime

(* onPause() is over, and doCmd() with it.                                 *)
Unpause ==
  /\ paused' = FALSE
  /\ m_pauseTime' = m_pauseTime + now - start
  /\ start' = 0
  /\ status' = "running"
  /\ WGoto("read")

WPauseLoop ==
  /\ wpc = "loop"
  /\ paused
  /\ IF m_stop THEN Unpause
     ELSE WGoto("cmd") /\ UNCHANGED <<paused, m_pauseTime, start, status>>
  /\ UNCHANGED <<shared, info, m_cycle, m_streamIn, m_streamOut, curFile, rest,
                 file, retry, pauseTick, inputs>>

(* getCmd() empties the slot.                                              *)
GetCmd(set) ==
  /\ wpc = "cmd"
  /\ m_cmd.cmd \in set
  /\ m_cmd' = NoCmd
  /\ UNCHANGED <<m_stop, m_playStack, info, m_cycle, m_streamOut, rest, file,
                 retry, pauseTick>>

(* Mutant: the index of the file that is played stays what it was.         *)
TakeInput_SameFile ==
  /\ m_streamIn' = m_cmd.in
  /\ deleted' = Delete(m_streamIn)
  /\ UNCHANGED <<opened, curFile>>

(* FC_JUMP: the input of the command takes the place of the worker's.      *)
TakeInput ==
  /\ m_streamIn' = m_cmd.in
  /\ deleted' = Delete(m_streamIn)
  /\ curFile' = m_cmd.index
  /\ UNCHANGED opened

WCmd ==
  /\ ~paused
  /\ \/ /\ GetCmd({"none", "resume"})
        /\ WGoto("read")
        /\ UNCHANGED <<paused, start, status, m_streamIn, curFile, inputs>>
     \/ /\ GetCmd({"pause"})
        /\ paused' = TRUE /\ start' = now /\ status' = "pause"
        /\ WGoto("loop")
        /\ UNCHANGED <<m_streamIn, curFile, inputs>>
     \/ /\ GetCmd({"jump"})
        /\ TakeInput
        /\ WGoto("read")
        /\ UNCHANGED <<paused, start, status>>
  /\ UNCHANGED m_pauseTime

(* In a pause another pause changes nothing; silence is pushed if there is *)
(* any, and a round may go by without a frame.                             *)
WPauseCmd ==
  /\ paused
  /\ \/ /\ GetCmd({"none", "pause"})
        /\ \/ WGoto("loop")
           \/ info.silence /\ WGoto("push")
        /\ UNCHANGED <<paused, m_pauseTime, start, status, m_streamIn, curFile,
                       inputs>>
     \/ GetCmd({"resume"}) /\ Unpause /\ UNCHANGED <<m_streamIn, curFile, inputs>>
     \/ GetCmd({"jump"}) /\ TakeInput /\ Unpause

(* readData(): a frame, or the end of the file.                            *)
WRead ==
  /\ wpc = "read"
  /\ m_streamIn \notin deleted
  /\ WGoto("push") \/ WGoto("next")
  /\ UNCHANGED <<shared, stream, paused, rest, file, retry, start, pauseTick,
                 inputs>>

-----------------------------------------------------------------------------
(* The worker: pushFrame().                                                *)

(* The frame is written, or is dropped by the codec; or writing fails.     *)
WPush ==
  /\ wpc = "push"
  /\ m_streamOut
  /\ \/ WGoto("loop") /\ UNCHANGED <<retry, pauseTick>>
     \/ WGoto("retry") /\ pauseTick' = now /\ UNCHANGED retry
  /\ UNCHANGED <<shared, stream, paused, rest, file, start, inputs>>

(* One attempt: initStreamOut() deletes an output it cannot open; an       *)
(* opened one takes the frame or does not.                                 *)
WRetry ==
  /\ wpc = "retry"
  /\ ~m_stop
  /\ retry < Reconnects
  /\ \/ /\ m_streamOut' \in BOOLEAN
        /\ retry' = retry + 1
        /\ UNCHANGED <<wpc, m_pauseTime, pauseTick>>
     \/ /\ m_streamOut' = TRUE
        /\ m_pauseTime' = m_pauseTime + now - pauseTick
        /\ WGoto("loop")
        /\ retry' = 0 /\ pauseTick' = 0
  /\ UNCHANGED <<shared, info, m_cycle, m_streamIn, status, curFile, paused, rest,
                 file, start, inputs>>

(* All attempts have failed, or the stream is being stopped.  The stream   *)
(* ends, unless it is paused: then onPause() is left, or goes on when the  *)
(* break left only its loop over converted frames.                         *)
WGiveUp ==
  /\ wpc = "retry"
  /\ m_stop \/ retry = Reconnects
  /\ \/ /\ ~paused
        /\ WGoto("end")
        /\ UNCHANGED <<paused, m_pauseTime, start, status>>
     \/ paused /\ ~info.convert /\ Unpause
     \/ /\ paused /\ info.convert
        /\ WGoto("loop")
        /\ UNCHANGED <<paused, m_pauseTime, start, status>>
  /\ retry' = 0 /\ pauseTick' = 0
  /\ UNCHANGED <<shared, info, m_cycle, m_streamIn, m_streamOut, curFile, rest,
                 file, inputs>>

(* svr() closes what is open and returns.                                  *)
WEnd ==
  /\ wpc = "end"
  /\ status' = "stopped"
  /\ m_streamOut' = FALSE
  /\ deleted' = Delete(m_streamIn)
  /\ m_streamIn' = NoInput
  /\ WGoto("done")
  /\ UNCHANGED <<shared, info, m_cycle, m_pauseTime, curFile, paused, rest, file,
                 retry, start, pauseTick, opened>>

(* What the code does not guard against.                                   *)
WFault ==
  /\ \/ wpc = "open" /\ file \notin Index /\ fault' = "range"
     \/ wpc = "push" /\ ~m_streamOut /\ fault' = "noOutput"
     \/ wpc = "read" /\ m_streamIn \in deleted /\ fault' = "deletedInput"
  /\ UNCHANGED <<shared, stream, worker, inputs>>

-----------------------------------------------------------------------------
(* HTTP threads.                                                           *)

HGoto(c, l) == hpc' = [hpc EXCEPT ![c] = l]

Idle(c) == hpc[c] = "idle"

(* The request is answered, and its locals are gone.                       *)
Respond(c) ==
  /\ HGoto(c, "idle")
  /\ hidx' = [hidx EXCEPT ![c] = 0] /\ hcur' = [hcur EXCEPT ![c] = FALSE]
  /\ harr' = [harr EXCEPT ![c] = <<>>] /\ hrest' = [hrest EXCEPT ![c] = <<>>]
  /\ asked' = [asked EXCEPT ![c] = 0]

(* setCmd(): a command that is still in the slot is deleted.               *)
SetCmd(c, cmd) ==
  /\ Idle(c)
  /\ m_cmd' = [NoCmd EXCEPT !.cmd = cmd]
  /\ UNCHANGED <<m_stop, m_playStack, clients, inputs>>

Pause(c) == SetCmd(c, "pause")
Resume(c) == SetCmd(c, "resume")

(* stop(): the first call waits for the worker, others return.             *)
Stop(c) ==
  /\ Idle(c)
  /\ m_stop' = TRUE
  /\ IF m_stop THEN UNCHANGED hpc ELSE HGoto(c, "join")
  /\ UNCHANGED <<m_cmd, m_playStack, hidx, harr, hrest, hcur, m_handlerIn, jumps, asked,
                 inputs>>

Join(c) ==
  /\ hpc[c] = "join"
  /\ wpc = "done"
  /\ HGoto(c, "idle")
  /\ UNCHANGED <<shared, hidx, harr, hrest, hcur, m_handlerIn, jumps, asked, inputs>>

(* Mutant: the handler makes an input for its first request only.          *)
NewInput_Once == IF m_handlerIn = NoInput THEN Fresh ELSE m_handlerIn

NewInput == Fresh

(* filestreamJumpHandler: a new input; without an index the jump is in the *)
(* current file.                                                           *)
Jump(c, i) ==
  /\ Idle(c)
  /\ jumps < MaxJumps /\ jumps' = jumps + 1
  /\ hcur' = [hcur EXCEPT ![c] = (i = Current)]
  /\ hidx' = [hidx EXCEPT ![c] = IF i = Current THEN curFile ELSE i]
  /\ asked' = [asked EXCEPT ![c] = IF i = Current THEN curFile ELSE i]
  /\ m_handlerIn' = NewInput
  /\ deleted' = deleted \ {NewInput}
  /\ HGoto(c, "update")
  /\ UNCHANGED <<shared, harr, hrest, opened>>

(* updatePlayStack() for a list played in sequence: the stack is emptied   *)
(* and filled from the index on.  An index is compared as unsigned.        *)
JumpDrain(c) ==
  /\ info.mode = "seq"
  /\ hpc[c] = "update"
  /\ \/ m_playStack # <<>> /\ HGoto(c, "drainPop") /\ UNCHANGED hrest
     \/ /\ m_playStack = <<>>
        /\ hrest' = [hrest EXCEPT ![c] =
                       IF hidx[c] \in Index THEN Ascending(hidx[c]) ELSE <<>>]
        /\ HGoto(c, "fill")
  /\ UNCHANGED <<shared, hidx, harr, hcur, m_handlerIn, jumps, asked, inputs>>

(* For a random list: as many as there are now are popped, and pushed      *)
(* again behind the index.  harr holds a place for each until it is full.  *)
JumpCount(c) ==
  /\ info.mode = "random"
  /\ hpc[c] = "update"
  /\ hrest' = [hrest EXCEPT ![c] = m_playStack]
  /\ HGoto(c, "drainPop")
  /\ UNCHANGED <<shared, hidx, harr, hcur, m_handlerIn, jumps, asked, inputs>>

JumpPop(c) ==
  /\ hpc[c] = "drainPop"
  /\ \/ /\ info.mode = "seq"
        /\ Shift
        /\ HGoto(c, "update")
        /\ UNCHANGED <<harr, hrest>>
     \/ /\ info.mode = "random"
        /\ hrest[c] # <<>>
        /\ Shift
        /\ harr' = [harr EXCEPT ![c] = Append(@, Head(m_playStack))]
        /\ hrest' = [hrest EXCEPT ![c] = Tail(@)]
        /\ UNCHANGED hpc
     \/ /\ info.mode = "random"
        /\ hrest[c] = <<>>
        /\ m_playStack' = Append(m_playStack, hidx[c])
        /\ hrest' = [hrest EXCEPT ![c] = harr[c]]
        /\ HGoto(c, "fill")
        /\ UNCHANGED harr
  /\ UNCHANGED <<m_stop, m_cmd, hidx, hcur, m_handlerIn, jumps, asked, inputs>>

(* In a random list the index itself is pushed once only, in front.        *)
JumpFill(c) ==
  /\ hpc[c] = "fill"
  /\ \/ /\ hrest[c] # <<>>
        /\ m_playStack' = IF info.mode = "random" /\ Head(hrest[c]) = hidx[c]
                           THEN m_playStack
                           ELSE Append(m_playStack, Head(hrest[c]))
        /\ hrest' = [hrest EXCEPT ![c] = Tail(@)]
        /\ UNCHANGED hpc
     \/ /\ hrest[c] = <<>>
        /\ HGoto(c, "pop")
        /\ UNCHANGED <<m_playStack, hrest>>
  /\ UNCHANGED <<m_stop, m_cmd, hidx, harr, hcur, m_handlerIn, jumps, asked, inputs>>

(* The top of the stack is what is jumped to.                              *)
JumpTake(c) ==
  /\ hpc[c] = "pop"
  /\ Shift
  /\ hidx' = [hidx EXCEPT ![c] = Head(m_playStack)]
  /\ HGoto(c, "open")
  /\ UNCHANGED <<m_stop, m_cmd, harr, hrest, hcur, m_handlerIn, jumps, asked, inputs>>

JumpOpen(c) ==
  /\ hpc[c] = "open"
  /\ hidx[c] \in Index
  /\ opened' = [opened EXCEPT ![m_handlerIn] = hidx[c]]
  /\ \/ HGoto(c, "jump") /\ UNCHANGED <<hidx, harr, hrest, hcur, asked>>
     \/ Respond(c)
  /\ UNCHANGED <<shared, m_handlerIn, jumps, deleted>>

JumpFault(c) ==
  /\ hpc[c] = "open"
  /\ hidx[c] \notin Index
  /\ fault' = "range"
  /\ UNCHANGED <<shared, clients, inputs>>

(* jump(): the index has been in range since JumpOpen.                     *)
JumpSet(c) ==
  /\ hpc[c] = "jump"
  /\ m_cmd' = [cmd |-> "jump", index |-> IF hcur[c] THEN curFile ELSE hidx[c],
               in |-> m_handlerIn, asked |-> asked[c]]
  /\ Respond(c)
  /\ UNCHANGED <<m_stop, m_playStack, m_handlerIn, jumps, inputs>>
-----------------------------------------------------------------------------
Worker ==
  \/ WInit \/ WCycle \/ WDrain \/ WDrainPop \/ WFill \/ WNext \/ WTake \/ WOpen
  \/ WLoop \/ WPauseLoop \/ WCmd \/ WPauseCmd \/ WRead \/ WPush \/ WRetry
  \/ WGiveUp \/ WEnd

Handler(c) ==
  \/ Join(c)
  \/ JumpDrain(c) \/ JumpCount(c) \/ JumpPop(c) \/ JumpFill(c) \/ JumpTake(c)
  \/ JumpOpen(c) \/ JumpSet(c)

Request(c) ==
  \/ Pause(c) \/ Resume(c) \/ Stop(c)
  \/ \E i \in JumpTo \cup {Current} : Jump(c, i)

(* A second passes; lost counts those the stream does not play in.         *)
Tick ==
  /\ fault = "none"
  /\ now < MaxTime
  /\ now' = now + 1
  /\ lost' = IF paused \/ wpc = "retry" THEN lost + 1 ELSE lost
  /\ UNCHANGED <<shared, stream, worker, clients, inputs, fault, astray>>

(* A jump begun and not yet executed meets the worker between two files,   *)
(* or another jump, or asks for a file that is not there.                  *)
JumpsAhead == {c \in Client : Jumping(c)}

Strays ==
  \/ BetweenFiles /\ (JumpsAhead # {} \/ m_cmd.cmd = "jump")
  \/ JumpsAhead # {} /\ m_cmd.cmd = "jump"
  \/ \E c, d \in JumpsAhead : c # d
  \/ \E c \in JumpsAhead : asked[c] \notin Index

(* The play stack has been changed for a jump that is not made: the file   *)
(* cannot be opened, or another command takes the place of this one.       *)
JumpIsLost ==
  \/ \E c \in Client : hpc[c] = "open" /\ hpc'[c] = "idle"
  \/ m_cmd.cmd = "jump" /\ m_cmd' \notin {m_cmd, NoCmd}

History == astray' = (astray \/ Strays' \/ JumpIsLost)

(* After undefined behaviour nothing is said any more.                     *)
WorkerStep ==
  /\ fault = "none"
  /\ WFault \/ (Worker /\ UNCHANGED fault)
  /\ UNCHANGED <<clients, now, lost>>
  /\ History

HandlerStep(c) ==
  /\ fault = "none"
  /\ JumpFault(c) \/ (Handler(c) /\ UNCHANGED fault)
  /\ UNCHANGED <<stream, worker, now, lost>>
  /\ History

RequestStep(c) ==
  /\ fault = "none"
  /\ Request(c)
  /\ UNCHANGED <<stream, worker, now, lost, fault>>
  /\ History

Next ==
  \/ WorkerStep
  \/ \E c \in Client : HandlerStep(c) \/ RequestStep(c)
  \/ Tick

Spec == Init /\ [][Next]_vars

(* The threads are scheduled; what a worker or a handler calls returns.    *)
Fairness ==
  /\ WF_vars(WorkerStep)
  /\ \A c \in Client : WF_vars(HandlerStep(c))

FairSpec == Spec /\ Fairness

-----------------------------------------------------------------------------
InFile == wpc \in {"loop", "cmd", "read", "push", "retry"}

Settled == JumpsAhead = {} /\ m_cmd.cmd # "jump"

(* The worker's input and the one in the command slot are two objects, and *)
(* neither is deleted: doCmd() and pushFile() delete the worker's, and the *)
(* handler keeps its pointer.                                              *)
OneOwner ==
  ~astray =>
    /\ m_streamIn # NoInput => m_streamIn # m_cmd.in
    /\ {m_streamIn, m_cmd.in} \cap deleted = {}
    /\ fault \notin {"range", "deletedInput"}

(* A file is played under its own index, a jump goes to the file the client *)
(* asked for, and while no jump is under way the stack holds what is to be  *)
(* played after it in this cycle: in sequence, all files behind this one;   *)
(* in a random list, no file twice and not this one.  Index, input and play *)
(* stack come from different moments of the handler and of doCmd().         *)
JumpsThere ==
  ~astray =>
    /\ InFile => opened[m_streamIn] = curFile
    /\ m_cmd.cmd = "jump" =>
         m_cmd.index = m_cmd.asked /\ opened[m_cmd.in] = m_cmd.asked
    /\ InFile /\ Settled =>
         IF info.mode = "seq" THEN m_playStack = Ascending(curFile + 1)
         ELSE IsInjective(<<curFile>> \o m_playStack)

(* What OneOwner and JumpsThere rest on.  An input is in the slot with a    *)
(* jump only; a file is played from an input; a jump under way has made    *)
(* one; the arrays of a client are empty when a jump begins.               *)
SlotInv ==
  /\ m_cmd.cmd = "jump" <=> m_cmd.in # NoInput
  /\ InFile => m_streamIn # NoInput
  /\ \A c \in JumpsAhead : m_handlerIn # NoInput
  /\ \A c \in Client : hpc[c] \in {"idle", "join", "update"} \/ info.mode = "seq"
                        => harr[c] = <<>>

(* The handler's new input is nobody else's, and what the handler will put *)
(* into the slot is what was asked for.                                    *)
JumpersOwn ==
  \A c \in JumpsAhead :
    /\ m_handlerIn # m_streamIn /\ m_handlerIn \notin deleted
    /\ hidx[c] = asked[c]
    /\ hcur[c] => asked[c] = curFile
    /\ hpc[c] = "jump" => opened[m_handlerIn] = asked[c]

(* All that is or will be on the play stack are files of the list.         *)
IndexesOnly ==
  /\ m_playStack \in Seq(Index) /\ rest \in Seq(Index)
  /\ wpc = "open" => file \in Index
  /\ \A c \in Client : harr[c] \in Seq(Index) /\ hrest[c] \in Seq(Index)

(* In sequence, the stack is a run of ascending indexes wherever it is     *)
(* filled, and empty of others where a jump has begun to fill it.          *)
Run(i, n) == [k \in 1..n |-> i + k - 1]

WorkerInSequence ==
  /\ wpc = "fill" =>
       \E n \in 0..Files : m_playStack = Run(0, n) /\ rest = Ascending(n)
  /\ wpc \in {"next", "take"} => \E n \in 0..Files : m_playStack = Ascending(n)
  /\ wpc = "open" => m_playStack = Ascending(file + 1)
  /\ InFile /\ Settled => m_playStack = Ascending(curFile + 1)
  /\ m_cmd.cmd = "jump" => m_playStack = Ascending(m_cmd.asked + 1)

InSequence(c) ==
  /\ hpc[c] = "fill" => \E n \in 0..Files - asked[c] :
       /\ m_playStack = Run(asked[c], n)
       /\ hrest[c] = Ascending(asked[c] + n)
  /\ hpc[c] = "pop" => m_playStack = Ascending(asked[c])
  /\ hpc[c] \in {"open", "jump"} => m_playStack = Ascending(asked[c] + 1)

JumpersInSequence == \A c \in JumpsAhead : InSequence(c)

(* In random order, no file is twice on the stack and what a jump still    *)
(* has to push on it; the file jumped to is the first.                     *)
WorkerAtRandom ==
  /\ Settled => IsInjective(m_playStack)
  /\ wpc = "fill" => IsInjective(m_playStack \o rest)
  /\ wpc = "open" => IsInjective(<<file>> \o m_playStack)
  /\ InFile /\ Settled => IsInjective(<<curFile>> \o m_playStack)
  /\ m_cmd.cmd = "jump" => IsInjective(<<m_cmd.asked>> \o m_playStack)

AtRandom(c) ==
  /\ hpc[c] = "update" => IsInjective(m_playStack)
  /\ hpc[c] = "drainPop" => /\ IsInjective(harr[c] \o m_playStack)
                            /\ Len(hrest[c]) = Len(m_playStack)
  /\ hpc[c] \in {"fill", "pop"} =>
       /\ m_playStack # <<>> /\ m_playStack[1] = asked[c]
       /\ IsInjective(m_playStack)
  /\ hpc[c] = "fill" =>
       /\ IsInjective(hrest[c])
       /\ \A j \in DOMAIN hrest[c], k \in DOMAIN m_playStack :
            hrest[c][j] = m_playStack[k] => hrest[c][j] = asked[c]
  /\ hpc[c] \in {"open", "jump"} => IsInjective(<<asked[c]>> \o m_playStack)

JumpersAtRandom == \A c \in JumpsAhead : AtRandom(c)

StackInv ==
  /\ JumpersOwn /\ IndexesOnly
  /\ info.mode = "seq" => WorkerInSequence /\ JumpersInSequence
  /\ info.mode = "random" => WorkerAtRandom /\ JumpersAtRandom

JumpInv ==
  /\ TypeOK /\ SlotInv /\ OneOwner /\ JumpsThere
  /\ ~astray => ~Strays /\ StackInv

(* What PauseNotMissed rests on: the seconds of the pause or reconnection  *)
(* that is under way are those since it began.                             *)
PausesCounted ==
  wpc \notin {"end", "done"} =>
    lost <= m_pauseTime + (IF paused THEN now - start
                           ELSE IF wpc = "retry" THEN now - pauseTick ELSE 0)

(* All the time spent in pauses and reconnections is taken off the time    *)
(* that checkDuration() compares.                                          *)
PauseNotMissed ==
  InFile /\ ~paused /\ wpc # "retry" => m_pauseTime >= lost

(* A stream with a limited duration ends when it has been played that      *)
(* long, pauses and reconnections not counted.                             *)
EndsInTime ==
  (info.cycle = 0 /\ info.duration # 0 /\ now - lost >= info.duration)
    ~> (wpc = "done" \/ paused \/ m_pauseTime > lost \/ astray \/ fault # "none")

(* stop() returns (baseStream.h:32-34): the worker it joins ends.          *)
StopReturns ==
  \A c \in Client : hpc[c] = "join" ~> (hpc[c] = "idle" \/ fault # "none")
=============================================================================
