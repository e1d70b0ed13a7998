----------------------- MODULE FileStreamWorker_proofs -----------------------
(* Theorems about FileStreamWorker, for any list of files, any number of   *)
(* clients and jumps and any length of time: types, that pauses and        *)
(* reconnections are taken off the duration, that a jump, in sequence and  *)
(* in random order, goes where the client asked, with an input of its own; *)
(* and about FileConvert, for any files, conversions and packets: that     *)
(* what is played, in whatever order, is heard.                            *)
EXTENDS FileConvert, FiniteSetTheorems, SequenceTheorems,
        WellFoundedInduction, TLAPS

(* The bounds are numbers, and the list has a file.                        *)
LEMMA Bounds ==
  /\ Files \in Nat /\ Files >= 1 /\ Inputs \in Nat /\ Inputs > 3
  /\ Reconnects \in Nat /\ MaxJumps \in Nat /\ MaxCycle \in Nat
  /\ MaxTime \in Nat /\ JumpTo \subseteq Int
BY FileStreamWorkerAssumption

(* A new StreamInImp is none of the objects that are referred to.          *)
LEMMA FreshIsNew ==
  Fresh \in Input /\ Fresh \notin {m_streamIn, m_cmd.in, m_handlerIn}
<1>1. \E n \in Input : n \notin {m_streamIn, m_cmd.in, m_handlerIn}
  <2> SUFFICES ASSUME \A n \in Input :
                        n = m_streamIn \/ n = m_cmd.in \/ n = m_handlerIn
               PROVE  FALSE
    OBVIOUS
  <2>1. 1 \in Input /\ 2 \in Input /\ 3 \in Input /\ 4 \in Input
    BY Bounds DEF Input
  <2> QED
    BY <2>1
<1> QED
  BY <1>1 DEF Fresh

(* createPlayStack fills the stack with indexes of files of the list, each *)
(* once.                                                                   *)
LEMMA RandomOrders ==
  ASSUME NEW r \in SetToSeqs(Index)
  PROVE  r \in Seq(Index) /\ IsInjective(r)
<1>1. Cardinality(Index) \in Nat
  <2>1. Files - 1 \in Int /\ 0 \in Int
    BY Bounds
  <2>2. Cardinality(Index) = IF 0 > Files - 1 THEN 0 ELSE Files - 1 - 0 + 1
    BY <2>1, FS_Interval DEF Index
  <2> QED
    BY <2>2, Bounds
<1>2. r \in [1..Cardinality(Index) -> Index]
  BY DEF SetToSeqs
<1>3. r \in Seq(Index)
  BY <1>1, <1>2
<1>4. \A i, j \in DOMAIN r : i # j => r[i] # r[j]
  BY DEF SetToSeqs
<1> QED
  BY <1>3, <1>4 DEF IsInjective

(* The files from an index on are files of the list.                       *)
LEMMA AscendingType == \A i \in Nat : Ascending(i) \in Seq(Index)
<1> SUFFICES ASSUME NEW i \in Nat PROVE Ascending(i) \in Seq(Index)
  OBVIOUS
<1>1. CASE i <= Files
  <2>1. Ascending(i) \in [1..Files - i -> Index]
    BY <1>1, Bounds DEF Ascending, Index
  <2>2. Files - i \in Nat
    BY <1>1, Bounds
  <2> QED
    BY <2>1, <2>2
<1>2. CASE i > Files
  <2>1. 1..Files - i = 1..0
    BY <1>2, Bounds
  <2>2. Ascending(i) \in [1..0 -> Index]
    BY <2>1 DEF Ascending
  <2> QED
    BY <2>2
<1> QED
  BY <1>1, <1>2, Bounds

(* Indexes are numbers, and so are the lists of them.                      *)
LEMMA IndexType ==
  /\ Index \subseteq Int /\ 0 \in Index /\ Index \cup JumpTo \subseteq Int
  /\ \A s \in Seq(Index) : s \in Seq(Int)
<1>1. Index \subseteq Int /\ 0 \in Index /\ Index \cup JumpTo \subseteq Int
  BY Bounds DEF Index
<1>2. ASSUME NEW s \in Seq(Index) PROVE s \in Seq(Int)
  <2>1. Len(s) \in Nat /\ s \in [1..Len(s) -> Index]
    OBVIOUS
  <2>2. s \in [1..Len(s) -> Int]
    BY <1>1, <2>1
  <2> QED
    BY <2>1, <2>2
<1> QED
  BY <1>1, <1>2

(* The first and the others of a list of numbers, and one more of them.    *)
LEMMA ListType ==
  ASSUME NEW s \in Seq(Int)
  PROVE  /\ s # <<>> => Head(s) \in Int /\ Tail(s) \in Seq(Int)
         /\ \A x \in Int : Append(s, x) \in Seq(Int)
OBVIOUS

(* A pause or a reconnection has not begun in the future.                  *)
LEMMA CountType ==
  ASSUME TypeOK
  PROVE  /\ m_pauseTime + now - start \in Nat
         /\ m_pauseTime + now - pauseTick \in Nat
         /\ 0 \in 0..now /\ now \in 0..now
BY Bounds DEF TypeOK, StreamOK, WorkerOK

(* One client's part of what is kept for each.                             *)
LEMMA ClientType ==
  \A S : \A f \in [Client -> S], c \in Client, x \in S :
    [f EXCEPT ![c] = x] \in [Client -> S]
OBVIOUS

(* The worker's steps keep the types.                                      *)
LEMMA WorkerTypes == ASSUME TypeOK, WorkerStep PROVE TypeOK'
<1> USE Bounds, IndexType DEF TypeOK, StreamOK, WorkerOK, CmdType, WGoto,
        shared, stream, worker, inputs
<1>1. /\ ClientsOK' /\ now' \in 0..MaxTime /\ lost' \in Nat
      /\ astray' \in BOOLEAN
  BY DEF WorkerStep, ClientsOK, clients, History
<1>2. fault' \in {"none", "range", "noOutput", "deletedInput"}
  BY DEF WorkerStep, WFault
<1>3. now' = now
  BY DEF WorkerStep
<1>4. CASE WInit
  <2>1. StreamOK'
    BY <1>3, <1>4 DEF WInit
  <2>2. WorkerOK'
    BY <1>3, <1>4 DEF WInit
  <2>3. deleted' \in SUBSET Input /\ opened' \in [Input -> Index]
    BY <1>3, <1>4 DEF WInit
  <2> QED
    BY <1>1, <1>2, <1>3, <2>1, <2>2, <2>3
<1>5. CASE WCycle
  BY <1>1, <1>2, <1>3, <1>5 DEF WCycle
<1>6. CASE WDrain
  <2>1. StreamOK'
    BY <1>3, <1>6 DEF WDrain
  <2>2. rest' \in Seq(Int) \/ rest' = rest
    BY <1>3, <1>6, AscendingType, RandomOrders DEF WDrain
  <2>3. WorkerOK'
    BY <1>3, <1>6, <2>2 DEF WDrain
  <2>4. deleted' \in SUBSET Input /\ opened' \in [Input -> Index]
    BY <1>3, <1>6 DEF WDrain
  <2> QED
    BY <1>1, <1>2, <1>3, <2>1, <2>2, <2>3, <2>4
<1>7. CASE WDrainPop
  BY <1>1, <1>2, <1>3, <1>7 DEF WDrainPop, Shift
<1>8. CASE WFill
  <2>1. m_playStack' \in Seq(Int) /\ rest' \in Seq(Int)
    BY <1>3, <1>8, ListType DEF WFill
  <2>2. StreamOK'
    BY <1>3, <1>8, <2>1 DEF WFill
  <2>3. WorkerOK'
    BY <1>3, <1>8, <2>1 DEF WFill
  <2>4. deleted' \in SUBSET Input /\ opened' \in [Input -> Index]
    BY <1>3, <1>8 DEF WFill
  <2> QED
    BY <1>1, <1>2, <1>3, <2>1, <2>2, <2>3, <2>4
<1>9. CASE WNext
  BY <1>1, <1>2, <1>3, <1>9 DEF WNext
<1>10. CASE WTake
  BY <1>1, <1>2, <1>3, <1>10 DEF WTake, Shift
<1>11. CASE WOpen
  BY <1>1, <1>2, <1>3, <1>11, FreshIsNew DEF WOpen, Delete
<1>12. CASE WLoop
  BY <1>1, <1>2, <1>3, <1>12 DEF WLoop
<1>13. CASE WPauseLoop
  <2>1. m_pauseTime' \in Nat /\ start' \in 0..now' /\ pauseTick' \in 0..now'
    BY <1>3, <1>13, CountType DEF WPauseLoop, Unpause
  <2>2. StreamOK'
    BY <1>3, <1>13, <2>1 DEF WPauseLoop, Unpause
  <2>3. WorkerOK'
    BY <1>3, <1>13, <2>1 DEF WPauseLoop, Unpause
  <2>4. deleted' \in SUBSET Input /\ opened' \in [Input -> Index]
    BY <1>3, <1>13 DEF WPauseLoop, Unpause
  <2> QED
    BY <1>1, <1>2, <1>3, <2>1, <2>2, <2>3, <2>4
<1>14. CASE WCmd
  <2>1. m_pauseTime' \in Nat /\ start' \in 0..now' /\ pauseTick' \in 0..now'
    BY <1>3, <1>14, CountType DEF WCmd, GetCmd, TakeInput, Delete, NoCmd
  <2>2. StreamOK'
    BY <1>3, <1>14, <2>1 DEF WCmd, GetCmd, TakeInput, Delete, NoCmd
  <2>3. WorkerOK'
    BY <1>3, <1>14, <2>1 DEF WCmd, GetCmd, TakeInput, Delete, NoCmd
  <2>4. deleted' \in SUBSET Input /\ opened' \in [Input -> Index]
    BY <1>3, <1>14 DEF WCmd, GetCmd, TakeInput, Delete, NoCmd
  <2> QED
    BY <1>1, <1>2, <1>3, <2>1, <2>2, <2>3, <2>4
<1>15. CASE WPauseCmd
  <2>1. m_pauseTime' \in Nat /\ start' \in 0..now' /\ pauseTick' \in 0..now'
    BY <1>3, <1>15, CountType DEF WPauseCmd, GetCmd, TakeInput, Delete, NoCmd,
           Unpause
  <2>2. /\ m_cmd' = NoCmd
        /\ UNCHANGED <<info, m_stop, m_playStack, m_cycle, m_streamOut>>
    BY <1>3, <1>15 DEF WPauseCmd, GetCmd, TakeInput, Delete, NoCmd,
           Unpause
  <2>3. curFile' \in Index /\ m_streamIn' \in Input \cup {NoInput}
    BY <1>3, <1>15 DEF WPauseCmd, GetCmd, TakeInput, Delete, NoCmd,
           Unpause
  <2>4. status' \in {"running", "pause", "stopped"}
    BY <1>3, <1>15 DEF WPauseCmd, GetCmd, TakeInput, Delete, NoCmd,
           Unpause
  <2>5. m_cmd' \in CmdType /\ m_cmd'.cmd # "jump"
    BY <1>3, <1>15, <2>2 DEF WPauseCmd, GetCmd, TakeInput, Delete, NoCmd,
           Unpause
  <2>6. StreamOK'
    BY <2>1, <2>2, <2>3, <2>4, <2>5
  <2>7. WorkerOK'
    BY <1>3, <1>15, <2>1 DEF WPauseCmd, GetCmd, TakeInput, Delete, NoCmd,
           Unpause
  <2>8. deleted' \in SUBSET Input /\ opened' \in [Input -> Index]
    BY <1>3, <1>15 DEF WPauseCmd, GetCmd, TakeInput, Delete, NoCmd,
           Unpause
  <2> QED
    BY <1>1, <1>2, <1>3, <2>1, <2>2, <2>3, <2>4, <2>5, <2>6, <2>7, <2>8
<1>16. CASE WRead
  BY <1>1, <1>2, <1>3, <1>16 DEF WRead
<1>17. CASE WPush
  BY <1>1, <1>2, <1>3, <1>17 DEF WPush
<1>18. CASE WRetry
  <2>1. m_pauseTime' \in Nat /\ start' \in 0..now' /\ pauseTick' \in 0..now'
    BY <1>3, <1>18, CountType DEF WRetry
  <2>2. StreamOK'
    BY <1>3, <1>18, <2>1 DEF WRetry
  <2>3. WorkerOK'
    BY <1>3, <1>18, <2>1 DEF WRetry
  <2>4. deleted' \in SUBSET Input /\ opened' \in [Input -> Index]
    BY <1>3, <1>18 DEF WRetry
  <2> QED
    BY <1>1, <1>2, <1>3, <2>1, <2>2, <2>3, <2>4
<1>19. CASE WGiveUp
  <2>1. m_pauseTime' \in Nat /\ start' \in 0..now' /\ pauseTick' \in 0..now'
    BY <1>3, <1>19, CountType DEF WGiveUp, Unpause
  <2>2. StreamOK'
    BY <1>3, <1>19, <2>1 DEF WGiveUp, Unpause
  <2>3. wpc' \in {"loop", "read", "end"} /\ paused' \in BOOLEAN
    BY <1>3, <1>19 DEF WGiveUp, Unpause
  <2>4. retry' = 0 /\ UNCHANGED <<rest, file>>
    BY <1>3, <1>19 DEF WGiveUp, Unpause
  <2>5. WorkerOK'
    BY <2>1, <2>3, <2>4
  <2>6. deleted' \in SUBSET Input /\ opened' \in [Input -> Index]
    BY <1>3, <1>19 DEF WGiveUp, Unpause
  <2> QED
    BY <1>1, <1>2, <1>3, <2>1, <2>2, <2>3, <2>4, <2>5, <2>6
<1>20. CASE WEnd
  BY <1>1, <1>2, <1>3, <1>20 DEF WEnd, Delete
<1>21. CASE WFault
  BY <1>1, <1>2, <1>3, <1>21 DEF WFault
<1> QED
  BY <1>4, <1>5, <1>6, <1>7, <1>8, <1>9, <1>10, <1>11, <1>12, <1>13, <1>14,
     <1>15, <1>16, <1>17, <1>18, <1>19, <1>20, <1>21
     DEF WorkerStep, Worker

(* The handlers' steps keep the types.                                     *)
LEMMA HandlerTypes ==
  ASSUME TypeOK, NEW c \in Client, HandlerStep(c) PROVE TypeOK'
<1> USE Bounds, IndexType DEF TypeOK, StreamOK, ClientsOK, CmdType, HGoto,
        shared, stream, clients, inputs
<1>1. /\ WorkerOK' /\ now' \in 0..MaxTime /\ lost' \in Nat
      /\ astray' \in BOOLEAN
  BY DEF HandlerStep, WorkerOK, worker, History
<1>2. fault' \in {"none", "range", "noOutput", "deletedInput"}
  BY DEF HandlerStep, JumpFault
<1>3. UNCHANGED stream
  BY DEF HandlerStep
<1>4. CASE Join(c)
  BY <1>1, <1>2, <1>3, <1>4 DEF Join
<1>5. CASE JumpDrain(c)
  <2>1. StreamOK'
    BY <1>3, <1>5 DEF JumpDrain
  <2>2. hidx[c] \in Index => Ascending(hidx[c]) \in Seq(Int)
    BY AscendingType DEF Index
  <2>3. hrest' \in [Client -> Seq(Int)]
    <3>1. <<>> \in Seq(Int)
      OBVIOUS
    <3>2. \/ hrest' = hrest
          \/ hrest' = [hrest EXCEPT ![c] =
                         IF hidx[c] \in Index THEN Ascending(hidx[c]) ELSE <<>>]
      BY <1>5 DEF JumpDrain
    <3>3. CASE hrest' = hrest
      BY <3>3
    <3>4. CASE hrest' = [hrest EXCEPT ![c] =
                    IF hidx[c] \in Index THEN Ascending(hidx[c]) ELSE <<>>]
      BY <2>2, <3>1, <3>4, ClientType
    <3> QED
      BY <3>2, <3>3, <3>4
  <2>4. ClientsOK'
    BY <1>3, <1>5, <2>3 DEF JumpDrain
  <2>5. deleted' \in SUBSET Input /\ opened' \in [Input -> Index]
    BY <1>3, <1>5 DEF JumpDrain
  <2> QED
    BY <1>1, <1>2, <1>3, <2>1, <2>2, <2>3, <2>4, <2>5
<1>6. CASE JumpCount(c)
  BY <1>1, <1>2, <1>3, <1>6 DEF JumpCount
<1>7. CASE JumpPop(c)
  <2>1. /\ m_playStack' \in Seq(Int) /\ harr' \in [Client -> Seq(Int)]
       /\ hrest' \in [Client -> Seq(Int)]
    <3>1. CASE Shift /\ UNCHANGED <<harr, hrest>>
      BY <3>1, ListType DEF Shift
    <3>2. CASE /\ hrest[c] # <<>> /\ Shift
               /\ harr' = [harr EXCEPT ![c] = Append(@, Head(m_playStack))]
               /\ hrest' = [hrest EXCEPT ![c] = Tail(@)]
      <4>1. m_playStack \in Seq(Int) /\ harr[c] \in Seq(Int)
            /\ hrest[c] \in Seq(Int)
        OBVIOUS
      <4>2. Head(m_playStack) \in Int /\ m_playStack' \in Seq(Int)
        BY <3>2, <4>1, ListType DEF Shift
      <4>3. Append(harr[c], Head(m_playStack)) \in Seq(Int)
            /\ Tail(hrest[c]) \in Seq(Int)
        BY <3>2, <4>1, <4>2, ListType
      <4> QED
        BY <3>2, <4>2, <4>3, ClientType
    <3>3. CASE /\ m_playStack' = Append(m_playStack, hidx[c])
               /\ hrest' = [hrest EXCEPT ![c] = harr[c]] /\ UNCHANGED harr
      <4>1. m_playStack \in Seq(Int) /\ hidx[c] \in Int /\ harr[c] \in Seq(Int)
        OBVIOUS
      <4>2. m_playStack' \in Seq(Int)
        BY <3>3, <4>1, ListType
      <4> QED
        BY <3>3, <4>1, <4>2, ClientType
    <3> QED
      BY <1>7, <3>1, <3>2, <3>3 DEF JumpPop
  <2>2. StreamOK'
    BY <1>3, <1>7, <2>1 DEF JumpPop, Shift
  <2>3. ClientsOK'
    BY <1>3, <1>7, <2>1 DEF JumpPop, Shift
  <2>4. deleted' \in SUBSET Input /\ opened' \in [Input -> Index]
    BY <1>3, <1>7 DEF JumpPop, Shift
  <2> QED
    BY <1>1, <1>2, <1>3, <2>1, <2>2, <2>3, <2>4
<1>8. CASE JumpFill(c)
  <2>1. m_playStack' \in Seq(Int) /\ hrest' \in [Client -> Seq(Int)]
    <3>1. m_playStack \in Seq(Int) /\ hrest[c] \in Seq(Int)
      OBVIOUS
    <3>2. CASE hrest[c] # <<>>
      <4>1. Head(hrest[c]) \in Int /\ Tail(hrest[c]) \in Seq(Int)
        BY <3>1, <3>2, ListType
      <4>2. Append(m_playStack, Head(hrest[c])) \in Seq(Int)
        BY <3>1, <4>1, ListType
      <4>3. hrest' = [hrest EXCEPT ![c] = Tail(hrest[c])]
        BY <1>8, <3>2 DEF JumpFill
      <4>4. m_playStack' \in {m_playStack, Append(m_playStack, Head(hrest[c]))}
        BY <1>8, <3>2 DEF JumpFill
      <4> QED
        BY <3>1, <4>1, <4>2, <4>3, <4>4, ClientType
    <3>3. CASE hrest[c] = <<>>
      BY <1>8, <3>1, <3>3 DEF JumpFill
    <3> QED
      BY <3>2, <3>3
  <2>2. StreamOK'
    BY <1>3, <1>8, <2>1 DEF JumpFill
  <2>3. ClientsOK'
    BY <1>3, <1>8, <2>1 DEF JumpFill
  <2>4. deleted' \in SUBSET Input /\ opened' \in [Input -> Index]
    BY <1>3, <1>8 DEF JumpFill
  <2> QED
    BY <1>1, <1>2, <1>3, <2>1, <2>2, <2>3, <2>4
<1>9. CASE JumpTake(c)
  BY <1>1, <1>2, <1>3, <1>9 DEF JumpTake, Shift
<1>10. CASE JumpOpen(c)
  <2>1. StreamOK'
    BY <1>3, <1>10 DEF JumpOpen, Respond
  <2>2. harr' \in [Client -> Seq(Int)] /\ hrest' \in [Client -> Seq(Int)]
    <3>1. <<>> \in Seq(Int)
      OBVIOUS
    <3>2. \/ UNCHANGED <<harr, hrest>>
          \/ /\ harr' = [harr EXCEPT ![c] = <<>>]
             /\ hrest' = [hrest EXCEPT ![c] = <<>>]
      BY <1>10 DEF JumpOpen, Respond
    <3>3. harr \in [Client -> Seq(Int)] /\ hrest \in [Client -> Seq(Int)]
      OBVIOUS
    <3>4. /\ [harr EXCEPT ![c] = <<>>] \in [Client -> Seq(Int)]
          /\ [hrest EXCEPT ![c] = <<>>] \in [Client -> Seq(Int)]
      BY <3>1, <3>3, ClientType, Zenon
    <3> QED
      BY <3>2, <3>3, <3>4
  <2>3. asked' \in [Client -> Index \cup JumpTo] /\ hidx' \in [Client -> Int]
    <3>1. \/ UNCHANGED <<asked, hidx>>
          \/ /\ asked' = [asked EXCEPT ![c] = 0]
             /\ hidx' = [hidx EXCEPT ![c] = 0]
      BY <1>10 DEF JumpOpen, Respond
    <3>2. 0 \in Index \cup JumpTo /\ 0 \in Int
      BY IndexType
    <3>3. /\ [asked EXCEPT ![c] = 0] \in [Client -> Index \cup JumpTo]
          /\ [hidx EXCEPT ![c] = 0] \in [Client -> Int]
      BY <3>2, ClientType
    <3> QED
      BY <3>1, <3>3
  <2>4. \A d \in Client : hpc'[d] = "jump" => hidx'[d] \in Index
    BY <1>3, <1>10 DEF JumpOpen, Respond
  <2>5. ClientsOK'
    BY <1>3, <1>10, <2>2, <2>3, <2>4 DEF JumpOpen, Respond
  <2>6. deleted' \in SUBSET Input /\ opened' \in [Input -> Index]
    BY <1>3, <1>10 DEF JumpOpen, Respond
  <2> QED
    BY <1>1, <1>2, <1>3, <2>1, <2>2, <2>3, <2>4, <2>5, <2>6
<1>11. CASE JumpSet(c)
  BY <1>1, <1>2, <1>3, <1>11 DEF JumpSet, Respond
<1>12. CASE JumpFault(c)
  BY <1>1, <1>2, <1>3, <1>12 DEF JumpFault
<1> QED
  BY <1>4, <1>5, <1>6, <1>7, <1>8, <1>9, <1>10, <1>11, <1>12
     DEF HandlerStep, Handler

(* A request keeps the types: an index may be any the client sends.        *)
LEMMA RequestTypes ==
  ASSUME TypeOK, NEW c \in Client, RequestStep(c) PROVE TypeOK'
<1> USE Bounds, IndexType DEF TypeOK, StreamOK, ClientsOK, CmdType, HGoto,
        shared, stream, clients, inputs
<1>1. /\ WorkerOK' /\ now' \in 0..MaxTime /\ lost' \in Nat
      /\ astray' \in BOOLEAN
  BY DEF RequestStep, WorkerOK, worker, History
<1>2. fault' \in {"none", "range", "noOutput", "deletedInput"}
  BY DEF RequestStep
<1>3. UNCHANGED stream
  BY DEF RequestStep
<1>4. CASE Pause(c)
  BY <1>1, <1>2, <1>3, <1>4 DEF Pause, SetCmd, NoCmd
<1>5. CASE Resume(c)
  BY <1>1, <1>2, <1>3, <1>5 DEF Resume, SetCmd, NoCmd
<1>6. CASE Stop(c)
  <2>1. hpc' \in [Client -> {"idle", "update", "drainPop", "fill", "pop",
                             "open", "jump", "join"}]
    BY <1>6 DEF Stop
  <2>2. \A d \in Client : hpc'[d] = "jump" => hidx'[d] \in Index
    BY <1>6 DEF Stop
  <2> QED
    BY <1>1, <1>2, <1>3, <1>6, <2>1, <2>2 DEF Stop
<1>7. ASSUME NEW i \in JumpTo \cup {Current}, Jump(c, i)
      PROVE  TypeOK'
  <2> DEFINE x == IF i = Current THEN curFile ELSE i
  <2>1. x \in Index \cup JumpTo /\ x \in Int
    OBVIOUS
  <2>2. /\ hidx' = [hidx EXCEPT ![c] = x] /\ asked' = [asked EXCEPT ![c] = x]
        /\ hcur' = [hcur EXCEPT ![c] = (i = Current)]
        /\ hpc' = [hpc EXCEPT ![c] = "update"] /\ jumps' = jumps + 1
        /\ jumps < MaxJumps /\ m_handlerIn' = Fresh
        /\ deleted' = deleted \ {Fresh}
        /\ UNCHANGED <<shared, harr, hrest, opened>>
    BY <1>7 DEF Jump, NewInput
  <2> HIDE DEF x
  <2>3. asked' \in [Client -> Index \cup JumpTo] /\ hidx' \in [Client -> Int]
    BY <2>1, <2>2, ClientType
  <2>4. hcur' \in [Client -> BOOLEAN]
    <3>1. (i = Current) \in BOOLEAN
      OBVIOUS
    <3> QED
      BY <2>2, <3>1, ClientType
  <2>5. ClientsOK'
    BY <2>2, <2>3, <2>4, FreshIsNew
  <2> QED
    BY <1>1, <1>2, <1>3, <2>2, <2>5
<1> QED
  BY <1>4, <1>5, <1>6, <1>7 DEF RequestStep, Request

(* Every step of the worker and of the clients keeps the types, and so     *)
(* does the passing of a second.                                           *)
LEMMA NextTypes == ASSUME TypeOK, [Next]_vars PROVE TypeOK'
<1>1. CASE Tick
  <2> USE <1>1, Bounds DEF Tick, TypeOK
  <2>1. StreamOK'
    BY DEF StreamOK, CmdType, shared, stream
  <2>2. WorkerOK'
    BY DEF WorkerOK, worker
  <2>3. ClientsOK'
    BY DEF ClientsOK, clients
  <2> QED
    BY <2>1, <2>2, <2>3 DEF inputs
<1>2. CASE UNCHANGED vars
  <2> USE <1>2 DEF vars, TypeOK
  <2>1. StreamOK'
    BY DEF StreamOK, CmdType, shared, stream
  <2>2. WorkerOK'
    BY DEF WorkerOK, worker
  <2>3. ClientsOK'
    BY DEF ClientsOK, clients
  <2> QED
    BY <2>1, <2>2, <2>3 DEF inputs
<1> QED
  BY <1>1, <1>2, WorkerTypes, HandlerTypes, RequestTypes DEF Next

(* The stream starts with an empty stack and command slot.                 *)
LEMMA InitTypes == Init => TypeOK
<1> SUFFICES ASSUME Init PROVE TypeOK
  OBVIOUS
<1> USE Bounds, IndexType DEF Init
<1>0. <<>> \in Seq(Int)
  OBVIOUS
<1>1. StreamOK
  <2>1. m_cmd \in CmdType /\ m_cmd.cmd # "jump"
    BY DEF CmdType, NoCmd
  <2>2. m_playStack \in Seq(Int)
    BY <1>0
  <2>3. m_cycle \in 0..MaxCycle /\ m_pauseTime \in Nat /\ curFile \in Index
    OBVIOUS
  <2> QED
    BY <2>1, <2>2, <2>3 DEF StreamOK
<1>2. WorkerOK
  <2>1. rest \in Seq(Int) /\ file \in Int
    BY <1>0
  <2>2. retry \in 0..Reconnects /\ start \in 0..now /\ pauseTick \in 0..now
    OBVIOUS
  <2> QED
    BY <2>1, <2>2 DEF WorkerOK
<1>3. ClientsOK
  BY <1>0 DEF ClientsOK
<1>4. deleted \in SUBSET Input /\ opened \in [Input -> Index]
  OBVIOUS
<1>5. now \in 0..MaxTime /\ lost \in Nat /\ fault = "none" /\ astray = FALSE
  OBVIOUS
<1> HIDE DEF Init
<1> QED
  BY <1>1, <1>2, <1>3, <1>4, <1>5 DEF TypeOK

(* Type correctness: above all, the input and the index that doCmd() takes *)
(* from a jump command are an input and a file of the list, and no pause   *)
(* began in the future, whatever the clients ask for.                      *)
THEOREM TypesCorrect == Spec => []TypeOK
<1>1. Init => TypeOK
  BY InitTypes
<1>2. TypeOK /\ [Next]_vars => TypeOK'
  BY NextTypes
<1> QED
  BY <1>1, <1>2, PTL DEF Spec

(* The seconds lost are those that m_pauseTime has or will have counted.   *)
LEMMA StepsCount ==
  ASSUME TypeOK, PausesCounted, [Next]_vars PROVE PausesCounted'
<1> USE Bounds DEF TypeOK, StreamOK, WorkerOK, PausesCounted, WGoto, worker,
        stream
<1>1. CASE Tick
  BY <1>1 DEF Tick
<1>2. CASE UNCHANGED vars
  BY <1>2 DEF vars
<1>3. CASE \E c \in Client : HandlerStep(c) \/ RequestStep(c)
  BY <1>3 DEF HandlerStep, RequestStep
<1>4. CASE WorkerStep
  <2>1. lost' = lost /\ now' = now
    BY <1>4 DEF WorkerStep
  <2>2. CASE WInit
    BY <2>1, <2>2 DEF WInit
  <2>3. CASE WCycle
    BY <2>1, <2>3 DEF WCycle
  <2>4. CASE WDrain
    BY <2>1, <2>4 DEF WDrain
  <2>5. CASE WDrainPop
    BY <2>1, <2>5 DEF WDrainPop
  <2>6. CASE WFill
    BY <2>1, <2>6 DEF WFill
  <2>7. CASE WNext
    BY <2>1, <2>7 DEF WNext
  <2>8. CASE WTake
    BY <2>1, <2>8 DEF WTake
  <2>9. CASE WOpen
    BY <2>1, <2>9 DEF WOpen
  <2>10. CASE WLoop
    BY <2>1, <2>10 DEF WLoop
  <2>11. CASE WPauseLoop
    <3>1. CASE Unpause
      BY <2>1, <2>11, <3>1 DEF WPauseLoop, Unpause
    <3>2. CASE UNCHANGED <<paused, m_pauseTime, start>> /\ wpc' = "cmd"
      BY <2>1, <2>11, <3>2 DEF WPauseLoop
    <3> QED
      BY <2>11, <3>1, <3>2 DEF WPauseLoop
  <2>12. CASE WCmd
    BY <2>1, <2>12 DEF WCmd, GetCmd
  <2>13. CASE WPauseCmd
    <3>0. wpc = "cmd" /\ paused
      BY <2>13 DEF WPauseCmd, GetCmd
    <3>1. CASE Unpause
      BY <2>1, <3>0, <3>1 DEF Unpause
    <3>2. CASE /\ UNCHANGED <<paused, m_pauseTime, start>>
               /\ wpc' \in {"loop", "push"}
      BY <2>1, <3>0, <3>2
    <3> QED
      BY <2>13, <3>1, <3>2 DEF WPauseCmd
  <2>14. CASE WRead
    BY <2>1, <2>14 DEF WRead
  <2>15. CASE WPush
    BY <2>1, <2>15 DEF WPush
  <2>16. CASE WRetry
    BY <2>1, <2>16 DEF WRetry
  <2>17. CASE WGiveUp
    BY <2>1, <2>17 DEF WGiveUp, Unpause
  <2>18. CASE WEnd
    BY <2>1, <2>18 DEF WEnd
  <2>19. CASE WFault
    BY <2>1, <2>19 DEF WFault
  <2> QED
    BY <1>4, <2>2, <2>3, <2>4, <2>5, <2>6, <2>7, <2>8, <2>9, <2>10, <2>11,
       <2>12, <2>13, <2>14, <2>15, <2>16, <2>17, <2>18, <2>19
       DEF WorkerStep, Worker
<1> QED
  BY <1>1, <1>2, <1>3, <1>4 DEF Next

(* PauseNotMissed: whatever the order of pauses, resumes, jumps, failed    *)
(* writes and reconnections, checkDuration() never counts a second in      *)
(* which the stream did not play.                                          *)
THEOREM PausesAreCounted == Spec => []PauseNotMissed
<1>1. Init => TypeOK /\ PausesCounted
  BY InitTypes DEF Init, PausesCounted
<1>2. TypeOK /\ PausesCounted /\ [Next]_vars => (TypeOK /\ PausesCounted)'
  BY NextTypes, StepsCount
<1>3. TypeOK /\ PausesCounted => PauseNotMissed
  BY DEF PausesCounted, PauseNotMissed, InFile, TypeOK, StreamOK
<1> QED
  BY <1>1, <1>2, <1>3, PTL DEF Spec

-----------------------------------------------------------------------------
(* Lists of files.                                                         *)

(* Indexes in ascending order, taken one by one from one list to another.  *)
LEMMA RunGrows ==
  ASSUME NEW i \in Nat, NEW n \in Nat
  PROVE  /\ Run(i, 0) = <<>>
         /\ i + n = Files => Run(i, n) = Ascending(i)
         /\ i + n <= Files => (Ascending(i + n) = <<>> <=> i + n = Files)
         /\ i + n < Files =>
              /\ Head(Ascending(i + n)) = i + n
              /\ Tail(Ascending(i + n)) = Ascending(i + n + 1)
              /\ Append(Run(i, n), i + n) = Run(i, n + 1)
<1> USE Bounds
<1>1. Run(i, 0) = <<>>
  BY DEF Run
<1>2. i + n = Files => Run(i, n) = Ascending(i)
  BY DEF Run, Ascending
<1>3. ASSUME i + n = Files PROVE Ascending(i + n) = <<>>
  BY <1>3 DEF Ascending
<1>4. ASSUME i + n < Files
      PROVE  /\ Ascending(i + n) # <<>>
             /\ Head(Ascending(i + n)) = i + n
             /\ Tail(Ascending(i + n)) = Ascending(i + n + 1)
             /\ Append(Run(i, n), i + n) = Run(i, n + 1)
  <2> DEFINE a == Ascending(i + n)
             b == Ascending(i + n + 1)
  <2>1. a \in Seq(Nat) /\ Len(a) = Files - (i + n) /\ Len(a) >= 1
        /\ \A k \in 1..Len(a) : a[k] = i + n + k - 1
    BY <1>4 DEF Ascending
  <2>2. b \in Seq(Nat) /\ Len(b) = Files - (i + n + 1)
        /\ \A k \in 1..Len(b) : b[k] = i + n + k
    BY <1>4 DEF Ascending
  <2>3. a # <<>> /\ Head(a) = i + n
    BY <2>1
  <2>4. Tail(a) = b
    <3>1. /\ Tail(a) \in Seq(Nat) /\ Len(Tail(a)) = Len(a) - 1
          /\ \A k \in 1..Len(Tail(a)) : Tail(a)[k] = a[k + 1]
      BY <2>1, <2>3, HeadTailProperties
    <3>2. Len(Tail(a)) = Len(b)
      BY <2>1, <2>2, <3>1
    <3>3. \A k \in 1..Len(Tail(a)) : Tail(a)[k] = b[k]
      BY <2>1, <2>2, <3>1, <3>2
    <3> HIDE DEF a, b
    <3> QED
      BY <2>2, <3>1, <3>2, <3>3, SeqEqual
  <2>5. Append(Run(i, n), i + n) = Run(i, n + 1)
    BY DEF Run
  <2> QED
    BY <2>3, <2>4, <2>5
<1> QED
  BY <1>1, <1>2, <1>3, <1>4

(* A file popped from a list and pushed on another is on one of the two.   *)
LEMMA Moved ==
  ASSUME NEW s \in Seq(Index), NEW t \in Seq(Index), t # <<>>
  PROVE  /\ Head(t) \in Index /\ Tail(t) \in Seq(Index)
         /\ Append(s, Head(t)) \in Seq(Index)
         /\ Append(s, Head(t)) \o Tail(t) = s \o t
         /\ <<Head(t)>> \o Tail(t) = t
<1>1. /\ Head(t) \in Index /\ Tail(t) \in Seq(Index)
      /\ Append(s, Head(t)) \in Seq(Index)
      /\ Append(s, Head(t)) = s \o <<Head(t)>>
  BY HeadTailProperties, AppendIsConcat, AppendProperties
<1>2. <<Head(t)>> \in Seq(Index) /\ Len(<<Head(t)>>) = 1
  BY <1>1
<1>3. <<Head(t)>> \o Tail(t) = t
  <2> DEFINE u == <<Head(t)>> \o Tail(t)
  <2>1. /\ u \in Seq(Index) /\ Len(u) = Len(t)
        /\ \A k \in 1..Len(u) : u[k] = t[k]
    BY <1>1
  <2> HIDE DEF u
  <2> QED
    BY <2>1, SeqEqual
<1>4. (s \o <<Head(t)>>) \o Tail(t) = s \o (<<Head(t)>> \o Tail(t))
  BY <1>1, <1>2, ConcatAssociative
<1> QED
  BY <1>1, <1>3, <1>4

(* No file is twice in a part of a list in which none is.                  *)
LEMMA Parts ==
  ASSUME NEW s \in Seq(Index), NEW t \in Seq(Index), IsInjective(s \o t)
  PROVE  IsInjective(s) /\ IsInjective(t)
<1>1. /\ s \o t \in Seq(Index) /\ Len(s \o t) = Len(s) + Len(t)
      /\ \A k \in 1..Len(s) : (s \o t)[k] = s[k]
      /\ \A k \in 1..Len(t) : (s \o t)[Len(s) + k] = t[k]
  OBVIOUS
<1>2. /\ DOMAIN s = 1..Len(s) /\ DOMAIN t = 1..Len(t)
      /\ DOMAIN (s \o t) = 1..Len(s \o t) /\ Len(s) \in Nat /\ Len(t) \in Nat
  BY <1>1
<1>3. IsInjective(s)
  BY <1>1, <1>2 DEF IsInjective
<1>4. ASSUME NEW j \in 1..Len(t), NEW k \in 1..Len(t), t[j] = t[k]
      PROVE  j = k
  <2>1. Len(s) + j \in DOMAIN (s \o t) /\ Len(s) + k \in DOMAIN (s \o t)
    BY <1>1, <1>2
  <2>2. (s \o t)[Len(s) + j] = (s \o t)[Len(s) + k]
    BY <1>1, <1>4
  <2>3. Len(s) + j = Len(s) + k
    BY <2>1, <2>2 DEF IsInjective
  <2> QED
    BY <1>2, <2>3
<1> QED
  BY <1>2, <1>3, <1>4 DEF IsInjective

(* The empty list, and what it adds to another.                            *)
LEMMA Empty ==
  /\ IsInjective(<<>>) /\ <<>> \in Seq(Index)
  /\ \A s \in Seq(Index) : <<>> \o s = s /\ s \o <<>> = s
BY DEF IsInjective

(* A list without its first file.                                          *)
LEMMA Rest ==
  ASSUME NEW t \in Seq(Index), t # <<>>, IsInjective(t)
  PROVE  IsInjective(Tail(t)) /\ \A k \in DOMAIN Tail(t) : Tail(t)[k] # Head(t)
<1>1. /\ Tail(t) \in Seq(Index) /\ Len(Tail(t)) = Len(t) - 1
      /\ Len(t) \in Nat /\ Len(t) >= 1 /\ Head(t) = t[1]
      /\ DOMAIN t = 1..Len(t) /\ DOMAIN Tail(t) = 1..Len(Tail(t))
      /\ \A k \in 1..Len(Tail(t)) : Tail(t)[k] = t[k + 1]
  OBVIOUS
<1> QED
  BY <1>1 DEF IsInjective

(* A file that is not in a list is added at its end.                       *)
LEMMA Added ==
  ASSUME NEW s \in Seq(Index), NEW i \in Index, IsInjective(s),
         \A k \in DOMAIN s : s[k] # i
  PROVE  /\ Append(s, i) \in Seq(Index) /\ IsInjective(Append(s, i))
         /\ Append(s, i) # <<>> /\ (s # <<>> => Append(s, i)[1] = s[1])
         /\ \A k \in DOMAIN Append(s, i) :
              Append(s, i)[k] = i \/ (k \in DOMAIN s /\ Append(s, i)[k] = s[k])
<1>1. /\ Append(s, i) \in Seq(Index) /\ Len(Append(s, i)) = Len(s) + 1
      /\ Len(s) \in Nat /\ DOMAIN s = 1..Len(s)
      /\ DOMAIN Append(s, i) = 1..Len(s) + 1
      /\ Append(s, i)[Len(s) + 1] = i
      /\ \A k \in 1..Len(s) : Append(s, i)[k] = s[k]
  OBVIOUS
<1>2. IsInjective(Append(s, i))
  BY <1>1 DEF IsInjective
<1>3. Append(s, i) # <<>> /\ (s # <<>> => Append(s, i)[1] = s[1])
  BY <1>1
<1>4. \A k \in DOMAIN Append(s, i) :
        Append(s, i)[k] = i \/ (k \in DOMAIN s /\ Append(s, i)[k] = s[k])
  BY <1>1
<1> QED
  BY <1>1, <1>2, <1>3, <1>4

-----------------------------------------------------------------------------
(* Jumps.                                                                  *)

(* A step after which no jump has gone astray has led none astray.         *)
LEMMA NotAstray ==
  ASSUME TypeOK, History, ~astray' PROVE ~astray /\ ~Strays' /\ ~JumpIsLost
<1> SUFFICES ASSUME astray \/ Strays' \/ JumpIsLost PROVE FALSE
  OBVIOUS
<1>1. (astray \/ Strays' \/ JumpIsLost) = TRUE
  OBVIOUS
<1>2. astray' = TRUE
  BY <1>1, Zenon DEF History
<1> QED
  BY <1>2

(* What a handler does with the slot and its arrays.                       *)
LEMMA HandlerSlot ==
  ASSUME TypeOK, SlotInv, NEW c \in Client, HandlerStep(c) PROVE SlotInv'
<1> USE DEF TypeOK, StreamOK, ClientsOK, SlotInv, JumpsAhead, Jumping, HGoto,
            shared, clients, stream, InFile
<1>1. UNCHANGED <<stream, wpc>>
  BY DEF HandlerStep, worker
<1>2. CASE Join(c)
  BY <1>1, <1>2 DEF Join
<1>3. CASE JumpDrain(c)
  BY <1>1, <1>3 DEF JumpDrain
<1>4. CASE JumpCount(c)
  BY <1>1, <1>4 DEF JumpCount
<1>5. CASE JumpPop(c)
  BY <1>1, <1>5 DEF JumpPop
<1>6. CASE JumpFill(c)
  BY <1>1, <1>6 DEF JumpFill
<1>7. CASE JumpTake(c)
  BY <1>1, <1>7 DEF JumpTake
<1>8. CASE JumpOpen(c)
  BY <1>1, <1>8 DEF JumpOpen, Respond
<1>9. CASE JumpSet(c)
  BY <1>1, <1>9 DEF JumpSet, Respond
<1>10. CASE JumpFault(c)
  BY <1>1, <1>10 DEF JumpFault
<1> QED
  BY <1>2, <1>3, <1>4, <1>5, <1>6, <1>7, <1>8, <1>9, <1>10
     DEF HandlerStep, Handler

(* What a request does with them.                                          *)
LEMMA RequestSlot ==
  ASSUME TypeOK, SlotInv, NEW c \in Client, RequestStep(c) PROVE SlotInv'
<1> USE DEF TypeOK, StreamOK, ClientsOK, SlotInv, JumpsAhead, Jumping, HGoto,
            shared, clients, stream, InFile
<1>1. UNCHANGED <<stream, wpc>>
  BY DEF RequestStep, worker
<1>2. CASE Pause(c) \/ Resume(c)
  BY <1>1, <1>2 DEF Pause, Resume, SetCmd, NoCmd
<1>3. CASE Stop(c)
  BY <1>1, <1>3 DEF Stop, Idle
<1>4. ASSUME NEW i \in JumpTo \cup {Current}, Jump(c, i) PROVE SlotInv'
  <2>1. m_handlerIn' # NoInput
    BY <1>4, FreshIsNew, Bounds DEF Jump, NewInput, NoInput, Input
  <2> QED
    BY <1>1, <1>4, <2>1 DEF Jump, Idle
<1> QED
  BY <1>2, <1>3, <1>4 DEF RequestStep, Request

(* An input is opened on the file it is played or waits as.                *)
OpenedAs ==
  /\ InFile => opened[m_streamIn] = curFile
  /\ m_cmd.cmd = "jump" =>
       m_cmd.index = m_cmd.asked /\ opened[m_cmd.in] = m_cmd.asked

(* In a file and behind the last one, the worker leaves the play stack     *)
(* alone; it plays what it has opened until it takes a jump's input.       *)
LEMMA PlaySteps ==
  ASSUME TypeOK, WorkerStep, ~BetweenFiles
  PROVE  /\ UNCHANGED <<m_playStack, rest, file, info>>
         /\ wpc' \in {"loop", "cmd", "read", "push", "retry", "next", "end",
                      "done"}
         /\ fault' # "range"
         /\ fault' = "deletedInput" => m_streamIn \in deleted
         /\ \/ /\ m_cmd' = m_cmd \/ (m_cmd.cmd # "jump" /\ m_cmd' = NoCmd)
               /\ UNCHANGED <<opened, curFile>>
               /\ \/ /\ UNCHANGED <<m_streamIn, deleted>>
                     /\ wpc' \notin {"end", "done"} => InFile
                  \/ /\ wpc' = "done" /\ m_streamIn' = NoInput
                     /\ deleted' = Delete(m_streamIn)
            \/ /\ InFile /\ wpc' = "read"
               /\ m_cmd.cmd = "jump" /\ m_cmd' = NoCmd /\ TakeInput
<1> USE DEF BetweenFiles, WGoto, InFile, shared, stream, worker, inputs
<1>0. fault = "none"
  BY DEF WorkerStep
<1>1. CASE WFault
  BY <1>0, <1>1 DEF WFault
<1>2. CASE WLoop /\ UNCHANGED fault
  BY <1>0, <1>2 DEF WLoop
<1>3. CASE WPauseLoop /\ UNCHANGED fault
  BY <1>0, <1>3 DEF WPauseLoop, Unpause
<1>4. CASE WCmd /\ UNCHANGED fault
  BY <1>0, <1>4 DEF WCmd, GetCmd
<1>5. CASE WPauseCmd /\ UNCHANGED fault
  BY <1>0, <1>5 DEF WPauseCmd, GetCmd, Unpause
<1>6. CASE WRead /\ UNCHANGED fault
  BY <1>0, <1>6 DEF WRead
<1>7. CASE WPush /\ UNCHANGED fault
  BY <1>0, <1>7 DEF WPush
<1>8. CASE WRetry /\ UNCHANGED fault
  BY <1>0, <1>8 DEF WRetry
<1>9. CASE WGiveUp /\ UNCHANGED fault
  BY <1>0, <1>9 DEF WGiveUp, Unpause
<1>10. CASE WEnd /\ UNCHANGED fault
  BY <1>0, <1>10 DEF WEnd
<1> QED
  BY <1>1, <1>2, <1>3, <1>4, <1>5, <1>6, <1>7, <1>8, <1>9, <1>10
     DEF WorkerStep, Worker, WInit, WCycle, WDrain, WDrainPop, WFill, WNext,
         WTake, WOpen

(* Between two files the worker has only the play stack in its hands.      *)
LEMMA StackSteps ==
  ASSUME TypeOK, WorkerStep, BetweenFiles, wpc # "open"
  PROVE  /\ UNCHANGED <<info, m_cmd, opened, curFile, m_streamIn, deleted>>
         /\ wpc' \in {"cycle", "drain", "drainPop", "fill", "next", "take", "open",
                      "end"}
         /\ fault' = "none"
<1> USE DEF BetweenFiles, WGoto, shared, stream, worker, inputs
<1>0. fault = "none"
  BY DEF WorkerStep
<1>1. CASE WInit /\ UNCHANGED fault
  BY <1>0, <1>1 DEF WInit
<1>2. CASE WCycle /\ UNCHANGED fault
  BY <1>0, <1>2 DEF WCycle
<1>3. CASE WDrain /\ UNCHANGED fault
  BY <1>0, <1>3 DEF WDrain
<1>4. CASE WDrainPop /\ UNCHANGED fault
  BY <1>0, <1>4 DEF WDrainPop
<1>5. CASE WFill /\ UNCHANGED fault
  BY <1>0, <1>5 DEF WFill
<1>6. CASE WNext /\ UNCHANGED fault
  BY <1>0, <1>6 DEF WNext
<1>7. CASE WTake /\ UNCHANGED fault
  BY <1>0, <1>7 DEF WTake
<1> QED
  BY <1>1, <1>2, <1>3, <1>4, <1>5, <1>6, <1>7
     DEF WorkerStep, Worker, WFault, WOpen, WLoop, WPauseLoop, WCmd, WPauseCmd,
         GetCmd, WRead, WPush, WRetry, WGiveUp, WEnd

(* What the worker does with them.                                         *)
LEMMA WorkerSlot == ASSUME TypeOK, SlotInv, WorkerStep PROVE SlotInv'
<1> USE DEF SlotInv, JumpsAhead, Jumping, clients
<1>1. UNCHANGED clients
  BY DEF WorkerStep
<1>2. CASE BetweenFiles /\ wpc # "open"
  BY <1>1, <1>2, StackSteps DEF InFile
<1>3. CASE ~BetweenFiles
  BY <1>1, <1>3, PlaySteps DEF InFile, TakeInput, NoCmd
<1>4. CASE wpc = "open"
  <2>1. WOpen \/ WFault
    BY <1>4
       DEF WorkerStep, Worker, WInit, WCycle, WDrain, WDrainPop, WFill, WNext,
           WTake, WLoop, WPauseLoop, WCmd, WPauseCmd, GetCmd, WRead, WPush,
           WRetry, WGiveUp, WEnd
  <2>2. info' = info /\ m_cmd' = m_cmd
    BY <2>1 DEF WOpen, WFault, shared, stream
  <2>3. CASE WFault
    BY <1>1, <1>4, <2>2, <2>3 DEF WFault, worker, InFile
  <2>4. CASE WOpen
    <3>1. Fresh # NoInput
      BY FreshIsNew, Bounds DEF Input, NoInput
    <3>2. wpc' = "end" \/ m_streamIn' # NoInput
      BY <2>4, <3>1 DEF WOpen, WGoto
    <3> QED
      BY <1>1, <2>2, <3>2 DEF InFile
  <2> QED
    BY <2>1, <2>3, <2>4
<1> QED
  BY <1>2, <1>3, <1>4

(* The slot is filled with a jump and its input, and emptied at a time.    *)
LEMMA SlotKept == ASSUME TypeOK, SlotInv, [Next]_vars PROVE SlotInv'
<1> USE DEF SlotInv, JumpsAhead, Jumping, clients, stream, shared, worker,
    InFile
<1>1. CASE Tick
  BY <1>1 DEF Tick
<1>2. CASE UNCHANGED vars
  BY <1>2 DEF vars
<1> QED
  BY <1>1, <1>2, WorkerSlot, HandlerSlot, RequestSlot DEF Next

(* No jump has gone astray: its command and the worker are apart, and a    *)
(* list is played in sequence or in random order.                          *)
LEMMA NotStrays ==
  ASSUME TypeOK, ~Strays
  PROVE  /\ BetweenFiles => JumpsAhead = {} /\ m_cmd.cmd # "jump"
         /\ JumpsAhead # {} => m_cmd.cmd # "jump"
         /\ \A c, d \in JumpsAhead : c = d
         /\ \A c \in JumpsAhead : asked[c] \in Index
         /\ info.mode \in {"seq", "random"}
BY Bounds, FileStreamWorkerAssumption DEF Strays, TypeOK, StreamOK, InfoType

(* In a file and behind the last one, the worker keeps what jumps rest on. *)
LEMMA WorkerPlays ==
  ASSUME JumpInv, WorkerStep, ~BetweenFiles, ~astray, ~Strays'
  PROVE  OneOwner' /\ OpenedAs' /\ StackInv'
<1>1. TypeOK /\ SlotInv /\ OneOwner /\ JumpsThere /\ ~Strays /\ StackInv
  BY DEF JumpInv
<1>2. /\ UNCHANGED <<hpc, hidx, harr, hrest, hcur, m_handlerIn, asked>>
      /\ JumpsAhead' = JumpsAhead
  BY DEF WorkerStep, clients, JumpsAhead, Jumping
<1>3. /\ m_cmd.cmd = "jump" => JumpsAhead = {}
      /\ wpc' = "next" => JumpsAhead = {} /\ m_cmd'.cmd # "jump"
  BY <1>1, <1>2 DEF Strays, BetweenFiles
<1>4. /\ UNCHANGED <<m_playStack, rest, file, info>>
      /\ wpc' \in {"loop", "cmd", "read", "push", "retry", "next", "end",
                    "done"}
      /\ fault' # "range" /\ (fault' = "deletedInput" => m_streamIn \in deleted)
  BY <1>1, PlaySteps
<1>5. /\ m_streamIn # NoInput => m_streamIn # m_cmd.in
      /\ m_streamIn \notin deleted /\ m_cmd.in \notin deleted
      /\ NoInput \notin deleted
  BY <1>1, Bounds DEF OneOwner, TypeOK, NoInput, Input
<1>6. IndexesOnly'
  BY <1>1, <1>2, <1>4 DEF StackInv, IndexesOnly
<1>7. CASE /\ m_cmd' = m_cmd \/ (m_cmd.cmd # "jump" /\ m_cmd' = NoCmd)
           /\ UNCHANGED <<opened, curFile>>
           /\ \/ /\ UNCHANGED <<m_streamIn, deleted>>
                 /\ wpc' \notin {"end", "done"} => InFile
              \/ /\ wpc' = "done" /\ m_streamIn' = NoInput
                 /\ deleted' = Delete(m_streamIn)
  <2>1. m_cmd'.cmd = "jump" <=> m_cmd.cmd = "jump"
    BY <1>7 DEF NoCmd
  <2>2. Settled' <=> Settled
    BY <1>2, <2>1 DEF Settled
  <2>3. InFile' => InFile
    BY <1>7 DEF InFile
  <2>4. wpc' = "next" => InFile /\ Settled
    BY <1>2, <1>3, <1>7, <2>1 DEF Settled
  <2>5. m_cmd' = m_cmd \/ m_cmd'.in = NoInput
    BY <1>7 DEF NoCmd
  <2>6. OneOwner'
    BY <1>1, <1>4, <1>5, <1>7, <2>5 DEF OneOwner, Delete
  <2>7. OpenedAs'
    <3>1. InFile' => opened'[m_streamIn'] = curFile'
      BY <1>1, <1>7, <2>3 DEF JumpsThere, InFile
    <3>2. m_cmd'.cmd = "jump" => m_cmd' = m_cmd
      BY <1>7 DEF NoCmd
    <3> QED
      BY <1>1, <1>7, <2>1, <3>1, <3>2 DEF OpenedAs, JumpsThere
  <2>8. JumpersOwn'
    BY <1>1, <1>2, <1>5, <1>7 DEF SlotInv, StackInv, JumpersOwn, Delete
  <2>9. info'.mode = "seq" => WorkerInSequence' /\ JumpersInSequence'
    <3> SUFFICES ASSUME info.mode = "seq"
                 PROVE  WorkerInSequence' /\ JumpersInSequence'
      BY <1>4
    <3>1. WorkerInSequence /\ JumpersInSequence
      BY <1>1 DEF StackInv
    <3>2. JumpersInSequence'
      BY <1>2, <1>4, <3>1 DEF JumpersInSequence, InSequence
    <3>3. wpc' = "next" => \E n \in 0..Files : m_playStack' = Ascending(n)
      <4>1. curFile + 1 \in 0..Files
        BY <1>1, Bounds DEF TypeOK, StreamOK, Index
      <4> QED
        BY <1>4, <2>4, <3>1, <4>1 DEF WorkerInSequence
    <3>4. m_cmd'.cmd = "jump" => m_cmd' = m_cmd
      BY <1>7 DEF NoCmd
    <3> QED
      BY <1>4, <1>7, <2>2, <2>3, <3>1, <3>2, <3>3, <3>4 DEF WorkerInSequence
  <2>10. info'.mode = "random" => WorkerAtRandom' /\ JumpersAtRandom'
    <3> SUFFICES ASSUME info.mode = "random"
                 PROVE  WorkerAtRandom' /\ JumpersAtRandom'
      BY <1>4
    <3>1. WorkerAtRandom /\ JumpersAtRandom
      BY <1>1 DEF StackInv
    <3>2. JumpersAtRandom'
      BY <1>2, <1>4, <3>1 DEF JumpersAtRandom, AtRandom
    <3>3. m_cmd'.cmd = "jump" => m_cmd' = m_cmd
      BY <1>7 DEF NoCmd
    <3> QED
      BY <1>4, <1>7, <2>2, <2>3, <3>1, <3>2, <3>3 DEF WorkerAtRandom
  <2> QED
    BY <1>6, <2>6, <2>7, <2>8, <2>9, <2>10 DEF StackInv
<1>8. CASE /\ InFile /\ wpc' = "read"
           /\ m_cmd.cmd = "jump" /\ m_cmd' = NoCmd /\ TakeInput
  <2>1. /\ m_streamIn' = m_cmd.in /\ deleted' = Delete(m_streamIn)
        /\ curFile' = m_cmd.asked /\ opened' = opened
        /\ opened[m_cmd.in] = m_cmd.asked
    BY <1>1, <1>8 DEF TakeInput, JumpsThere
  <2>2. m_cmd'.cmd = "none" /\ m_cmd'.in = NoInput
    BY <1>8 DEF NoCmd
  <2>3. JumpsAhead' = {} /\ Settled' /\ wpc' = "read"
    BY <1>2, <1>3, <1>8, <2>2 DEF Settled
  <2>4. m_cmd.in # NoInput
    BY <1>1, <1>8 DEF SlotInv
  <2>5. OneOwner'
    BY <1>4, <1>5, <2>1, <2>2, <2>4 DEF OneOwner, Delete
  <2>6. OpenedAs'
    BY <2>1, <2>2 DEF OpenedAs
  <2>7. JumpersOwn'
    BY <2>3 DEF JumpersOwn
  <2>8. info'.mode = "seq" => WorkerInSequence' /\ JumpersInSequence'
    <3> SUFFICES ASSUME info.mode = "seq"
                 PROVE  WorkerInSequence' /\ JumpersInSequence'
      BY <1>4
    <3>1. m_playStack' = Ascending(curFile' + 1)
      BY <1>1, <1>4, <1>8, <2>1 DEF StackInv, WorkerInSequence
    <3> QED
      BY <2>2, <2>3, <3>1 DEF WorkerInSequence, JumpersInSequence, InSequence
  <2>9. info'.mode = "random" => WorkerAtRandom' /\ JumpersAtRandom'
    <3> SUFFICES ASSUME info.mode = "random"
                 PROVE  WorkerAtRandom' /\ JumpersAtRandom'
      BY <1>4
    <3>1. IsInjective(<<curFile'>> \o m_playStack')
      BY <1>1, <1>4, <1>8, <2>1 DEF StackInv, WorkerAtRandom
    <3>2. <<curFile'>> \in Seq(Index) /\ m_playStack' \in Seq(Index)
      <4>1. curFile' \in Index
        BY <1>1, <1>8 DEF TakeInput, TypeOK, StreamOK
      <4> QED
        BY <1>6, <4>1 DEF IndexesOnly
    <3>3. IsInjective(m_playStack')
      BY <3>1, <3>2, Parts
    <3> QED
      BY <2>2, <2>3, <3>1, <3>3 DEF WorkerAtRandom, JumpersAtRandom, AtRandom
  <2> QED
    BY <1>6, <2>5, <2>6, <2>7, <2>8, <2>9 DEF StackInv
<1> QED
  BY <1>1, <1>7, <1>8, PlaySteps

(* The same, from the first file of the list on.                           *)
LEMMA RunFromFirst ==
  ASSUME NEW n \in 0..Files
  PROVE  /\ Ascending(n) = <<>> <=> n = Files
         /\ n < Files => /\ Head(Ascending(n)) = n
                         /\ Tail(Ascending(n)) = Ascending(n + 1)
                         /\ Append(Run(0, n), n) = Run(0, n + 1)
         /\ Run(0, 0) = <<>> /\ Run(0, Files) = Ascending(0)
<1>1. n \in Nat /\ 0 \in Nat /\ Files \in Nat /\ n <= Files
  BY Bounds
<1>2. 0 + n = n /\ 0 + Files = Files /\ (n = Files \/ n < Files)
  BY <1>1
<1>3. /\ 0 + n <= Files => (Ascending(0 + n) = <<>> <=> 0 + n = Files)
      /\ 0 + n < Files =>
           /\ Head(Ascending(0 + n)) = 0 + n
           /\ Tail(Ascending(0 + n)) = Ascending(0 + n + 1)
           /\ Append(Run(0, n), 0 + n) = Run(0, n + 1)
  BY <1>1, RunGrows
<1>4. Run(0, 0) = <<>> /\ Run(0, Files) = Ascending(0)
  BY <1>1, <1>2, RunGrows
<1> QED
  BY <1>1, <1>2, <1>3, <1>4

(* What becomes of the play stack between two files: it is emptied, filled *)
(* and taken from by one action each.                                      *)
StackSound ==
  /\ m_playStack \in Seq(Index) /\ rest \in Seq(Index)
  /\ wpc = "open" => file \in Index
  /\ info.mode = "seq" =>
       /\ wpc = "fill" =>
            \E n \in 0..Files : m_playStack = Run(0, n) /\ rest = Ascending(n)
       /\ wpc \in {"next", "take"} =>
            \E n \in 0..Files : m_playStack = Ascending(n)
       /\ wpc = "open" => m_playStack = Ascending(file + 1)
  /\ info.mode = "random" =>
       /\ IsInjective(m_playStack)
       /\ wpc = "fill" => IsInjective(m_playStack \o rest)
       /\ wpc = "open" => IsInjective(<<file>> \o m_playStack)

(* Every action between two files keeps it so.                             *)
LEMMA StackKept ==
  ASSUME TypeOK, StackSound, WorkerStep, BetweenFiles, wpc # "open"
  PROVE  StackSound'
<1> USE DEF WGoto, shared, stream, worker, BetweenFiles
<1>0. info.mode \in {"seq", "random"} /\ info' = info
  BY StackSteps, FileStreamWorkerAssumption DEF TypeOK, StreamOK, InfoType
<1>1. CASE WInit
  BY <1>1 DEF WInit, StackSound
<1>2. CASE WCycle
  BY <1>2 DEF WCycle, StackSound
<1>3. CASE WDrain
  <2>1. CASE m_playStack # <<>> /\ wpc' = "drainPop" /\ UNCHANGED rest
    BY <1>3, <2>1 DEF WDrain, StackSound
  <2>2. CASE /\ m_playStack = <<>> /\ wpc' = "fill"
             /\ info.mode = "seq" /\ rest' = Ascending(0)
    <3>1. m_playStack' = Run(0, 0) /\ 0 \in 0..Files
      BY <1>3, <2>2, RunFromFirst, Bounds DEF WDrain
    <3>2. rest' \in Seq(Index)
      BY <2>2, AscendingType
    <3> QED
      BY <1>0, <1>3, <2>2, <3>1, <3>2 DEF WDrain, StackSound
  <2>3. CASE /\ m_playStack = <<>> /\ wpc' = "fill"
             /\ info.mode = "random" /\ rest' \in SetToSeqs(Index)
    <3>1. rest' \in Seq(Index) /\ IsInjective(rest')
      BY <2>3, RandomOrders
    <3>2. m_playStack' = <<>> /\ m_playStack' \o rest' = rest'
      BY <1>3, <2>3, <3>1, Empty DEF WDrain
    <3> QED
      BY <1>0, <1>3, <2>3, <3>1, <3>2, Empty DEF WDrain, StackSound
  <2> QED
    BY <1>0, <1>3, <2>1, <2>2, <2>3 DEF WDrain
<1>4. CASE WDrainPop
  <2>1. /\ m_playStack # <<>> /\ m_playStack' = Tail(m_playStack)
        /\ rest' = rest /\ wpc' = "drain"
    BY <1>4 DEF WDrainPop, Shift
  <2>2. m_playStack' \in Seq(Index)
    BY <2>1, Moved DEF StackSound
  <2>3. info.mode = "random" => IsInjective(m_playStack')
    BY <2>1, Rest DEF StackSound
  <2> QED
    BY <1>0, <2>1, <2>2, <2>3 DEF StackSound
<1>5. CASE WFill
  <2>1. CASE rest = <<>> /\ wpc' = "next" /\ UNCHANGED <<m_playStack, rest>>
    <3>1. info.mode = "seq" => m_playStack = Ascending(0)
      <4> SUFFICES ASSUME info.mode = "seq" PROVE m_playStack = Ascending(0)
        OBVIOUS
      <4>1. PICK n \in 0..Files : m_playStack = Run(0, n) /\ rest = Ascending(n)
        BY <1>5 DEF WFill, StackSound
      <4>2. n = Files
        BY <2>1, <4>1, RunFromFirst
      <4> QED
        BY <4>1, <4>2, RunFromFirst
    <3> QED
      BY <1>0, <2>1, <3>1, Bounds DEF StackSound
  <2>2. CASE /\ rest # <<>> /\ m_playStack' = Append(m_playStack, Head(rest))
             /\ rest' = Tail(rest) /\ UNCHANGED wpc
    <3>0. m_playStack \in Seq(Index) /\ rest \in Seq(Index) /\ wpc = "fill"
      BY <1>5 DEF WFill, StackSound
    <3>1. /\ m_playStack' \in Seq(Index) /\ rest' \in Seq(Index)
          /\ m_playStack' \o rest' = m_playStack \o rest
      BY <2>2, <3>0, Moved
    <3>2. ASSUME info.mode = "seq"
          PROVE  \E n \in 0..Files :
                   m_playStack' = Run(0, n) /\ rest' = Ascending(n)
      <4>1. PICK n \in 0..Files : m_playStack = Run(0, n) /\ rest = Ascending(n)
        BY <3>0, <3>2 DEF StackSound
      <4>2. n < Files
        BY <2>2, <4>1, RunFromFirst, Bounds
      <4>3. m_playStack' = Run(0, n + 1) /\ rest' = Ascending(n + 1)
        BY <2>2, <4>1, <4>2, RunFromFirst
      <4>4. n + 1 \in 0..Files
        BY <4>2, Bounds
      <4> QED
        BY <4>3, <4>4
    <3>3. info.mode = "random" => /\ IsInjective(m_playStack' \o rest')
                                  /\ IsInjective(m_playStack')
      BY <3>0, <3>1, Parts DEF StackSound
    <3> QED
      BY <1>0, <2>2, <3>0, <3>1, <3>2, <3>3 DEF StackSound
  <2> QED
    BY <1>5, <2>1, <2>2 DEF WFill
<1>6. CASE WNext
  BY <1>0, <1>6 DEF WNext, StackSound
<1>7. CASE WTake
  <2>1. /\ m_playStack # <<>> /\ m_playStack' = Tail(m_playStack)
        /\ rest' = rest /\ wpc' = "open" /\ file' = Head(m_playStack)
        /\ wpc = "take"
    BY <1>7 DEF WTake, Shift
  <2>2. /\ m_playStack' \in Seq(Index) /\ file' \in Index
        /\ <<file'>> \o m_playStack' = m_playStack
    BY <2>1, Moved DEF StackSound
  <2>3. ASSUME info.mode = "seq" PROVE m_playStack' = Ascending(file' + 1)
    <3>1. PICK n \in 0..Files : m_playStack = Ascending(n)
      BY <2>1, <2>3 DEF StackSound
    <3>2. n < Files
      BY <2>1, <3>1, RunFromFirst, Bounds
    <3> QED
      BY <2>1, <3>1, <3>2, RunFromFirst
  <2>4. info.mode = "random" => IsInjective(m_playStack')
    BY <2>1, Rest DEF StackSound
  <2> QED
    BY <1>0, <2>1, <2>2, <2>3, <2>4 DEF StackSound
<1> QED
  BY <1>1, <1>2, <1>3, <1>4, <1>5, <1>6, <1>7
     DEF WorkerStep, Worker, WFault, WOpen, WLoop, WPauseLoop, WCmd, WPauseCmd,
         GetCmd, WRead, WPush, WRetry, WGiveUp, WEnd

(* Between two files, while it opens none, the worker keeps what jumps     *)
(* rest on.                                                                *)
LEMMA WorkerStacks ==
  ASSUME JumpInv, WorkerStep, BetweenFiles, wpc # "open", ~astray, ~Strays'
  PROVE  OneOwner' /\ OpenedAs' /\ StackInv'
<1>1. TypeOK /\ OneOwner /\ ~Strays /\ StackInv
  BY DEF JumpInv
<1>2. /\ UNCHANGED <<hpc, hidx, harr, hrest, hcur, m_handlerIn, asked>>
      /\ JumpsAhead' = {} /\ JumpsAhead = {} /\ m_cmd.cmd # "jump"
  BY <1>1, NotStrays DEF WorkerStep, clients, JumpsAhead, Jumping
<1>3. /\ UNCHANGED <<info, m_cmd, opened, curFile, m_streamIn, deleted>>
      /\ wpc' \in {"cycle", "drain", "drainPop", "fill", "next", "take", "open",
                   "end"}
      /\ fault' = "none"
  BY <1>1, StackSteps
<1>4. Settled /\ Settled' /\ ~InFile' /\ m_cmd'.cmd # "jump"
  BY <1>2, <1>3 DEF Settled, InFile
<1>5. StackSound
  BY <1>1, <1>4 DEF StackInv, IndexesOnly, StackSound, WorkerInSequence,
                    WorkerAtRandom
<1>6. StackSound'
  BY <1>1, <1>5, StackKept
<1>7. OneOwner' /\ OpenedAs'
  BY <1>1, <1>3, <1>4 DEF OneOwner, OpenedAs
<1>8. IndexesOnly'
  BY <1>1, <1>2, <1>6 DEF StackInv, IndexesOnly, StackSound
<1>9. info'.mode = "seq" => WorkerInSequence'
  BY <1>4, <1>6 DEF StackSound, WorkerInSequence
<1>10. info'.mode = "random" => WorkerAtRandom'
  BY <1>4, <1>6 DEF StackSound, WorkerAtRandom
<1> QED
  BY <1>2, <1>7, <1>8, <1>9, <1>10
     DEF StackInv, JumpersOwn, JumpersInSequence, JumpersAtRandom, InSequence,
         AtRandom

(* The worker opens the file it has taken, in a new input.                 *)
LEMMA WorkerOpens ==
  ASSUME JumpInv, WorkerStep, wpc = "open", ~astray, ~Strays'
  PROVE  OneOwner' /\ OpenedAs' /\ StackInv'
<1>1. TypeOK /\ SlotInv /\ OneOwner /\ ~Strays /\ StackInv
  BY DEF JumpInv
<1>2. /\ UNCHANGED <<hpc, hidx, harr, hrest, hcur, m_handlerIn, asked>>
      /\ JumpsAhead' = {} /\ JumpsAhead = {} /\ m_cmd.cmd # "jump"
  BY <1>1, NotStrays
     DEF WorkerStep, clients, JumpsAhead, Jumping, BetweenFiles
<1>3. file \in Index
  BY <1>1 DEF StackInv, IndexesOnly
<1>4. WOpen /\ fault' = "none"
  BY <1>3
     DEF WorkerStep, Worker, WFault, WInit, WCycle, WDrain, WDrainPop, WFill,
         WNext, WTake, WLoop, WPauseLoop, WCmd, WPauseCmd, GetCmd, WRead, WPush,
         WRetry, WGiveUp, WEnd
<1>5. UNCHANGED <<info, m_cmd, m_playStack, rest>>
  BY <1>4 DEF WOpen, shared, stream
<1>6. Settled /\ Settled' /\ m_cmd.in = NoInput
  BY <1>1, <1>2, <1>5 DEF Settled, SlotInv
<1>7. /\ wpc' \in {"end", "loop"}
      /\ wpc' = "loop" => curFile' = file /\ opened'[m_streamIn'] = file
  BY <1>1, <1>4, FreshIsNew DEF WOpen, WGoto, TypeOK
<1>8. m_streamIn' \notin deleted' /\ NoInput \notin deleted'
  <2>1. NoInput \notin deleted /\ m_streamIn \notin deleted
    BY <1>1, Bounds DEF TypeOK, OneOwner, NoInput, Input
  <2>2. CASE UNCHANGED <<stream, inputs>>
    BY <2>1, <2>2 DEF stream, inputs
  <2>3. CASE m_streamIn' = Fresh /\ deleted' = Delete(m_streamIn) \ {Fresh}
    BY <2>1, <2>3 DEF Delete
  <2> QED
    BY <1>4, <2>2, <2>3 DEF WOpen
<1>9. OneOwner'
  BY <1>4, <1>5, <1>6, <1>8 DEF OneOwner
<1>10. OpenedAs'
  BY <1>2, <1>5, <1>7 DEF OpenedAs, InFile
<1>11. IndexesOnly'
  BY <1>1, <1>2, <1>5, <1>7 DEF StackInv, IndexesOnly
<1>12. info'.mode = "seq" => WorkerInSequence'
  <2> SUFFICES ASSUME info.mode = "seq" PROVE WorkerInSequence'
    BY <1>5
  <2>1. m_playStack' = Ascending(file + 1)
    BY <1>1, <1>5 DEF StackInv, WorkerInSequence
  <2> QED
    BY <1>2, <1>5, <1>7, <2>1 DEF WorkerInSequence, InFile
<1>13. info'.mode = "random" => WorkerAtRandom'
  <2> SUFFICES ASSUME info.mode = "random" PROVE WorkerAtRandom'
    BY <1>5
  <2>1. IsInjective(<<file>> \o m_playStack) /\ IsInjective(m_playStack)
    BY <1>1, <1>6 DEF StackInv, WorkerAtRandom
  <2> QED
    BY <1>2, <1>5, <1>7, <2>1 DEF WorkerAtRandom, InFile
<1> QED
  BY <1>2, <1>9, <1>10, <1>11, <1>12, <1>13
     DEF StackInv, JumpersOwn, JumpersInSequence, JumpersAtRandom, InSequence,
         AtRandom

(* What a jump ahead of the worker makes of the play stack.                *)
JumpSound(c) ==
  /\ m_playStack \in Seq(Index) /\ harr[c] \in Seq(Index)
  /\ hrest[c] \in Seq(Index)
  /\ hidx[c] = asked[c] /\ asked[c] \in Index
  /\ info.mode = "seq" => InSequence(c)
  /\ info.mode = "random" => AtRandom(c)

(* updatePlayStack() in sequence: the stack becomes the files from the     *)
(* index on, and the index is popped again.                                *)
LEMMA SequenceKept ==
  ASSUME TypeOK, NEW c \in Client, JumpSound(c), info.mode = "seq",
         UNCHANGED <<info, asked>>,
         \/ JumpDrain(c) \/ JumpPop(c) \/ JumpFill(c) \/ JumpTake(c)
         \/ JumpOpen(c) /\ hpc'[c] = "jump"
  PROVE  JumpSound(c)'
<1> DEFINE i == asked[c]
<1>1. /\ i \in Index /\ i \in Nat /\ i < Files /\ hidx[c] = i
      /\ m_playStack \in Seq(Index) /\ harr[c] \in Seq(Index)
      /\ hrest[c] \in Seq(Index) /\ asked' = asked /\ info' = info
      /\ info'.mode = "seq"
  BY Bounds DEF JumpSound, Index, InSequence
<1>2. /\ hpc \in [Client -> {"idle", "update", "drainPop", "fill", "pop", "open",
                            "jump", "join"}]
      /\ DOMAIN hidx = Client /\ DOMAIN harr = Client /\ DOMAIN hrest = Client
  BY DEF TypeOK, ClientsOK
<1>3. CASE JumpDrain(c)
  <2>1. CASE m_playStack # <<>> /\ HGoto(c, "drainPop") /\ UNCHANGED hrest
    BY <1>1, <1>2, <1>3, <2>1
       DEF JumpDrain, JumpSound, HGoto, shared, InSequence
  <2>2. CASE /\ m_playStack = <<>>
             /\ hrest' = [hrest EXCEPT ![c] =
                            IF hidx[c] \in Index THEN Ascending(hidx[c])
                            ELSE <<>>]
             /\ HGoto(c, "fill")
    <3>1. hrest'[c] = Ascending(i) /\ hpc'[c] = "fill"
      BY <1>1, <1>2, <2>2 DEF HGoto
    <3>2. /\ m_playStack' = <<>>
          /\ UNCHANGED <<hidx, harr>>
      BY <1>3, <2>2 DEF JumpDrain, shared
    <3>3. Run(i, 0) = <<>> /\ 0 \in 0..Files - i /\ i + 0 = i
      <4>1. i \in Nat /\ i < Files
        BY <1>1
      <4>2. 0 \in 0..Files - i /\ i + 0 = i
        BY <4>1, Bounds
      <4>3. Run(i, 0) = <<>>
        BY <4>1, RunGrows, Zenon
      <4> QED
        BY <4>2, <4>3
    <3>4. \E n \in 0..Files - i : /\ m_playStack' = Run(i, n)
                                  /\ hrest'[c] = Ascending(i + n)
      BY <3>1, <3>2, <3>3
    <3>5. hrest'[c] \in Seq(Index) /\ m_playStack' \in Seq(Index)
      BY <1>1, <3>1, <3>2, AscendingType, Empty
    <3> QED
      BY <1>1, <3>1, <3>2, <3>4, <3>5 DEF JumpSound, InSequence
  <2> QED
    BY <1>3, <2>1, <2>2 DEF JumpDrain
<1>4. CASE JumpPop(c)
  <2>1. /\ m_playStack # <<>> /\ m_playStack' = Tail(m_playStack)
        /\ hpc'[c] = "update" /\ UNCHANGED <<harr, hrest, hidx>>
    BY <1>2, <1>4 DEF JumpPop, Shift, HGoto
  <2>2. m_playStack' \in Seq(Index)
    BY <1>1, <2>1, Moved
  <2> QED
    BY <1>1, <2>1, <2>2 DEF JumpSound, InSequence
<1>5. CASE JumpFill(c)
  <2>1. hpc[c] = "fill"
    BY <1>5 DEF JumpFill
  <2>2. PICK n \in 0..Files - i : /\ m_playStack = Run(i, n)
                                  /\ hrest[c] = Ascending(i + n)
    BY <2>1 DEF JumpSound, InSequence
  <2>3. n \in Nat /\ i + n <= Files
    BY <1>1, Bounds
  <2>4. CASE hrest[c] # <<>>
    <3>0. i + n <= Files => (Ascending(i + n) = <<>> <=> i + n = Files)
      BY <1>1, <2>3, RunGrows
    <3>1. i + n < Files
      <4>1. i + n # Files
        BY <2>2, <2>3, <2>4, <3>0
      <4> HIDE DEF i
      <4> QED
        BY <1>1, <2>3, <4>1, Bounds
    <3>2. /\ Head(hrest[c]) = i + n /\ Tail(hrest[c]) = Ascending(i + n + 1)
          /\ Append(m_playStack, i + n) = Run(i, n + 1)
      BY <1>1, <2>2, <2>3, <3>1, RunGrows
    <3>3. /\ m_playStack' = Append(m_playStack, Head(hrest[c]))
          /\ hrest'[c] = Tail(hrest[c]) /\ UNCHANGED <<hpc, harr, hidx>>
      BY <1>2, <1>5, <2>4 DEF JumpFill
    <3>4. n + 1 \in 0..Files - i /\ i + (n + 1) = i + n + 1
      <4>1. i \in Nat /\ n \in Nat /\ Files \in Nat /\ i + n < Files
        BY <1>1, <2>3, <3>1, Bounds
      <4> HIDE DEF i
      <4> QED
        BY <4>1
    <3>5. \E m \in 0..Files - i : /\ m_playStack' = Run(i, m)
                                  /\ hrest'[c] = Ascending(i + m)
      BY <3>2, <3>3, <3>4
    <3>6. m_playStack' \in Seq(Index) /\ hrest'[c] \in Seq(Index)
      BY <1>1, <2>4, <3>3, Moved
    <3> QED
      BY <1>1, <2>1, <3>3, <3>5, <3>6 DEF JumpSound, InSequence
  <2>5. CASE hrest[c] = <<>>
    <3>1. i + n = Files
      BY <1>1, <2>2, <2>3, <2>5, RunGrows, Bounds
    <3>2. m_playStack = Ascending(i)
      BY <1>1, <2>2, <2>3, <3>1, RunGrows
    <3>3. hpc'[c] = "pop" /\ UNCHANGED <<m_playStack, hrest, harr, hidx>>
      BY <1>2, <1>5, <2>5 DEF JumpFill, HGoto
    <3> QED
      BY <1>1, <3>2, <3>3 DEF JumpSound, InSequence
  <2> QED
    BY <2>4, <2>5
<1>6. CASE JumpTake(c)
  <2>1. /\ hpc[c] = "pop" /\ hpc'[c] = "open"
        /\ m_playStack # <<>> /\ m_playStack' = Tail(m_playStack)
        /\ hidx'[c] = Head(m_playStack) /\ UNCHANGED <<harr, hrest>>
    BY <1>2, <1>6 DEF JumpTake, Shift, HGoto
  <2>2. m_playStack = Ascending(i)
    BY <2>1 DEF JumpSound, InSequence
  <2>3. i + 0 = i /\ 0 \in Nat
    BY <1>1
  <2>4. /\ Head(Ascending(i + 0)) = i + 0
        /\ Tail(Ascending(i + 0)) = Ascending(i + 0 + 1)
    BY <1>1, <2>3, RunGrows
  <2>5. Head(Ascending(i)) = i /\ Tail(Ascending(i)) = Ascending(i + 1)
    BY <2>3, <2>4
  <2>6. m_playStack' \in Seq(Index)
    BY <1>1, <2>1, Moved
  <2> QED
    BY <1>1, <2>1, <2>2, <2>5, <2>6 DEF JumpSound, InSequence
<1>7. CASE JumpOpen(c) /\ hpc'[c] = "jump"
  <2>1. hpc[c] = "open" /\ UNCHANGED <<m_playStack, hidx, harr, hrest>>
    BY <1>2, <1>7 DEF JumpOpen, Respond, HGoto, shared
  <2> QED
    BY <1>1, <1>7, <2>1 DEF JumpSound, InSequence
<1> QED
  BY <1>3, <1>4, <1>5, <1>6, <1>7

(* In a random list: as many as there were are popped, and pushed again    *)
(* behind the index, which is left out where it stood.                     *)
LEMMA RandomKept ==
  ASSUME TypeOK, SlotInv, NEW c \in JumpsAhead, JumpSound(c),
         info.mode = "random", UNCHANGED <<info, asked>>,
         \/ JumpCount(c) \/ JumpPop(c) \/ JumpFill(c) \/ JumpTake(c)
         \/ JumpOpen(c) /\ hpc'[c] = "jump"
  PROVE  JumpSound(c)'
<1> DEFINE i == asked[c]
           s == m_playStack
<1>0. c \in Client
  BY DEF JumpsAhead
<1>1. /\ i \in Index /\ hidx[c] = i
      /\ s \in Seq(Index) /\ harr[c] \in Seq(Index)
      /\ hrest[c] \in Seq(Index) /\ asked' = asked /\ info' = info
      /\ info'.mode # "seq"
  BY DEF JumpSound, AtRandom
<1>2. /\ hpc \in [Client -> {"idle", "update", "drainPop", "fill", "pop", "open",
                            "jump", "join"}]
      /\ DOMAIN hidx = Client /\ DOMAIN harr = Client /\ DOMAIN hrest = Client
  BY DEF TypeOK, ClientsOK
<1>3. CASE JumpCount(c)
  <2>1. /\ hpc[c] = "update" /\ hpc'[c] = "drainPop" /\ hrest'[c] = s
        /\ UNCHANGED <<m_playStack, hidx, harr>>
    BY <1>0, <1>2, <1>3 DEF JumpCount, HGoto, shared
  <2>2. harr[c] = <<>> /\ harr[c] \o s = s
    BY <1>0, <1>1, <2>1, Empty DEF SlotInv
  <2>3. IsInjective(s)
    BY <2>1 DEF JumpSound, AtRandom
  <2> QED
    BY <1>1, <2>1, <2>2, <2>3 DEF JumpSound, AtRandom
<1>4. CASE JumpPop(c)
  <2>1. /\ hpc[c] = "drainPop" /\ IsInjective(harr[c] \o s)
        /\ Len(hrest[c]) = Len(s)
    BY <1>4 DEF JumpPop, JumpSound, AtRandom
  <2>2. CASE hrest[c] # <<>>
    <3>1. /\ s # <<>> /\ m_playStack' = Tail(s)
          /\ harr'[c] = Append(harr[c], Head(s)) /\ hrest'[c] = Tail(hrest[c])
          /\ hpc'[c] = "drainPop" /\ UNCHANGED hidx
      BY <1>0, <1>2, <1>4, <2>1, <2>2 DEF JumpPop, Shift
    <3>2. /\ m_playStack' \in Seq(Index) /\ harr'[c] \in Seq(Index)
          /\ hrest'[c] \in Seq(Index)
          /\ harr'[c] \o m_playStack' = harr[c] \o s
      BY <1>1, <2>2, <3>1, Moved
    <3>3. Len(hrest'[c]) = Len(m_playStack')
      BY <1>1, <2>1, <2>2, <3>1, HeadTailProperties
    <3> QED
      BY <1>1, <2>1, <3>1, <3>2, <3>3 DEF JumpSound, AtRandom
  <2>3. CASE hrest[c] = <<>>
    <3>1. /\ m_playStack' = Append(s, hidx[c]) /\ hrest'[c] = harr[c]
          /\ hpc'[c] = "fill" /\ UNCHANGED <<harr, hidx>>
      BY <1>0, <1>2, <1>4, <2>1, <2>3 DEF JumpPop, Shift, HGoto
    <3>2. s = <<>>
      BY <1>1, <2>1, <2>3
    <3>3. IsInjective(hrest'[c])
      BY <1>1, <2>1, <3>1, <3>2, Empty
    <3>4. /\ m_playStack' \in Seq(Index) /\ IsInjective(m_playStack')
          /\ m_playStack' # <<>>
          /\ \A k \in DOMAIN m_playStack' : m_playStack'[k] = i
      <4>1. m_playStack' = <<i>>
        BY <1>1, <3>1, <3>2
      <4> QED
        BY <1>1, <4>1 DEF IsInjective
    <3>5. m_playStack'[1] = i
      BY <1>1, <3>1, <3>2
    <3> QED
      BY <1>1, <3>1, <3>3, <3>4, <3>5 DEF JumpSound, AtRandom
  <2> QED
    BY <2>2, <2>3
<1>5. CASE JumpFill(c)
  <2>1. /\ hpc[c] = "fill" /\ s # <<>> /\ s[1] = i /\ IsInjective(s)
        /\ IsInjective(hrest[c])
        /\ \A j \in DOMAIN hrest[c], k \in DOMAIN s :
             hrest[c][j] = s[k] => hrest[c][j] = i
    BY <1>5 DEF JumpFill, JumpSound, AtRandom
  <2>2. CASE hrest[c] # <<>>
    <3> DEFINE h == Head(hrest[c])
               r == Tail(hrest[c])
    <3>1. /\ m_playStack' = IF h = i THEN s ELSE Append(s, h)
          /\ hrest'[c] = r /\ UNCHANGED <<hpc, hidx, harr>>
      BY <1>0, <1>1, <1>2, <1>5, <2>2 DEF JumpFill
    <3>2. /\ h \in Index /\ r \in Seq(Index) /\ IsInjective(r)
          /\ \A j \in DOMAIN r : r[j] # h
      BY <1>1, <2>1, <2>2, Moved, Rest
    <3>3. /\ 1 \in DOMAIN hrest[c] /\ h = hrest[c][1]
          /\ \A j \in DOMAIN r :
               j + 1 \in DOMAIN hrest[c] /\ r[j] = hrest[c][j + 1]
      BY <1>1, <2>2
    <3>4. \A j \in DOMAIN r, k \in DOMAIN s : r[j] = s[k] => r[j] = i
      BY <2>1, <3>3
    <3>5. CASE h = i
      BY <1>1, <2>1, <3>1, <3>2, <3>4, <3>5 DEF JumpSound, AtRandom
    <3>6. CASE h # i
      <4>1. \A k \in DOMAIN s : s[k] # h
        BY <2>1, <3>3, <3>6
      <4>2. /\ m_playStack' \in Seq(Index) /\ IsInjective(m_playStack')
            /\ m_playStack' # <<>> /\ m_playStack'[1] = i
            /\ \A k \in DOMAIN m_playStack' :
                 m_playStack'[k] = h \/ (k \in DOMAIN s /\ m_playStack'[k] = s[k])
        BY <1>1, <2>1, <3>1, <3>2, <3>6, <4>1, Added
      <4>3. \A j \in DOMAIN r, k \in DOMAIN m_playStack' :
              r[j] = m_playStack'[k] => r[j] = i
        BY <3>2, <3>4, <4>2
      <4> QED
        BY <1>1, <2>1, <3>1, <3>2, <4>2, <4>3 DEF JumpSound, AtRandom
    <3> QED
      BY <3>5, <3>6
  <2>3. CASE hrest[c] = <<>>
    <3>1. hpc'[c] = "pop" /\ UNCHANGED <<m_playStack, hrest, harr, hidx>>
      BY <1>0, <1>2, <1>5, <2>3 DEF JumpFill, HGoto
    <3> QED
      BY <1>1, <2>1, <3>1 DEF JumpSound, AtRandom
  <2> QED
    BY <2>2, <2>3
<1>6. CASE JumpTake(c)
  <2>1. /\ hpc[c] = "pop" /\ hpc'[c] = "open"
        /\ s # <<>> /\ m_playStack' = Tail(s) /\ hidx'[c] = Head(s)
        /\ UNCHANGED <<harr, hrest>>
    BY <1>0, <1>2, <1>6 DEF JumpTake, Shift, HGoto
  <2>2. s[1] = i /\ IsInjective(s)
    BY <2>1 DEF JumpSound, AtRandom
  <2>3. Head(s) = i /\ m_playStack' \in Seq(Index) /\ <<i>> \o m_playStack' = s
    BY <1>1, <2>1, <2>2, Moved
  <2> QED
    BY <1>1, <2>1, <2>2, <2>3 DEF JumpSound, AtRandom
<1>7. CASE JumpOpen(c) /\ hpc'[c] = "jump"
  <2>1. hpc[c] = "open" /\ UNCHANGED <<m_playStack, hidx, harr, hrest>>
    BY <1>0, <1>2, <1>7 DEF JumpOpen, Respond, HGoto, shared
  <2> QED
    BY <1>1, <1>7, <2>1 DEF JumpSound, AtRandom
<1> QED
  BY <1>3, <1>4, <1>5, <1>6, <1>7

(* A handler's step keeps what jumps rest on.                              *)
LEMMA HandlerJumps ==
  ASSUME JumpInv, NEW c \in Client, HandlerStep(c),
         ~astray, ~Strays', ~JumpIsLost
  PROVE  OneOwner' /\ OpenedAs' /\ StackInv'
<1>1. TypeOK /\ SlotInv /\ OneOwner /\ JumpsThere /\ ~Strays /\ StackInv
  BY DEF JumpInv
<1>2. /\ UNCHANGED <<info, m_streamIn, curFile, wpc, rest, file>>
      /\ fault = "none" /\ info.mode \in {"seq", "random"}
  BY <1>1, NotStrays DEF HandlerStep, stream, worker
<1>3. /\ hpc \in [Client -> {"idle", "update", "drainPop", "fill", "pop", "open",
                            "jump", "join"}]
      /\ DOMAIN hidx = Client /\ DOMAIN harr = Client /\ DOMAIN hrest = Client
      /\ DOMAIN opened = Input /\ m_streamIn \in Input \cup {NoInput}
      /\ InFile => m_streamIn # NoInput
  BY <1>1 DEF TypeOK, StreamOK, ClientsOK, SlotInv
<1>4. CASE Join(c)
  <2>1. /\ UNCHANGED <<m_cmd, m_playStack, hidx, harr, hrest, hcur, m_handlerIn,
                       asked, deleted, opened, fault>>
        /\ hpc' = [hpc EXCEPT ![c] = "idle"] /\ hpc[c] = "join"
    BY <1>4 DEF HandlerStep, Join, HGoto, shared, inputs, JumpFault
  <2>2. JumpsAhead' = JumpsAhead /\ c \notin JumpsAhead
        /\ \A d \in JumpsAhead : hpc'[d] = hpc[d]
    BY <1>3, <2>1 DEF JumpsAhead, Jumping
  <2>3. (Settled' <=> Settled) /\ (InFile' <=> InFile)
    BY <1>2, <2>1, <2>2 DEF Settled, InFile
  <2>4. OneOwner' /\ OpenedAs'
    BY <1>1, <1>2, <2>1, <2>3 DEF OneOwner, OpenedAs, JumpsThere
  <2>5. JumpersOwn' /\ IndexesOnly'
    BY <1>1, <1>2, <2>1, <2>2 DEF StackInv, JumpersOwn, IndexesOnly
  <2>6. info'.mode = "seq" => WorkerInSequence' /\ JumpersInSequence'
    BY <1>1, <1>2, <2>1, <2>2, <2>3
       DEF StackInv, WorkerInSequence, JumpersInSequence, InSequence
  <2>7. info'.mode = "random" => WorkerAtRandom' /\ JumpersAtRandom'
    BY <1>1, <1>2, <2>1, <2>2, <2>3
       DEF StackInv, WorkerAtRandom, JumpersAtRandom, AtRandom
  <2> QED
    BY <2>4, <2>5, <2>6, <2>7 DEF StackInv
<1>5. CASE c \in JumpsAhead
  <2>1. /\ ~BetweenFiles /\ m_cmd.cmd # "jump" /\ asked[c] \in Index
        /\ \A d \in Client : d # c => ~Jumping(d)
    BY <1>1, <1>5, NotStrays DEF JumpsAhead
  <2>2. /\ m_cmd.in = NoInput /\ m_handlerIn # NoInput /\ m_handlerIn \in Input
        /\ m_handlerIn # m_streamIn /\ m_handlerIn \notin deleted
        /\ hidx[c] = asked[c] /\ (hcur[c] => asked[c] = curFile)
        /\ hpc[c] = "jump" => opened[m_handlerIn] = asked[c]
    BY <1>1, <1>5, <2>1 DEF SlotInv, StackInv, JumpersOwn, TypeOK, ClientsOK
  <2>3. JumpSound(c)
    BY <1>1, <1>5, <2>1, <2>2
       DEF StackInv, IndexesOnly, JumpersInSequence, JumpersAtRandom,
           JumpSound, InSequence, AtRandom
  <2>4. ~BetweenFiles' /\ (InFile' <=> InFile)
    BY <1>2, <2>1 DEF BetweenFiles, InFile
  <2>5. ~JumpFault(c)
    BY <2>1, <2>2 DEF JumpFault
  <2>6. JumpOpen(c) => hpc'[c] = "jump"
    BY <1>3 DEF JumpOpen, JumpIsLost, HGoto, Respond
  <2>7. ~Join(c)
    BY <1>5 DEF Join, JumpsAhead, Jumping
  <2>8. CASE \/ JumpDrain(c) \/ JumpCount(c) \/ JumpPop(c) \/ JumpFill(c)
             \/ JumpTake(c)
             \/ JumpOpen(c) /\ hpc'[c] = "jump"
    <3>1. JumpSound(c)'
      <4>1. UNCHANGED <<info, asked>>
        BY <1>2, <1>3, <2>8
           DEF JumpDrain, JumpCount, JumpPop, JumpFill, JumpTake, JumpOpen,
               HGoto, Respond
      <4>2. CASE info.mode = "seq"
        BY <1>1, <2>3, <2>8, <4>1, <4>2, SequenceKept DEF JumpCount
      <4>3. CASE info.mode = "random"
        BY <1>1, <1>5, <2>3, <2>8, <4>1, <4>3, RandomKept DEF JumpDrain
      <4> QED
        BY <1>2, <4>2, <4>3
    <3>2. /\ UNCHANGED <<m_cmd, deleted, m_handlerIn, asked, hcur, fault>>
          /\ \A d \in Client : d # c => /\ hpc'[d] = hpc[d]
                                      /\ harr'[d] = harr[d]
                                      /\ hrest'[d] = hrest[d]
          /\ hpc'[c] \notin {"idle", "join"}
          /\ opened' = opened \/ /\ opened' = [opened EXCEPT ![m_handlerIn] =
                                                              hidx[c]]
                                 /\ hpc'[c] = "jump"
          /\ hpc'[c] = "jump" => opened'[m_handlerIn] = hidx[c]
      <4>1. CASE JumpOpen(c) /\ hpc'[c] = "jump"
        BY <1>3, <2>2, <2>5, <4>1
           DEF HandlerStep, JumpOpen, HGoto, Respond, shared
      <4>2. CASE JumpDrain(c) \/ JumpCount(c)
        BY <1>3, <2>5, <4>2
           DEF HandlerStep, JumpDrain, JumpCount, HGoto, shared, inputs
      <4>3. CASE JumpPop(c)
        BY <1>3, <2>5, <4>3 DEF HandlerStep, JumpPop, HGoto, inputs
      <4>4. CASE JumpFill(c)
        BY <1>3, <2>5, <4>4 DEF HandlerStep, JumpFill, HGoto, inputs
      <4>5. CASE JumpTake(c)
        BY <1>3, <2>5, <4>5 DEF HandlerStep, JumpTake, HGoto, inputs
      <4> QED
        BY <2>8, <4>1, <4>2, <4>3, <4>4, <4>5
    <3>3. JumpsAhead' = {c} /\ ~Settled'
      BY <2>1, <3>2 DEF JumpsAhead, Jumping, Settled
    <3>4. OneOwner'
      BY <1>1, <1>2, <3>2 DEF OneOwner
    <3>5. OpenedAs'
      <4>1. InFile => opened'[m_streamIn] = opened[m_streamIn]
        BY <1>3, <2>2, <3>2
      <4> QED
        BY <1>1, <1>2, <2>1, <2>4, <3>2, <4>1 DEF OpenedAs, JumpsThere
    <3>6. JumpersOwn'
      BY <1>2, <2>2, <3>1, <3>2, <3>3 DEF JumpersOwn, JumpSound
    <3>7. IndexesOnly'
      <4>1. \A d \in Client :
              harr'[d] \in Seq(Index) /\ hrest'[d] \in Seq(Index)
        BY <1>1, <3>1, <3>2 DEF StackInv, IndexesOnly, JumpSound
      <4> QED
        BY <1>1, <1>2, <3>1, <4>1 DEF StackInv, IndexesOnly, JumpSound
    <3>8. info'.mode = "seq" => WorkerInSequence' /\ JumpersInSequence'
      BY <2>1, <2>4, <3>1, <3>2, <3>3
         DEF WorkerInSequence, JumpersInSequence, JumpSound, BetweenFiles,
             InSequence
    <3>9. info'.mode = "random" => WorkerAtRandom' /\ JumpersAtRandom'
      BY <2>1, <2>4, <3>1, <3>2, <3>3
         DEF WorkerAtRandom, JumpersAtRandom, JumpSound, BetweenFiles, AtRandom
    <3> QED
      BY <3>4, <3>5, <3>6, <3>7, <3>8, <3>9 DEF StackInv
  <2>9. CASE JumpSet(c)
    <3>1. /\ m_cmd'.cmd = "jump" /\ m_cmd'.in = m_handlerIn
          /\ m_cmd'.asked = asked[c]
          /\ m_cmd'.index = IF hcur[c] THEN curFile ELSE hidx[c]
          /\ hpc' = [hpc EXCEPT ![c] = "idle"]
          /\ harr' = [harr EXCEPT ![c] = <<>>]
          /\ hrest' = [hrest EXCEPT ![c] = <<>>]
          /\ hpc[c] = "jump" /\ UNCHANGED <<m_playStack, deleted, opened, fault>>
      BY <2>9, <2>5 DEF HandlerStep, JumpSet, Respond, HGoto, inputs
    <3>2. JumpsAhead' = {} /\ ~Settled'
      BY <1>3, <2>1, <3>1 DEF JumpsAhead, Jumping, Settled
    <3>3. OneOwner'
      BY <1>1, <1>2, <2>2, <3>1 DEF OneOwner
    <3>4. OpenedAs'
      BY <1>1, <1>2, <2>2, <2>4, <3>1 DEF OpenedAs, JumpsThere
    <3>5. IndexesOnly'
      <4>1. \A d \in Client :
              harr'[d] \in Seq(Index) /\ hrest'[d] \in Seq(Index)
        BY <1>1, <1>3, <3>1, Empty DEF StackInv, IndexesOnly
      <4> QED
        BY <1>1, <1>2, <3>1, <4>1 DEF StackInv, IndexesOnly
    <3>6. info'.mode = "seq" => WorkerInSequence'
      BY <1>2, <2>3, <2>4, <3>1, <3>2
         DEF WorkerInSequence, JumpSound, BetweenFiles, InSequence
    <3>7. info'.mode = "random" => WorkerAtRandom'
      BY <1>2, <2>3, <2>4, <3>1, <3>2
         DEF WorkerAtRandom, JumpSound, BetweenFiles, AtRandom
    <3> QED
      BY <3>2, <3>3, <3>4, <3>5, <3>6, <3>7
         DEF StackInv, JumpersOwn, JumpersInSequence, JumpersAtRandom,
             InSequence, AtRandom
  <2>10. Handler(c)
    BY <2>5 DEF HandlerStep
  <2>11. JumpOpen(c) => JumpOpen(c) /\ hpc'[c] = "jump"
    BY <2>6
  <2> QED
    BY <2>7, <2>8, <2>9, <2>10, <2>11 DEF Handler
<1>6. c \notin JumpsAhead => Join(c)
  BY DEF HandlerStep, Handler, JumpFault, JumpsAhead, Jumping, JumpDrain,
         JumpCount, JumpPop, JumpFill, JumpTake, JumpOpen, JumpSet
<1> QED
  BY <1>4, <1>5, <1>6

(* A request keeps what jumps rest on: a jump begins with an input of its  *)
(* own, and while nothing else is ahead of the worker.                     *)
LEMMA RequestJumps ==
  ASSUME JumpInv, NEW c \in Client, RequestStep(c),
         ~astray, ~Strays', ~JumpIsLost
  PROVE  OneOwner' /\ OpenedAs' /\ StackInv'
<1>1. TypeOK /\ SlotInv /\ OneOwner /\ JumpsThere /\ ~Strays /\ StackInv
  BY DEF JumpInv
<1>2. /\ UNCHANGED <<info, m_streamIn, curFile, wpc, rest, file, fault>>
      /\ (InFile' <=> InFile) /\ info.mode \in {"seq", "random"}
  BY <1>1, NotStrays DEF RequestStep, stream, worker, InFile
<1>3. /\ hpc \in [Client -> {"idle", "update", "drainPop", "fill", "pop", "open",
                            "jump", "join"}]
      /\ DOMAIN hidx = Client /\ DOMAIN hcur = Client /\ DOMAIN asked = Client
  BY <1>1 DEF TypeOK, ClientsOK
<1>4. CASE Pause(c) \/ Resume(c) \/ Stop(c)
  <2>1. /\ UNCHANGED <<m_playStack, hidx, harr, hrest, hcur, m_handlerIn, asked,
                       deleted, opened>>
        /\ \A d \in Client : Jumping(d)' <=> Jumping(d)
        /\ \A d \in Client : Jumping(d) => hpc'[d] = hpc[d]
    BY <1>3, <1>4
       DEF Pause, Resume, SetCmd, Stop, HGoto, Idle, Jumping, clients, inputs
  <2>2. \/ m_cmd' = m_cmd
        \/ m_cmd'.cmd \in {"pause", "resume"} /\ m_cmd'.in = NoInput
    BY <1>4 DEF Pause, Resume, SetCmd, Stop, NoCmd
  <2>3. m_cmd'.cmd = "jump" <=> m_cmd.cmd = "jump"
    BY <2>2 DEF JumpIsLost, NoCmd
  <2>4. m_cmd'.cmd = "jump" => m_cmd' = m_cmd
    BY <2>2
  <2>5. /\ JumpsAhead' = JumpsAhead /\ (Settled' <=> Settled)
        /\ \A d \in JumpsAhead : hpc'[d] = hpc[d]
    BY <2>1, <2>3 DEF JumpsAhead, Settled
  <2>6. OneOwner'
    <3>1. NoInput \notin deleted
      BY <1>1, Bounds DEF TypeOK, NoInput, Input
    <3> QED
      BY <1>1, <1>2, <2>1, <2>2, <3>1 DEF OneOwner
  <2>7. OpenedAs'
    BY <1>1, <1>2, <2>1, <2>3, <2>4 DEF OpenedAs, JumpsThere
  <2>8. JumpersOwn' /\ IndexesOnly'
    BY <1>1, <1>2, <2>1, <2>5 DEF StackInv, JumpersOwn, IndexesOnly
  <2>9. info'.mode = "seq" => WorkerInSequence' /\ JumpersInSequence'
    BY <1>1, <1>2, <2>1, <2>3, <2>4, <2>5
       DEF StackInv, WorkerInSequence, JumpersInSequence, InSequence
  <2>10. info'.mode = "random" => WorkerAtRandom' /\ JumpersAtRandom'
    BY <1>1, <1>2, <2>1, <2>3, <2>4, <2>5
       DEF StackInv, WorkerAtRandom, JumpersAtRandom, AtRandom
  <2> QED
    BY <2>6, <2>7, <2>8, <2>9, <2>10 DEF StackInv
<1>5. ASSUME NEW i \in JumpTo \cup {Current}, Jump(c, i)
      PROVE  OneOwner' /\ OpenedAs' /\ StackInv'
  <2> DEFINE x == IF i = Current THEN curFile ELSE i
  <2>1. /\ hcur' = [hcur EXCEPT ![c] = (i = Current)]
        /\ hidx' = [hidx EXCEPT ![c] = x] /\ asked' = [asked EXCEPT ![c] = x]
        /\ hpc' = [hpc EXCEPT ![c] = "update"]
        /\ hpc[c] = "idle"
        /\ m_handlerIn' = Fresh /\ deleted' = deleted \ {Fresh}
        /\ UNCHANGED <<m_cmd, m_playStack, harr, hrest, opened>>
    BY <1>5 DEF Jump, NewInput, HGoto, Idle, shared
  <2>2. hidx'[c] = x /\ asked'[c] = x /\ hcur'[c] = (i = Current)
        /\ hpc'[c] = "update"
    BY <1>3, <2>1
  <2>3. c \in JumpsAhead'
    BY <2>2 DEF JumpsAhead, Jumping
  <2>4. /\ ~BetweenFiles' /\ m_cmd'.cmd # "jump" /\ x \in Index
        /\ \A d \in JumpsAhead' : d = c
    BY <2>2, <2>3 DEF Strays
  <2>5. JumpsAhead' = {c} /\ JumpsAhead = {}
    BY <1>3, <2>1, <2>3, <2>4 DEF JumpsAhead, Jumping
  <2>6. Settled /\ ~Settled'
    BY <2>1, <2>4, <2>5 DEF Settled
  <2>7. OneOwner'
    BY <1>1, <1>2, <2>1 DEF OneOwner
  <2>8. OpenedAs'
    BY <1>1, <1>2, <2>1, <2>4 DEF OpenedAs, JumpsThere
  <2>9. JumpersOwn'
    <3>1. hcur'[c] => x = curFile
      BY <2>2
    <3>2. m_handlerIn' # m_streamIn' /\ m_handlerIn' \notin deleted'
      BY <1>2, <2>1, FreshIsNew
    <3> HIDE DEF x
    <3> QED
      BY <1>2, <2>2, <2>5, <3>1, <3>2 DEF JumpersOwn
  <2>10. IndexesOnly'
    BY <1>1, <1>2, <2>1 DEF StackInv, IndexesOnly
  <2>11. info'.mode = "seq" => WorkerInSequence' /\ JumpersInSequence'
    BY <2>2, <2>4, <2>5, <2>6
       DEF WorkerInSequence, JumpersInSequence, BetweenFiles, InSequence
  <2>12. info'.mode = "random" => WorkerAtRandom' /\ JumpersAtRandom'
    <3>1. info.mode = "random" => IsInjective(m_playStack')
      BY <1>1, <2>1, <2>6 DEF StackInv, WorkerAtRandom
    <3> QED
      BY <1>2, <2>2, <2>4, <2>5, <2>6, <3>1
         DEF WorkerAtRandom, JumpersAtRandom, BetweenFiles, AtRandom
  <2> QED
    BY <2>7, <2>8, <2>9, <2>10, <2>11, <2>12 DEF StackInv
<1> QED
  BY <1>4, <1>5 DEF RequestStep, Request

(* What jumps rest on says what is promised of them.                       *)
LEMMA JumpsFollow ==
  ASSUME TypeOK, ~Strays, StackInv, OpenedAs PROVE JumpsThere
<1>1. info.mode \in {"seq", "random"}
  BY NotStrays
<1> QED
  BY <1>1 DEF JumpsThere, OpenedAs, StackInv, WorkerInSequence, WorkerAtRandom

(* Every step keeps the invariant, in sequence and in random order.        *)
LEMMA JumpInvKept == JumpInv /\ [Next]_vars => JumpInv'
<1> SUFFICES ASSUME JumpInv, [Next]_vars PROVE JumpInv'
  OBVIOUS
<1>1. TypeOK' /\ SlotInv'
  BY NextTypes, SlotKept DEF JumpInv
<1>2. CASE /\ UNCHANGED <<shared, stream, worker, clients, inputs, fault, astray>>
  BY <1>1, <1>2
     DEF JumpInv, OneOwner, JumpsThere, StackInv, JumpersOwn, IndexesOnly,
         WorkerInSequence, JumpersInSequence, WorkerAtRandom, JumpersAtRandom,
         Strays, JumpsAhead, Jumping, Settled, InFile, BetweenFiles, shared,
         stream, worker, clients, inputs, InSequence, AtRandom
<1>3. CASE WorkerStep \/ \E c \in Client : HandlerStep(c) \/ RequestStep(c)
  <2>1. CASE astray'
    BY <1>1, <2>1 DEF JumpInv, OneOwner, JumpsThere
  <2>2. CASE ~astray'
    <3>1. ~astray /\ ~Strays' /\ ~JumpIsLost
      BY <1>3, <2>2, NotAstray
         DEF JumpInv, WorkerStep, HandlerStep, RequestStep
    <3>2. ASSUME WorkerStep PROVE OneOwner' /\ OpenedAs' /\ StackInv'
      BY <3>1, <3>2, WorkerPlays, WorkerStacks, WorkerOpens
    <3>3. ASSUME NEW c \in Client, HandlerStep(c) \/ RequestStep(c)
          PROVE  OneOwner' /\ OpenedAs' /\ StackInv'
      BY <3>1, <3>3, HandlerJumps, RequestJumps
    <3>4. OneOwner' /\ OpenedAs' /\ StackInv'
      BY <1>3, <3>2, <3>3
    <3>5. JumpsThere'
      BY <1>1, <3>1, <3>4, JumpsFollow, PTL
    <3> QED
      BY <1>1, <3>1, <3>4, <3>5 DEF JumpInv
  <2> QED
    BY <2>1, <2>2
<1> QED
  BY <1>2, <1>3 DEF Next, vars, Tick

(* The stream starts without jumps and with an empty stack.                *)
LEMMA InitJumps == Init => JumpInv
<1> SUFFICES ASSUME Init PROVE JumpInv
  OBVIOUS
<1>1. TypeOK
  BY InitTypes
<1>2. /\ JumpsAhead = {} /\ ~InFile /\ wpc = "init" /\ m_cmd.cmd = "none"
      /\ m_cmd.in = NoInput /\ m_playStack = <<>> /\ rest = <<>>
      /\ \A c \in Client : harr[c] = <<>> /\ hrest[c] = <<>>
      /\ deleted = {} /\ fault = "none"
  BY DEF Init, NoCmd, JumpsAhead, Jumping, InFile
<1>3. SlotInv /\ OneOwner /\ JumpsThere /\ ~Strays
  BY <1>2 DEF SlotInv, OneOwner, JumpsThere, Strays
<1>4. JumpersOwn /\ IndexesOnly
  BY <1>2, Empty DEF JumpersOwn, IndexesOnly
<1>5. WorkerInSequence /\ JumpersInSequence
  BY <1>2 DEF WorkerInSequence, JumpersInSequence, InSequence
<1>6. WorkerAtRandom /\ JumpersAtRandom
  BY <1>2, Empty DEF WorkerAtRandom, JumpersAtRandom, AtRandom
<1> QED
  BY <1>1, <1>3, <1>4, <1>5, <1>6 DEF JumpInv, StackInv

(* OneOwner: as long as no jump meets what the code does not provide for,  *)
(* the worker's input and the one in the command slot are two objects that *)
(* live, and no index outside the list is used.                            *)
THEOREM InputsHaveOneOwner == Spec => []OneOwner
<1>1. Init => JumpInv
  BY InitJumps
<1>2. JumpInv /\ [Next]_vars => JumpInv'
  BY JumpInvKept
<1>3. JumpInv => OneOwner
  BY DEF JumpInv
<1> QED
  BY <1>1, <1>2, <1>3, PTL DEF Spec

(* JumpsThere: a jump goes to the file the client asked for, under its own *)
(* index, and what is played after it in this cycle are the files behind   *)
(* it; in a random list, no file twice.                                    *)
THEOREM JumpsAreThere == Spec => []JumpsThere
<1>1. Init => JumpInv
  BY InitJumps
<1>2. JumpInv /\ [Next]_vars => JumpInv'
  BY JumpInvKept
<1>3. JumpInv => JumpsThere
  BY DEF JumpInv
<1> QED
  BY <1>1, <1>2, <1>3, PTL DEF Spec

-----------------------------------------------------------------------------
(* Numbers and folds.                                                     *)

(* A set of numbers has a least.                                           *)
LEMMA LeastOf ==
  ASSUME NEW T, T \subseteq Nat, T # {}
  PROVE  \E x \in T : \A y \in T : x <= y
<1> DEFINE R == {ss \in Nat \X Nat : ss[1] < ss[2]}
<1>1. IsWellFoundedOn(R, Nat)
  BY NatLessThanWellFounded DEF OpToRel
<1>2. PICK x \in T : \A y \in T : ~(<<y, x>> \in R)
  <2> HIDE DEF R
  <2> QED
    BY <1>1, WFMin
<1>3. ASSUME NEW y \in T PROVE x <= y
  <2>1. x \in Nat /\ y \in Nat
    OBVIOUS
  <2>2. y < x => <<y, x>> \in R
    BY <2>1
  <2> QED
    BY <1>2, <2>1, <2>2
<1> QED
  BY <1>3

(* The largest of some of the numbers up to m; the others are smaller.     *)
LEMMA TopOf ==
  ASSUME NEW m \in Nat, NEW s \in SUBSET (1..m), s # {}
  PROVE  /\ Max(s) \in s
         /\ \A x \in s : x <= Max(s)
         /\ s \ {Max(s)} \in SUBSET (1..m - 1)
<1> DEFINE T == {m - x : x \in s}
<1>1. T \subseteq Nat /\ T # {}
  <2>1. \A x \in s : x \in 1..m
    OBVIOUS
  <2>2. \A x \in s : m - x \in Nat
    BY <2>1
  <2> QED
    BY <2>2
<1>2. PICK t \in T : \A y \in T : t <= y
  <2> HIDE DEF T
  <2> QED
    BY <1>1, LeastOf
<1>3. PICK top \in s : t = m - top
  BY <1>2
<1>4. \A x \in s : top >= x
  <2> TAKE x \in s
  <2>1. m - x \in T /\ x \in 1..m /\ top \in 1..m
    OBVIOUS
  <2>2. t <= m - x
    BY <1>2, <2>1
  <2> QED
    BY <1>3, <2>1, <2>2
<1>5. Max(s) \in s /\ \A x \in s : Max(s) >= x
  BY <1>3, <1>4 DEF Max
<1>6. ASSUME NEW x \in s \ {Max(s)} PROVE x \in 1..m - 1
  <2>1. x \in 1..m /\ Max(s) \in 1..m /\ x <= Max(s) /\ x # Max(s)
    BY <1>5
  <2> QED
    BY <2>1
<1> QED
  BY <1>5, <1>6

(* The largest of the first numbers.                                       *)
LEMMA TopOfRun ==
  ASSUME NEW k \in Nat, k > 0
  PROVE  Max(1..k) = k /\ (1..k) \ {k} = 1..k - 1
<1>1. k \in 1..k /\ 1..k # {} /\ 1..k \in SUBSET (1..k)
  <2>1. k \in 1..k
    OBVIOUS
  <2> QED
    BY <2>1
<1>2. Max(1..k) \in 1..k /\ \A x \in 1..k : x <= Max(1..k)
  BY <1>1, TopOf
<1>3. Max(1..k) = k
  BY <1>1, <1>2
<1>4. \A x : x \in (1..k) \ {k} <=> x \in 1..k - 1
  OBVIOUS
<1> QED
  BY <1>3, <1>4

(* What holds at 0, and at a number when it holds at the one before it,    *)
(* holds up to n.                                                          *)
LEMMA Upwards ==
  ASSUME NEW n \in Nat, NEW Reached, 0 \in Reached,
         \A k \in 1..n : k - 1 \in Reached => k \in Reached
  PROVE  \A k \in 0..n : k \in Reached
<1> DEFINE T == {k \in 0..n : k \notin Reached}
<1> SUFFICES ASSUME T # {} PROVE FALSE
  OBVIOUS
<1>1. PICK k \in T : \A y \in T : k <= y
  <2>1. T \subseteq Nat
    OBVIOUS
  <2> HIDE DEF T
  <2> QED
    BY <2>1, LeastOf
<1>2. k \in 1..n /\ k - 1 \in 0..n /\ ~(k <= k - 1)
  BY <1>1
<1>3. k - 1 \in Reached
  BY <1>1, <1>2
<1> QED
  BY <1>1, <1>2, <1>3

(* The steps of all folds: the rounds of encode, what is put out, packets, *)
(* files; the time of what was sent, the samples of what was decoded.      *)
Step(p, a, x) ==
  CASE p.fold = "rounds"  -> MakeCode(a, p.bytes)
    [] p.fold = "tries"   -> Try(a, p.fd, x)
    [] p.fold = "output"  -> PushData(a, x, p.fate)
    [] p.fold = "packets" ->
         ConvertPacket(Again(a, p.in, p.silence), p.in, x = 1, p.packets[x])
    [] p.fold = "files"   ->
         PlayFile(a, OpenIn(p.list[p.indexes[x]]), p.script[x], FALSE)
    [] p.fold = "time"    ->
         IF x.untimed THEN a ELSE a + FrameTime(x.samples, x.rate)
    [] p.fold = "samples" ->
         a + (x.samples * (p.rate \div 25)) \div (x.rate \div 25)

(* The community modules define a fold by a function of sets of indexes.   *)
Folding(p, base, n, q, g) ==
  [s \in SUBSET (1..n) |->
     IF s = {} THEN base ELSE Step(p, g[s \ {Max(s)}], q[Max(s)])]

Follows(p, base, n, q, g) ==
  /\ g[1..0] = base
  /\ \A k \in 1..n : g[1..k] = Step(p, g[1..k - 1], q[k])

(* There is such a function.                                               *)
LEMMA FoldExists ==
  ASSUME NEW p, NEW base, NEW n \in Nat, NEW q
  PROVE  \E g : g = Folding(p, base, n, q, g)
<1> DEFINE F(g, m) == [s \in SUBSET (1..m) |->
                         IF s = {} THEN base
                         ELSE Step(p, g[s \ {Max(s)}], q[Max(s)])]
           Reached == {m \in 0..n : \E g : g = F(g, m)}
<1>1. 0 \in Reached
  <2> DEFINE g == F(<<>>, 0)
  <2>1. SUBSET (1..0) = {{}}
    OBVIOUS
  <2>2. g = F(g, 0)
    BY <2>1
  <2> HIDE DEF g
  <2> QED
    BY <2>2
<1>2. ASSUME NEW m \in 1..n, m - 1 \in Reached PROVE m \in Reached
  <2>1. PICK g : g = F(g, m - 1)
    BY <1>2
  <2> DEFINE g2 == F(g, m)
  <2>2. ASSUME NEW s \in SUBSET (1..m)
        PROVE  g2[s] = F(g2, m)[s]
    <3>1. CASE s = {}
      BY <3>1
    <3>2. CASE s # {}
      <4> DEFINE t == s \ {Max(s)}
      <4>1. t \in SUBSET (1..m - 1) /\ t \in SUBSET (1..m)
        BY <3>2, TopOf
      <4>2. g[t] = g2[t]
        <5>1. g[t] = F(g, m - 1)[t]
          BY <2>1
        <5> HIDE DEF t
        <5> QED
          BY <4>1, <5>1
      <4> HIDE DEF t
      <4>3. g2[s] = Step(p, g[t], q[Max(s)])
        BY <3>2 DEF t
      <4>4. F(g2, m)[s] = Step(p, g2[t], q[Max(s)])
        <5> HIDE DEF g2
        <5> QED
          BY <3>2 DEF t
      <4> QED
        BY <4>2, <4>3, <4>4
    <3> QED
      BY <3>1, <3>2
  <2>3. g2 = F(g2, m)
    <3>1. g2 = [s \in SUBSET (1..m) |-> g2[s]]
      OBVIOUS
    <3> HIDE DEF g2
    <3>2. F(g2, m) = [s \in SUBSET (1..m) |-> F(g2, m)[s]]
      OBVIOUS
    <3>3. [s \in SUBSET (1..m) |-> g2[s]] = [s \in SUBSET (1..m) |-> F(g2, m)[s]]
      <4> HIDE DEF F
      <4> QED
        BY <2>2
    <3> QED
      BY <3>1, <3>2, <3>3
  <2> HIDE DEF g2
  <2> QED
    BY <2>3
<1>3. \A m \in 0..n : m \in Reached
  <2> HIDE DEF Reached
  <2> QED
    BY <1>1, <1>2, Upwards
<1>4. n \in Reached
  <2> HIDE DEF Reached
  <2> QED
    BY <1>3
<1> QED
  BY <1>4 DEF Folding

(* Of such a function the first indexes are the fold's way.                *)
LEMMA FoldRun ==
  ASSUME NEW p, NEW base, NEW n \in Nat, NEW q, NEW g,
         g = Folding(p, base, n, q, g)
  PROVE  Follows(p, base, n, q, g)
<1>0. g = [s \in SUBSET (1..n) |->
             IF s = {} THEN base ELSE Step(p, g[s \ {Max(s)}], q[Max(s)])]
  BY DEF Folding
<1>1. g[1..0] = base
  <2>1. 1..0 = {} /\ 1..0 \in SUBSET (1..n)
    OBVIOUS
  <2> QED
    BY <1>0, <2>1
<1>2. ASSUME NEW k \in 1..n
      PROVE  g[1..k] = Step(p, g[1..k - 1], q[k])
  <2>1. Max(1..k) = k /\ (1..k) \ {k} = 1..k - 1
    BY TopOfRun
  <2>2. 1..k \in SUBSET (1..n) /\ 1..k # {}
    <3>1. k \in 1..k /\ \A x \in 1..k : x \in 1..n
      OBVIOUS
    <3> QED
      BY <3>1
  <2> QED
    BY <1>0, <2>1, <2>2
<1> QED
  BY <1>1, <1>2 DEF Follows

(* The states a frame goes through in encode.                              *)
Coded(a, bytes, q) == FoldLeft(LAMBDA b, k : MakeCode(b, bytes), a, q)

Codes(h, a, bytes, n, q) ==
  /\ h[0] = a /\ h[n] = Coded(a, bytes, q)
  /\ \A k \in 1..n : h[k] = MakeCode(h[k - 1], bytes)

(* The rounds are the fold of encode.                                      *)
LEMMA CodedRun ==
  ASSUME NEW a, NEW bytes, NEW n \in Nat, NEW q, DOMAIN q = 1..n
  PROVE  \E h : Codes(h, a, bytes, n, q)
<1> DEFINE p == [fold |-> "rounds", bytes |-> bytes]
           F(g) == [s \in SUBSET (1..n) |->
                      IF s = {} THEN a ELSE MakeCode(g[s \ {Max(s)}], bytes)]
           c == CHOOSE g : g = F(g)
           h == [k \in 0..n |-> c[1..k]]
<1>1. Coded(a, bytes, q) = c[1..n]
  BY DEF Coded, FoldLeft, MapThenFoldSet
<1>2. \A b, x : Step(p, b, x) = MakeCode(b, bytes)
  BY DEF Step
<1> HIDE DEF p
<1>3. \A g : F(g) = Folding(p, a, n, q, g)
  BY <1>2 DEF Folding
<1> HIDE DEF F
<1>4. c = Folding(p, a, n, q, c)
  BY <1>3, FoldExists
<1> HIDE DEF c
<1>5. Follows(p, a, n, q, c)
  BY <1>4, FoldRun
<1>6. h[0] = a /\ h[n] = c[1..n]
  BY <1>5 DEF Follows
<1>7. \A k \in 1..n : h[k] = MakeCode(h[k - 1], bytes)
  BY <1>2, <1>5 DEF Follows
<1> HIDE DEF h
<1> QED
  BY <1>1, <1>6, <1>7 DEF Codes

(* The output after each attempt to send a frame.                          *)
Tried(o, fd, q) == FoldLeft(LAMBDA x, attempt : Try(x, fd, attempt), o, q)

Tries(h, o, fd, n, q) ==
  /\ h[0] = o /\ h[n] = Tried(o, fd, q)
  /\ \A k \in 1..n : h[k] = Try(h[k - 1], fd, q[k])

(* They are the fold of pushFrame.                                         *)
LEMMA TriesRun ==
  ASSUME NEW o, NEW fd, NEW n \in Nat, NEW q, DOMAIN q = 1..n
  PROVE  \E h : Tries(h, o, fd, n, q)
<1> DEFINE p == [fold |-> "tries", fd |-> fd]
           F(g) == [i \in SUBSET (1..n) |->
                      IF i = {} THEN o ELSE Try(g[i \ {Max(i)}], fd, q[Max(i)])]
           c == CHOOSE g : g = F(g)
           h == [k \in 0..n |-> c[1..k]]
<1>1. Tried(o, fd, q) = c[1..n]
  BY DEF Tried, FoldLeft, MapThenFoldSet
<1>2. \A b, x : Step(p, b, x) = Try(b, fd, x)
  BY DEF Step
<1> HIDE DEF p
<1>3. \A g : F(g) = Folding(p, o, n, q, g)
  BY <1>2 DEF Folding
<1> HIDE DEF F
<1>4. c = Folding(p, o, n, q, c)
  BY <1>3, FoldExists
<1> HIDE DEF c
<1>5. Follows(p, o, n, q, c)
  BY <1>4, FoldRun
<1>6. h[0] = o /\ h[n] = c[1..n]
  BY <1>5 DEF Follows
<1>7. \A k \in 1..n : h[k] = Try(h[k - 1], fd, q[k])
  BY <1>2, <1>5 DEF Follows
<1> HIDE DEF h
<1> QED
  BY <1>1, <1>6, <1>7 DEF Tries

(* The states in which pushFile sends what the encoder has put out.        *)
Sent(s, fate, q) == FoldLeft(LAMBDA t, d : PushData(t, d, fate), s, q)

Sends(h, s, fate, n, q) ==
  /\ h[0] = s /\ h[n] = Sent(s, fate, q)
  /\ \A k \in 1..n : h[k] = PushData(h[k - 1], q[k], fate)

(* They are pushFile's fold over what was put out.                         *)
LEMMA SentRun ==
  ASSUME NEW s, NEW fate, NEW n \in Nat, NEW q, DOMAIN q = 1..n
  PROVE  \E h : Sends(h, s, fate, n, q)
<1> DEFINE p == [fold |-> "output", fate |-> fate]
           F(g) == [i \in SUBSET (1..n) |->
                      IF i = {} THEN s
                      ELSE PushData(g[i \ {Max(i)}], q[Max(i)], fate)]
           c == CHOOSE g : g = F(g)
           h == [k \in 0..n |-> c[1..k]]
<1>1. Sent(s, fate, q) = c[1..n]
  BY DEF Sent, FoldLeft, MapThenFoldSet
<1>2. \A b, x : Step(p, b, x) = PushData(b, x, fate)
  BY DEF Step
<1> HIDE DEF p
<1>3. \A g : F(g) = Folding(p, s, n, q, g)
  BY <1>2 DEF Folding
<1> HIDE DEF F
<1>4. c = Folding(p, s, n, q, c)
  BY <1>3, FoldExists
<1> HIDE DEF c
<1>5. Follows(p, s, n, q, c)
  BY <1>4, FoldRun
<1>6. h[0] = s /\ h[n] = c[1..n]
  BY <1>5 DEF Follows
<1>7. \A k \in 1..n : h[k] = PushData(h[k - 1], q[k], fate)
  BY <1>2, <1>5 DEF Follows
<1> HIDE DEF h
<1> QED
  BY <1>1, <1>6, <1>7 DEF Sends

(* The states after each packet of a file.                                 *)
PlaysPackets(h, s, in, packets, silence, n) ==
  /\ h[0] = s /\ h[n] = PlayFile(s, in, packets, silence)
  /\ \A k \in 1..n :
       h[k] = ConvertPacket(Again(h[k - 1], in, silence), in, k = 1, packets[k])

(* They are PlayFile's fold.                                               *)
LEMMA PacketsRun ==
  ASSUME NEW s, NEW in, NEW packets, NEW silence, NEW n \in Nat, n = Len(packets)
  PROVE  \E h : PlaysPackets(h, s, in, packets, silence, n)
<1> DEFINE q == [k \in 1..n |-> k]
           p == [fold |-> "packets", in |-> in, packets |-> packets,
                 silence |-> silence]
           Op(b, x) == ConvertPacket(Again(b, in, silence), in, x = 1, packets[x])
           F(g) == [i \in SUBSET (1..n) |->
                      IF i = {} THEN s ELSE Op(g[i \ {Max(i)}], q[Max(i)])]
           c == CHOOSE g : g = F(g)
           h == [k \in 0..n |-> c[1..k]]
<1>0. DOMAIN q = 1..n /\ \A k \in 1..n : q[k] = k
  OBVIOUS
<1>1. PlayFile(s, in, packets, silence) = c[1..n]
  BY DEF PlayFile, FoldLeft, MapThenFoldSet
<1>2. \A b, x : Step(p, b, x) = Op(b, x)
  BY DEF Step
<1> HIDE DEF p, Op, q
<1>3. \A g : F(g) = Folding(p, s, n, q, g)
  BY <1>2 DEF Folding
<1> HIDE DEF F
<1>4. c = Folding(p, s, n, q, c)
  BY <1>3, FoldExists
<1> HIDE DEF c, h
<1>5. Follows(p, s, n, q, c)
  BY <1>4, FoldRun
<1>6. h[0] = s /\ h[n] = c[1..n]
  BY <1>5 DEF Follows, h
<1>7. \A k \in 1..n :
        h[k] = ConvertPacket(Again(h[k - 1], in, silence), in, k = 1, packets[k])
  <2> TAKE k \in 1..n
  <2>1. h[k] = Op(h[k - 1], k)
    BY <1>0, <1>2, <1>5 DEF Follows, h
  <2> QED
    BY <2>1 DEF Op
<1> QED
  BY <1>1, <1>6, <1>7 DEF PlaysPackets

(* The states after each file.                                             *)
PlaysFiles(h, list, want, kind, indexes, script, n) ==
  /\ h[0] = OpenCodec(list, want, kind)
  /\ h[n] = Played(list, want, kind, indexes, script)
  /\ \A k \in 1..n :
       h[k] = PlayFile(h[k - 1], OpenIn(list[indexes[k]]), script[k], FALSE)

(* They are Played's fold.                                                 *)
LEMMA FilesRun ==
  ASSUME NEW list, NEW want, NEW kind, NEW indexes, NEW script,
         NEW n \in Nat, n = Len(indexes)
  PROVE  \E h : PlaysFiles(h, list, want, kind, indexes, script, n)
<1> DEFINE s == OpenCodec(list, want, kind)
           q == [k \in 1..n |-> k]
           p == [fold |-> "files", list |-> list, indexes |-> indexes,
                 script |-> script]
           Op(b, x) == PlayFile(b, OpenIn(list[indexes[x]]), script[x], FALSE)
           F(g) == [i \in SUBSET (1..n) |->
                      IF i = {} THEN s ELSE Op(g[i \ {Max(i)}], q[Max(i)])]
           c == CHOOSE g : g = F(g)
           h == [k \in 0..n |-> c[1..k]]
<1>0. DOMAIN q = 1..n /\ \A k \in 1..n : q[k] = k
  OBVIOUS
<1>1. Played(list, want, kind, indexes, script) = c[1..n]
  BY DEF Played, FoldLeft, MapThenFoldSet
<1>2. \A b, x : Step(p, b, x) = Op(b, x)
  BY DEF Step
<1> HIDE DEF p, Op, q, s
<1>3. \A g : F(g) = Folding(p, s, n, q, g)
  BY <1>2 DEF Folding
<1> HIDE DEF F
<1>4. c = Folding(p, s, n, q, c)
  BY <1>3, FoldExists
<1> HIDE DEF c
<1>5. Follows(p, s, n, q, c)
  BY <1>4, FoldRun
<1>6. h[0] = s /\ h[n] = c[1..n]
  BY <1>5 DEF Follows
<1>7. \A k \in 1..n : h[k] =
        PlayFile(h[k - 1], OpenIn(list[indexes[k]]), script[k], FALSE)
  <2> TAKE k \in 1..n
  <2>1. h[k] = Op(h[k - 1], k)
    BY <1>0, <1>2, <1>5 DEF Follows
  <2> QED
    BY <2>1 DEF Op
<1> HIDE DEF h
<1> QED
  BY <1>1, <1>6, <1>7 DEF s, PlaysFiles

(* The time of frames that were sent.                                      *)
TimeOf(q) ==
  FoldLeft(LAMBDA t, x :
             IF x.untimed THEN t ELSE t + FrameTime(x.samples, x.rate), 0, q)

(* The sum of their times is a fold.                                       *)
LEMMA TimeRun ==
  ASSUME NEW n \in Nat, NEW q, DOMAIN q = 1..n
  PROVE  \E h : /\ h[0] = 0 /\ h[n] = TimeOf(q)
                /\ \A k \in 1..n :
                     h[k] = IF q[k].untimed THEN h[k - 1]
                            ELSE h[k - 1] + FrameTime(q[k].samples, q[k].rate)
<1> DEFINE p == [fold |-> "time"]
           Op(b, x) == IF x.untimed THEN b ELSE b + FrameTime(x.samples, x.rate)
           F(g) == [i \in SUBSET (1..n) |->
                      IF i = {} THEN 0 ELSE Op(g[i \ {Max(i)}], q[Max(i)])]
           c == CHOOSE g : g = F(g)
           h == [k \in 0..n |-> c[1..k]]
<1>1. TimeOf(q) = c[1..n]
  BY DEF TimeOf, FoldLeft, MapThenFoldSet
<1>2. \A b, x : Step(p, b, x) = Op(b, x)
  BY DEF Step
<1> HIDE DEF p, Op
<1>3. \A g : F(g) = Folding(p, 0, n, q, g)
  BY <1>2 DEF Folding
<1> HIDE DEF F
<1>4. c = Folding(p, 0, n, q, c)
  BY <1>3, FoldExists
<1> HIDE DEF c
<1>5. Follows(p, 0, n, q, c)
  BY <1>4, FoldRun
<1>6. h[0] = 0 /\ h[n] = c[1..n]
  BY <1>5 DEF Follows
<1>7. \A k \in 1..n : h[k] = Op(h[k - 1], q[k])
  BY <1>2, <1>5 DEF Follows
<1> HIDE DEF h
<1> QED
  BY <1>1, <1>6, <1>7 DEF Op

(* The samples of frames that were decoded, at a rate.                     *)
Worth(rate, x) == (x.samples * (rate \div 25)) \div (x.rate \div 25)

SamplesOf(rate, q) ==
  FoldLeft(LAMBDA t, a : t + (a.samples * (rate \div 25))
                               \div (a.rate \div 25), 0, q)

Counts(h, rate, n, q) ==
  /\ h[0] = 0 /\ h[n] = SamplesOf(rate, q)
  /\ \A k \in 1..n : h[k] = h[k - 1] + Worth(rate, q[k])

(* The sum of resampled frames is a fold.                                  *)
LEMMA SamplesRun ==
  ASSUME NEW rate, NEW n \in Nat, NEW q, DOMAIN q = 1..n
  PROVE  \E h : Counts(h, rate, n, q)
<1> DEFINE p == [fold |-> "samples", rate |-> rate]
           Op(b, x) == b + Worth(rate, x)
           F(g) == [i \in SUBSET (1..n) |->
                      IF i = {} THEN 0 ELSE Op(g[i \ {Max(i)}], q[Max(i)])]
           c == CHOOSE g : g = F(g)
           h == [k \in 0..n |-> c[1..k]]
<1>1. SamplesOf(rate, q) = c[1..n]
  BY DEF SamplesOf, FoldLeft, MapThenFoldSet, Worth
<1>2. \A b, x : Step(p, b, x) = Op(b, x)
  BY DEF Step, Worth
<1> HIDE DEF p, Op
<1>3. \A g : F(g) = Folding(p, 0, n, q, g)
  BY <1>2 DEF Folding
<1> HIDE DEF F
<1>4. c = Folding(p, 0, n, q, c)
  BY <1>3, FoldExists
<1> HIDE DEF c
<1>5. Follows(p, 0, n, q, c)
  BY <1>4, FoldRun
<1>6. h[0] = 0 /\ h[n] = c[1..n]
  BY <1>5 DEF Follows
<1>7. \A k \in 1..n : h[k] = Op(h[k - 1], q[k])
  BY <1>2, <1>5 DEF Follows
<1> HIDE DEF h
<1> QED
  BY <1>1, <1>6, <1>7 DEF Op, Counts

(* A frame more adds its time.                                             *)
LEMMA TimeAppend ==
  /\ TimeOf(<<>>) = 0
  /\ \A S : \A q \in Seq(S), x \in S :
       TimeOf(Append(q, x)) = IF x.untimed THEN TimeOf(q)
                              ELSE TimeOf(q) + FrameTime(x.samples, x.rate)
<1>1. TimeOf(<<>>) = 0
  <2>1. DOMAIN <<>> = 1..0
    OBVIOUS
  <2> QED
    BY <2>1, TimeRun
<1>2. ASSUME NEW S, NEW q \in Seq(S), NEW x \in S
      PROVE  TimeOf(Append(q, x)) = IF x.untimed THEN TimeOf(q)
                                    ELSE TimeOf(q) + FrameTime(x.samples, x.rate)
  <2> DEFINE n == Len(q)
             r == Append(q, x)
  <2>1. /\ n \in Nat /\ n + 1 \in Nat /\ DOMAIN q = 1..n
        /\ DOMAIN r = 1..n + 1 /\ r[n + 1] = x
        /\ \A k \in 1..n : r[k] = q[k]
    OBVIOUS
  <2> HIDE DEF r, n
  <2>2. PICK h : /\ h[0] = 0 /\ h[n] = TimeOf(q)
                 /\ \A k \in 1..n :
                      h[k] = IF q[k].untimed THEN h[k - 1]
                             ELSE h[k - 1] + FrameTime(q[k].samples, q[k].rate)
    BY <2>1, TimeRun
  <2>3. PICK g : /\ g[0] = 0 /\ g[n + 1] = TimeOf(r)
                 /\ \A k \in 1..n + 1 :
                      g[k] = IF r[k].untimed THEN g[k - 1]
                             ELSE g[k - 1] + FrameTime(r[k].samples, r[k].rate)
    BY <2>1, TimeRun
  <2> DEFINE Reached == {k \in 0..n : g[k] = h[k]}
  <2>4. 0 \in Reached
    BY <2>1, <2>2, <2>3 DEF Counts
  <2>5. ASSUME NEW k \in 1..n, k - 1 \in Reached PROVE k \in Reached
    <3>1. k \in 1..n + 1 /\ g[k - 1] = h[k - 1] /\ k \in 0..n
      BY <2>1, <2>5
    <3> QED
      BY <2>1, <2>2, <2>3, <3>1 DEF Counts
  <2>6. n \in Reached
    <3>1. n \in 0..n
      BY <2>1
    <3> HIDE DEF Reached
    <3> QED
      BY <2>1, <2>4, <2>5, <3>1, Upwards
  <2>7. n + 1 \in 1..n + 1 /\ g[n] = h[n] /\ n + 1 - 1 = n
    BY <2>1, <2>6
  <2>8. TimeOf(r) = IF x.untimed THEN g[n]
                    ELSE g[n] + FrameTime(x.samples, x.rate)
    BY <2>1, <2>3, <2>7 DEF Counts
  <2> QED
    BY <2>2, <2>7, <2>8 DEF Counts, r
<1> QED
  BY <1>1, <1>2

(* A frame more adds its samples.                                          *)
LEMMA SamplesAppend ==
  ASSUME NEW rate
  PROVE  /\ SamplesOf(rate, <<>>) = 0
         /\ \A S : \A q \in Seq(S), x \in S :
              SamplesOf(rate, Append(q, x)) = SamplesOf(rate, q) + Worth(rate, x)
<1>1. SamplesOf(rate, <<>>) = 0
  <2>1. DOMAIN <<>> = 1..0
    OBVIOUS
  <2>2. PICK h : Counts(h, rate, 0, <<>>)
    BY <2>1, SamplesRun
  <2> QED
    BY <2>2 DEF Counts
<1>2. ASSUME NEW S, NEW q \in Seq(S), NEW x \in S
      PROVE  SamplesOf(rate, Append(q, x)) = SamplesOf(rate, q) + Worth(rate, x)
  <2> DEFINE n == Len(q)
             r == Append(q, x)
  <2>1. /\ n \in Nat /\ n + 1 \in Nat /\ DOMAIN q = 1..n
        /\ DOMAIN r = 1..n + 1 /\ r[n + 1] = x
        /\ \A k \in 1..n : r[k] = q[k]
    OBVIOUS
  <2> HIDE DEF r, n
  <2>2. PICK h : Counts(h, rate, n, q)
    BY <2>1, SamplesRun
  <2>3. PICK g : Counts(g, rate, n + 1, r)
    BY <2>1, SamplesRun
  <2> DEFINE Reached == {k \in 0..n : g[k] = h[k]}
  <2>4. 0 \in Reached
    BY <2>1, <2>2, <2>3 DEF Counts
  <2>5. ASSUME NEW k \in 1..n, k - 1 \in Reached PROVE k \in Reached
    <3>1. k \in 1..n + 1 /\ g[k - 1] = h[k - 1] /\ k \in 0..n
      BY <2>1, <2>5
    <3> QED
      BY <2>1, <2>2, <2>3, <3>1 DEF Counts
  <2>6. n \in Reached
    <3>1. n \in 0..n
      BY <2>1
    <3> HIDE DEF Reached
    <3> QED
      BY <2>1, <2>4, <2>5, <3>1, Upwards
  <2>7. n + 1 \in 1..n + 1 /\ g[n] = h[n] /\ n + 1 - 1 = n
    BY <2>1, <2>6
  <2>8. SamplesOf(rate, r) = g[n] + Worth(rate, x)
    BY <2>1, <2>3, <2>7 DEF Counts
  <2> QED
    BY <2>2, <2>7, <2>8 DEF Counts, r
<1> QED
  BY <1>1, <1>2

(* What is assumed of files, requests and packets.                         *)
LEMMA Numbers ==
  /\ Latency \in Nat /\ PoolSize \in Nat
  /\ \A b \in PacketBytes : b \in Nat /\ b >= 5 /\ b <= 8184
<1>1. PacketBytes \subseteq 5..8184
  BY FileConvertAssumption
<1>2. ASSUME NEW b \in PacketBytes PROVE b \in Nat /\ b >= 5 /\ b <= 8184
  <2>1. b \in 5..8184
    BY <1>1
  <2> QED
    BY <2>1
<1>3. Latency \in Nat /\ PoolSize \in Nat
  BY AudioConvertAssumption
<1> QED
  BY <1>2, <1>3

(* A quotient of natural numbers is one.                                   *)
LEMMA Quotient ==
  ASSUME NEW x \in Nat, NEW d \in Nat, d >= 1
  PROVE  x \div d \in Nat /\ x - d < d * (x \div d) /\ d * (x \div d) <= x
<1> DEFINE q == x \div d
           r == x % d
<1>1. q \in Int /\ r \in 0..d - 1 /\ x = d * q + r
  OBVIOUS
<1> HIDE DEF q, r
<1>2. q >= 0
  <2> SUFFICES ASSUME q <= -1 PROVE FALSE
    BY <1>1
  <2>1. d * q <= d * (-1)
    BY <1>1
  <2> QED
    BY <1>1, <2>1
<1> QED
  BY <1>1, <1>2 DEF q

(* Quotients are numbers.                                                  *)
LEMMA QuotientType ==
  ASSUME NEW x \in Nat, NEW d \in Nat, d >= 1
  PROVE  x \div d \in Nat
BY Quotient

(* The time of a frame is a number.                                        *)
LEMMA FrameTimeType ==
  ASSUME NEW samples \in Nat, NEW rate \in Nat, rate >= 25
  PROVE  FrameTime(samples, rate) \in Nat
<1>1. rate \div 25 \in Nat /\ rate \div 25 >= 1
  OBVIOUS
<1>2. samples * 40000 \in Nat
  OBVIOUS
<1> QED
  BY <1>1, <1>2, Quotient DEF FrameTime

(* Samples of one rate keep their number.                                  *)
LEMMA SameRate ==
  ASSUME NEW samples \in Nat, NEW rate \in Nat, rate >= 25
  PROVE  (samples * (rate \div 25)) \div (rate \div 25) = samples
<1> DEFINE d == rate \div 25
<1>1. d \in Nat /\ d >= 1
  OBVIOUS
<1> HIDE DEF d
<1>2. (samples * d) \div d = samples
  <2> DEFINE x == samples * d
             q == x \div d
  <2>1. x \in Nat
    BY <1>1
  <2>2. q \in Nat /\ x - d < d * q /\ d * q <= x
    <3> HIDE DEF x
    <3> QED
      BY <1>1, <2>1, Quotient
  <2> HIDE DEF q
  <2>3. x = d * samples
    BY <1>1
  <2>4. d * q <= d * samples /\ d * samples < d * (q + 1)
    BY <1>1, <2>2, <2>3
  <2>5. q <= samples /\ samples < q + 1
    BY <1>1, <2>2, <2>4
  <2> QED
    BY <2>2, <2>5 DEF q
<1> QED
  BY <1>2 DEF d

(* So are its samples at another rate.                                     *)
LEMMA WorthType ==
  ASSUME NEW rate \in Nat, NEW x, x.samples \in Nat, x.rate \in Nat, x.rate >= 25
  PROVE  Worth(rate, x) \in Nat
<1>1. rate \div 25 \in Nat /\ x.rate \div 25 \in Nat /\ x.rate \div 25 >= 1
  OBVIOUS
<1>2. x.samples * (rate \div 25) \in Nat
  BY <1>1
<1> QED
  BY <1>1, <1>2, Quotient DEF Worth

-----------------------------------------------------------------------------
(* The ADTS header.                                                        *)

Octet == 0..255
Data == [0..9 -> Octet]

(* The place of a rate in the table, or the one after the last.            *)
Place(rate) ==
  IF \E k \in 1..Reserved : Rates[k] = rate
    THEN (CHOOSE k \in 1..Reserved : Rates[k] = rate) - 1 ELSE Reserved

(* A header as the constructor leaves it, but for rate, channels, length.  *)
Header(a) ==
  /\ a = [data |-> a.data, sampleRateIndex |-> a.sampleRateIndex]
  /\ a.data \in Data
  /\ a.data[0] = 255 /\ a.data[1] = 241
  /\ \E i \in 0..15 : a.data[2] = 64 + 4 * i

(* A header that tells a rate and a number of channels.                    *)
Tells(a, rate, channels) ==
  /\ Header(a)
  /\ a.data[2] = 64 + 4 * Place(rate)
  /\ a.data[3] \div 64 = channels % 4
  /\ a.sampleRateIndex = Place(rate)

(* The header that the constructor writes.                                 *)
LEMMA NewHeader == Header(AAC_ADTS)
<1> DEFINE d0 == [k \in 0..9 |-> 0]
           d1 == syncword(d0, 4095)
           d2 == SetID(d1, 1)
           d3 == profile(d2, 1)
           d4 == adts_buffer_fullness(d3, 2047)
<1>1. d1 = [k \in 0..9 |-> IF k = 0 THEN 255 ELSE IF k = 1 THEN 240 ELSE 0]
  BY DEF syncword
<1> HIDE DEF d1
<1>2. Bit(d1[1], 3) = 0 /\ Bit(d1[1], 0) = 0
  <2>1. d1[1] = 240
    BY <1>1
  <2>2. Bit(240, 3) = 0
    <3>1. 2^3 = 8
      BY SMT
    <3> QED
      BY <3>1 DEF Bit
  <2>3. Bit(240, 0) = 0
    <3>1. 2^0 = 1
      BY SMT
    <3> QED
      BY <3>1 DEF Bit
  <2> QED
    BY <2>1, <2>2, <2>3
<1>3. d2 = [k \in 0..9 |-> IF k = 0 THEN 255 ELSE IF k = 1 THEN 241 ELSE 0]
  BY <1>1, <1>2 DEF SetID
<1> HIDE DEF d2
<1>4. d3 = [k \in 0..9 |-> IF k = 0 THEN 255 ELSE IF k = 1 THEN 241
                           ELSE IF k = 2 THEN 64 ELSE 0]
  BY <1>3 DEF profile
<1> HIDE DEF d3
<1>5. d4 = [k \in 0..9 |-> IF k = 0 THEN 255 ELSE IF k = 1 THEN 241
                           ELSE IF k = 2 THEN 64 ELSE IF k = 5 THEN 31
                           ELSE IF k = 6 THEN 252 ELSE 0]
  BY <1>4 DEF adts_buffer_fullness
<1>6. AAC_ADTS = [data |-> d4, sampleRateIndex |-> 4]
  BY DEF AAC_ADTS, d1, d2, d3
<1> HIDE DEF d4
<1>7. d4 \in Data /\ d4[0] = 255 /\ d4[1] = 241 /\ d4[2] = 64 + 4 * 0
  BY <1>5 DEF Data, Octet
<1> QED
  BY <1>6, <1>7 DEF Header

(* The place of a rate in the table, or behind it.                         *)
LEMMA PlaceType ==
  ASSUME NEW rate
  PROVE  /\ Reserved = 13 /\ Place(rate) \in 0..13
         /\ rate \in ToSet(Rates) => Place(rate) < 13 /\ Rates[Place(rate) + 1] = rate
<1>1. Reserved = 13 /\ DOMAIN Rates = 1..13
  BY DEF Reserved, Rates
<1>2. CASE \E k \in 1..Reserved : Rates[k] = rate
  <2> DEFINE c == CHOOSE k \in 1..Reserved : Rates[k] = rate
  <2>1. c \in 1..Reserved /\ Rates[c] = rate
    BY <1>2
  <2>2. Place(rate) = c - 1
    BY <1>2 DEF Place
  <2> HIDE DEF c
  <2>3. c - 1 + 1 = c /\ c - 1 \in 0..12
    BY <1>1, <2>1
  <2> QED
    BY <1>1, <2>1, <2>2, <2>3
<1>3. CASE ~ \E k \in 1..Reserved : Rates[k] = rate
  <2>1. rate \notin ToSet(Rates)
    BY <1>1, <1>3 DEF ToSet
  <2> QED
    BY <1>1, <1>3, <2>1 DEF Place
<1> QED
  BY <1>2, <1>3

(* What open() and __update_coder() write into a header.                   *)
LEMMA HeaderTells ==
  ASSUME NEW a, Header(a), NEW rate, NEW channels \in Nat
  PROVE  Tells(channel_configuration(sample_rate_index(a, rate), channels),
               rate, channels)
<1> DEFINE i == Place(rate)
           d == a.data
           b == sample_rate_index(a, rate)
           c == channel_configuration(b, channels)
<1>1. i \in 0..13
  BY PlaceType
<1>2. b = [data |-> [d EXCEPT ![2] = (@ \div 64) * 64 + i * 4 + (@ % 4)],
           sampleRateIndex |-> i]
  BY DEF sample_rate_index, Place
<1>3. d \in Data /\ d[0] = 255 /\ d[1] = 241 /\ \E k \in 0..15 : d[2] = 64 + 4 * k
  BY DEF Header
<1> HIDE DEF b, d, i
<1>4. (d[2] \div 64) * 64 + i * 4 + (d[2] % 4) = 64 + 4 * i
  <2> PICK k \in 0..15 : d[2] = 64 + 4 * k
    BY <1>3
  <2>1. d[2] \div 64 = 1 /\ d[2] % 4 = 0
    OBVIOUS
  <2> QED
    BY <1>1, <2>1
<1>5. b.data = [d EXCEPT ![2] = 64 + 4 * i]
  BY <1>2, <1>4
<1>6. b.data \in Data /\ b.data[3] \in Octet
  BY <1>1, <1>3, <1>5 DEF Data, Octet
<1> DEFINE n == channels % 4
           v == n * 64 + (b.data[3] % 64)
<1>7. n \in 0..3 /\ v \in Octet /\ v \div 64 = n
  BY <1>6 DEF Octet
<1> HIDE DEF n
<1>8. c = [data |-> [b.data EXCEPT ![3] = v], sampleRateIndex |-> i]
  BY <1>2 DEF channel_configuration, n
<1> HIDE DEF v, c
<1>9. c.data \in Data /\ c.data[0] = 255 /\ c.data[1] = 241
      /\ c.data[2] = 64 + 4 * i /\ c.data[3] = v
  BY <1>3, <1>5, <1>6, <1>7, <1>8 DEF Data
<1>10. i \in 0..15
  BY <1>1
<1>11. Header(c)
  BY <1>8, <1>9, <1>10 DEF Header
<1>12. Tells(c, rate, channels)
  BY <1>7, <1>8, <1>9, <1>11 DEF Tells, i, n
<1> QED
  BY <1>12 DEF b, c

(* What the parser makes of a header that tells these, of n bytes.         *)
AacTold(rate, channels, n) ==
  [ok |-> TRUE,
   rate |-> IF Place(rate) < 13 THEN Rates[Place(rate) + 1] ELSE 0,
   frameSize |-> n, channels |-> channels % 4,
   duration |-> GetAdtsDuration(1, Place(rate))]

(* A header tells what it told, and the length of a frame of up to 13 bits.*)
LEMMA LengthTold ==
  ASSUME NEW a, NEW rate, NEW channels \in Nat, NEW n \in Nat, n >= 7, n <= 8191,
         Tells(a, rate, channels)
  PROVE  /\ Tells(aac_frame_length(a, n), rate, channels)
         /\ ParseAac(aac_frame_length(a, n).data, n) = AacTold(rate, channels, n)
<1> DEFINE d == a.data
           i == Place(rate)
           x3 == (d[3] \div 4) * 4 + ((n \div 2048) % 4)
           x4 == (n \div 8) % 256
           x5 == (n % 8) * 32 + (d[5] % 32)
           b == aac_frame_length(a, n)
           e == b.data
<1>1. /\ a = [data |-> d, sampleRateIndex |-> i] /\ d \in Data
      /\ d[0] = 255 /\ d[1] = 241 /\ d[2] = 64 + 4 * i
      /\ d[3] \div 64 = channels % 4
  BY DEF Tells, Header
<1>2. i \in 0..13 /\ Reserved = 13
  BY PlaceType
<1>3. d[3] \in Octet /\ d[5] \in Octet
  BY <1>1 DEF Data
<1> HIDE DEF d, i
<1>4. x3 \in Octet /\ x3 \div 64 = d[3] \div 64 /\ x3 % 4 = (n \div 2048) % 4
  <2> DEFINE v == (n \div 2048) % 4
             q == d[3] \div 4
  <2>1. v \in 0..3 /\ q \in 0..63 /\ d[3] \div 64 = q \div 16
    BY <1>3 DEF Octet
  <2> HIDE DEF v, q
  <2>2. q * 4 + v \in Octet /\ (q * 4 + v) \div 64 = q \div 16
        /\ (q * 4 + v) % 4 = v
    BY <2>1 DEF Octet
  <2> QED
    BY <2>1, <2>2 DEF v, q
<1>5. x4 \in Octet /\ x5 \in Octet /\ x5 \div 32 = n % 8
  <2> DEFINE v == n % 8
             q == d[5] % 32
  <2>1. v \in 0..7 /\ q \in 0..31 /\ x4 \in Octet
    BY <1>3 DEF Octet
  <2> HIDE DEF v, q
  <2>2. v * 32 + q \in Octet /\ (v * 32 + q) \div 32 = v
    BY <2>1 DEF Octet
  <2> QED
    BY <2>1, <2>2 DEF v, q
<1>6. ((n \div 2048) % 4) * 2048 + ((n \div 8) % 256) * 8 + (n % 8) = n
  OBVIOUS
<1>7. b = [data |-> [d EXCEPT ![3] = x3, ![4] = x4, ![5] = x5],
           sampleRateIndex |-> i]
  <2> DEFINE a1 == [a EXCEPT !.data[3] = x3]
             a2 == [a1 EXCEPT !.data[4] = x4]
             a3 == [a2 EXCEPT !.data[5] = x5]
  <2>1. a1 = [data |-> [d EXCEPT ![3] = x3], sampleRateIndex |-> i]
    BY <1>1
  <2>0. a1.data[4] = d[4] /\ a.data[3] = d[3]
    BY <1>1, <2>1 DEF Data
  <2> HIDE DEF a1
  <2>2. a2 = [data |-> [d EXCEPT ![3] = x3, ![4] = x4], sampleRateIndex |-> i]
    BY <2>1
  <2>4. a2.data[5] = d[5]
    BY <1>1, <2>2 DEF Data
  <2> HIDE DEF a2
  <2>3. a3 = [data |-> [d EXCEPT ![3] = x3, ![4] = x4, ![5] = x5],
              sampleRateIndex |-> i]
    BY <2>2
  <2>5. b = a3
    BY <2>0, <2>4 DEF aac_frame_length, d, a1, a2
  <2> QED
    BY <2>3, <2>5
<1> HIDE DEF b
<1>8. e = [d EXCEPT ![3] = x3, ![4] = x4, ![5] = x5]
  BY <1>7
<1> HIDE DEF x3, x4, x5, e
<1>9. /\ e \in Data /\ e[0] = 255 /\ e[1] = 241 /\ e[2] = 64 + 4 * i
      /\ e[3] = x3 /\ e[4] = x4 /\ e[5] = x5
  BY <1>1, <1>4, <1>5, <1>8 DEF Data
<1>10. Tells(b, rate, channels)
  <2>1. b = [data |-> b.data, sampleRateIndex |-> b.sampleRateIndex]
        /\ b.data = e /\ b.sampleRateIndex = i /\ i \in 0..15
    BY <1>2, <1>7, <1>8
  <2> QED
    BY <1>1, <1>4, <1>9, <2>1 DEF Tells, Header, i
<1>11. /\ e[1] \div 16 = 15 /\ (e[2] % 64) \div 4 = i /\ e[2] % 2 = 0
       /\ e[2] \div 64 = 1
  BY <1>2, <1>9
<1>12. /\ (e[3] % 4) * 2048 + e[4] * 8 + (e[5] \div 32) = n
       /\ (e[2] % 2) * 4 + (e[3] \div 64) = channels % 4
  <2>1. (e[3] % 4) * 2048 + e[4] * 8 + (e[5] \div 32) = n
    BY <1>4, <1>5, <1>6, <1>9 DEF x4
  <2>2. channels % 4 \in 0..3 /\ e[3] \div 64 = channels % 4
    BY <1>1, <1>4, <1>9
  <2> QED
    BY <1>11, <2>1, <2>2
<1>13. ParseAac(e, n) =
         [ok |-> TRUE, rate |-> IF i < 13 THEN Rates[i + 1] ELSE 0,
          frameSize |-> n, channels |-> channels % 4,
          duration |-> GetAdtsDuration(1, i)]
  <2>1. ~(n < AAC_ADTS_SIZE \/ e[0] # 255 \/ e[1] \div 16 # 15)
    BY <1>9, <1>11 DEF AAC_ADTS_SIZE
  <2> DEFINE j == (e[2] % 64) \div 4
             size == (e[3] % 4) * 2048 + e[4] * 8 + (e[5] \div 32)
             told == (e[2] % 2) * 4 + (e[3] \div 64)
             prof == e[2] \div 64
  <2>2. ParseAac(e, n) =
          [ok |-> TRUE, rate |-> IF j < Reserved THEN Rates[j + 1] ELSE 0,
           frameSize |-> size, channels |-> told,
           duration |-> GetAdtsDuration(prof, j)]
    BY <2>1 DEF ParseAac
  <2>3. j = i /\ size = n /\ told = channels % 4 /\ prof = 1
    BY <1>11, <1>12
  <2> HIDE DEF j, size, told, prof
  <2> QED
    BY <1>2, <2>2, <2>3
<1> QED
  BY <1>10, <1>13 DEF b, e, i, AacTold

(* What a frame of AAC lasts by the table is what its samples last.        *)
LEMMA TableOfTimes ==
  ASSUME NEW i \in 0..13
  PROVE  /\ GetAdtsDuration(1, i) \in Nat
         /\ GetAdtsDuration(1, i) # 0 =>
              i < 13 /\ GetAdtsDuration(1, i) = FrameTime(1024, Rates[i + 1])
<1>1. Reserved = 13
  BY PlaceType
<1> DEFINE times == <<10666, 11609, 16000, 21333, 23219, 0, 0, 46439, 0, 0,
                      92879, 0, 0>>
<1>2. \A k \in 1..13 : times[k] \in Nat
  OBVIOUS
<1>3. \A k \in 1..13 : times[k] # 0 => times[k] = FrameTime(1024, Rates[k])
  BY DEF FrameTime, Rates
<1>4. GetAdtsDuration(1, i) = IF i = 13 THEN 0 ELSE times[i + 1]
  BY <1>1 DEF GetAdtsDuration
<1> HIDE DEF times
<1> QED
  BY <1>2, <1>3, <1>4

-----------------------------------------------------------------------------
(* MP3 packets.                                                            *)

Mp3Rates == {44100, 48000, 32000, 22050, 24000, 16000, 11025, 12000, 8000}

(* The frequencies of MP3, by version.                                     *)
LEMMA Frequencies ==
  /\ Mp3Frequencies[3] = <<44100, 48000, 32000>>
  /\ Mp3Frequencies[2] = <<22050, 24000, 16000>>
  /\ Mp3Frequencies[0] = <<11025, 12000, 8000>>
BY DEF Mp3Frequencies

(* The version and the place in its table of a rate.                       *)
LEMMA RateFound ==
  ASSUME NEW ctx, ctx.rate \in Mp3Rates
  PROVE  LET h == Mp3Header(ctx)
         IN /\ h = [version |-> h.version, layer |-> 1, bitrate |-> 8, padding |-> 0,
                    frequency |-> h.frequency,
                    mode |-> IF ctx.channels = 1 THEN 3 ELSE 0]
            /\ h.version \in {3, 2, 0} /\ h.frequency \in 0..2
            /\ Mp3Frequencies[h.version][h.frequency + 1] = ctx.rate
<1> DEFINE h == Mp3Header(ctx)
           v == CHOOSE x \in {3, 2, 0} : ctx.rate \in ToSet(Mp3Frequencies[x])
           k == CHOOSE k \in 1..3 : Mp3Frequencies[v][k] = ctx.rate
<1>1. \E x \in {3, 2, 0} : \E j \in 1..3 : Mp3Frequencies[x][j] = ctx.rate
  <2>1. CASE ctx.rate \in {44100, 48000, 32000}
    BY <2>1, Frequencies
  <2>2. CASE ctx.rate \in {22050, 24000, 16000}
    BY <2>2, Frequencies
  <2>3. CASE ctx.rate \in {11025, 12000, 8000}
    BY <2>3, Frequencies
  <2> QED
    BY <2>1, <2>2, <2>3 DEF Mp3Rates
<1>2. \A x \in {3, 2, 0} : DOMAIN Mp3Frequencies[x] = 1..3
  BY Frequencies
<1>3. \E x \in {3, 2, 0} : ctx.rate \in ToSet(Mp3Frequencies[x])
  BY <1>1, <1>2 DEF ToSet
<1>4. v \in {3, 2, 0} /\ ctx.rate \in ToSet(Mp3Frequencies[v])
  BY <1>3
<1> HIDE DEF v
<1>5. \E j \in 1..3 : Mp3Frequencies[v][j] = ctx.rate
  BY <1>2, <1>4 DEF ToSet
<1>6. k \in 1..3 /\ Mp3Frequencies[v][k] = ctx.rate
  BY <1>5
<1>7. h = [version |-> v, layer |-> 1, bitrate |-> 8, padding |-> 0,
           frequency |-> k - 1, mode |-> IF ctx.channels = 1 THEN 3 ELSE 0]
  BY DEF Mp3Header, v
<1> HIDE DEF k, h
<1>8. k - 1 + 1 = k /\ k - 1 \in 0..2
  BY <1>6
<1>9. h.version = v /\ h.frequency = k - 1
  BY <1>7
<1>10. /\ h = [version |-> h.version, layer |-> 1, bitrate |-> 8, padding |-> 0,
               frequency |-> h.frequency,
               mode |-> IF ctx.channels = 1 THEN 3 ELSE 0]
       /\ h.version \in {3, 2, 0} /\ h.frequency \in 0..2
       /\ Mp3Frequencies[h.version][h.frequency + 1] = ctx.rate
  BY <1>4, <1>6, <1>7, <1>8, <1>9
<1> QED
  BY <1>10 DEF h

(* The parser makes of an encoder's MP3 header what the encoder did; its   *)
(* duration, from the frequency's place in the table, is that of the       *)
(* samples of a frame, which are half as many at low rates.                *)
LEMMA Mp3Told ==
  ASSUME NEW ctx, ctx.rate \in Mp3Rates, NEW n \in Nat, n >= 4
  PROVE  LET p == ParseMp3(Mp3Header(ctx), n)
         IN /\ p.ok /\ p.rate = ctx.rate /\ p.frameSize \in Nat
            /\ p.channels = IF ctx.channels = 1 THEN 1 ELSE 2
            /\ p.duration = FrameTime(FrameSamples("mp3", ctx.rate), ctx.rate)
            /\ p.duration \in Nat
<1> DEFINE h == Mp3Header(ctx)
           p == ParseMp3(h, n)
           v == h.version
           f == h.frequency
<1>1. /\ v \in {3, 2, 0} /\ f \in 0..2 /\ Mp3Frequencies[v][f + 1] = ctx.rate
      /\ h.layer = 1 /\ h.bitrate = 8 /\ h.padding = 0
      /\ h.mode = IF ctx.channels = 1 THEN 3 ELSE 0
  BY RateFound
<1> DEFINE kbps == Mp3Bitrates(v, 1)[8]
           whole == (144000 * kbps) \div ctx.rate
           time == IF v # 0 THEN <<26122, 24000, 36000>>[f + 1]
                   ELSE <<52244, 48000, 72000>>[f + 1]
<1>2. kbps \in {64, 112}
  BY <1>1 DEF Mp3Bitrates
<1>3. p = [ok |-> TRUE, rate |-> ctx.rate,
           frameSize |-> 0 + IF v # 3 THEN whole \div 2 ELSE whole,
           channels |-> IF h.mode = 3 THEN 1 ELSE 2, duration |-> time]
  <2>1. ~(n < 4 \/ h.bitrate \in {0, 15} \/ h.frequency = 3 \/ h.layer = 0
            \/ h.version = 1)
    BY <1>1
  <2>2. /\ h.layer # 3 /\ h.bitrate = 8 /\ h.padding = 0 /\ h.layer = 1
        /\ Mp3Frequencies[h.version][h.frequency + 1] = ctx.rate
    BY <1>1
  <2> HIDE DEF h
  <2> QED
    BY <2>1, <2>2 DEF ParseMp3
<1> HIDE DEF p, h
<1>4. whole \in Nat /\ whole \div 2 \in Nat
  <2>1. 144000 * kbps \in Nat
    BY <1>2
  <2>2. ctx.rate \in Nat /\ ctx.rate >= 1
    BY DEF Mp3Rates
  <2>3. whole \in Nat
    <3> DEFINE x == 144000 * kbps
    <3> HIDE DEF kbps, x
    <3>1. x \in Nat /\ whole = x \div ctx.rate
      BY <2>1 DEF x
    <3>2. x \div ctx.rate \in Nat
      BY <2>2, <3>1, QuotientType
    <3> QED
      BY <3>1, <3>2
  <2> HIDE DEF whole
  <2> QED
    BY <2>3
<1>5. time = FrameTime(FrameSamples("mp3", ctx.rate), ctx.rate) /\ time \in Nat
  <2> DEFINE T(r) == FrameTime(FrameSamples("mp3", r), r)
  <2>0. ctx.rate = Mp3Frequencies[v][f + 1] /\ (f = 0 \/ f = 1 \/ f = 2)
    BY <1>1
  <2>1. CASE v = 3
    <3>1. T(44100) = 26122 /\ T(48000) = 24000 /\ T(32000) = 36000
      BY DEF FrameTime, FrameSamples
    <3> HIDE DEF T
    <3>2. T(ctx.rate) = <<26122, 24000, 36000>>[f + 1]
      BY <2>0, <2>1, <3>1, Frequencies
    <3> QED
      BY <2>0, <2>1, <3>2 DEF T
  <2>2. CASE v = 2
    <3>1. T(22050) = 26122 /\ T(24000) = 24000 /\ T(16000) = 36000
      BY DEF FrameTime, FrameSamples
    <3> HIDE DEF T
    <3>2. T(ctx.rate) = <<26122, 24000, 36000>>[f + 1]
      BY <2>0, <2>2, <3>1, Frequencies
    <3> QED
      BY <2>0, <2>2, <3>2 DEF T
  <2>3. CASE v = 0
    <3>1. T(11025) = 52244 /\ T(12000) = 48000 /\ T(8000) = 72000
      BY DEF FrameTime, FrameSamples
    <3> HIDE DEF T
    <3>2. T(ctx.rate) = <<52244, 48000, 72000>>[f + 1]
      BY <2>0, <2>3, <3>1, Frequencies
    <3> QED
      BY <2>0, <2>3, <3>2 DEF T
  <2> QED
    BY <1>1, <2>1, <2>2, <2>3
<1> HIDE DEF time, whole
<1>6. /\ p.ok /\ p.rate = ctx.rate /\ p.frameSize \in Nat
      /\ p.channels = IF ctx.channels = 1 THEN 1 ELSE 2
      /\ p.duration = time
  BY <1>1, <1>3, <1>4
<1> QED
  BY <1>5, <1>6 DEF p, h

-----------------------------------------------------------------------------
(* The encoder's format.                                                   *)

(* A conversion that is asked for.                                         *)
Asked(want) ==
  /\ want.codec \in {"aac", "mp3"} /\ want.channels \in {1, 2}

(* The format in which an encoder is opened.                               *)
LEMMA FormatType ==
  ASSUME NEW want, Asked(want)
  PROVE  LET c == BestContext(want)
         IN /\ c = [rate |-> c.rate, channels |-> want.channels,
                    format |-> c.format, frameSize |-> c.frameSize]
            /\ c.rate \in Nat /\ c.rate >= 25
            /\ c.frameSize = FrameSamples(want.codec, c.rate)
            /\ c.frameSize \in {576, 1024, 1152}
            /\ want.codec = "aac" => c.rate \in ToSet(Rates)
            /\ want.codec = "mp3" => c.rate \in Mp3Rates
            /\ want.rate \in ToSet(EncoderRates(want.codec)) => c.rate = want.rate
<1> DEFINE c == BestContext(want)
           r == GetBestSampleRate(want.codec, want.rate)
           table == EncoderRates(want.codec)
<1>1. r \in ToSet(table) /\ (want.rate \in ToSet(table) => r = want.rate)
  <2>1. 1 \in DOMAIN table
    BY DEF EncoderRates, Rates
  <2>2. table[1] \in ToSet(table)
    BY <2>1 DEF ToSet
  <2> HIDE DEF table
  <2> QED
    BY <2>2 DEF GetBestSampleRate, table
<1>2. c = [rate |-> r, channels |-> want.channels,
           format |-> GetBestSampleFormat(want.codec),
           frameSize |-> FrameSamples(want.codec, r)]
  BY DEF BestContext
<1>3. \A x \in ToSet(Rates) : x \in Nat /\ x >= 25
  <2>1. DOMAIN Rates = 1..13 /\ \A k \in 1..13 : Rates[k] \in Nat /\ Rates[k] >= 25
    BY DEF Rates
  <2> QED
    BY <2>1 DEF ToSet
<1>4. want.codec = "aac" => table = Rates
  BY DEF EncoderRates
<1>5. want.codec = "mp3" => ToSet(table) \subseteq Mp3Rates
  <2> SUFFICES ASSUME want.codec = "mp3" PROVE ToSet(table) \subseteq Mp3Rates
    OBVIOUS
  <2>1. table = <<44100, 48000, 32000, 22050, 24000, 16000, 11025, 12000, 8000>>
    BY DEF EncoderRates
  <2>2. DOMAIN table = 1..9 /\ \A k \in 1..9 : table[k] \in Mp3Rates
    BY <2>1 DEF Mp3Rates
  <2> HIDE DEF table
  <2> QED
    BY <2>2 DEF ToSet
<1>6. \A x \in Mp3Rates : x \in Nat /\ x >= 25
  BY DEF Mp3Rates
<1> HIDE DEF table, r, c
<1>7. r \in Nat /\ r >= 25
  BY <1>1, <1>3, <1>4, <1>5, <1>6 DEF Asked
<1>8. FrameSamples(want.codec, r) \in {576, 1024, 1152}
  BY DEF FrameSamples
<1> QED
  BY <1>1, <1>2, <1>4, <1>5, <1>7, <1>8 DEF c, table

-----------------------------------------------------------------------------
(* The pool, with r objects taken from it.                                 *)
PoolObj == [size : {0}, buffSize : Nat]

PoolOK(pool, r) ==
  /\ pool = [objs |-> pool.objs, total |-> pool.total, inpool |-> pool.inpool]
  /\ pool.objs \in Seq(PoolObj)
  /\ pool.inpool = Len(pool.objs) /\ pool.total = pool.inpool + r

(* The pool as CodecInit leaves it.                                        *)
LEMMA NewPool == PoolOK(CodecInit, 0)
<1> DEFINE objs == [k \in 1..PoolSize |-> NewObj]
<1>1. PoolSize \in Nat
  BY Numbers
<1>2. NewObj \in PoolObj
  BY DEF NewObj, PoolObj
<1>3. objs \in Seq(PoolObj) /\ Len(objs) = PoolSize
  BY <1>1, <1>2
<1>4. CodecInit = [objs |-> objs, total |-> PoolSize, inpool |-> PoolSize]
  BY DEF CodecInit
<1> HIDE DEF objs
<1> QED
  BY <1>1, <1>3, <1>4 DEF PoolOK

(* get_obj(): one object is taken from the pool, or made.                  *)
LEMMA ObjTaken ==
  ASSUME NEW pool, NEW r \in Nat, PoolOK(pool, r)
  PROVE  /\ PoolOK(get_obj(pool), r + 1)
         /\ (IF pool.objs = <<>> THEN NewObj ELSE Head(pool.objs)) \in PoolObj
<1>1. /\ pool = [objs |-> pool.objs, total |-> pool.total, inpool |-> pool.inpool]
      /\ pool.objs \in Seq(PoolObj)
      /\ pool.inpool = Len(pool.objs) /\ pool.total = pool.inpool + r
  BY DEF PoolOK
<1>2. CASE pool.objs = <<>>
  <2>1. get_obj(pool) = [objs |-> pool.objs, total |-> pool.total + 1,
                         inpool |-> pool.inpool]
    BY <1>1, <1>2 DEF get_obj
  <2>2. NewObj \in PoolObj
    BY DEF NewObj, PoolObj
  <2> QED
    BY <1>1, <1>2, <2>1, <2>2 DEF PoolOK
<1>3. CASE pool.objs # <<>>
  <2>1. get_obj(pool) = [objs |-> Tail(pool.objs), total |-> pool.total,
                         inpool |-> pool.inpool - 1]
    BY <1>1, <1>3 DEF get_obj
  <2>2. /\ Tail(pool.objs) \in Seq(PoolObj) /\ Head(pool.objs) \in PoolObj
        /\ Len(Tail(pool.objs)) = Len(pool.objs) - 1 /\ Len(pool.objs) \in Nat
    BY <1>1, <1>3
  <2> QED
    BY <1>1, <1>3, <2>1, <2>2 DEF PoolOK
<1> QED
  BY <1>2, <1>3

(* release_obj(): one goes back.                                           *)
LEMMA ObjReturned ==
  ASSUME NEW pool, NEW r \in Nat, PoolOK(pool, r + 1),
         NEW o \in [size : Nat, buffSize : Nat]
  PROVE  PoolOK(release_obj(pool, o), r)
<1>1. /\ pool = [objs |-> pool.objs, total |-> pool.total, inpool |-> pool.inpool]
      /\ pool.objs \in Seq(PoolObj)
      /\ pool.inpool = Len(pool.objs) /\ pool.total = pool.inpool + (r + 1)
  BY DEF PoolOK
<1> DEFINE x == [o EXCEPT !.size = 0]
           objs == <<x>> \o pool.objs
<1>2. x \in PoolObj
  BY DEF PoolObj
<1>3. release_obj(pool, o) = [objs |-> objs, total |-> pool.total,
                              inpool |-> pool.inpool + 1]
  <2>1. release_obj(pool, o) =
          [pool EXCEPT !.objs = objs, !.inpool = pool.inpool + 1]
    BY DEF release_obj
  <2> HIDE DEF objs
  <2> QED
    BY <1>1, <2>1
<1> HIDE DEF x
<1>4. objs \in Seq(PoolObj) /\ Len(objs) = Len(pool.objs) + 1
      /\ Len(pool.objs) \in Nat
  BY <1>1, <1>2
<1> HIDE DEF objs
<1> QED
  BY <1>1, <1>3, <1>4 DEF PoolOK

-----------------------------------------------------------------------------
(* The encoder.                                                            *)
FrameOf(want) == BestContext(want).frameSize

(* It is open; a frame that is not resampled has its rate.                 *)
Opened(e, want) ==
  /\ e = [want |-> want, ctx |-> BestContext(want), adts |-> e.adts,
          fifo |-> e.fifo, swr |-> e.swr, pre |-> e.pre, held |-> e.held,
          dropped |-> e.dropped]
  /\ e.fifo \in Nat /\ e.held \in Nat /\ e.held <= Latency /\ e.dropped \in Nat
  /\ e.swr \in BOOLEAN /\ (~e.swr => BestContext(want).rate = e.pre.rate)
  /\ want.codec = "aac" => Tells(e.adts, want.rate, want.channels)

(* What it puts out.                                                       *)
AacFrames(want, n) ==
  {d \in [obj : [size : {n}, buffSize : Nat], data : Data] :
     ParseAac(d.data, n) = AacTold(want.rate, want.channels, n)}

Mp3Frames(want, n) ==
  [obj : [size : {n}, buffSize : Nat], data : {Mp3Header(BestContext(want))}]

OutFrames(want, bytes) ==
  IF want.codec = "aac" THEN AacFrames(want, AAC_ADTS_SIZE + bytes)
  ELSE Mp3Frames(want, bytes)

(* encode() in the middle, with l objects that are in no pool any more.    *)
Coding(a, want, bytes, l) ==
  /\ a = [enc |-> a.enc, pool |-> a.pool, output |-> a.output, rc |-> 0,
          fault |-> "none"]
  /\ Opened(a.enc, want)
  /\ a.output \in Seq(OutFrames(want, bytes))
  /\ PoolOK(a.pool, l + Len(a.output))

(* Samples that wait, are in the encoder, or have been put out.            *)
Sum(a, want) == a.enc.fifo + (a.enc.held + Len(a.output)) * FrameOf(want)

(* What a round of encode() leaves alone.                                  *)
SameFormat(a, b) == b.enc.pre = a.enc.pre /\ b.enc.dropped = a.enc.dropped

(* One frame more.                                                         *)
LEMMA OneMore ==
  ASSUME NEW x \in Nat, NEW f \in Nat
  PROVE  (x + 1) * f = x * f + f /\ x * f \in Nat
OBVIOUS

(* An object's sizes.                                                      *)
LEMMA ObjSizes ==
  ASSUME NEW o \in PoolObj, NEW bytes \in Nat
  PROVE  /\ append(copy(o, AAC_ADTS_SIZE), bytes)
              \in [size : {AAC_ADTS_SIZE + bytes}, buffSize : Nat]
         /\ append(o, bytes) \in [size : {bytes}, buffSize : Nat]
<1> DEFINE c == copy(o, AAC_ADTS_SIZE)
<1>0. AAC_ADTS_SIZE = 7
  BY DEF AAC_ADTS_SIZE
<1>1. \A n \in Nat : n >= 1 => Units(n) \in Nat
  BY DEF Units
<1>2. o.size = 0 /\ o.buffSize \in Nat
  BY DEF PoolObj
<1>3. c = [size |-> 7, buffSize |-> c.buffSize] /\ c.buffSize \in Nat
  BY <1>0, <1>1, <1>2 DEF copy
<1> HIDE DEF c
<1>4. append(c, bytes) \in [size : {7 + bytes}, buffSize : Nat]
  BY <1>1, <1>3 DEF append
<1>5. append(o, bytes) \in [size : {bytes}, buffSize : Nat]
  BY <1>1, <1>2 DEF append
<1> QED
  BY <1>0, <1>4, <1>5 DEF c

(* A round of encode() loses no sample and no object.                      *)
LEMMA RoundConserves ==
  ASSUME NEW want, Asked(want), NEW bytes \in PacketBytes,
         NEW l \in Nat, NEW a, Coding(a, want, bytes, l)
  PROVE  LET b == MakeCode(a, bytes)
         IN /\ Coding(b, want, bytes, l) /\ SameFormat(a, b)
            /\ Sum(b, want) = Sum(a, want)
            /\ b.enc.fifo = IF a.enc.fifo < FrameOf(want) THEN a.enc.fifo
                            ELSE a.enc.fifo - FrameOf(want)
<1> DEFINE b == MakeCode(a, bytes)
           e == a.enc
           f == FrameOf(want)
           read == [e EXCEPT !.fifo = @ - e.ctx.frameSize]
           o == IF a.pool.objs = <<>> THEN NewObj ELSE Head(a.pool.objs)
           adts == aac_frame_length(e.adts, AAC_ADTS_SIZE + bytes)
<1>1. /\ a = [enc |-> e, pool |-> a.pool, output |-> a.output, rc |-> 0,
              fault |-> "none"]
      /\ a.output \in Seq(OutFrames(want, bytes)) /\ Len(a.output) \in Nat
      /\ PoolOK(a.pool, l + Len(a.output))
  BY DEF Coding
<1>2. /\ e = [want |-> want, ctx |-> BestContext(want), adts |-> e.adts,
              fifo |-> e.fifo, swr |-> e.swr, pre |-> e.pre, held |-> e.held,
              dropped |-> e.dropped]
      /\ e.fifo \in Nat /\ e.held \in Nat /\ e.held <= Latency /\ e.dropped \in Nat
      /\ e.swr \in BOOLEAN /\ (~e.swr => BestContext(want).rate = e.pre.rate)
      /\ want.codec = "aac" => Tells(e.adts, want.rate, want.channels)
  BY DEF Coding, Opened
<1>3. e.ctx.frameSize = f /\ f \in {576, 1024, 1152} /\ e.want = want
      /\ e.ctx = BestContext(want)
  BY <1>2, FormatType DEF FrameOf
<1>4. Latency \in Nat /\ bytes \in Nat /\ bytes >= 5 /\ bytes <= 8184
  BY Numbers
<1>5. CASE e.fifo < f
  <2>1. b = a
    BY <1>3, <1>5 DEF MakeCode
  <2> QED
    BY <1>5, <2>1 DEF SameFormat
<1>6. CASE ~(e.fifo < f)
  <2>1. /\ read = [want |-> want, ctx |-> BestContext(want), adts |-> e.adts,
                   fifo |-> e.fifo - f, swr |-> e.swr, pre |-> e.pre,
                   held |-> e.held, dropped |-> e.dropped]
        /\ e.fifo - f \in Nat
    BY <1>2, <1>3, <1>6
  <2> HIDE DEF read, f
  <2>2. CASE e.held < Latency
    <3> DEFINE next == [read EXCEPT !.held = @ + 1]
    <3>1. b = [a EXCEPT !.enc = next]
      BY <1>3, <1>6, <2>2 DEF MakeCode, read
    <3>2. next = [want |-> want, ctx |-> BestContext(want), adts |-> e.adts,
                  fifo |-> e.fifo - f, swr |-> e.swr, pre |-> e.pre,
                  held |-> e.held + 1, dropped |-> e.dropped]
      BY <2>1
    <3> HIDE DEF next, b
    <3>3. b = [enc |-> next, pool |-> a.pool, output |-> a.output, rc |-> 0,
               fault |-> "none"]
      BY <1>1, <3>1
    <3>4. Opened(next, want)
      BY <1>2, <1>4, <2>1, <2>2, <3>2 DEF Opened
    <3>5. Coding(b, want, bytes, l)
      BY <1>1, <3>3, <3>4 DEF Coding
    <3>6. SameFormat(a, b) /\ b.enc.fifo = e.fifo - f
      BY <3>2, <3>3 DEF SameFormat
    <3>7. Sum(b, want) = Sum(a, want)
      <4> DEFINE x == e.held + Len(a.output)
      <4>1. x \in Nat /\ next.held + Len(a.output) = x + 1
        BY <1>1, <1>2, <3>2
      <4>2. Sum(b, want) = (e.fifo - f) + (x + 1) * f /\ Sum(a, want) = e.fifo + x * f
        <5> HIDE DEF x
        <5>1. Sum(b, want) = (e.fifo - f) + (x + 1) * f
          BY <3>2, <3>3, <4>1 DEF Sum, f
        <5> QED
          BY <5>1 DEF Sum, f, x
      <4> HIDE DEF x
      <4>3. (x + 1) * f = x * f + f /\ x * f \in Nat /\ f \in Nat
        BY <1>3, <4>1, OneMore
      <4> QED
        BY <1>2, <4>2, <4>3
    <3> QED
      BY <1>6, <3>5, <3>6, <3>7 DEF b, f
  <2>3. CASE ~(e.held < Latency)
    <3> DEFINE next == IF want.codec = "aac" THEN [read EXCEPT !.adts = adts]
                       ELSE read
               d == IF want.codec = "aac"
                      THEN [obj |-> append(copy(o, AAC_ADTS_SIZE), bytes),
                            data |-> adts.data]
                    ELSE [obj |-> append(o, bytes), data |-> Mp3Header(e.ctx)]
    <3>1. b = [a EXCEPT !.enc = next, !.pool = get_obj(a.pool),
                        !.output = Append(a.output, d)]
      BY <1>3, <1>6, <2>3 DEF MakeCode, read
    <3>2. /\ next = [want |-> want, ctx |-> BestContext(want), adts |-> next.adts,
                     fifo |-> e.fifo - f, swr |-> e.swr, pre |-> e.pre,
                     held |-> e.held, dropped |-> e.dropped]
          /\ next.adts = IF want.codec = "aac" THEN adts ELSE e.adts
      BY <2>1
    <3>3. want.codec = "aac" =>
            /\ Tells(adts, want.rate, want.channels)
            /\ ParseAac(adts.data, AAC_ADTS_SIZE + bytes)
                 = AacTold(want.rate, want.channels, AAC_ADTS_SIZE + bytes)
            /\ adts.data \in Data
      <4> SUFFICES ASSUME want.codec = "aac"
                   PROVE  /\ Tells(adts, want.rate, want.channels)
                          /\ ParseAac(adts.data, AAC_ADTS_SIZE + bytes)
                               = AacTold(want.rate, want.channels, AAC_ADTS_SIZE + bytes)
                          /\ adts.data \in Data
        OBVIOUS
      <4>1. /\ AAC_ADTS_SIZE + bytes \in Nat /\ AAC_ADTS_SIZE + bytes >= 7
            /\ AAC_ADTS_SIZE + bytes <= 8191 /\ want.channels \in Nat
        BY <1>4 DEF AAC_ADTS_SIZE, Asked
      <4>2. Tells(e.adts, want.rate, want.channels)
        BY <1>2
      <4> DEFINE n == AAC_ADTS_SIZE + bytes
      <4> HIDE DEF n
      <4>3. n \in Nat /\ n >= 7 /\ n <= 8191
        BY <4>1 DEF n
      <4>4. ASSUME NEW old, NEW rate, NEW channels \in Nat,
                   Tells(old, rate, channels)
            PROVE  LET new == aac_frame_length(old, n)
                   IN /\ Tells(new, rate, channels)
                      /\ ParseAac(new.data, n) = AacTold(rate, channels, n)
                      /\ new.data \in Data
        <5>1. /\ Tells(aac_frame_length(old, n), rate, channels)
              /\ ParseAac(aac_frame_length(old, n).data, n)
                   = AacTold(rate, channels, n)
          BY <4>3, <4>4, LengthTold
        <5>2. aac_frame_length(old, n).data \in Data
          BY <5>1 DEF Tells, Header
        <5> QED
          BY <5>1, <5>2
      <4> HIDE DEF e
      <4> QED
        BY <4>1, <4>2, <4>4 DEF n
    <3>4. d \in OutFrames(want, bytes)
      <4>1. o \in PoolObj
        <5>1. l + Len(a.output) \in Nat
          BY <1>1
        <5> QED
          BY <1>1, <5>1, ObjTaken
      <4> HIDE DEF o, adts
      <4>2. /\ append(copy(o, AAC_ADTS_SIZE), bytes)
                 \in [size : {AAC_ADTS_SIZE + bytes}, buffSize : Nat]
            /\ append(o, bytes) \in [size : {bytes}, buffSize : Nat]
        BY <1>4, <4>1, ObjSizes
      <4>3. CASE want.codec = "aac"
        BY <3>3, <4>2, <4>3 DEF OutFrames, AacFrames
      <4>4. CASE want.codec # "aac"
        BY <1>3, <4>2, <4>4 DEF OutFrames, Mp3Frames
      <4> QED
        BY <4>3, <4>4
    <3> HIDE DEF next, b, d, o, adts
    <3>5. b = [enc |-> next, pool |-> get_obj(a.pool), output |-> Append(a.output, d),
               rc |-> 0, fault |-> "none"]
      <4> HIDE DEF e
      <4>1. a = [enc |-> a.enc, pool |-> a.pool, output |-> a.output, rc |-> 0,
                 fault |-> "none"]
        BY <1>1 DEF e
      <4>2. a = [enc |-> a.enc, pool |-> a.pool, output |-> a.output,
                 rc |-> a.rc, fault |-> a.fault]
        BY <4>1
      <4>3. b = [enc |-> next, pool |-> get_obj(a.pool),
                 output |-> Append(a.output, d), rc |-> a.rc, fault |-> a.fault]
        <5> DEFINE pool == get_obj(a.pool)
                   output == Append(a.output, d)
        <5> HIDE DEF pool, output
        <5>1. b = [a EXCEPT !.enc = next, !.pool = pool, !.output = output]
          BY <3>1 DEF pool, output
        <5>2. b = [enc |-> next, pool |-> pool, output |-> output, rc |-> a.rc,
                   fault |-> a.fault]
          BY <4>2, <5>1
        <5> QED
          BY <5>2 DEF pool, output
      <4>4. a.rc = 0 /\ a.fault = "none"
        BY <4>1
      <4> QED
        BY <4>3, <4>4
    <3>6. Opened(next, want)
      <4>1. want.codec = "aac" => Tells(next.adts, want.rate, want.channels)
        BY <3>2, <3>3
      <4> QED
        BY <1>2, <2>1, <3>2, <4>1 DEF Opened
    <3>7. /\ Append(a.output, d) \in Seq(OutFrames(want, bytes))
          /\ Len(Append(a.output, d)) = Len(a.output) + 1
      BY <1>1, <3>4
    <3>8. PoolOK(get_obj(a.pool), l + (Len(a.output) + 1))
      <4> DEFINE r == l + Len(a.output)
      <4>1. r \in Nat /\ l + (Len(a.output) + 1) = r + 1 /\ PoolOK(a.pool, r)
        BY <1>1
      <4> HIDE DEF r
      <4> QED
        BY <4>1, ObjTaken
    <3>9. Coding(b, want, bytes, l)
      BY <3>5, <3>6, <3>7, <3>8 DEF Coding
    <3>10. SameFormat(a, b) /\ b.enc.fifo = e.fifo - f
      BY <3>2, <3>5 DEF SameFormat
    <3>11. Sum(b, want) = Sum(a, want)
      <4> DEFINE x == e.held + Len(a.output)
      <4>1. x \in Nat /\ next.held + (Len(a.output) + 1) = x + 1
        BY <1>1, <1>2, <3>2
      <4>2. Sum(b, want) = (e.fifo - f) + (x + 1) * f /\ Sum(a, want) = e.fifo + x * f
        <5> HIDE DEF x
        <5>1. Sum(b, want) = (e.fifo - f) + (x + 1) * f
          BY <3>2, <3>5, <3>7, <4>1 DEF Sum, f
        <5> QED
          BY <5>1 DEF Sum, f, x
      <4> HIDE DEF x
      <4>3. (x + 1) * f = x * f + f /\ x * f \in Nat /\ f \in Nat
        BY <1>3, <4>1, OneMore
      <4> QED
        BY <1>2, <4>2, <4>3
    <3> QED
      BY <1>6, <3>9, <3>10, <3>11 DEF b, f
  <2> QED
    BY <2>2, <2>3
<1> QED
  BY <1>5, <1>6

-----------------------------------------------------------------------------
(* A frame for the encoder.                                                *)
FormatOf(f) == [rate |-> f.rate, channels |-> f.channels, format |-> f.format]

IsFrame(f) == f.rate \in Nat /\ f.rate >= 25 /\ f.samples \in Nat

Ready(e, want) == e = initEncoder(want) \/ Opened(e, want)

(* What it holds, and has lost.                                            *)
Kept(e, want) == Max2(e.fifo, 0) + e.held * FrameOf(want) + e.dropped

(* The encoder's fields.                                                   *)
LEMMA ReadyType ==
  ASSUME NEW want, NEW e, Ready(e, want)
  PROVE  /\ e = [want |-> want, ctx |-> e.ctx, adts |-> e.adts,
                 fifo |-> e.fifo, swr |-> e.swr, pre |-> e.pre,
                 held |-> e.held, dropped |-> e.dropped]
         /\ e.held \in Nat /\ e.dropped \in Nat /\ Max2(e.fifo, 0) \in Nat
         /\ e.held <= Latency
         /\ want.codec = "aac" => Header(e.adts)
<1>0. Latency \in Nat
  BY Numbers
<1>1. CASE e = initEncoder(want)
  <2> DEFINE adts == IF want.codec = "aac" THEN AAC_ADTS ELSE NoAdts
             ctx == [rate |-> 0, channels |-> 0, format |-> "none", frameSize |-> 0]
  <2>1. e = [want |-> want, ctx |-> ctx, adts |-> adts, fifo |-> -1, swr |-> FALSE,
             pre |-> NoPre, held |-> 0, dropped |-> 0]
    BY <1>1 DEF initEncoder, NoFifo
  <2>2. want.codec = "aac" => Header(adts)
    BY NewHeader
  <2> HIDE DEF adts, ctx
  <2>3. Max2(-1, 0) = 0
    BY DEF Max2
  <2> QED
    BY <1>0, <2>1, <2>2, <2>3
<1>2. CASE Opened(e, want)
  <2>1. /\ e = [want |-> want, ctx |-> BestContext(want), adts |-> e.adts,
                fifo |-> e.fifo, swr |-> e.swr, pre |-> e.pre, held |-> e.held,
                dropped |-> e.dropped]
        /\ e.fifo \in Nat /\ e.held \in Nat /\ e.held <= Latency /\ e.dropped \in Nat
    BY <1>2 DEF Opened
  <2>2. Max2(e.fifo, 0) \in Nat
    BY <2>1 DEF Max2
  <2>3. want.codec = "aac" => Header(e.adts)
    BY <1>2 DEF Opened, Tells
  <2>4. e = [want |-> want, ctx |-> e.ctx, adts |-> e.adts,
             fifo |-> e.fifo, swr |-> e.swr, pre |-> e.pre,
             held |-> e.held, dropped |-> e.dropped]
    BY <2>1
  <2> QED
    BY <2>1, <2>2, <2>3, <2>4
<1> QED
  BY <1>1, <1>2 DEF Ready

(* The codec is opened for a frame of another format, and then gives up    *)
(* what it holds.                                                          *)
LEMMA CoderUpdated ==
  ASSUME NEW want, Asked(want), want \notin Refused,
         NEW e, Ready(e, want), NEW f, IsFrame(f)
  PROVE  LET u == UpdateCoder(e, f)
         IN /\ u.rc = 0 /\ Opened(u.enc, want) /\ u.enc.pre = FormatOf(f)
            /\ FormatOf(f) = e.pre => u.enc = e
            /\ FormatOf(f) # e.pre =>
                 /\ u.enc.fifo = 0 /\ u.enc.held = 0
                 /\ u.enc.dropped
                      = e.dropped + Max2(e.fifo, 0) + e.held * e.ctx.frameSize
<1> DEFINE u == UpdateCoder(e, f)
           old == InitFifo(e)
           new == [old EXCEPT !.ctx = BestContext(want), !.pre = FormatOf(f)]
           last == InitSwr(SetHeader(new), f)
           ctx == BestContext(want)
           gone == e.dropped + Max2(e.fifo, 0) + e.held * e.ctx.frameSize
<1>1. /\ e = [want |-> want, ctx |-> e.ctx, adts |-> e.adts,
              fifo |-> e.fifo, swr |-> e.swr, pre |-> e.pre,
              held |-> e.held, dropped |-> e.dropped]
      /\ e.held \in Nat /\ e.dropped \in Nat /\ Max2(e.fifo, 0) \in Nat
      /\ e.held <= Latency
      /\ want.codec = "aac" => Header(e.adts)
  BY ReadyType
<1>2. CASE FormatOf(f) = e.pre
  <2>1. u = [rc |-> 0, enc |-> e]
    BY <1>2 DEF UpdateCoder, FormatOf
  <2>2. e # initEncoder(want)
    <3>1. FormatOf(f).rate = f.rate /\ NoPre.rate = 0 /\ f.rate # 0
      BY DEF FormatOf, NoPre, IsFrame
    <3>2. initEncoder(want).pre = NoPre
      BY DEF initEncoder
    <3> QED
      BY <1>2, <3>1, <3>2
  <2>3. Opened(e, want)
    BY <2>2 DEF Ready
  <2> QED
    BY <1>2, <2>1, <2>3
<1>3. CASE FormatOf(f) # e.pre
  <2>1. e.want = want
    BY <1>1
  <2>2. u = [rc |-> 0, enc |-> last]
    BY <1>3, <2>1 DEF UpdateCoder, FormatOf
  <2>3. gone \in Nat
    <3>1. e.ctx.frameSize \in Nat
      <4>1. CASE e = initEncoder(want)
        BY <4>1 DEF initEncoder
      <4>2. CASE Opened(e, want)
        <5>1. e.ctx = BestContext(want)
          BY <4>2 DEF Opened
        <5> QED
          BY <5>1, FormatType
      <4> QED
        BY <4>1, <4>2 DEF Ready
    <3>2. e.held * e.ctx.frameSize \in Nat
      <4> DEFINE h == e.held
                 z == e.ctx.frameSize
      <4>1. h \in Nat /\ z \in Nat
        BY <1>1, <3>1
      <4> HIDE DEF h, z
      <4>2. h * z \in Nat
        BY <4>1
      <4> QED
        BY <4>2 DEF h, z
    <3> QED
      BY <1>1, <3>2
  <2>4. old = [want |-> want, ctx |-> e.ctx, adts |-> e.adts, fifo |-> 0,
               swr |-> e.swr, pre |-> e.pre, held |-> 0, dropped |-> gone]
    <3>1. old = [e EXCEPT !.fifo = 0, !.dropped = gone, !.held = 0]
      BY <1>1 DEF InitFifo
    <3> HIDE DEF gone, old
    <3>2. old = [want |-> e.want, ctx |-> e.ctx, adts |-> e.adts, fifo |-> 0,
                 swr |-> e.swr, pre |-> e.pre, held |-> 0, dropped |-> gone]
      BY <1>1, <3>1
    <3> QED
      BY <2>1, <3>2
  <2> HIDE DEF gone, old
  <2>5. new = [want |-> want, ctx |-> ctx, adts |-> e.adts, fifo |-> 0,
               swr |-> e.swr, pre |-> FormatOf(f), held |-> 0, dropped |-> gone]
    <3> DEFINE pre == FormatOf(f)
    <3> HIDE DEF ctx, pre
    <3>1. new = [old EXCEPT !.ctx = ctx, !.pre = pre]
      BY DEF ctx, pre
    <3> HIDE DEF new
    <3>2. new = [want |-> want, ctx |-> ctx, adts |-> e.adts, fifo |-> 0,
               swr |-> e.swr, pre |-> pre, held |-> 0, dropped |-> gone]
      BY <2>4, <3>1
    <3> QED
      BY <3>2 DEF ctx, pre
  <2> HIDE DEF new
  <2> DEFINE head == SetHeader(new)
             told == IF want.codec = "aac"
                       THEN channel_configuration(
                              sample_rate_index(e.adts, want.rate), want.channels)
                     ELSE e.adts
  <2>6. head = [want |-> want, ctx |-> ctx, adts |-> told, fifo |-> 0,
                swr |-> e.swr, pre |-> FormatOf(f), held |-> 0, dropped |-> gone]
    BY <2>5 DEF SetHeader
  <2>7. want.codec = "aac" => Tells(told, want.rate, want.channels)
    <3>1. want.channels \in Nat
      BY DEF Asked
    <3> QED
      BY <1>1, <3>1, HeaderTells
  <2> HIDE DEF head, told
  <2> DEFINE swr == <<ctx.channels, ctx.rate, ctx.format>>
                      # <<f.channels, f.rate, f.format>>
  <2>8. last = [want |-> want, ctx |-> ctx, adts |-> told, fifo |-> 0, swr |-> swr,
                pre |-> FormatOf(f), held |-> 0, dropped |-> gone]
    BY <2>6 DEF InitSwr, head
  <2>9. swr \in BOOLEAN /\ (~swr => ctx.rate = f.rate) /\ FormatOf(f).rate = f.rate
    BY DEF FormatOf
  <2> HIDE DEF last, swr, ctx
  <2>10. Opened(last, want)
    <3>1. Latency \in Nat /\ 0 \in Nat
      BY Numbers
    <3> QED
      BY <2>3, <2>7, <2>8, <2>9, <3>1 DEF Opened, ctx
  <2> QED
    BY <1>3, <2>2, <2>8, <2>10 DEF gone
<1> QED
  BY <1>2, <1>3

(* The samples of a frame, resampled or not.                               *)
LEMMA FrameAdded ==
  ASSUME NEW want, Asked(want), NEW e, Opened(e, want), NEW f, IsFrame(f),
         e.pre = FormatOf(f)
  PROVE  LET g == SwrFifoAdd(e, f)
         IN /\ Opened(g, want) /\ g.pre = e.pre /\ g.held = e.held
            /\ g.dropped = e.dropped
            /\ Worth(BestContext(want).rate, f) \in Nat
            /\ g.fifo = e.fifo + Worth(BestContext(want).rate, f)
<1> DEFINE g == SwrFifoAdd(e, f)
           rate == BestContext(want).rate
           w == Worth(rate, f)
<1>1. /\ e = [want |-> want, ctx |-> BestContext(want), adts |-> e.adts,
              fifo |-> e.fifo, swr |-> e.swr, pre |-> e.pre, held |-> e.held,
              dropped |-> e.dropped]
      /\ e.fifo \in Nat /\ e.held \in Nat /\ e.held <= Latency /\ e.dropped \in Nat
      /\ e.swr \in BOOLEAN /\ (~e.swr => rate = e.pre.rate)
      /\ want.codec = "aac" => Tells(e.adts, want.rate, want.channels)
  BY DEF Opened
<1>2. rate \in Nat /\ rate >= 25 /\ e.ctx.rate = rate
  BY <1>1, FormatType
<1>3. f.rate \in Nat /\ f.rate >= 25 /\ f.samples \in Nat
  BY DEF IsFrame
<1>4. w \in Nat
  <2> HIDE DEF rate
  <2> QED
    BY <1>2, <1>3, WorthType
<1>5. (IF e.swr THEN (f.samples * (e.ctx.rate \div 25)) \div (f.rate \div 25)
       ELSE f.samples) = w
  <2>1. CASE e.swr
    BY <1>2, <2>1 DEF Worth
  <2>2. CASE ~e.swr
    <3>1. rate = f.rate
      BY <1>1, <2>2 DEF FormatOf
    <3> HIDE DEF rate
    <3>2. w = f.samples
      BY <1>3, <3>1, SameRate DEF Worth
    <3> QED
      BY <2>2, <3>2
  <2> QED
    BY <2>1, <2>2
<1> HIDE DEF w
<1>6. g = [e EXCEPT !.fifo = e.fifo + w]
  BY <1>5 DEF SwrFifoAdd
<1>7. g = [want |-> want, ctx |-> BestContext(want), adts |-> e.adts,
           fifo |-> e.fifo + w, swr |-> e.swr, pre |-> e.pre, held |-> e.held,
           dropped |-> e.dropped]
  <2> HIDE DEF g
  <2> QED
    BY <1>1, <1>6
<1> HIDE DEF g
<1>8. Opened(g, want)
  BY <1>1, <1>4, <1>7 DEF Opened
<1> QED
  BY <1>4, <1>7, <1>8 DEF g, w

(* A round takes a frame, of what is less than so many frames and one.     *)
LEMMA RoundTakes ==
  ASSUME NEW f \in {576, 1024, 1152}, NEW n \in Nat, NEW k \in Nat, k >= 1, k <= n,
         NEW x \in Nat, x < f * (n - (k - 1) + 1)
  PROVE  (IF x < f THEN x ELSE x - f) < f * (n - k + 1)
<1>1. CASE f = 576
  BY <1>1
<1>2. CASE f = 1024
  BY <1>2
<1>3. CASE f = 1152
  BY <1>3
<1> QED
  BY <1>1, <1>2, <1>3

(* There are as many rounds as frames in the fifo.                         *)
LEMMA RoundsNeeded ==
  ASSUME NEW f \in {576, 1024, 1152}, NEW x \in Nat
  PROVE  LET n == Max2(x \div f, 1)
         IN n \in Nat /\ n >= 1 /\ x < f * (n + 1)
<1>1. CASE f = 576
  BY <1>1 DEF Max2
<1>2. CASE f = 1024
  BY <1>2 DEF Max2
<1>3. CASE f = 1152
  BY <1>3 DEF Max2
<1> QED
  BY <1>1, <1>2, <1>3

(* The rounds of encode() leave less than a frame, and lose nothing.       *)
LEMMA RoundsConserve ==
  ASSUME NEW want, Asked(want), NEW bytes \in PacketBytes,
         NEW l \in Nat, NEW a, Coding(a, want, bytes, l)
  PROVE  LET b == Coded(a, bytes, Rounds(a.enc))
         IN /\ Coding(b, want, bytes, l) /\ SameFormat(a, b)
            /\ Sum(b, want) = Sum(a, want)
            /\ b.enc.fifo < FrameOf(want)
<1> DEFINE f == FrameOf(want)
           x == a.enc.fifo
           n == Max2(x \div f, 1)
           q == Rounds(a.enc)
<1>1. f \in {576, 1024, 1152} /\ x \in Nat /\ a.enc.ctx.frameSize = f
  <2>1. a.enc.ctx = BestContext(want) /\ x \in Nat
    BY DEF Coding, Opened
  <2> QED
    BY <2>1, FormatType DEF FrameOf
<1>2. DOMAIN q = 1..n
  BY <1>1 DEF Rounds
<1> HIDE DEF f, x, q
<1>3. n \in Nat /\ n >= 1 /\ x < f * (n + 1)
  BY <1>1, RoundsNeeded
<1> HIDE DEF n
<1>0. PICK h : Codes(h, a, bytes, n, q)
  BY <1>2, <1>3, CodedRun
<1>4. /\ h[0] = a /\ h[n] = Coded(a, bytes, q)
      /\ \A k \in 1..n : h[k] = MakeCode(h[k - 1], bytes)
  BY <1>0 DEF Codes
<1> DEFINE OK(k) == /\ Coding(h[k], want, bytes, l) /\ SameFormat(a, h[k])
                    /\ Sum(h[k], want) = Sum(a, want)
                    /\ h[k].enc.fifo < f * (n - k + 1)
           Reached == {k \in 0..n : OK(k)}
<1>5. 0 \in Reached
  <2>1. n - 0 + 1 = n + 1 /\ 0 \in 0..n
    BY <1>3
  <2>2. a.enc.fifo < f * (n + 1)
    BY <1>3 DEF x
  <2>3. h[0].enc.fifo < f * (n - 0 + 1)
    BY <1>4, <2>1, <2>2
  <2>4. Coding(h[0], want, bytes, l) /\ SameFormat(a, h[0])
        /\ Sum(h[0], want) = Sum(a, want)
    BY <1>4 DEF SameFormat
  <2> QED
    BY <2>1, <2>3, <2>4
<1>6. ASSUME NEW k \in 1..n, k - 1 \in Reached PROVE k \in Reached
  <2> DEFINE g == h[k - 1]
             b == h[k]
             y == g.enc.fifo
  <2>1. Coding(g, want, bytes, l) /\ SameFormat(a, g) /\ Sum(g, want) = Sum(a, want)
        /\ y < f * (n - (k - 1) + 1)
    BY <1>6
  <2>2. b = MakeCode(g, bytes) /\ k \in 0..n /\ k \in Nat /\ k >= 1 /\ k <= n
    BY <1>3, <1>4
  <2> HIDE DEF g, Reached
  <2>3. /\ Coding(b, want, bytes, l) /\ SameFormat(g, b)
        /\ Sum(b, want) = Sum(g, want)
        /\ b.enc.fifo = IF y < f THEN y ELSE y - f
    BY <2>1, <2>2, RoundConserves DEF f
  <2>4. y \in Nat
    BY <2>1 DEF Coding, Opened
  <2> HIDE DEF y, b
  <2>5. b.enc.fifo < f * (n - k + 1)
    <3>1. (IF y < f THEN y ELSE y - f) < f * (n - k + 1)
      BY <1>1, <1>3, <2>1, <2>2, <2>4, RoundTakes
    <3> QED
      BY <2>3, <3>1
  <2>6. SameFormat(a, b) /\ Sum(b, want) = Sum(a, want)
    BY <2>1, <2>3 DEF SameFormat
  <2> QED
    BY <2>2, <2>3, <2>5, <2>6 DEF b, Reached
<1>7. n \in Reached
  <2>1. n \in 0..n
    BY <1>3
  <2> HIDE DEF Reached
  <2> QED
    BY <1>3, <1>5, <1>6, <2>1, Upwards
<1>8. h[n].enc.fifo < f
  <2>1. f * (n - n + 1) = f
    BY <1>1, <1>3
  <2> QED
    BY <1>7, <2>1
<1>9. Coding(h[n], want, bytes, l) /\ SameFormat(a, h[n])
      /\ Sum(h[n], want) = Sum(a, want)
  BY <1>7
<1> QED
  BY <1>4, <1>8, <1>9 DEF f, q

(* What an encoder may give up when it is opened again.                    *)
AtMost(want) == (Latency + 1) * FrameOf(want) - 1

(* Less than a frame in the fifo and the frames of the codec.              *)
LEMMA GivenUp ==
  ASSUME NEW f \in {576, 1024, 1152}, NEW x \in Nat, x < f, NEW h \in Nat, h <= Latency
  PROVE  /\ x + h * f <= (Latency + 1) * f - 1
         /\ (Latency + 1) * f - 1 \in Nat
<1>0. Latency \in Nat
  BY Numbers
<1>1. CASE f = 576
  BY <1>0, <1>1
<1>2. CASE f = 1024
  BY <1>0, <1>2
<1>3. CASE f = 1152
  BY <1>0, <1>3
<1> QED
  BY <1>1, <1>2, <1>3

(* encode() of a frame: all samples are in packets, in the encoder, or     *)
(* wait, but for those given up at a change of the format.                 *)
LEMMA FrameEncoded ==
  ASSUME NEW want, Asked(want), want \notin Refused, NEW bytes \in PacketBytes,
         NEW e, Ready(e, want), Opened(e, want) => e.fifo < FrameOf(want),
         NEW l \in Nat, NEW pool, PoolOK(pool, l), NEW f, IsFrame(f)
  PROVE  LET a == [enc |-> e, pool |-> pool, output |-> <<>>, rc |-> 0,
                   fault |-> "none"]
             b == Encode(a, f, bytes)
         IN /\ Coding(b, want, bytes, l)
            /\ b.enc.pre = FormatOf(f)
            /\ b.enc.fifo < FrameOf(want)
            /\ Worth(BestContext(want).rate, f) \in Nat
            /\ Sum(b, want) + b.enc.dropped
                 = Kept(e, want) + Worth(BestContext(want).rate, f)
            /\ b.enc.dropped <= e.dropped
                 + (IF e = initEncoder(want) \/ FormatOf(f) = e.pre THEN 0
                    ELSE AtMost(want))
<1> DEFINE a == [enc |-> e, pool |-> pool, output |-> <<>>, rc |-> 0,
                 fault |-> "none"]
           u == UpdateCoder(e, f)
           z == FrameOf(want)
           w == Worth(BestContext(want).rate, f)
           g == SwrFifoAdd(u.enc, f)
           added == [a EXCEPT !.enc = g]
           b == Coded(added, bytes, Rounds(g))
<1>1. /\ u.rc = 0 /\ Opened(u.enc, want) /\ u.enc.pre = FormatOf(f)
      /\ FormatOf(f) = e.pre => u.enc = e
      /\ FormatOf(f) # e.pre =>
           /\ u.enc.fifo = 0 /\ u.enc.held = 0
           /\ u.enc.dropped
                = e.dropped + Max2(e.fifo, 0) + e.held * e.ctx.frameSize
  BY CoderUpdated
<1>2. /\ Opened(g, want) /\ g.pre = u.enc.pre /\ g.held = u.enc.held
      /\ g.dropped = u.enc.dropped
      /\ w \in Nat
      /\ g.fifo = u.enc.fifo + w
  <2> HIDE DEF u
  <2> QED
    BY <1>1, FrameAdded
<1>3. added = [enc |-> g, pool |-> pool, output |-> <<>>, rc |-> 0, fault |-> "none"]
  <2> HIDE DEF g
  <2> QED
    OBVIOUS
<1>4. Encode(a, f, bytes) = b
  <2>1. a.enc = e /\ added.enc = g
    BY <1>3
  <2>2. u.enc.fifo \in Nat
    BY <1>1 DEF Opened
  <2>3. u.enc.fifo # NoFifo
    BY <2>2 DEF NoFifo
  <2> HIDE DEF a, u
  <2> QED
    BY <1>1, <2>1, <2>3 DEF Encode, Coded, u
<1> HIDE DEF g, u
<1>5. Coding(added, want, bytes, l)
  <2>1. <<>> \in Seq(OutFrames(want, bytes)) /\ l + Len(<<>>) = l
    OBVIOUS
  <2> HIDE DEF added
  <2> QED
    BY <1>2, <1>3, <2>1 DEF Coding
<1>6. added.enc = g /\ added.output = <<>>
  BY <1>3
<1> HIDE DEF added
<1>7. /\ Coding(b, want, bytes, l) /\ SameFormat(added, b)
      /\ Sum(b, want) = Sum(added, want)
      /\ b.enc.fifo < z
  BY <1>5, <1>6, RoundsConserve
<1> HIDE DEF b
<1>8. Sum(added, want) = g.fifo + g.held * z
  BY <1>2, <1>6 DEF Sum, Opened
<1>9. b.enc.pre = FormatOf(f) /\ b.enc.dropped = g.dropped
  BY <1>1, <1>2, <1>6, <1>7 DEF SameFormat
<1>10. z \in {576, 1024, 1152} /\ z \in Nat
  BY FormatType DEF FrameOf
<1>11. e.held \in Nat /\ e.dropped \in Nat /\ Max2(e.fifo, 0) \in Nat
       /\ e.held <= Latency
  BY ReadyType
<1> DEFINE held == e.held * z
<1>12. held \in Nat
  <2> DEFINE h == e.held
  <2> HIDE DEF h, z
  <2>1. h \in Nat /\ z \in Nat
    BY <1>10, <1>11 DEF h
  <2>2. h * z \in Nat
    BY <2>1
  <2> QED
    BY <2>2 DEF h
<1>13. CASE FormatOf(f) = e.pre
  <2>1. u.enc = e /\ Opened(e, want)
    BY <1>1, <1>13
  <2>2. e.fifo \in Nat
    BY <2>1 DEF Opened
  <2>3. Max2(e.fifo, 0) = e.fifo
    BY <2>2 DEF Max2
  <2>4. Kept(e, want) = e.fifo + held + e.dropped
    BY <2>3 DEF Kept
  <2>5. Sum(b, want) = (e.fifo + w) + held /\ b.enc.dropped = e.dropped
    BY <1>2, <1>7, <1>8, <1>9, <2>1
  <2> HIDE DEF held, w
  <2>6. Sum(b, want) + b.enc.dropped = Kept(e, want) + w
    BY <1>2, <1>11, <1>12, <2>2, <2>4, <2>5
  <2> QED
    BY <1>2, <1>4, <1>7, <1>9, <1>11, <1>13, <2>5, <2>6 DEF w
<1>14. CASE FormatOf(f) # e.pre
  <2>1. e.held * e.ctx.frameSize = held
    <3>1. CASE e = initEncoder(want)
      <4>1. e.held = 0 /\ e.ctx.frameSize = 0
        BY <3>1 DEF initEncoder
      <4> QED
        BY <1>10, <4>1
    <3>2. CASE Opened(e, want)
      <4>1. e.ctx = BestContext(want)
        BY <3>2 DEF Opened
      <4> QED
        BY <4>1 DEF FrameOf
    <3> QED
      BY <3>1, <3>2 DEF Ready
  <2>2. u.enc.fifo = 0 /\ u.enc.held = 0
        /\ u.enc.dropped = e.dropped + Max2(e.fifo, 0) + held
    BY <1>1, <1>14, <2>1
  <2>3. g.fifo = w /\ g.held * z = 0 /\ g.dropped = e.dropped + Max2(e.fifo, 0) + held
    BY <1>2, <1>10, <2>2
  <2>4. Sum(b, want) = w /\ b.enc.dropped = e.dropped + Max2(e.fifo, 0) + held
    BY <1>2, <1>7, <1>8, <1>9, <2>3
  <2>5. Kept(e, want) = Max2(e.fifo, 0) + held + e.dropped
    BY DEF Kept
  <2> HIDE DEF held, w
  <2>6. Sum(b, want) + b.enc.dropped = Kept(e, want) + w
    BY <1>2, <1>11, <1>12, <2>4, <2>5
  <2>7. b.enc.dropped <= e.dropped + (IF e = initEncoder(want) THEN 0 ELSE AtMost(want))
    <3>1. CASE e = initEncoder(want)
      <4>1. e.held = 0 /\ e.fifo = -1 /\ Max2(e.fifo, 0) = 0
        BY <3>1 DEF initEncoder, NoFifo, Max2
      <4>2. held = 0
        BY <1>10, <4>1 DEF held
      <4> QED
        BY <1>11, <2>4, <3>1, <4>1, <4>2
    <3>2. CASE e # initEncoder(want)
      <4>1. Opened(e, want) /\ e.fifo \in Nat
        BY <3>2 DEF Ready, Opened
      <4>2. Max2(e.fifo, 0) = e.fifo /\ e.fifo < z
        BY <4>1 DEF Max2
      <4>3. e.fifo + held <= AtMost(want) /\ AtMost(want) \in Nat
        <5> DEFINE x == e.fifo
                   h == e.held
        <5>1. x \in Nat /\ x < z /\ h \in Nat /\ h <= Latency
          BY <1>11, <4>1, <4>2
        <5> HIDE DEF x, h, z
        <5>2. x + h * z <= (Latency + 1) * z - 1 /\ (Latency + 1) * z - 1 \in Nat
          BY <1>10, <5>1, GivenUp
        <5> QED
          BY <5>2 DEF x, h, z, held, AtMost
      <4> QED
        BY <1>11, <1>12, <2>4, <3>2, <4>1, <4>2, <4>3
    <3> QED
      BY <3>1, <3>2
  <2> QED
    BY <1>2, <1>4, <1>7, <1>9, <1>14, <2>6, <2>7 DEF w
<1> QED
  BY <1>13, <1>14

-----------------------------------------------------------------------------
(* The output.  What it is told the stream is:                             *)
ToldStream(list, want) == IF want.enable THEN want ELSE list[1]

(* Encoders that are asked for a rate they have, and AAC of a rate whose   *)
(* frames have a duration.                                                 *)
Made(want) == want.enable => want.rate \in ToSet(EncoderRates(want.codec))
Clocked(want) == want.enable /\ want.codec = "aac" => Timed(want.rate)

SentFrame ==
  [at : Nat, last : Int, length : Nat, untimed : BOOLEAN, samples : Nat,
   rate : {x \in Nat : x >= 25}, channels : Nat]

TimedAt(sent, k) ==
  LET before == TimeOf(SubSeq(sent, 1, k - 1))
  IN /\ before \in Nat /\ sent[k].at <= before /\ before < sent[k].at + 1000
     /\ sent[k].last - sent[k].at <= FrameTime(sent[k].samples, sent[k].rate)

ToldAt(o, told, k) ==
  o.sent[k].rate = told.rate /\ o.sent[k].channels = told.channels

OutOK(o, kind, told, want) ==
  /\ o = [rc |-> 0, kind |-> kind, codec |-> told.codec, rate |-> told.rate,
          channels |-> told.channels, timestamp |-> o.timestamp,
          sent |-> o.sent]
  /\ o.timestamp \in Nat /\ o.sent \in Seq(SentFrame)
  /\ Clocked(want) => /\ o.timestamp = TimeOf(o.sent)
                      /\ \A k \in 1..Len(o.sent) : TimedAt(o.sent, k)
  /\ Made(want) /\ told.codec # "mp3" =>
       \A k \in 1..Len(o.sent) : ToldAt(o, told, k)

(* A frame for the output.                                                 *)
FrameOK(fd, told, want) ==
  /\ fd = [length |-> fd.length, duration |-> fd.duration,
           untimed |-> fd.untimed, samples |-> fd.samples, rate |-> fd.rate,
           channels |-> fd.channels]
  /\ fd.length \in Nat /\ fd.duration \in Nat /\ fd.untimed \in BOOLEAN
  /\ fd.samples \in Nat /\ fd.rate \in Nat /\ fd.rate >= 25
  /\ fd.channels \in Nat
  /\ Clocked(want) =>
       fd.duration = IF fd.untimed THEN 0 ELSE FrameTime(fd.samples, fd.rate)
  /\ told.codec = "pcm" =>
       /\ Pieces(told, fd.length) \in Int
       /\ (Pieces(told, fd.length) - 1) * 5000 <= FrameTime(fd.samples, fd.rate)
  /\ Made(want) /\ told.codec # "mp3" =>
       fd.rate = told.rate /\ fd.channels = told.channels

(* PCM goes out in a whole number of pieces.                               *)
LEMMA PiecesType ==
  ASSUME NEW a, a.codec = "pcm", a.rate \in Nat, a.rate >= 200,
         a.channels \in Nat, a.channels > 0, NEW length \in Nat
  PROVE  Pieces(a, length) \in Int
<1> DEFINE r == a.rate
           sample == 2 * a.channels
           num == r * sample * 5
           den == 1000 * sample
           q == num \div den
           unit == q * sample
<1>1. sample \in Nat /\ sample >= 1 /\ r \in Nat /\ r >= 200
  OBVIOUS
<1>2. Pieces(a, length) = (length + unit - 1) \div unit
  BY DEF Pieces
<1> HIDE DEF sample, r
<1>3. den \in Nat /\ den >= 1 /\ num \in Nat
  <2>1. r * sample \in Nat
    BY <1>1
  <2> QED
    BY <1>1, <2>1
<1>4. num >= den
  <2>1. r * sample >= 200 * sample
    BY <1>1
  <2>2. r * sample \in Nat
    BY <1>1
  <2> DEFINE x == r * sample
  <2> HIDE DEF x
  <2>3. x * 5 >= 1000 * sample
    BY <1>1, <2>1, <2>2 DEF x
  <2> QED
    BY <2>3 DEF x
<1> HIDE DEF num, den
<1>5. q \in Nat /\ q >= 1
  <2>1. q \in Nat /\ num - den < den * q
    BY <1>3, Quotient
  <2> HIDE DEF q
  <2>2. CASE q = 0
    BY <1>3, <1>4, <2>1, <2>2
  <2> QED
    BY <2>1, <2>2
<1> HIDE DEF q
<1>6. unit \in Nat /\ unit >= 1
  BY <1>1, <1>5
<1> HIDE DEF unit
<1>7. (length + unit - 1) \div unit \in Int
  <2>1. length + unit - 1 \in Nat
    BY <1>6
  <2> DEFINE x == length + unit - 1
  <2> HIDE DEF x
  <2>2. x \div unit \in Nat
    BY <1>6, <2>1, QuotientType DEF x
  <2> QED
    BY <2>2 DEF x
<1> QED
  BY <1>2, <1>7

(* A time stamp is its milliseconds at least.                              *)
LEMMA Stamped ==
  ASSUME NEW o, o.timestamp \in Nat
  PROVE  Stamp(o) \in Nat /\ Stamp(o) <= o.timestamp /\ o.timestamp < Stamp(o) + 1000
BY DEF Stamp

(* All but the last frame stay.                                            *)
LEMMA Appended ==
  ASSUME NEW S, NEW q \in Seq(S), NEW x \in S
  PROVE  LET r == Append(q, x)
         IN /\ r \in Seq(S) /\ Len(r) = Len(q) + 1 /\ Len(q) \in Nat
            /\ r[Len(q) + 1] = x
            /\ \A k \in 1..Len(q) : r[k] = q[k]
            /\ SubSeq(r, 1, Len(q)) = q
            /\ \A k \in 1..Len(q) : SubSeq(r, 1, k - 1) = SubSeq(q, 1, k - 1)
<1> DEFINE r == Append(q, x)
           n == Len(q)
<1>1. r \in Seq(S) /\ Len(r) = n + 1 /\ n \in Nat /\ r[n + 1] = x
  OBVIOUS
<1>2. \A k \in 1..n : r[k] = q[k]
  OBVIOUS
<1> HIDE DEF r
<1>3. ASSUME NEW m \in Nat, m <= n
      PROVE  SubSeq(r, 1, m) = SubSeq(q, 1, m)
  <2>1. Len(SubSeq(r, 1, m)) = m /\ Len(SubSeq(q, 1, m)) = m
    BY <1>1, <1>3
  <2>2. SubSeq(r, 1, m) \in Seq(S) /\ SubSeq(q, 1, m) \in Seq(S)
    BY <1>1, <1>3
  <2>3. \A k \in 1..m : SubSeq(r, 1, m)[k] = r[k] /\ SubSeq(q, 1, m)[k] = q[k]
    BY <1>1, <1>3
  <2>4. \A k \in 1..m : r[k] = q[k]
    BY <1>1, <1>2, <1>3
  <2> DEFINE a == SubSeq(r, 1, m)
             b == SubSeq(q, 1, m)
  <2>5. \A k \in 1..m : a[k] = b[k]
    BY <2>3, <2>4
  <2> HIDE DEF a, b
  <2> QED
    BY <2>1, <2>2, <2>5, SeqEqual DEF a, b
<1>4. SubSeq(q, 1, n) = q
  OBVIOUS
<1>5. SubSeq(r, 1, n) = q
  BY <1>1, <1>3, <1>4
<1>6. ASSUME NEW k \in 1..n PROVE SubSeq(r, 1, k - 1) = SubSeq(q, 1, k - 1)
  <2>1. k - 1 \in Nat /\ k - 1 <= n
    BY <1>1
  <2> QED
    BY <1>3, <2>1
<1> QED
  BY <1>1, <1>2, <1>5, <1>6 DEF r

(* The output after the pusher was handed a frame.                         *)
Written(o, fd) ==
  [o EXCEPT !.timestamp = @ + fd.duration,
            !.sent = Append(@, [
              at |-> Stamp(o),
              last |-> Stamp(o) + (Pieces(o, fd.length) - 1) * 5000,
              length |-> fd.length, untimed |-> fd.untimed,
              samples |-> fd.samples, rate |-> fd.rate,
              channels |-> fd.channels])]

(* A frame that is written keeps the output right.                         *)
LEMMA FrameWritten ==
  ASSUME NEW want, NEW told, NEW kind, NEW o, OutOK(o, kind, told, want),
         NEW fd, FrameOK(fd, told, want)
  PROVE  OutOK(Written(o, fd), kind, told, want)
<1> DEFINE x == [at |-> Stamp(o),
                 last |-> Stamp(o) + (Pieces(o, fd.length) - 1) * 5000,
                 length |-> fd.length, untimed |-> fd.untimed,
                 samples |-> fd.samples, rate |-> fd.rate,
                 channels |-> fd.channels]
           sent == Append(o.sent, x)
           ts == o.timestamp + fd.duration
           p == Written(o, fd)
           n == Len(o.sent)
<1>1. /\ o = [rc |-> 0, kind |-> kind, codec |-> told.codec, rate |-> told.rate,
              channels |-> told.channels, timestamp |-> o.timestamp,
              sent |-> o.sent]
      /\ o.timestamp \in Nat /\ o.sent \in Seq(SentFrame)
  BY DEF OutOK
<1>2. /\ fd.length \in Nat /\ fd.duration \in Nat /\ fd.untimed \in BOOLEAN
      /\ fd.samples \in Nat /\ fd.rate \in Nat /\ fd.rate >= 25
      /\ fd.channels \in Nat
  BY DEF FrameOK
<1>3. Stamp(o) \in Nat /\ Stamp(o) <= o.timestamp /\ o.timestamp < Stamp(o) + 1000
  BY <1>1, Stamped
<1>4. FrameTime(fd.samples, fd.rate) \in Nat
  BY <1>2, FrameTimeType
<1> DEFINE pieces == Pieces(o, fd.length)
<1>5. /\ pieces \in Int
      /\ (pieces - 1) * 5000 <= FrameTime(fd.samples, fd.rate)
  <2>1. o.codec = told.codec /\ o.rate = told.rate /\ o.channels = told.channels
    BY <1>1
  <2>2. CASE told.codec = "pcm"
    <3>1. pieces = Pieces(told, fd.length)
      BY <2>1 DEF Pieces
    <3> HIDE DEF pieces
    <3> QED
      BY <2>2, <3>1 DEF FrameOK
  <2>3. CASE told.codec # "pcm"
    <3>1. pieces = 1
      BY <2>1, <2>3 DEF Pieces
    <3> HIDE DEF pieces
    <3> QED
      BY <1>4, <3>1
  <2> QED
    BY <2>2, <2>3
<1> HIDE DEF pieces
<1>6. x \in SentFrame
  BY <1>2, <1>3, <1>5 DEF SentFrame, pieces
<1>7. x.at = Stamp(o) /\ x.last - x.at <= FrameTime(x.samples, x.rate)
      /\ x.samples = fd.samples /\ x.rate = fd.rate /\ x.channels = fd.channels
      /\ x.untimed = fd.untimed
  <2>1. x.at = Stamp(o) /\ x.last = Stamp(o) + (pieces - 1) * 5000
        /\ x.samples = fd.samples /\ x.rate = fd.rate /\ x.channels = fd.channels
        /\ x.untimed = fd.untimed
    BY DEF pieces
  <2> HIDE DEF x
  <2> QED
    BY <1>3, <1>4, <1>5, <2>1
<1>8. p = [o EXCEPT !.timestamp = ts, !.sent = sent]
  BY DEF Written
<1> HIDE DEF x
<1>9. /\ sent \in Seq(SentFrame) /\ Len(sent) = n + 1 /\ n \in Nat
      /\ sent[n + 1] = x
      /\ \A k \in 1..n : sent[k] = o.sent[k]
      /\ SubSeq(sent, 1, n) = o.sent
      /\ \A k \in 1..n : SubSeq(sent, 1, k - 1) = SubSeq(o.sent, 1, k - 1)
  BY <1>1, <1>6, Appended
<1>10. TimeOf(sent) = IF x.untimed THEN TimeOf(o.sent)
                      ELSE TimeOf(o.sent) + FrameTime(x.samples, x.rate)
  BY <1>1, <1>6, TimeAppend
<1> HIDE DEF p, sent, ts
<1>11. p = [rc |-> 0, kind |-> kind, codec |-> told.codec, rate |-> told.rate,
            channels |-> told.channels, timestamp |-> ts, sent |-> sent]
  <2>1. o = [rc |-> o.rc, kind |-> o.kind, codec |-> o.codec, rate |-> o.rate,
             channels |-> o.channels, timestamp |-> o.timestamp,
             sent |-> o.sent]
    BY <1>1
  <2>2. p = [rc |-> o.rc, kind |-> o.kind, codec |-> o.codec, rate |-> o.rate,
             channels |-> o.channels, timestamp |-> ts, sent |-> sent]
    BY <1>8, <2>1
  <2>3. o.rc = 0 /\ o.kind = kind /\ o.codec = told.codec /\ o.rate = told.rate
        /\ o.channels = told.channels
    BY <1>1
  <2> QED
    BY <2>2, <2>3
<1>12. ts \in Nat
  BY <1>1, <1>2 DEF ts
<1>13. ASSUME Clocked(want)
       PROVE  ts = TimeOf(sent) /\ \A k \in 1..n + 1 : TimedAt(sent, k)
  <2>1. o.timestamp = TimeOf(o.sent) /\ \A k \in 1..n : TimedAt(o.sent, k)
    BY <1>13 DEF OutOK
  <2>2. fd.duration = IF fd.untimed THEN 0 ELSE FrameTime(fd.samples, fd.rate)
    BY <1>13 DEF FrameOK
  <2>3. ts = TimeOf(sent)
    BY <1>1, <1>4, <1>7, <1>10, <2>1, <2>2 DEF ts
  <2>4. ASSUME NEW k \in 1..n PROVE TimedAt(sent, k)
    <3>1. sent[k] = o.sent[k] /\ SubSeq(sent, 1, k - 1) = SubSeq(o.sent, 1, k - 1)
      BY <1>9
    <3>2. TimedAt(o.sent, k)
      BY <2>1
    <3> QED
      BY <3>1, <3>2 DEF TimedAt
  <2>5. TimedAt(sent, n + 1)
    <3> DEFINE m == n + 1
               before == TimeOf(o.sent)
    <3>1. m - 1 = n
      BY <1>9
    <3>2. sent[m] = x /\ SubSeq(sent, 1, n) = o.sent
      BY <1>9
    <3> HIDE DEF m
    <3>3. SubSeq(sent, 1, m - 1) = o.sent
      BY <3>1, <3>2
    <3> HIDE DEF before
    <3>4. /\ before \in Nat /\ x.at <= before /\ before < x.at + 1000
          /\ x.last - x.at <= FrameTime(x.samples, x.rate)
      BY <1>1, <1>3, <1>7, <2>1 DEF before
    <3>5. TimedAt(sent, m)
      BY <3>2, <3>3, <3>4 DEF TimedAt, before
    <3> QED
      BY <3>5 DEF m
  <2>6. \A k \in 1..n + 1 : k \in 1..n \/ k = n + 1
    BY <1>9
  <2> QED
    BY <2>3, <2>4, <2>5, <2>6
<1>14. ASSUME Made(want), told.codec # "mp3"
       PROVE  \A k \in 1..n + 1 : ToldAt(p, told, k)
  <2>1. \A k \in 1..n : ToldAt(o, told, k)
    BY <1>14 DEF OutOK
  <2>2. fd.rate = told.rate /\ fd.channels = told.channels
    BY <1>14 DEF FrameOK
  <2>3. p.sent = sent
    BY <1>11
  <2>4. ASSUME NEW k \in 1..n + 1 PROVE ToldAt(p, told, k)
    <3>1. CASE k = n + 1
      BY <1>7, <1>9, <2>2, <2>3, <3>1 DEF ToldAt
    <3>2. CASE k # n + 1
      <4>1. k \in 1..n
        BY <1>9, <3>2
      <4> QED
        BY <1>9, <2>1, <2>3, <4>1 DEF ToldAt
    <3> QED
      BY <3>1, <3>2
  <2> QED
    BY <2>4
<1> QED
  <2>1. p.timestamp = ts /\ p.sent = sent /\ Len(p.sent) = n + 1
    BY <1>9, <1>11
  <2>3. p = [rc |-> 0, kind |-> kind, codec |-> told.codec, rate |-> told.rate,
             channels |-> told.channels, timestamp |-> p.timestamp,
             sent |-> p.sent]
    BY <1>11, <2>1
  <2>4. p.timestamp \in Nat /\ p.sent \in Seq(SentFrame)
    BY <1>9, <1>12, <2>1
  <2>5. Clocked(want) => /\ p.timestamp = TimeOf(p.sent)
                         /\ \A k \in 1..Len(p.sent) : TimedAt(p.sent, k)
    BY <1>13, <2>1
  <2>6. Made(want) /\ told.codec # "mp3" =>
          \A k \in 1..Len(p.sent) : ToldAt(p, told, k)
    BY <1>14, <2>1
  <2>2. OutOK(p, kind, told, want)
    BY <2>3, <2>4, <2>5, <2>6 DEF OutOK
  <2> QED
    BY <2>2 DEF p

(* So does an attempt to write one.                                        *)
LEMMA DataWritten ==
  ASSUME NEW want, NEW told, NEW kind, NEW o, OutOK(o, kind, told, want),
         NEW fd, FrameOK(fd, told, want), NEW attempt
  PROVE  OutOK(writeData(o, fd, attempt), kind, told, want)
<1> DEFINE g == [length |-> fd.length, duration |-> 0, untimed |-> TRUE,
                 samples |-> fd.samples, rate |-> fd.rate,
                 channels |-> fd.channels]
           p == writeData(o, fd, attempt)
           timed == ~(attempt = "refused" /\ o.codec = "pcm")
           After(ts, u) ==
             [o EXCEPT !.timestamp = ts,
                       !.sent = Append(@, [
                         at |-> Stamp(o),
                         last |-> Stamp(o) + (Pieces(o, fd.length) - 1) * 5000,
                         length |-> fd.length, untimed |-> u,
                         samples |-> fd.samples, rate |-> fd.rate,
                         channels |-> fd.channels])]
<1>1. o.timestamp \in Nat
  BY DEF OutOK
<1>2. fd.untimed \in BOOLEAN
  BY DEF FrameOK
<1>3. CASE attempt = "connecting" /\ o.kind = "rtsp"
  BY <1>3 DEF writeData
<1>4. CASE ~(attempt = "connecting" /\ o.kind = "rtsp")
  <2>1. p = After(IF timed THEN o.timestamp + fd.duration ELSE o.timestamp,
                  fd.untimed \/ ~timed)
    BY <1>4, Zenon DEF writeData
  <2>2. Written(o, g) = After(o.timestamp + 0, TRUE)
        /\ Written(o, fd) = After(o.timestamp + fd.duration, fd.untimed)
    BY DEF Written
  <2>3. CASE timed
    <3>1. (fd.untimed \/ ~timed) = fd.untimed
      BY <1>2, <2>3, Zenon
    <3> HIDE DEF After, p
    <3>2. p = After(o.timestamp + fd.duration, fd.untimed)
      BY <2>1, <2>3, <3>1, Zenon
    <3>3. p = Written(o, fd)
      BY <2>2, <3>2
    <3>4. OutOK(p, kind, told, want)
      BY <3>3, FrameWritten
    <3> QED
      BY <3>4 DEF p
  <2>4. CASE ~timed
    <3>1. (fd.untimed \/ ~timed) = TRUE
      BY <2>4, Zenon
    <3>2. o.timestamp + 0 = o.timestamp
      BY <1>1
    <3>3. FrameOK(g, told, want)
      BY DEF FrameOK
    <3> HIDE DEF After, p, g
    <3>4. p = After(o.timestamp, TRUE)
      BY <2>1, <2>4, <3>1, Zenon
    <3>5. p = Written(o, g)
      BY <2>2, <3>2, <3>4, Zenon
    <3>6. OutOK(p, kind, told, want)
      BY <3>3, <3>5, FrameWritten
    <3> QED
      BY <3>6 DEF p
  <2> QED
    BY <2>3, <2>4
<1> QED
  BY <1>3, <1>4

(* A new output is right.                                                  *)
LEMMA NewOutput ==
  ASSUME NEW want, NEW told, NEW kind, NEW out,
         out = [rc |-> 0, kind |-> kind, codec |-> told.codec, rate |-> told.rate,
                channels |-> told.channels, timestamp |-> 0, sent |-> <<>>]
  PROVE  OutOK(out, kind, told, want)
<1>1. out.timestamp = 0 /\ out.sent = <<>>
  OBVIOUS
<1>2. out = [rc |-> 0, kind |-> kind, codec |-> told.codec, rate |-> told.rate,
             channels |-> told.channels, timestamp |-> out.timestamp,
             sent |-> out.sent]
  BY <1>1
<1>3. out.sent \in Seq(SentFrame) /\ 1..Len(out.sent) = {}
  BY <1>1
<1>4. out.timestamp \in Nat /\ out.timestamp = TimeOf(out.sent)
  BY <1>1, TimeAppend
<1> QED
  BY <1>2, <1>3, <1>4 DEF OutOK

(* An attempt to send a frame leaves the output right.                     *)
LEMMA FrameTried ==
  ASSUME NEW want, NEW told, NEW kind, NEW o, OutOK(o, kind, told, want),
         NEW fd, FrameOK(fd, told, want), NEW attempt
  PROVE  OutOK(Try(o, fd, attempt), kind, told, want)
<1>1. CASE attempt = "unopened"
  <2> DEFINE out == Try(o, fd, attempt)
  <2>1. o = [rc |-> 0, kind |-> kind, codec |-> told.codec, rate |-> told.rate,
             channels |-> told.channels, timestamp |-> o.timestamp,
             sent |-> o.sent]
    BY DEF OutOK
  <2> DEFINE ts == 0
             sent == <<>>
  <2>2. out = [o EXCEPT !.timestamp = ts, !.sent = sent]
    BY <1>1 DEF Try
  <2> HIDE DEF out, ts, sent
  <2>3. out = [rc |-> 0, kind |-> kind, codec |-> told.codec, rate |-> told.rate,
               channels |-> told.channels, timestamp |-> 0, sent |-> <<>>]
    <3>1. o = [rc |-> o.rc, kind |-> o.kind, codec |-> o.codec, rate |-> o.rate,
               channels |-> o.channels, timestamp |-> o.timestamp,
               sent |-> o.sent]
      BY <2>1
    <3>2. out = [rc |-> o.rc, kind |-> o.kind, codec |-> o.codec,
                 rate |-> o.rate, channels |-> o.channels, timestamp |-> ts,
                 sent |-> sent]
      BY <2>2, <3>1
    <3>3. o.rc = 0 /\ o.kind = kind /\ o.codec = told.codec
          /\ o.rate = told.rate /\ o.channels = told.channels
      BY <2>1
    <3> QED
      BY <3>2, <3>3 DEF ts, sent
  <2>4. OutOK(out, kind, told, want)
    BY <2>3, NewOutput
  <2> QED
    BY <2>4 DEF out
<1>2. CASE attempt # "unopened"
  <2>1. Try(o, fd, attempt) = writeData(o, fd, attempt)
    BY <1>2 DEF Try
  <2> QED
    BY <2>1, DataWritten
<1> QED
  BY <1>1, <1>2

(* So do all attempts.                                                     *)
LEMMA AllTried ==
  ASSUME NEW want, NEW told, NEW kind, NEW o, OutOK(o, kind, told, want),
         NEW fd, FrameOK(fd, told, want),
         NEW n \in Nat, NEW fate, DOMAIN fate = 1..n
  PROVE  OutOK(Tried(o, fd, fate), kind, told, want)
<1>1. PICK h : Tries(h, o, fd, n, fate)
  BY TriesRun
<1>2. /\ h[0] = o /\ h[n] = Tried(o, fd, fate)
      /\ \A k \in 1..n : h[k] = Try(h[k - 1], fd, fate[k])
  BY <1>1 DEF Tries
<1> DEFINE OK(x) == OutOK(x, kind, told, want)
           All == {k \in 0..n : OK(h[k])}
<1>3. 0 \in All
  BY <1>2
<1>4. ASSUME NEW k \in 1..n, k - 1 \in All PROVE k \in All
  <2> DEFINE g == h[k - 1]
             attempt == fate[k]
  <2>1. OK(g) /\ k \in 0..n
    BY <1>4
  <2>2. h[k] = Try(g, fd, attempt)
    BY <1>2
  <2> HIDE DEF g, attempt
  <2>3. OK(Try(g, fd, attempt))
    BY <2>1, FrameTried
  <2> QED
    BY <2>1, <2>2, <2>3
<1>5. n \in All
  <2>1. n \in 0..n
    OBVIOUS
  <2> HIDE DEF All
  <2> QED
    BY <1>3, <1>4, <2>1, Upwards
<1>6. OK(h[n])
  BY <1>5
<1> QED
  BY <1>2, <1>6

(* How attempts follow each other.                                         *)
FateOK(fate) == Len(fate) \in Nat /\ DOMAIN fate = 1..Len(fate)

(* And those to send a frame whose header is taken off.                    *)
LEMMA FramePushed ==
  ASSUME NEW want, NEW told, NEW kind, NEW o, OutOK(o, kind, told, want),
         NEW fd, FrameOK(fd, told, want), NEW fate, FateOK(fate)
  PROVE  OutOK(Pushed(o, fd, fate), kind, told, want)
<1> DEFINE whole == Headless(o, fd)
<1>1. FrameOK(whole, told, want)
  <2>1. CASE o.codec = "aac" /\ fd.length >= AAC_ADTS_SIZE
    <3> DEFINE m == fd.length - AAC_ADTS_SIZE
    <3>1. whole = [fd EXCEPT !.length = m]
      BY <2>1 DEF Headless
    <3>2. told.codec = "aac"
      BY <2>1 DEF OutOK
    <3>3. /\ fd = [length |-> fd.length, duration |-> fd.duration,
                   untimed |-> fd.untimed, samples |-> fd.samples,
                   rate |-> fd.rate, channels |-> fd.channels]
          /\ fd.length \in Nat
      BY DEF FrameOK
    <3>4. m \in Nat
      BY <2>1, <3>3 DEF AAC_ADTS_SIZE
    <3> HIDE DEF m, whole
    <3>5. whole = [length |-> m, duration |-> fd.duration,
                   untimed |-> fd.untimed, samples |-> fd.samples,
                   rate |-> fd.rate, channels |-> fd.channels]
      BY <3>1, <3>3
    <3> QED
      BY <3>2, <3>4, <3>5 DEF FrameOK
  <2>2. CASE ~(o.codec = "aac" /\ fd.length >= AAC_ADTS_SIZE)
    <3>1. whole = fd
      BY <2>2 DEF Headless
    <3> QED
      BY <3>1
  <2> QED
    BY <2>1, <2>2
<1>2. Pushed(o, fd, fate) = Tried(o, whole, fate)
  BY DEF Pushed, Tried
<1>3. Len(fate) \in Nat /\ DOMAIN fate = 1..Len(fate)
  BY DEF FateOK
<1> HIDE DEF whole
<1> QED
  BY <1>1, <1>2, <1>3, AllTried

-----------------------------------------------------------------------------
(* A rate with a duration in the table has the one of its samples.         *)
LEMMA ClockOf ==
  ASSUME NEW rate, GetAdtsDuration(1, Place(rate)) # 0
  PROVE  /\ GetAdtsDuration(1, Place(rate)) = FrameTime(1024, rate)
         /\ rate \in ToSet(Rates)
<1> DEFINE i == Place(rate)
<1>1. i \in 0..13 /\ Reserved = 13 /\ (rate \in ToSet(Rates) => Rates[i + 1] = rate)
  BY PlaceType
<1>2. CASE rate \in ToSet(Rates)
  <2> HIDE DEF i
  <2>1. GetAdtsDuration(1, i) # 0
    BY DEF i
  <2>2. GetAdtsDuration(1, i) = FrameTime(1024, Rates[i + 1])
    BY <1>1, <2>1, TableOfTimes
  <2> QED
    BY <1>1, <1>2, <2>2 DEF i
<1>3. CASE rate \notin ToSet(Rates)
  <2>1. ~(\E k \in 1..Reserved : Rates[k] = rate)
    BY <1>3 DEF ToSet, Reserved, Rates
  <2>2. i = 13
    BY <1>1, <2>1 DEF Place
  <2>3. GetAdtsDuration(1, 13) = 0
    BY <1>1 DEF GetAdtsDuration
  <2> QED
    BY <2>2, <2>3
<1> QED
  BY <1>2, <1>3

(* No two places of the table have one rate.                               *)
LEMMA RatesDiffer ==
  ASSUME NEW i \in 1..13, NEW k \in 1..13, Rates[i] = Rates[k]
  PROVE  i = k
<1> DEFINE table == <<96000, 88200, 64000, 48000, 44100, 32000, 24000, 22050, 16000,
                      12000, 11025, 8000, 7350>>
<1>1. \A x \in 1..13 : \A y \in 1..13 : x < y => table[y] < table[x]
  <2>1. \A x \in 1..12 : table[x + 1] < table[x]
    OBVIOUS
  <2>2. \A x \in 1..13 : table[x] \in Nat
    OBVIOUS
  <2> QED
    OBVIOUS
<1>2. Rates = table
  BY DEF Rates
<1>3. \A x \in 1..13 : table[x] \in Nat
  OBVIOUS
<1> HIDE DEF table
<1> QED
  BY <1>1, <1>2, <1>3

(* A rate that is timed has a duration at its place.                       *)
LEMMA TimedPlace ==
  ASSUME NEW rate, Timed(rate)
  PROVE  GetAdtsDuration(1, Place(rate)) # 0
<1>1. PICK i \in 0..Reserved - 1 : Rates[i + 1] = rate /\ GetAdtsDuration(1, i) # 0
  BY DEF Timed
<1>2. Reserved = 13 /\ i + 1 \in 1..13
  BY <1>1, PlaceType
<1>3. rate \in ToSet(Rates)
  <2>1. DOMAIN Rates = 1..13
    BY DEF Rates
  <2> QED
    BY <1>1, <1>2, <2>1 DEF ToSet
<1> DEFINE k == Place(rate)
<1>4. k + 1 \in 1..13 /\ Rates[k + 1] = rate
  BY <1>3, PlaceType
<1>5. k = i
  <2> HIDE DEF k
  <2> DEFINE x == i + 1
             y == k + 1
  <2>1. x \in 1..13 /\ y \in 1..13 /\ Rates[x] = Rates[y]
    BY <1>1, <1>2, <1>4
  <2> HIDE DEF x, y
  <2>2. x = y
    BY <2>1, RatesDiffer
  <2>3. k \in Int /\ i \in Int
    BY <1>2, <1>4, PlaceType DEF k
  <2> QED
    BY <2>2, <2>3 DEF x, y
<1> QED
  BY <1>1, <1>5

-----------------------------------------------------------------------------
(* What is read of the header of a frame that was sent.                    *)
ParsedFrames(want) ==
  {x \in [rate : Nat, channels : Nat, frameSize : Nat, size : Nat] :
     Made(want) =>
       /\ x.rate = want.rate /\ x.channels = want.channels
       /\ want.codec = "aac" => x.frameSize = x.size}

(* A frame of the encoder as it goes to the output.                        *)
EncodedFrame(want, n, duration) ==
  [length |-> n, duration |-> duration, untimed |-> FALSE,
   samples |-> BestContext(want).frameSize, rate |-> BestContext(want).rate,
   channels |-> BestContext(want).channels]

(* A frame of the encoder is a frame for the output.                       *)
LEMMA EncodedFrameOK ==
  ASSUME NEW want, Asked(want), want.enable, NEW n \in Nat, NEW duration \in Nat,
         Clocked(want) => duration = FrameTime(BestContext(want).frameSize,
                                               BestContext(want).rate)
  PROVE  FrameOK(EncodedFrame(want, n, duration), want, want)
<1> DEFINE c == BestContext(want)
           fd == EncodedFrame(want, n, duration)
<1>1. /\ c.channels = want.channels /\ c.rate \in Nat /\ c.rate >= 25
      /\ c.frameSize \in Nat
      /\ want.rate \in ToSet(EncoderRates(want.codec)) => c.rate = want.rate
  <2>1. c.frameSize \in {576, 1024, 1152}
    BY FormatType
  <2>2. c = [rate |-> c.rate, channels |-> want.channels, format |-> c.format,
             frameSize |-> c.frameSize]
    BY FormatType
  <2>3. /\ c.rate \in Nat /\ c.rate >= 25
        /\ want.rate \in ToSet(EncoderRates(want.codec)) => c.rate = want.rate
    BY FormatType
  <2> HIDE DEF c
  <2> QED
    BY <2>1, <2>2, <2>3
<1>2. want.channels \in Nat /\ want.codec # "pcm"
  BY DEF Asked
<1>3. Made(want) => want.rate \in ToSet(EncoderRates(want.codec))
  BY DEF Made
<1>4. fd = [length |-> n, duration |-> duration, untimed |-> FALSE,
            samples |-> c.frameSize, rate |-> c.rate, channels |-> c.channels]
  BY DEF EncodedFrame
<1> HIDE DEF fd, c
<1> QED
  <2>1. FrameOK(fd, want, want)
    BY <1>1, <1>2, <1>3, <1>4 DEF FrameOK, c
  <2> QED
    BY <2>1 DEF fd

ParsedData(d, want) ==
  IF want.codec = "aac" THEN ParseAac(d.data, d.obj.size)
  ELSE ParseMp3(d.data, d.obj.size)

(* The parsers read of a packet what it is.                                *)
LEMMA DataTold ==
  ASSUME NEW want, Asked(want), want.enable, NEW bytes \in PacketBytes,
         NEW d \in OutFrames(want, bytes)
  PROVE  LET p == ParsedData(d, want)
             n == d.obj.size
         IN /\ p.ok /\ d.obj \in [size : Nat, buffSize : Nat]
            /\ ~(n <= (IF want.codec = "aac" THEN AAC_ADTS_SIZE ELSE 4))
            /\ [rate |-> p.rate, channels |-> p.channels,
                frameSize |-> p.frameSize, size |-> n] \in ParsedFrames(want)
            /\ FrameOK(EncodedFrame(want, n, p.duration), want, want)
<1> DEFINE p == ParsedData(d, want)
           n == d.obj.size
           c == BestContext(want)
           x == [rate |-> p.rate, channels |-> p.channels,
                 frameSize |-> p.frameSize, size |-> n]
<1>1. bytes \in Nat /\ bytes >= 5
  BY Numbers
<1>2. Made(want) => c.rate = want.rate
  <2>1. want.rate \in ToSet(EncoderRates(want.codec)) => c.rate = want.rate
    BY FormatType
  <2> QED
    BY <2>1 DEF Made
<1>3. CASE want.codec = "aac"
  <2> DEFINE m == AAC_ADTS_SIZE + bytes
             i == Place(want.rate)
  <2>1. d \in AacFrames(want, m)
    BY <1>3 DEF OutFrames
  <2>2. m \in Nat /\ m > AAC_ADTS_SIZE
    BY <1>1 DEF AAC_ADTS_SIZE
  <2> HIDE DEF m
  <2>3. /\ n = m /\ d.obj \in [size : Nat, buffSize : Nat]
        /\ ParseAac(d.data, m) = AacTold(want.rate, want.channels, m)
    BY <2>1, <2>2 DEF AacFrames
  <2>4. p = AacTold(want.rate, want.channels, m)
    BY <1>3, <2>3 DEF ParsedData
  <2> HIDE DEF p, n
  <2>5. i \in 0..13 /\ Reserved = 13
        /\ (want.rate \in ToSet(Rates) => i < 13 /\ Rates[i + 1] = want.rate)
    BY PlaceType
  <2>6. i < 13 => Rates[i + 1] \in Nat
    <3>1. \A k \in 1..13 : Rates[k] \in Nat
      BY DEF Rates
    <3> HIDE DEF i
    <3> QED
      BY <2>5, <3>1
  <2> DEFINE t == GetAdtsDuration(1, i)
  <2>7. t \in Nat
    <3> HIDE DEF i
    <3> QED
      BY <2>5, TableOfTimes
  <2>8. want.channels \in {1, 2} /\ want.channels % 4 = want.channels
    BY DEF Asked
  <2> HIDE DEF t, i
  <2>9. p = [ok |-> TRUE, rate |-> IF i < 13 THEN Rates[i + 1] ELSE 0,
             frameSize |-> m, channels |-> want.channels % 4, duration |-> t]
    BY <2>4 DEF AacTold, t, i
  <2>10. /\ p.ok /\ p.rate \in Nat /\ p.frameSize = m /\ p.channels = want.channels
         /\ p.duration = t
         /\ want.rate \in ToSet(Rates) => p.rate = want.rate
    BY <2>5, <2>6, <2>8, <2>9
  <2>11. Made(want) => want.rate \in ToSet(Rates)
    BY <1>3 DEF Made, EncoderRates
  <2>12. x \in ParsedFrames(want)
    <3>1. x.rate = p.rate /\ x.channels = p.channels /\ x.frameSize = p.frameSize
          /\ x.size = n /\ x \in [rate : Nat, channels : Nat, frameSize : Nat, size : Nat]
      BY <2>2, <2>3, <2>8, <2>10
    <3> HIDE DEF x
    <3> QED
      BY <2>3, <2>10, <2>11, <3>1 DEF ParsedFrames
  <2>13. Clocked(want) => p.duration = FrameTime(c.frameSize, c.rate)
    <3> SUFFICES ASSUME Clocked(want) PROVE p.duration = FrameTime(c.frameSize, c.rate)
      OBVIOUS
    <3>1. Timed(want.rate)
      BY <1>3 DEF Clocked
    <3>2. t # 0
      BY <3>1, TimedPlace DEF t, i
    <3>3. t = FrameTime(1024, want.rate) /\ want.rate \in ToSet(Rates)
      BY <3>2, ClockOf DEF t, i
    <3>4. c.frameSize = FrameSamples(want.codec, c.rate)
          /\ (want.rate \in ToSet(EncoderRates(want.codec)) => c.rate = want.rate)
      BY FormatType
    <3> HIDE DEF c
    <3>5. c.frameSize = 1024 /\ c.rate = want.rate
      BY <1>3, <3>3, <3>4 DEF FrameSamples, EncoderRates
    <3> QED
      BY <2>10, <3>3, <3>5
  <2>14. FrameOK(EncodedFrame(want, n, p.duration), want, want)
    BY <2>2, <2>3, <2>7, <2>10, <2>13, EncodedFrameOK
  <2>15. ~(n <= (IF want.codec = "aac" THEN AAC_ADTS_SIZE ELSE 4))
    BY <1>3, <2>2, <2>3 DEF AAC_ADTS_SIZE
  <2> QED
    BY <2>3, <2>10, <2>12, <2>14, <2>15 DEF p, n
<1>4. CASE want.codec # "aac"
  <2>0. want.codec = "mp3"
    BY <1>4 DEF Asked
  <2>1. d \in Mp3Frames(want, bytes)
    BY <1>4 DEF OutFrames
  <2>2. /\ n = bytes /\ d.obj \in [size : Nat, buffSize : Nat]
        /\ d.data = Mp3Header(c)
    BY <1>1, <2>1 DEF Mp3Frames
  <2>3. p = ParseMp3(Mp3Header(c), bytes)
    BY <1>4, <2>2 DEF ParsedData
  <2>4. c.rate \in Mp3Rates /\ c.frameSize = FrameSamples("mp3", c.rate)
        /\ c.rate \in Nat
    BY <2>0, FormatType
  <2>5. c.channels = want.channels
    <3>1. c = [rate |-> c.rate, channels |-> want.channels, format |-> c.format,
               frameSize |-> c.frameSize]
      BY FormatType
    <3> HIDE DEF c
    <3> QED
      BY <3>1
  <2> HIDE DEF p, n, c
  <2>6. /\ p.ok /\ p.rate = c.rate /\ p.frameSize \in Nat
        /\ p.channels = IF c.channels = 1 THEN 1 ELSE 2
        /\ p.duration = FrameTime(FrameSamples("mp3", c.rate), c.rate)
        /\ p.duration \in Nat
    BY <1>1, <2>3, <2>4, Mp3Told
  <2>7. p.channels = want.channels /\ want.channels \in Nat
    BY <2>5, <2>6 DEF Asked
  <2>8. x \in ParsedFrames(want)
    <3>1. x.rate = p.rate /\ x.channels = p.channels /\ x.frameSize = p.frameSize
          /\ x.size = n /\ x \in [rate : Nat, channels : Nat, frameSize : Nat, size : Nat]
      BY <1>1, <2>2, <2>4, <2>6, <2>7
    <3> HIDE DEF x
    <3> QED
      BY <1>2, <1>4, <2>6, <2>7, <3>1 DEF ParsedFrames
  <2>9. FrameOK(EncodedFrame(want, n, p.duration), want, want)
    BY <1>1, <2>2, <2>4, <2>6, EncodedFrameOK DEF c
  <2> QED
    BY <1>1, <1>4, <2>2, <2>6, <2>8, <2>9 DEF p, n
<1> QED
  BY <1>3, <1>4

-----------------------------------------------------------------------------
(* The files that are played with a list, its silence included.            *)
Plays(list) ==
  {a \in AudioFile :
     /\ FileOK(a) /\ a.codec = list[1].codec
     /\ a.codec # "mp3" => a.rate = list[1].rate /\ a.channels = list[1].channels
     /\ a.codec = "aac" => GetAdtsDuration(1, Place(a.rate)) # 0}

FormatIn(a) == [rate |-> a.rate, channels |-> a.channels, format |-> a.codec]

(* The samples that were decoded are somewhere, r packets of them to be    *)
(* sent yet.                                                               *)
Balanced(s, want, r) ==
  /\ Ready(s.enc, want)
  /\ \/ s.enc = initEncoder(want) /\ s.decoded = <<>> /\ s.parsed = <<>> /\ r = 0
     \/ /\ Opened(s.enc, want) /\ s.enc.fifo < FrameOf(want)
        /\ s.decoded # <<>> /\ s.enc.pre = FormatIn(s.decoded[Len(s.decoded)])
        /\ s.enc.fifo + (s.enc.held + (Len(s.parsed) + r)) * FrameOf(want)
             + s.enc.dropped = SamplesOf(BestContext(want).rate, s.decoded)
  /\ s.enc.dropped <= Changes(s.decoded) * AtMost(want)

(* r packets wait to be pushed, and some are left for good.                *)
Good(s, list, want, kind, r) ==
  /\ s = [dec |-> initDecoder(list[1], want), enc |-> s.enc, pool |-> s.pool,
          out |-> s.out, fault |-> "none", over |-> s.over,
          decoded |-> s.decoded, parsed |-> s.parsed, left |-> s.left]
  /\ s.left \in Nat /\ PoolOK(s.pool, s.left + r)
  /\ s.decoded \in Seq(Plays(list)) /\ s.parsed \in Seq(ParsedFrames(want))
  /\ OutOK(s.out, kind, ToldStream(list, want), want)
  /\ Balanced(s, want, s.left + r)

(* Good is not changed by who gave up.                                     *)
LEMMA OverChanges ==
  ASSUME NEW list, NEW want, NEW kind, NEW r, NEW s, Good(s, list, want, kind, r),
         NEW over, NEW t, t = [s EXCEPT !.over = over]
  PROVE  Good(t, list, want, kind, r)
<1> DEFINE dec == initDecoder(list[1], want)
<1>1. s = [dec |-> dec, enc |-> s.enc, pool |-> s.pool, out |-> s.out,
           fault |-> "none", over |-> s.over, decoded |-> s.decoded,
           parsed |-> s.parsed, left |-> s.left]
      /\ s.left \in Nat /\ PoolOK(s.pool, s.left + r)
      /\ s.decoded \in Seq(Plays(list)) /\ s.parsed \in Seq(ParsedFrames(want))
      /\ OutOK(s.out, kind, ToldStream(list, want), want)
      /\ Balanced(s, want, s.left + r)
  BY DEF Good
<1> HIDE DEF dec
<1>2. t = [dec |-> dec, enc |-> s.enc, pool |-> s.pool, out |-> s.out,
           fault |-> "none", over |-> over, decoded |-> s.decoded,
           parsed |-> s.parsed, left |-> s.left]
  BY <1>1
<1>3. t.enc = s.enc /\ t.pool = s.pool /\ t.out = s.out /\ t.over = over
      /\ t.decoded = s.decoded /\ t.parsed = s.parsed /\ t.left = s.left
  BY <1>2
<1>4. Balanced(t, want, t.left + r)
  BY <1>1, <1>3 DEF Balanced
<1>5. t = [dec |-> dec, enc |-> t.enc, pool |-> t.pool, out |-> t.out,
           fault |-> "none", over |-> t.over, decoded |-> t.decoded,
           parsed |-> t.parsed, left |-> t.left]
  BY <1>2, <1>3
<1> QED
  BY <1>1, <1>3, <1>4, <1>5 DEF Good, dec

(* A packet behind the one given up is left.                               *)
LEMMA DataLeft ==
  ASSUME NEW list, NEW want, NEW kind, NEW r \in Nat,
         NEW s, Good(s, list, want, kind, r + 1),
         NEW t, t = [s EXCEPT !.left = s.left + 1]
  PROVE  Good(t, list, want, kind, r)
<1> DEFINE dec == initDecoder(list[1], want)
           left == s.left + 1
<1>1. s = [dec |-> dec, enc |-> s.enc, pool |-> s.pool, out |-> s.out,
           fault |-> "none", over |-> s.over, decoded |-> s.decoded,
           parsed |-> s.parsed, left |-> s.left]
      /\ s.left \in Nat /\ PoolOK(s.pool, s.left + (r + 1))
      /\ s.decoded \in Seq(Plays(list)) /\ s.parsed \in Seq(ParsedFrames(want))
      /\ OutOK(s.out, kind, ToldStream(list, want), want)
      /\ Balanced(s, want, s.left + (r + 1))
  BY DEF Good
<1>2. left \in Nat /\ s.left + (r + 1) = left + r
  BY <1>1
<1> HIDE DEF dec, left
<1>3. t = [dec |-> dec, enc |-> s.enc, pool |-> s.pool, out |-> s.out,
           fault |-> "none", over |-> s.over, decoded |-> s.decoded,
           parsed |-> s.parsed, left |-> left]
  BY <1>1 DEF left
<1>4. t.enc = s.enc /\ t.pool = s.pool /\ t.out = s.out /\ t.over = s.over
      /\ t.decoded = s.decoded /\ t.parsed = s.parsed /\ t.left = left
  BY <1>3
<1>5. Balanced(t, want, t.left + r) /\ PoolOK(t.pool, t.left + r)
  BY <1>1, <1>2, <1>4 DEF Balanced
<1>6. t = [dec |-> dec, enc |-> t.enc, pool |-> t.pool, out |-> t.out,
           fault |-> "none", over |-> t.over, decoded |-> t.decoded,
           parsed |-> t.parsed, left |-> t.left]
  BY <1>3, <1>4
<1> QED
  BY <1>1, <1>2, <1>4, <1>5, <1>6 DEF Good, dec

(* A packet that waited goes to the output, its object to the pool.        *)
LEMMA DataPushed ==
  ASSUME NEW list, NEW want, NEW kind, Asked(want), want.enable,
         NEW bytes \in PacketBytes, NEW d \in OutFrames(want, bytes),
         NEW fate, FateOK(fate),
         NEW r \in Nat, NEW s, Good(s, list, want, kind, r + 1), s.over = "no"
  PROVE  Good(PushData(s, d, fate), list, want, kind, r)
<1> DEFINE p == ParsedData(d, want)
           n == d.obj.size
           fd == EncodedFrame(want, n, p.duration)
           x == [rate |-> p.rate, channels |-> p.channels,
                 frameSize |-> p.frameSize, size |-> n]
           pool == release_obj(s.pool, d.obj)
           out == Pushed(s.out, fd, fate)
           over == CASE Last(fate) = "refused" -> "gaveUp"
                     [] Last(fate) = "unopened" -> "noOutput"
                     [] OTHER -> "no"
           parsed == Append(s.parsed, x)
           t == PushData(s, d, fate)
           dec == initDecoder(list[1], want)
<1>1. /\ s = [dec |-> dec, enc |-> s.enc, pool |-> s.pool,
              out |-> s.out, fault |-> "none", over |-> s.over,
              decoded |-> s.decoded, parsed |-> s.parsed, left |-> s.left]
      /\ s.left \in Nat /\ PoolOK(s.pool, s.left + (r + 1))
      /\ s.decoded \in Seq(Plays(list)) /\ s.parsed \in Seq(ParsedFrames(want))
      /\ OutOK(s.out, kind, ToldStream(list, want), want)
      /\ Balanced(s, want, s.left + (r + 1))
  BY DEF Good
<1>0. s.left + (r + 1) = (s.left + r) + 1 /\ s.left + r \in Nat
  BY <1>1
<1>2. /\ p.ok /\ d.obj \in [size : Nat, buffSize : Nat]
      /\ ~(n <= (IF want.codec = "aac" THEN AAC_ADTS_SIZE ELSE 4))
      /\ x \in ParsedFrames(want)
      /\ FrameOK(fd, want, want)
  BY DataTold
<1> DEFINE l == s.left + r
<1>3. /\ Opened(s.enc, want) /\ s.enc.fifo < FrameOf(want)
      /\ s.decoded # <<>> /\ s.enc.pre = FormatIn(s.decoded[Len(s.decoded)])
      /\ s.enc.fifo + (s.enc.held + (Len(s.parsed) + (l + 1))) * FrameOf(want)
           + s.enc.dropped = SamplesOf(BestContext(want).rate, s.decoded)
      /\ s.enc.dropped <= Changes(s.decoded) * AtMost(want)
      /\ Ready(s.enc, want)
  <2>1. s.left + (r + 1) = l + 1 /\ l \in Nat
    BY <1>0
  <2> HIDE DEF l
  <2>2. Balanced(s, want, l + 1) /\ l + 1 # 0
    BY <1>1, <2>1
  <2> QED
    BY <2>2 DEF Balanced
<1>4. s.enc.want = want /\ s.enc.ctx = BestContext(want)
  BY <1>3 DEF Opened
<1>5. t = [[[s EXCEPT !.pool = pool] EXCEPT !.parsed = parsed]
             EXCEPT !.out = out, !.over = over]
  <2> DEFINE back == [s EXCEPT !.pool = pool]
             next == [back EXCEPT !.parsed = parsed]
  <2>1. back.parsed = s.parsed /\ next.out = s.out
    BY <1>1
  <2>2. fd = [length |-> n, duration |-> p.duration, untimed |-> FALSE,
              samples |-> s.enc.ctx.frameSize, rate |-> s.enc.ctx.rate,
              channels |-> s.enc.ctx.channels]
    BY <1>4 DEF EncodedFrame
  <2>3. p = IF s.enc.want.codec = "aac" THEN ParseAac(d.data, d.obj.size)
            ELSE ParseMp3(d.data, d.obj.size)
    BY <1>4 DEF ParsedData
  <2> HIDE DEF p, fd
  <2>4. ~(d.obj.size <= (IF s.enc.want.codec = "aac" THEN AAC_ADTS_SIZE ELSE 4))
    BY <1>2, <1>4
  <2>5. t = pushFrame([back EXCEPT !.parsed = Append(@, x)], fd, fate)
    BY <1>2, <2>2, <2>3, <2>4 DEF PushData
  <2>6. t = pushFrame(next, fd, fate)
    <3> HIDE DEF x, t, pool
    <3> QED
      BY <2>1, <2>5
  <2> HIDE DEF x, t, pool, parsed, next
  <2>7. t = [next EXCEPT !.out = Pushed(next.out, fd, fate), !.over = over]
    BY <2>6 DEF pushFrame
  <2> QED
    BY <2>1, <2>7 DEF next
<1>6. PoolOK(pool, l)
  <2>1. PoolOK(s.pool, l + 1) /\ l \in Nat
    BY <1>0, <1>1
  <2> HIDE DEF l
  <2> QED
    BY <1>2, <2>1, ObjReturned
<1>7. OutOK(out, kind, want, want) /\ ToldStream(list, want) = want
  <2>1. ToldStream(list, want) = want
    BY DEF ToldStream
  <2>2. OutOK(s.out, kind, want, want)
    BY <1>1, <2>1
  <2> HIDE DEF fd
  <2> QED
    BY <1>2, <2>1, <2>2, FramePushed
<1>8. parsed \in Seq(ParsedFrames(want)) /\ Len(parsed) = Len(s.parsed) + 1
      /\ Len(s.parsed) \in Nat
  <2> HIDE DEF x
  <2> QED
    BY <1>1, <1>2
<1> HIDE DEF p, n, fd, x, pool, out, over, parsed, t, dec
<1>9. t = [dec |-> dec, enc |-> s.enc, pool |-> pool, out |-> out,
           fault |-> "none", over |-> over, decoded |-> s.decoded,
           parsed |-> parsed, left |-> s.left]
  <2> DEFINE back == [s EXCEPT !.pool = pool]
             next == [back EXCEPT !.parsed = parsed]
  <2>1. back = [dec |-> dec, enc |-> s.enc, pool |-> pool, out |-> s.out,
                fault |-> "none", over |-> s.over, decoded |-> s.decoded,
                parsed |-> s.parsed, left |-> s.left]
    BY <1>1
  <2> HIDE DEF back
  <2>2. next = [dec |-> dec, enc |-> s.enc, pool |-> pool, out |-> s.out,
                fault |-> "none", over |-> s.over, decoded |-> s.decoded,
                parsed |-> parsed, left |-> s.left]
    BY <2>1
  <2>3. t = [next EXCEPT !.out = out, !.over = over]
    BY <1>5 DEF back
  <2> HIDE DEF next
  <2> QED
    BY <2>2, <2>3
<1>10. t.enc = s.enc /\ t.pool = pool /\ t.out = out /\ t.over = over
       /\ t.decoded = s.decoded /\ t.parsed = parsed /\ t.left = s.left
  BY <1>9
<1>11. s.enc.fifo + (s.enc.held + (Len(parsed) + l)) * FrameOf(want)
         + s.enc.dropped = SamplesOf(BestContext(want).rate, s.decoded)
  <2>1. Len(parsed) + l = Len(s.parsed) + (l + 1)
    <3> DEFINE m == Len(s.parsed)
               k == Len(parsed)
    <3>1. m \in Nat /\ k = m + 1 /\ l \in Nat
      BY <1>0, <1>8
    <3> HIDE DEF m, k, l
    <3>2. k + l = m + (l + 1)
      BY <3>1
    <3> QED
      BY <3>2 DEF m, k
  <2> HIDE DEF l
  <2> QED
    BY <1>3, <2>1
<1> HIDE DEF l
<1>12. Balanced(t, want, l)
  BY <1>3, <1>10, <1>11 DEF Balanced
<1>13. t = [dec |-> dec, enc |-> t.enc, pool |-> t.pool, out |-> t.out,
            fault |-> "none", over |-> t.over, decoded |-> t.decoded,
            parsed |-> t.parsed, left |-> t.left]
  BY <1>9, <1>10
<1>14. t.left \in Nat /\ t.left + r = l
  BY <1>1, <1>10 DEF l
<1>15. Good(t, list, want, kind, r)
  BY <1>1, <1>6, <1>7, <1>8, <1>10, <1>12, <1>13, <1>14 DEF Good, dec
<1> QED
  BY <1>15 DEF t

(* Whether it is given up or not.                                          *)
LEMMA DataKept ==
  ASSUME NEW list, NEW want, NEW kind, Asked(want), want.enable,
         NEW bytes \in PacketBytes, NEW d \in OutFrames(want, bytes),
         NEW fate, FateOK(fate),
         NEW r \in Nat, NEW s, Good(s, list, want, kind, r + 1)
  PROVE  Good(PushData(s, d, fate), list, want, kind, r)
<1>1. CASE s.over = "no"
  BY <1>1, DataPushed
<1>2. CASE s.over # "no"
  <2> DEFINE t == [s EXCEPT !.left = s.left + 1]
  <2>1. PushData(s, d, fate) = t
    BY <1>2 DEF PushData
  <2> HIDE DEF t
  <2>2. Good(t, list, want, kind, r)
    BY DataLeft DEF t
  <2> QED
    BY <2>1, <2>2
<1> QED
  BY <1>1, <1>2

(* So do all that waited.                                                  *)
LEMMA AllPushed ==
  ASSUME NEW list, NEW want, NEW kind, Asked(want), want.enable,
         NEW fate, FateOK(fate),
         NEW bytes \in PacketBytes, NEW output \in Seq(OutFrames(want, bytes)),
         NEW s, Good(s, list, want, kind, Len(output))
  PROVE  Good(Sent(s, fate, output), list, want, kind, 0)
<1> DEFINE n == Len(output)
<1>1. n \in Nat /\ DOMAIN output = 1..n
  OBVIOUS
<1>2. \A k \in 1..n : output[k] \in OutFrames(want, bytes)
  OBVIOUS
<1> HIDE DEF n
<1>3. PICK h : Sends(h, s, fate, n, output)
  BY <1>1, SentRun
<1>4. /\ h[0] = s /\ h[n] = Sent(s, fate, output)
      /\ \A k \in 1..n : h[k] = PushData(h[k - 1], output[k], fate)
  BY <1>3 DEF Sends
<1> DEFINE OK(k) == Good(h[k], list, want, kind, n - k)
           All == {k \in 0..n : OK(k)}
<1>5. 0 \in All
  <2>1. n - 0 = n /\ 0 \in 0..n
    BY <1>1
  <2>2. Good(h[0], list, want, kind, n - 0)
    BY <1>4, <2>1 DEF n
  <2> QED
    BY <2>1, <2>2
<1>6. ASSUME NEW k \in 1..n, k - 1 \in All PROVE k \in All
  <2> DEFINE g == h[k - 1]
             r == n - k
  <2>1. OK(k - 1)
    BY <1>6
  <2>2. n - (k - 1) = r + 1 /\ r \in Nat /\ k \in 0..n
    BY <1>1
  <2> HIDE DEF r
  <2>3. Good(g, list, want, kind, r + 1)
    BY <2>1, <2>2
  <2> HIDE DEF g
  <2>4. Good(PushData(g, output[k], fate), list, want, kind, r)
    BY <1>2, <2>2, <2>3, DataKept
  <2>5. h[k] = PushData(g, output[k], fate)
    BY <1>4 DEF g
  <2> QED
    BY <2>2, <2>4, <2>5 DEF r
<1>7. n \in All
  <2>1. n \in 0..n
    BY <1>1
  <2> HIDE DEF All
  <2> QED
    BY <1>1, <1>5, <1>6, <2>1, Upwards
<1>8. n - n = 0
  BY <1>1
<1>9. Good(h[n], list, want, kind, 0)
  BY <1>7, <1>8
<1> QED
  BY <1>4, <1>9

-----------------------------------------------------------------------------
(* A packet as it is read.                                                 *)
LEMMA PlaysType ==
  ASSUME NEW list, NEW a \in Plays(list)
  PROVE  /\ a.rate \in Nat /\ a.rate >= 25 /\ a.channels \in Nat /\ a.bytes \in Nat
         /\ a.samples \in Nat /\ a.header \in BOOLEAN
         /\ FileOK(a) /\ a.codec = list[1].codec
         /\ a.codec # "mp3" => a.rate = list[1].rate /\ a.channels = list[1].channels
         /\ a.codec = "aac" => /\ a.samples = 1024
                               /\ GetAdtsDuration(1, Place(a.rate)) # 0
<1>1. a \in AudioFile /\ FileOK(a)
  BY DEF Plays
<1>2. /\ a.rate \in Nat /\ a.channels \in Nat /\ a.bytes \in Nat
      /\ a.samples \in Nat /\ a.header \in BOOLEAN
  BY <1>1 DEF AudioFile
<1>3. a.rate >= 25 /\ (a.codec = "aac" => a.samples = 1024)
  BY <1>1 DEF FileOK
<1> QED
  BY <1>1, <1>2, <1>3 DEF Plays

(* A packet that is not converted is a frame for the output.               *)
LEMMA PacketRead ==
  ASSUME NEW list, NEW want, want.enable => Asked(want), NEW a \in Plays(list),
         NEW first \in BOOLEAN, ~needsConvert(OpenIn(a), want)
  PROVE  FrameOK(readData(OpenIn(a), first), ToldStream(list, want), want)
<1> DEFINE in == OpenIn(a)
           fd == readData(in, first)
           told == ToldStream(list, want)
           add == a.codec = "aac" /\ ~a.header
           time == FrameTime(a.samples, a.rate)
           length == IF add THEN a.bytes + AAC_ADTS_SIZE ELSE a.bytes
           duration == IF add THEN frame_duration(in.adts)
                       ELSE IF first THEN 0 ELSE time
           untimed == first /\ ~add
<1>1. /\ a.rate \in Nat /\ a.rate >= 25 /\ a.channels \in Nat /\ a.bytes \in Nat
      /\ a.samples \in Nat /\ a.header \in BOOLEAN
      /\ FileOK(a) /\ a.codec = list[1].codec
      /\ a.codec # "mp3" => a.rate = list[1].rate /\ a.channels = list[1].channels
      /\ a.codec = "aac" => /\ a.samples = 1024
                            /\ GetAdtsDuration(1, Place(a.rate)) # 0
  BY PlaysType
<1>2. in.audio = a
  BY DEF OpenIn
<1>3. fd = [length |-> length, duration |-> duration, untimed |-> untimed,
            samples |-> a.samples, rate |-> a.rate, channels |-> a.channels]
  BY <1>2 DEF readData
<1>4. time \in Nat
  BY <1>1, FrameTimeType
<1>5. a.codec = "aac" => frame_duration(in.adts) = time
  <2> SUFFICES ASSUME a.codec = "aac" PROVE frame_duration(in.adts) = time
    OBVIOUS
  <2> DEFINE adts == channel_configuration(sample_rate_index(AAC_ADTS, a.rate),
                                           a.channels)
  <2>1. in.adts = adts
    BY DEF OpenIn
  <2>2. Tells(adts, a.rate, a.channels)
    BY <1>1, NewHeader, HeaderTells
  <2> HIDE DEF adts
  <2>3. adts.sampleRateIndex = Place(a.rate)
    BY <2>2 DEF Tells
  <2>4. GetAdtsDuration(1, Place(a.rate)) = FrameTime(1024, a.rate)
    BY <1>1, ClockOf
  <2> QED
    BY <1>1, <2>1, <2>3, <2>4 DEF frame_duration
<1>6. length \in Nat /\ untimed \in BOOLEAN
      /\ duration \in Nat /\ duration = IF untimed THEN 0 ELSE time
  <2> HIDE DEF time, in
  <2> QED
    BY <1>1, <1>4, <1>5 DEF AAC_ADTS_SIZE
<1>7. a.codec = "pcm" => length = a.bytes
  OBVIOUS
<1>8. \/ ~want.enable /\ told = list[1]
      \/ /\ want.enable /\ told = want /\ Asked(want)
         /\ a.codec = want.codec /\ a.rate = want.rate /\ a.channels = want.channels
  <2>1. CASE want.enable
    BY <1>2, <2>1 DEF needsConvert, ToldStream
  <2>2. CASE ~want.enable
    BY <2>2 DEF ToldStream
  <2> QED
    BY <2>1, <2>2
<1> HIDE DEF fd, told, time, length, duration, untimed
<1>9. told.codec # "mp3" => a.rate = told.rate /\ a.channels = told.channels
  BY <1>1, <1>8
<1>10. ASSUME told.codec = "pcm"
       PROVE  /\ Pieces(told, length) \in Int
              /\ (Pieces(told, length) - 1) * 5000 <= time
  <2>1. told = list[1] /\ a.codec = "pcm"
    BY <1>1, <1>8, <1>10 DEF Asked
  <2>2. a.rate = told.rate /\ a.channels = told.channels
    BY <1>9, <1>10
  <2>3. Pieces(told, length) = Pieces(a, a.bytes)
    BY <1>7, <1>10, <2>1, <2>2 DEF Pieces
  <2>4. a.rate >= 200 /\ a.channels > 0 /\ (Pieces(a, a.bytes) - 1) * 5000 <= time
    BY <1>1, <2>1 DEF FileOK, time
  <2>5. Pieces(a, a.bytes) \in Int
    BY <1>1, <2>1, <2>4, PiecesType
  <2> QED
    BY <2>3, <2>4, <2>5
<1>11. /\ fd = [length |-> fd.length, duration |-> fd.duration,
                untimed |-> fd.untimed, samples |-> fd.samples, rate |-> fd.rate,
                channels |-> fd.channels]
       /\ fd.length = length /\ fd.duration = duration /\ fd.untimed = untimed
       /\ fd.samples = a.samples /\ fd.rate = a.rate /\ fd.channels = a.channels
  BY <1>3
<1>12. FrameTime(fd.samples, fd.rate) = time
  BY <1>11 DEF time
<1>13. FrameOK(fd, told, want)
  <2>1. told.codec = "pcm" =>
          /\ Pieces(told, fd.length) \in Int
          /\ (Pieces(told, fd.length) - 1) * 5000 <= FrameTime(fd.samples, fd.rate)
    BY <1>10, <1>11, <1>12
  <2>2. fd.duration = IF fd.untimed THEN 0 ELSE FrameTime(fd.samples, fd.rate)
    BY <1>6, <1>11, <1>12
  <2>3. told.codec # "mp3" => fd.rate = told.rate /\ fd.channels = told.channels
    BY <1>9, <1>11
  <2>4. /\ fd.length \in Nat /\ fd.duration \in Nat /\ fd.untimed \in BOOLEAN
        /\ fd.samples \in Nat /\ fd.rate \in Nat /\ fd.rate >= 25
        /\ fd.channels \in Nat
    BY <1>1, <1>6, <1>11
  <2> QED
    BY <1>11, <2>1, <2>2, <2>3, <2>4 DEF FrameOK
<1> QED
  BY <1>13 DEF fd, told

(* A frame is what its file is.                                            *)
LEMMA FrameDecoded ==
  ASSUME NEW list, NEW want, NEW a \in Plays(list), initDecoder(list[1], want).open
  PROVE  LET f == DecodedFrame(initDecoder(list[1], want), a)
         IN IsFrame(f) /\ FormatOf(f) = FormatIn(a) /\ f.samples = a.samples
            /\ f.rate = a.rate
<1> DEFINE dec == initDecoder(list[1], want)
           f == DecodedFrame(dec, a)
<1>1. /\ a.rate \in Nat /\ a.rate >= 25 /\ a.channels \in Nat
      /\ a.samples \in Nat /\ a.codec = list[1].codec
      /\ a.codec # "mp3" => a.rate = list[1].rate /\ a.channels = list[1].channels
  BY PlaysType
<1>2. a.codec = "pcm" => dec.rate = a.rate /\ dec.channels = a.channels
  <2> SUFFICES ASSUME a.codec = "pcm"
               PROVE  dec.rate = a.rate /\ dec.channels = a.channels
    OBVIOUS
  <2>1. dec = OpenDecoder("pcm", a.channels, a.rate)
    BY <1>1 DEF initDecoder
  <2> DEFINE told == IF a.channels \in {1, 2} THEN a.channels ELSE 0
  <2>5. dec = [rc |-> IF told = 0 THEN -1 ELSE 0, open |-> ~(told = 0),
               channels |-> told, rate |-> a.rate]
    BY <2>1 DEF OpenDecoder
  <2>2. dec.channels = told /\ dec.rate = a.rate /\ (dec.open <=> ~(told = 0))
    <3> HIDE DEF told, dec
    <3> QED
      BY <2>5
  <2>3. dec.open
    OBVIOUS
  <2> HIDE DEF dec
  <2>4. told # 0
    BY <2>2, <2>3
  <2> QED
    BY <2>2, <2>4
<1> HIDE DEF dec
<1>3. f = [rate |-> a.rate, channels |-> a.channels, format |-> a.codec,
           samples |-> a.samples]
  BY <1>2 DEF DecodedFrame
<1> HIDE DEF f
<1>4. IsFrame(f) /\ FormatOf(f) = FormatIn(a) /\ f.samples = a.samples
      /\ f.rate = a.rate
  BY <1>1, <1>3 DEF IsFrame, FormatOf, FormatIn
<1> QED
  BY <1>4 DEF f, dec

(* A frame more is a change, or is none.                                   *)
LEMMA ChangesAppend ==
  ASSUME NEW S, NEW q \in Seq(S), NEW x \in S
  PROVE  /\ Changes(q) \in Nat
         /\ Changes(Append(q, x)) =
              IF q # <<>> /\ <<x.rate, x.channels>>
                               # <<q[Len(q)].rate, q[Len(q)].channels>>
                THEN Changes(q) + 1 ELSE Changes(q)
<1> DEFINE n == Len(q)
           r == Append(q, x)
           C(s, m) == {k \in 2..m : <<s[k].rate, s[k].channels>>
                                      # <<s[k - 1].rate, s[k - 1].channels>>}
<1>1. n \in Nat /\ Len(r) = n + 1 /\ r[n + 1] = x /\ \A k \in 1..n : r[k] = q[k]
  OBVIOUS
<1>2. Changes(q) = Cardinality(C(q, n)) /\ Changes(r) = Cardinality(C(r, n + 1))
  BY <1>1 DEF Changes
<1> DEFINE new == q # <<>> /\ <<x.rate, x.channels>>
                               # <<q[Len(q)].rate, q[Len(q)].channels>>
<1>3. q # <<>> <=> n >= 1
  OBVIOUS
<1>4. C(r, n + 1) = IF new THEN C(q, n) \cup {n + 1} ELSE C(q, n)
  <2> HIDE DEF r, n
  <2>1. ASSUME NEW k \in 2..n
        PROVE  r[k] = q[k] /\ r[k - 1] = q[k - 1]
    <3>1. k \in 1..n /\ k - 1 \in 1..n
      BY <1>1
    <3> QED
      BY <1>1, <3>1
  <2>2. \A k \in 2..n : k \in C(r, n + 1) <=> k \in C(q, n)
    <3>1. \A k \in 2..n : k \in 2..n + 1
      BY <1>1
    <3> QED
      BY <2>1, <3>1
  <2>3. n + 1 \in C(r, n + 1) <=> new
    <3>1. CASE n >= 1
      <4>1. n + 1 \in 2..n + 1 /\ n + 1 - 1 = n /\ n \in 1..n
        BY <1>1, <3>1
      <4>2. r[n + 1] = x /\ r[n + 1 - 1] = q[n]
        BY <1>1, <4>1
      <4> QED
        BY <1>3, <3>1, <4>1, <4>2 DEF n
    <3>2. CASE ~(n >= 1)
      <4>1. n + 1 \notin 2..n + 1
        BY <1>1, <3>2
      <4> QED
        BY <1>3, <3>2, <4>1
    <3> QED
      BY <3>1, <3>2
  <2>4. \A k \in 2..n + 1 : k \in 2..n \/ k = n + 1
    BY <1>1
  <2> DEFINE A == C(q, n)
             B == C(r, n + 1)
  <2>5. A \subseteq 2..n /\ B \subseteq 2..n + 1 /\ n + 1 \notin 2..n
    BY <1>1
  <2>6. (\A k \in 2..n : k \in B <=> k \in A) /\ (n + 1 \in B <=> new)
    BY <2>2, <2>3
  <2> HIDE DEF A, B, new
  <2>7. B = IF new THEN A \cup {n + 1} ELSE A
    <3>1. CASE new
      <4>1. \A k : k \in B <=> k \in A \cup {n + 1}
        BY <2>4, <2>5, <2>6, <3>1
      <4> QED
        BY <3>1, <4>1
    <3>2. CASE ~new
      <4>1. \A k : k \in B <=> k \in A
        BY <2>4, <2>5, <2>6, <3>2
      <4> QED
        BY <3>2, <4>1
    <3> QED
      BY <3>1, <3>2
  <2> QED
    BY <2>7 DEF A, B
<1>5. IsFiniteSet(C(q, n)) /\ Cardinality(C(q, n)) \in Nat
  <2>1. IsFiniteSet(2..n)
    BY <1>1, FS_Interval
  <2>2. C(q, n) \subseteq 2..n
    OBVIOUS
  <2> HIDE DEF C
  <2>3. IsFiniteSet(C(q, n))
    BY <2>1, <2>2, FS_Subset
  <2> QED
    BY <2>3, FS_CardinalityType
<1>6. Cardinality(C(q, n) \cup {n + 1}) = Cardinality(C(q, n)) + 1
  <2>1. n + 1 \notin C(q, n)
    BY <1>1
  <2> HIDE DEF C
  <2> QED
    BY <1>5, <2>1, FS_AddElement
<1> HIDE DEF C, n, r
<1>7. CASE new
  <2>1. Changes(r) = Changes(q) + 1
    BY <1>2, <1>4, <1>6, <1>7
  <2> QED
    BY <1>2, <1>5, <1>7, <2>1 DEF r
<1>8. CASE ~new
  <2>1. Changes(r) = Changes(q)
    BY <1>2, <1>4, <1>8
  <2> QED
    BY <1>2, <1>5, <1>8, <2>1 DEF r
<1> QED
  BY <1>7, <1>8

(* The sizes of frames, and the most an encoder gives up.                  *)
LEMMA FrameType ==
  ASSUME NEW want
  PROVE  FrameOf(want) \in {576, 1024, 1152} /\ AtMost(want) \in Nat
<1>0. Latency \in Nat
  BY Numbers
<1>1. FrameOf(want) \in {576, 1024, 1152}
  BY DEF FrameOf, BestContext, FrameSamples
<1> QED
  BY <1>0, <1>1, GivenUp DEF AtMost

(* Packets put out and packets sent, counted together.                     *)
LEMMA Distributes ==
  ASSUME NEW x \in Nat, NEW y \in Nat, NEW f \in Nat
  PROVE  (x + y) * f = x * f + y * f /\ x * f \in Nat /\ y * f \in Nat
OBVIOUS

(* The books after a frame was encoded.                                    *)
LEMMA BalanceKept ==
  ASSUME NEW list, NEW want, Asked(want), NEW l \in Nat, NEW s, Balanced(s, want, l),
         s.decoded \in Seq(Plays(list)), s.parsed \in Seq(ParsedFrames(want)),
         NEW a \in Plays(list), NEW e, NEW n \in Nat,
         Opened(e, want), e.pre = FormatIn(a), e.fifo < FrameOf(want),
         Worth(BestContext(want).rate, a) \in Nat,
         e.fifo + (e.held + n) * FrameOf(want) + e.dropped
           = Kept(s.enc, want) + Worth(BestContext(want).rate, a),
         e.dropped <= s.enc.dropped
           + (IF s.enc = initEncoder(want) \/ FormatIn(a) = s.enc.pre THEN 0
              ELSE AtMost(want)),
         NEW t, t.enc = e, t.decoded = Append(s.decoded, a), t.parsed = s.parsed
  PROVE  Balanced(t, want, l + n)
<1> DEFINE f == FrameOf(want)
           rate == BestContext(want).rate
           w == Worth(rate, a)
           old == s.enc
           p == Len(s.parsed) + l
           all == SamplesOf(rate, s.decoded)
           ch == Changes(s.decoded)
           most == AtMost(want)
           last == s.decoded[Len(s.decoded)]
           q == Append(s.decoded, a)
<1>1. f \in Nat /\ most \in Nat
  <2>1. f \in {576, 1024, 1152} /\ most \in Nat
    BY FrameType
  <2> HIDE DEF f, most
  <2> QED
    BY <2>1
<1>2. e.fifo \in Nat /\ e.held \in Nat /\ e.dropped \in Nat
  BY DEF Opened
<1>3. p \in Nat
  OBVIOUS
<1>0. Len(t.parsed) + (l + n) = p + n
  <2> DEFINE m == Len(s.parsed)
  <2>1. m \in Nat
    OBVIOUS
  <2> HIDE DEF m
  <2>2. m + (l + n) = (m + l) + n
    BY <2>1
  <2> QED
    BY <2>2 DEF m
<1>4. SamplesOf(rate, q) = all + w
  BY SamplesAppend
<1>5. /\ ch \in Nat
      /\ Changes(q) = IF s.decoded # <<>> /\ <<a.rate, a.channels>>
                                                # <<last.rate, last.channels>>
                        THEN ch + 1 ELSE ch
  BY ChangesAppend
<1>6. q # <<>> /\ q[Len(q)] = a
  OBVIOUS
<1>7. Ready(e, want)
  BY DEF Ready
<1> DEFINE x == e.held + n
<1>8. x \in Nat /\ x * f \in Nat /\ (x + p) * f = x * f + p * f /\ p * f \in Nat
  <2>1. x \in Nat
    BY <1>2
  <2> HIDE DEF x, f, p
  <2> QED
    BY <1>1, <1>3, <2>1, Distributes
<1>9. e.held + (p + n) = x + p
  BY <1>2, <1>3
<1>10. e.fifo + x * f + e.dropped = Kept(old, want) + w
  OBVIOUS
<1>11. w \in Nat
  OBVIOUS
<1>12. old.dropped \in Nat /\ old.dropped <= ch * most
  <2>1. old.dropped \in Nat
    BY ReadyType DEF Balanced
  <2> QED
    BY <2>1 DEF Balanced
<1>13. CASE old = initEncoder(want) /\ s.decoded = <<>> /\ s.parsed = <<>> /\ l = 0
  <2>1. old.fifo = -1 /\ old.held = 0 /\ old.dropped = 0
    BY <1>13 DEF initEncoder, NoFifo
  <2>2. Kept(old, want) = 0
    <3>1. Max2(-1, 0) = 0 /\ 0 * f = 0
      BY <1>1 DEF Max2
    <3> QED
      BY <2>1, <3>1 DEF Kept
  <2>3. all = 0 /\ p = 0
    BY <1>13, SamplesAppend
  <2> HIDE DEF x, w, all, p, f
  <2>4. e.fifo + (e.held + (p + n)) * f + e.dropped = all + w
    BY <1>2, <1>8, <1>9, <1>10, <1>11, <2>2, <2>3
  <2>5. Changes(q) = ch /\ e.dropped <= 0
    BY <1>5, <1>13, <2>1
  <2>6. 0 <= ch * most
    <3> HIDE DEF ch, most
    <3> QED
      BY <1>1, <1>5
  <2>7. e.dropped <= Changes(q) * most
    <3>1. ch * most \in Nat
      <4> HIDE DEF ch, most
      <4> QED
        BY <1>1, <1>5
    <3> QED
      BY <1>2, <2>5, <2>6, <3>1
  <2> QED
    BY <1>0, <1>4, <1>6, <1>7, <2>4, <2>7 DEF Balanced, w, all, f
<1>14. CASE /\ Opened(old, want)
            /\ s.decoded # <<>> /\ old.pre = FormatIn(last)
            /\ old.fifo + (old.held + p) * f + old.dropped = all
  <2>1. old.fifo \in Nat /\ old.held \in Nat /\ old.dropped \in Nat
    BY <1>14 DEF Opened
  <2> DEFINE h == old.held
  <2>2. h \in Nat /\ h * f \in Nat /\ (h + p) * f = h * f + p * f
    <3>1. h \in Nat
      BY <2>1
    <3> HIDE DEF h, f, p
    <3> QED
      BY <1>1, <1>3, <3>1, Distributes
  <2>3. Kept(old, want) = old.fifo + h * f + old.dropped
    <3>1. Max2(old.fifo, 0) = old.fifo
      BY <2>1 DEF Max2
    <3> QED
      BY <3>1 DEF Kept
  <2>4. all = old.fifo + (h * f + p * f) + old.dropped
    BY <1>14, <2>2
  <2> HIDE DEF x, w, all, p, f, h
  <2>5. e.fifo + (e.held + (p + n)) * f + e.dropped = all + w
    <3> DEFINE xf == x * f
               hf == h * f
               pf == p * f
               y == (e.held + (p + n)) * f
    <3>1. xf \in Nat /\ hf \in Nat /\ pf \in Nat
      BY <1>8, <2>2
    <3>2. y = xf + pf
      BY <1>8, <1>9
    <3>3. e.fifo + xf + e.dropped = old.fifo + hf + old.dropped + w
      BY <1>10, <2>3
    <3>4. all = old.fifo + (hf + pf) + old.dropped
      BY <2>4
    <3> HIDE DEF xf, hf, pf, y
    <3>5. e.fifo + y + e.dropped = all + w
      <4>1. e.fifo + (xf + pf) + e.dropped = old.fifo + (hf + pf) + old.dropped + w
        <5>1. e.fifo \in Nat /\ e.dropped \in Nat
          BY <1>2
        <5>2. w \in Nat
          BY <1>11
        <5>3. old.fifo \in Nat /\ old.dropped \in Nat
          BY <2>1
        <5>4. xf \in Nat /\ hf \in Nat /\ pf \in Nat
          BY <3>1
        <5>5. e.fifo + xf + e.dropped = old.fifo + hf + old.dropped + w
          BY <3>3
        <5> DEFINE A == e.fifo
                   B == e.dropped
                   C == old.fifo
                   D == old.dropped
        <5>6. A \in Nat /\ B \in Nat /\ C \in Nat /\ D \in Nat
          BY <5>1, <5>3
        <5>7. A + xf + B = C + hf + D + w
          BY <5>5
        <5> HIDE DEF A, B, C, D
        <5>8. A + (xf + pf) + B = C + (hf + pf) + D + w
          BY ONLY <5>2, <5>4, <5>6, <5>7
        <5> QED
          BY <5>8 DEF A, B, C, D
      <4> QED
        BY <3>2, <3>4, <4>1
    <3> QED
      BY <3>5 DEF y
  <2>6. e.dropped <= Changes(q) * most
    <3>1. old # initEncoder(want)
      <4>1. initEncoder(want).fifo = -1
        BY DEF initEncoder, NoFifo
      <4> QED
        BY <2>1, <4>1
    <3>2. ch * most \in Nat /\ (ch + 1) * most = ch * most + most
      <4> HIDE DEF ch, most
      <4> QED
        BY <1>1, <1>5
    <3>3. CASE FormatIn(a) = FormatIn(last)
      <4>1. a.rate = last.rate /\ a.channels = last.channels
        BY <3>3 DEF FormatIn
      <4>2. Changes(q) = ch
        BY <1>5, <4>1
      <4>3. e.dropped <= old.dropped + 0
        BY <1>14, <3>3
      <4> HIDE DEF ch, most
      <4> QED
        BY <1>2, <1>12, <3>2, <4>2, <4>3
    <3>4. CASE FormatIn(a) # FormatIn(last)
      <4>1. a.codec = last.codec
        <5>1. last \in Plays(list)
          BY <1>14
        <5> HIDE DEF last
        <5> QED
          BY <5>1, PlaysType
      <4>2. <<a.rate, a.channels>> # <<last.rate, last.channels>>
        <5> HIDE DEF last
        <5> QED
          BY <3>4, <4>1 DEF FormatIn
      <4>3. Changes(q) = ch + 1
        BY <1>5, <1>14, <4>2
      <4>4. e.dropped <= old.dropped + most
        BY <1>14, <3>1, <3>4
      <4> HIDE DEF ch, most
      <4> QED
        BY <1>1, <1>2, <1>12, <3>2, <4>3, <4>4
    <3> QED
      BY <3>3, <3>4
  <2> QED
    BY <1>0, <1>4, <1>6, <1>7, <2>5, <2>6 DEF Balanced, w, all, f
<1> QED
  BY <1>13, <1>14 DEF Balanced

-----------------------------------------------------------------------------
(* A packet that is passed on as it is.                                    *)
LEMMA OutputChanges ==
  ASSUME NEW list, NEW want, NEW kind, NEW s, Good(s, list, want, kind, 0),
         NEW out, OutOK(out, kind, ToldStream(list, want), want),
         NEW over, NEW t, t = [s EXCEPT !.out = out, !.over = over]
  PROVE  Good(t, list, want, kind, 0)
<1> DEFINE dec == initDecoder(list[1], want)
<1>1. s = [dec |-> dec, enc |-> s.enc, pool |-> s.pool, out |-> s.out,
           fault |-> "none", over |-> s.over, decoded |-> s.decoded,
           parsed |-> s.parsed, left |-> s.left]
      /\ s.left \in Nat /\ PoolOK(s.pool, s.left + 0)
      /\ s.decoded \in Seq(Plays(list)) /\ s.parsed \in Seq(ParsedFrames(want))
      /\ Balanced(s, want, s.left + 0)
  BY DEF Good
<1> HIDE DEF dec
<1>2. t = [dec |-> dec, enc |-> s.enc, pool |-> s.pool, out |-> out,
           fault |-> "none", over |-> over, decoded |-> s.decoded,
           parsed |-> s.parsed, left |-> s.left]
  <2>1. s = [dec |-> s.dec, enc |-> s.enc, pool |-> s.pool, out |-> s.out,
             fault |-> s.fault, over |-> s.over, decoded |-> s.decoded,
             parsed |-> s.parsed, left |-> s.left]
    BY <1>1
  <2>2. t = [dec |-> s.dec, enc |-> s.enc, pool |-> s.pool, out |-> out,
             fault |-> s.fault, over |-> over, decoded |-> s.decoded,
             parsed |-> s.parsed, left |-> s.left]
    BY <2>1
  <2>3. s.dec = dec /\ s.fault = "none"
    BY <1>1
  <2> QED
    BY <2>2, <2>3
<1>3. t.enc = s.enc /\ t.pool = s.pool /\ t.out = out /\ t.over = over
      /\ t.decoded = s.decoded /\ t.parsed = s.parsed /\ t.left = s.left
  BY <1>2
<1>4. Balanced(t, want, t.left + 0)
  BY <1>1, <1>3 DEF Balanced
<1>5. t = [dec |-> dec, enc |-> t.enc, pool |-> t.pool, out |-> t.out,
           fault |-> "none", over |-> t.over, decoded |-> t.decoded,
           parsed |-> t.parsed, left |-> t.left]
  BY <1>2, <1>3
<1> QED
  BY <1>1, <1>3, <1>4, <1>5 DEF Good, dec

(* A packet that is decoded and encoded.                                   *)
LEMMA EncoderChanges ==
  ASSUME NEW list, NEW want, NEW kind, Asked(want), want \notin Refused,
         NEW bytes \in PacketBytes, NEW a \in Plays(list),
         initDecoder(list[1], want).open,
         NEW s, Good(s, list, want, kind, 0),
         NEW e, e = Encode([enc |-> s.enc, pool |-> s.pool, output |-> <<>>,
                            rc |-> 0, fault |-> "none"],
                           DecodedFrame(s.dec, a), bytes),
         NEW t, t = [s EXCEPT !.enc = e.enc, !.pool = e.pool, !.fault = e.fault,
                              !.decoded = Append(s.decoded, a)]
  PROVE  /\ e.rc = 0 /\ e.output \in Seq(OutFrames(want, bytes))
         /\ Good(t, list, want, kind, Len(e.output))
<1> DEFINE dec == initDecoder(list[1], want)
           f == DecodedFrame(dec, a)
           n == Len(e.output)
           w == Worth(BestContext(want).rate, a)
           decoded == Append(s.decoded, a)
           l == s.left
<1>1. s = [dec |-> dec, enc |-> s.enc, pool |-> s.pool, out |-> s.out,
           fault |-> "none", over |-> s.over, decoded |-> s.decoded,
           parsed |-> s.parsed, left |-> s.left]
      /\ s.left \in Nat /\ s.left + 0 = s.left /\ PoolOK(s.pool, s.left)
      /\ s.decoded \in Seq(Plays(list)) /\ s.parsed \in Seq(ParsedFrames(want))
      /\ OutOK(s.out, kind, ToldStream(list, want), want)
      /\ Balanced(s, want, s.left)
  <2>1. s.left \in Nat /\ PoolOK(s.pool, s.left + 0)
        /\ Balanced(s, want, s.left + 0)
    BY DEF Good
  <2>2. s.left + 0 = s.left
    BY <2>1
  <2> QED
    BY <2>1, <2>2 DEF Good
<1>2. IsFrame(f) /\ FormatOf(f) = FormatIn(a) /\ f.samples = a.samples
      /\ f.rate = a.rate
  BY FrameDecoded
<1>3. Worth(BestContext(want).rate, f) = w
  <2> HIDE DEF f
  <2> QED
    BY <1>2 DEF Worth
<1>4. e = Encode([enc |-> s.enc, pool |-> s.pool, output |-> <<>>, rc |-> 0,
                  fault |-> "none"], f, bytes)
  <2>1. s.dec = dec
    BY <1>1
  <2> QED
    BY <2>1
<1> HIDE DEF f, dec
<1>5. Ready(s.enc, want) /\ (Opened(s.enc, want) => s.enc.fifo < FrameOf(want))
  <2>1. initEncoder(want).fifo = -1
    BY DEF initEncoder, NoFifo
  <2>2. Opened(s.enc, want) => s.enc # initEncoder(want)
    BY <2>1 DEF Opened
  <2> QED
    BY <1>1, <2>2 DEF Balanced
<1>6. /\ Coding(e, want, bytes, l)
      /\ e.enc.pre = FormatOf(f)
      /\ e.enc.fifo < FrameOf(want)
      /\ Worth(BestContext(want).rate, f) \in Nat
      /\ Sum(e, want) + e.enc.dropped
           = Kept(s.enc, want) + Worth(BestContext(want).rate, f)
      /\ e.enc.dropped <= s.enc.dropped
           + (IF s.enc = initEncoder(want) \/ FormatOf(f) = s.enc.pre THEN 0
              ELSE AtMost(want))
  <2> DEFINE enc == s.enc
             pool == s.pool
  <2>1. Ready(enc, want) /\ (Opened(enc, want) => enc.fifo < FrameOf(want))
        /\ PoolOK(pool, l) /\ l \in Nat
    BY <1>1, <1>5
  <2>2. e = Encode([enc |-> enc, pool |-> pool, output |-> <<>>, rc |-> 0,
                    fault |-> "none"], f, bytes)
    BY <1>4
  <2> HIDE DEF enc, pool, l
  <2>3. /\ Coding(e, want, bytes, l)
        /\ e.enc.pre = FormatOf(f)
        /\ e.enc.fifo < FrameOf(want)
        /\ Worth(BestContext(want).rate, f) \in Nat
        /\ Sum(e, want) + e.enc.dropped
             = Kept(enc, want) + Worth(BestContext(want).rate, f)
        /\ e.enc.dropped <= enc.dropped
             + (IF enc = initEncoder(want) \/ FormatOf(f) = enc.pre THEN 0
                ELSE AtMost(want))
    BY <1>2, <2>1, <2>2, FrameEncoded
  <2> QED
    BY <2>3 DEF enc
<1>7. /\ e = [enc |-> e.enc, pool |-> e.pool, output |-> e.output, rc |-> 0,
              fault |-> "none"]
      /\ Opened(e.enc, want)
      /\ e.output \in Seq(OutFrames(want, bytes))
      /\ PoolOK(e.pool, l + n)
  BY <1>6 DEF Coding
<1>8. e.rc = 0 /\ e.fault = "none" /\ n \in Nat
  BY <1>7
<1> HIDE DEF n, decoded
<1>9. t = [dec |-> dec, enc |-> e.enc, pool |-> e.pool, out |-> s.out,
           fault |-> "none", over |-> s.over, decoded |-> decoded,
           parsed |-> s.parsed, left |-> l]
  <2>1. s = [dec |-> s.dec, enc |-> s.enc, pool |-> s.pool, out |-> s.out,
             fault |-> s.fault, over |-> s.over, decoded |-> s.decoded,
             parsed |-> s.parsed, left |-> s.left]
        /\ s.dec = dec
    BY <1>1
  <2> DEFINE enc == e.enc
             pool == e.pool
             fault1 == e.fault
  <2>2. t = [s EXCEPT !.enc = enc, !.pool = pool, !.fault = fault1,
                      !.decoded = decoded]
    BY DEF decoded
  <2> HIDE DEF enc, pool, fault1
  <2>3. t = [dec |-> s.dec, enc |-> enc, pool |-> pool, out |-> s.out,
             fault |-> fault1, over |-> s.over, decoded |-> decoded,
             parsed |-> s.parsed, left |-> s.left]
    BY <2>1, <2>2
  <2> QED
    BY <1>8, <2>1, <2>3 DEF enc, pool, fault1, l
<1>10. t.enc = e.enc /\ t.pool = e.pool /\ t.out = s.out /\ t.decoded = decoded
       /\ t.over = s.over /\ t.parsed = s.parsed /\ t.left = l
  <2> DEFINE enc == e.enc
             pool == e.pool
             out == s.out
             parsed == s.parsed
             over == s.over
  <2>1. t = [dec |-> dec, enc |-> enc, pool |-> pool, out |-> out,
             fault |-> "none", over |-> over, decoded |-> decoded,
             parsed |-> parsed, left |-> l]
    BY <1>9
  <2> HIDE DEF enc, pool, out, parsed, over, l
  <2>2. t.enc = enc /\ t.pool = pool /\ t.out = out /\ t.decoded = decoded
        /\ t.over = over /\ t.parsed = parsed /\ t.left = l
    BY ONLY <2>1
  <2> QED
    BY <2>2 DEF enc, pool, out, parsed, over
<1>11. decoded \in Seq(Plays(list))
  BY <1>1 DEF decoded
<1>12. Balanced(t, want, l + n)
  <2> DEFINE enc == e.enc
  <2>1. /\ Opened(enc, want) /\ enc.pre = FormatIn(a) /\ enc.fifo < FrameOf(want)
        /\ w \in Nat
    BY <1>2, <1>3, <1>6, <1>7
  <2>2. Sum(e, want) = enc.fifo + (enc.held + n) * FrameOf(want)
    BY DEF Sum, n
  <2>3. enc.fifo + (enc.held + n) * FrameOf(want) + enc.dropped
          = Kept(s.enc, want) + w
    BY <1>3, <1>6, <2>2
  <2>4. enc.dropped <= s.enc.dropped
          + (IF s.enc = initEncoder(want) \/ FormatIn(a) = s.enc.pre THEN 0
             ELSE AtMost(want))
    BY <1>2, <1>6
  <2>5. t.enc = enc /\ t.decoded = Append(s.decoded, a) /\ t.parsed = s.parsed
    BY <1>10 DEF decoded
  <2>6. Balanced(s, want, l) /\ l \in Nat
    BY <1>1
  <2> HIDE DEF enc, l
  <2> QED
    BY <1>1, <1>8, <2>1, <2>3, <2>4, <2>5, <2>6, BalanceKept DEF w
<1>13. t = [dec |-> dec, enc |-> t.enc, pool |-> t.pool, out |-> t.out,
            fault |-> "none", over |-> t.over, decoded |-> t.decoded,
            parsed |-> t.parsed, left |-> t.left]
  BY <1>9, <1>10
<1>14. Good(t, list, want, kind, n)
  BY <1>1, <1>7, <1>10, <1>11, <1>12, <1>13 DEF Good, dec
<1> QED
  BY <1>7, <1>8, <1>14 DEF n

(* One round of the loop.                                                  *)
LEMMA PacketConverted ==
  ASSUME NEW list, NEW want, NEW kind, want \notin Refused,
         want.enable => Asked(want),
         NEW a \in Plays(list), NEW first \in BOOLEAN,
         NEW pkt, pkt.bytes \in PacketBytes, FateOK(pkt.fate),
         NEW s, Good(s, list, want, kind, 0)
  PROVE  Good(ConvertPacket(s, OpenIn(a), first, pkt), list, want, kind, 0)
<1> DEFINE in == OpenIn(a)
           fd == readData(in, first)
           e == Encode([enc |-> s.enc, pool |-> s.pool, output |-> <<>>, rc |-> 0,
                        fault |-> "none"], DecodedFrame(s.dec, in.audio), pkt.bytes)
           encoded == [s EXCEPT !.enc = e.enc, !.pool = e.pool, !.fault = e.fault,
                                !.decoded = Append(s.decoded, a)]
           c == ConvertPacket(s, in, first, pkt)
<1>1. s.fault = "none" /\ s.dec = initDecoder(list[1], want)
      /\ OutOK(s.out, kind, ToldStream(list, want), want)
      /\ Ready(s.enc, want)
  BY DEF Good, Balanced
<1>2. s.enc.want = want
  BY <1>1, ReadyType
<1>3. in.audio = a
  BY DEF OpenIn
<1>0. CASE s.over # "no"
  BY <1>0 DEF ConvertPacket
<1> SUFFICES ASSUME s.over = "no"
             PROVE  Good(c, list, want, kind, 0)
  BY <1>0
<1> DEFINE fate == pkt.fate
<1>4. c = IF ~needsConvert(in, want) THEN pushFrame(s, fd, fate)
          ELSE IF ~Decodes(s.dec, fd, pkt.good) THEN s
          ELSE IF e.rc # 0 THEN encoded
          ELSE Sent(encoded, fate, e.output)
  <2> HIDE DEF in
  <2> QED
    BY <1>1, <1>2, <1>3 DEF ConvertPacket, Sent
<1>8. FateOK(fate)
  OBVIOUS
<1> HIDE DEF fate
<1>5. CASE ~needsConvert(in, want)
  <2> DEFINE out == Pushed(s.out, fd, fate)
             over == CASE Last(fate) = "refused" -> "gaveUp"
                       [] Last(fate) = "unopened" -> "noOutput"
                       [] OTHER -> "no"
  <2>1. FrameOK(fd, ToldStream(list, want), want)
    BY <1>5, PacketRead
  <2> HIDE DEF fd
  <2>2. OutOK(out, kind, ToldStream(list, want), want)
    BY <1>1, <1>8, <2>1, FramePushed
  <2> HIDE DEF c
  <2>3. c = [s EXCEPT !.out = out, !.over = over]
    BY <1>4, <1>5 DEF pushFrame
  <2> HIDE DEF out, over
  <2>4. Good(c, list, want, kind, 0)
    BY <2>2, <2>3, OutputChanges
  <2> QED
    BY <2>4 DEF c
<1>6. CASE needsConvert(in, want) /\ ~Decodes(s.dec, fd, pkt.good)
  BY <1>4, <1>6
<1>7. CASE needsConvert(in, want) /\ Decodes(s.dec, fd, pkt.good)
  <2>1. want.enable /\ Asked(want)
    BY <1>7 DEF needsConvert
  <2>2. initDecoder(list[1], want).open
    BY <1>1, <1>7 DEF Decodes
  <2> DEFINE bytes == pkt.bytes
  <2>3. bytes \in PacketBytes
    OBVIOUS
  <2>4. e = Encode([enc |-> s.enc, pool |-> s.pool, output |-> <<>>, rc |-> 0,
                    fault |-> "none"], DecodedFrame(s.dec, a), bytes)
    BY <1>3
  <2>5. encoded = [s EXCEPT !.enc = e.enc, !.pool = e.pool, !.fault = e.fault,
                            !.decoded = Append(s.decoded, a)]
    OBVIOUS
  <2> HIDE DEF e, bytes, c, fd
  <2> DEFINE t == encoded
  <2> HIDE DEF encoded
  <2>6. /\ e.rc = 0 /\ e.output \in Seq(OutFrames(want, bytes))
        /\ Good(encoded, list, want, kind, Len(e.output))
    BY <2>1, <2>2, <2>3, <2>4, <2>5, EncoderChanges
  <2> DEFINE output == e.output
  <2>7. output \in Seq(OutFrames(want, bytes))
        /\ Good(encoded, list, want, kind, Len(output))
    BY <2>6
  <2> HIDE DEF output
  <2>8. Good(Sent(encoded, fate, output), list, want, kind, 0)
    BY <1>8, <2>1, <2>3, <2>7, AllPushed
  <2>9. c = Sent(encoded, fate, output)
    BY <1>4, <1>7, <2>6 DEF output
  <2> QED
    BY <2>8, <2>9 DEF c
<1> QED
  BY <1>5, <1>6, <1>7

-----------------------------------------------------------------------------
(* What is played: files of a list that checkFiles() takes, and its        *)
(* silence.                                                                *)
LEMMA AdtsOf ==
  ASSUME NEW a \in AudioFile, a.codec = "aac"
  PROVE  frame_duration(OpenIn(a).adts) = GetAdtsDuration(1, Place(a.rate))
<1> DEFINE adts == channel_configuration(sample_rate_index(AAC_ADTS, a.rate),
                                         a.channels)
<1>1. OpenIn(a).adts = adts
  BY DEF OpenIn
<1>2. a.channels \in Nat
  BY DEF AudioFile
<1>3. Tells(adts, a.rate, a.channels)
  BY <1>2, NewHeader, HeaderTells
<1> HIDE DEF adts
<1>4. adts.sampleRateIndex = Place(a.rate)
  BY <1>3 DEF Tells
<1> QED
  BY <1>1, <1>4 DEF frame_duration

(* The files of a list.                                                    *)
LEMMA ListFiles ==
  ASSUME NEW list \in Lists
  PROVE  /\ Files \in Nat /\ 1 \in 1..Files /\ Len(list) = Files
         /\ \A k \in 1..Files : list[k] \in AudioFile /\ FileOK(list[k])
<1>1. Files \in Nat \ {0}
  BY FileStreamWorkerAssumption
<1>2. list \in Seq(AudioFile) /\ Len(list) = Files
      /\ \A k \in 1..Files : FileOK(list[k])
  BY FileConvertAssumption
<1> QED
  BY <1>1, <1>2

(* The files of a list that checkFiles() takes are played.                 *)
LEMMA ListPlays ==
  ASSUME NEW list \in Lists, checkFiles(list), NEW k \in 1..Files
  PROVE  list[k] \in Plays(list)
<1> DEFINE a == list[k]
           b == list[1]
<1>1. a \in AudioFile /\ FileOK(a) /\ k \in 1..Len(list)
  BY ListFiles
<1>2. /\ total(OpenIn(a), FrameTime(a.samples, a.rate)) # 0
      /\ a.codec = b.codec
      /\ a.codec = "mp3" \/ <<a.channels, a.rate>> = <<b.channels, b.rate>>
  BY <1>1 DEF checkFiles
<1> HIDE DEF a, b
<1>3. a.codec # "mp3" => a.rate = b.rate /\ a.channels = b.channels
  BY <1>2
<1>4. ASSUME a.codec = "aac" PROVE GetAdtsDuration(1, Place(a.rate)) # 0
  <2>1. OpenIn(a).audio = a
    BY DEF OpenIn
  <2>2. frame_duration(OpenIn(a).adts) \div 1000 # 0
    BY <1>2, <1>4, <2>1 DEF total
  <2>3. 0 \div 1000 = 0
    OBVIOUS
  <2>4. frame_duration(OpenIn(a).adts) # 0
    BY <2>2, <2>3
  <2> QED
    BY <1>1, <1>4, <2>4, AdtsOf
<1>5. a \in Plays(list)
  BY <1>1, <1>2, <1>3, <1>4 DEF Plays, b
<1> QED
  BY <1>5 DEF a

(* So is a file of silence that createSlienceStreamIn() finds.             *)
LEMMA SilencePlays ==
  ASSUME NEW list \in Lists, checkFiles(list),
         NEW in \in createSlienceStreamIn(list)
  PROVE  \E a \in Plays(list) : in = OpenIn(a)
<1> DEFINE b == list[1]
<1>1. PICK a \in Silences :
        /\ <<a.codec, a.rate, a.channels>> = <<b.codec, b.rate, b.channels>>
        /\ in = OpenIn(a)
  BY DEF createSlienceStreamIn
<1>2. a \in AudioFile /\ FileOK(a)
  BY FileConvertAssumption
<1>3. b \in Plays(list)
  BY ListFiles, ListPlays
<1>4. b.codec = "aac" => GetAdtsDuration(1, Place(b.rate)) # 0
  BY <1>3 DEF Plays
<1>5. a.codec = b.codec /\ a.rate = b.rate /\ a.channels = b.channels
  <2> HIDE DEF b
  <2> QED
    BY <1>1
<1>6. a \in Plays(list)
  BY <1>2, <1>4, <1>5 DEF Plays
<1> QED
  BY <1>1, <1>6

(* Codec and output are opened.                                            *)
LEMMA GoodStart ==
  ASSUME NEW list, NEW want, NEW kind, Starts(list, want, kind)
  PROVE  Good(OpenCodec(list, want, kind), list, want, kind, 0)
<1> DEFINE s == OpenCodec(list, want, kind)
           dec == initDecoder(list[1], want)
           enc == initEncoder(want)
           out == initStreamOut(kind, list, want)
           told == ToldStream(list, want)
<1>1. s = [dec |-> dec, enc |-> enc, pool |-> CodecInit, out |-> out,
           fault |-> "none", over |-> "no", decoded |-> <<>>, parsed |-> <<>>,
           left |-> 0]
  BY DEF OpenCodec
<1>2. s.out.rc = 0
  BY DEF Starts
<1>3. out.rc = 0
  BY <1>1, <1>2
<1>4. out = [rc |-> 0, kind |-> kind, codec |-> told.codec, rate |-> told.rate,
             channels |-> told.channels, timestamp |-> 0, sent |-> <<>>]
  <2> DEFINE rc == IF told.codec \in (IF kind = "rtmp" THEN RtmpCodecs
                                      ELSE RtspCodecs) THEN 0 ELSE -1
  <2>1. out = [rc |-> rc, kind |-> kind, codec |-> told.codec, rate |-> told.rate,
               channels |-> told.channels, timestamp |-> 0, sent |-> <<>>]
    BY DEF initStreamOut, ToldStream
  <2> HIDE DEF rc, told, out
  <2>2. rc = 0
    BY <1>3, <2>1
  <2> QED
    BY <2>1, <2>2
<1>5. OutOK(out, kind, told, want)
  <2> HIDE DEF out, told
  <2> QED
    BY <1>4, NewOutput
<1> HIDE DEF dec, enc, out, told, s
<1>6. /\ s.enc = enc /\ s.pool = CodecInit /\ s.out = out /\ s.decoded = <<>>
      /\ s.parsed = <<>> /\ s.over = "no" /\ s.left = 0
  BY <1>1
<1>7. s = [dec |-> dec, enc |-> s.enc, pool |-> s.pool, out |-> s.out,
           fault |-> "none", over |-> s.over, decoded |-> s.decoded,
           parsed |-> s.parsed, left |-> s.left]
  BY <1>1, <1>6
<1>8. Balanced(s, want, s.left + 0)
  <2>1. Ready(s.enc, want)
    BY <1>6 DEF Ready, enc
  <2>2. s.enc.dropped = 0
    BY <1>6 DEF initEncoder, enc
  <2>3. Changes(<<>>) = 0
    <3>1. {k \in 2..Len(<<>>) : <<(<<>>)[k].rate, (<<>>)[k].channels>>
             # <<(<<>>)[k - 1].rate, (<<>>)[k - 1].channels>>} = {}
      OBVIOUS
    <3> QED
      BY <3>1, FS_EmptySet DEF Changes
  <2>4. AtMost(want) \in Nat
    BY FrameType
  <2>5. 0 <= 0 * AtMost(want)
    <3> DEFINE most == AtMost(want)
    <3> HIDE DEF most
    <3>1. 0 <= 0 * most
      BY <2>4 DEF most
    <3> QED
      BY <3>1 DEF most
  <2> QED
    BY <1>6, <2>1, <2>2, <2>3, <2>5 DEF Balanced, enc
<1>9. Good(s, list, want, kind, 0)
  <2>1. s.left + 0 = 0 /\ s.left \in Nat
    BY <1>6
  <2> QED
    BY <1>5, <1>6, <1>7, <1>8, <2>1, NewPool DEF Good, told, dec
<1> QED
  BY <1>9 DEF s

-----------------------------------------------------------------------------
(* A file, and all files that were played.                                 *)
PacketsOK(packets) ==
  /\ Len(packets) \in Nat
  /\ \A k \in 1..Len(packets) :
       packets[k].bytes \in PacketBytes /\ FateOK(packets[k].fate)

LEMMA ScriptType ==
  ASSUME NEW m \in 1..Files, NEW script \in Scripts[m], NEW f \in 1..m
  PROVE  PacketsOK(script[f])
<1>0. m \in Nat
  BY FileStreamWorkerAssumption
<1>1. PICK read \in [1..m -> Readings], bytes \in [1..m -> PacketBytes],
           trouble \in Troubles :
        script = Script(read, bytes, trouble)
  BY DEF Scripts
<1> DEFINE packets == script[f]
           good == read[f]
           fate(k) == IF <<f, k>> \in DOMAIN trouble THEN trouble[<<f, k>>]
                      ELSE <<"sent">>
<1>2. Len(read) = m
  BY <1>0, <1>1
<1>3. packets = [k \in 1..Len(good) |->
                   [good |-> good[k], bytes |-> bytes[f], fate |-> fate(k)]]
  BY <1>1, <1>2 DEF Script
<1>4. PICK n \in 0..MaxPackets : good \in [1..n -> BOOLEAN]
  <2>1. good \in Readings
    BY <1>1
  <2> HIDE DEF good
  <2> QED
    BY <2>1 DEF Readings
<1> HIDE DEF good
<1>5. CASE n \in Nat
  <2>1. Len(good) = n
    BY <1>4, <1>5
  <2>2. ASSUME NEW k \in 1..n PROVE FateOK(fate(k))
    <3>1. PICK places \in SUBSET ((1..Files) \X (1..MaxPackets)) :
            trouble \in [places -> Fates]
      BY <1>1 DEF Troubles
    <3>2. fate(k) \in Fates \/ fate(k) = <<"sent">>
      BY <3>1
    <3> DEFINE x == fate(k)
    <3> HIDE DEF x
    <3>3. CASE x = <<"sent">>
      <4>1. FateOK(x)
        BY <3>3 DEF FateOK
      <4> QED
        BY <4>1 DEF x
    <3>4. CASE x \in Fates
      <4>1. Reconnects + 1 \in Nat
        BY FileStreamWorkerAssumption
      <4>2. PICK l \in 1..Reconnects + 1 : x \in [1..l -> Attempt]
        BY <3>4 DEF Fates
      <4>3. l \in Nat
        BY <4>1, <4>2
      <4>4. FateOK(x)
        BY <4>2, <4>3 DEF FateOK
      <4> QED
        BY <4>4 DEF x
    <3> QED
      BY <3>2, <3>3, <3>4 DEF x
  <2> HIDE DEF fate, packets
  <2>3. packets = [k \in 1..n |->
                     [good |-> good[k], bytes |-> bytes[f], fate |-> fate(k)]]
    BY <1>3, <2>1
  <2>4. Len(packets) = n
    BY <1>5, <2>3
  <2>5. bytes[f] \in PacketBytes
    BY <1>1
  <2>6. \A k \in 1..n : packets[k].bytes = bytes[f] /\ packets[k].fate = fate(k)
    BY <2>3
  <2>7. PacketsOK(packets)
    BY <1>5, <2>2, <2>4, <2>5, <2>6 DEF PacketsOK
  <2> QED
    BY <2>7 DEF packets
<1> QED
  BY <1>4, <1>5

(* A file after the others: each packet of it keeps what is good.          *)
LEMMA FilePlayed ==
  ASSUME NEW list, NEW want, NEW kind, want \notin Refused,
         want.enable => Asked(want),
         NEW a \in Plays(list), NEW packets, PacketsOK(packets), NEW silence,
         NEW s, Good(s, list, want, kind, 0)
  PROVE  Good(PlayFile(s, OpenIn(a), packets, silence), list, want, kind, 0)
<1> DEFINE n == Len(packets)
           in == OpenIn(a)
<1>1. n \in Nat /\ \A k \in 1..n :
                       packets[k].bytes \in PacketBytes /\ FateOK(packets[k].fate)
  BY DEF PacketsOK
<1> HIDE DEF in
<1>2. PICK h : PlaysPackets(h, s, in, packets, silence, n)
  BY <1>1, PacketsRun
<1> HIDE DEF n
<1>3. /\ h[0] = s /\ h[n] = PlayFile(s, in, packets, silence)
      /\ \A k \in 1..n :
           h[k] = ConvertPacket(Again(h[k - 1], in, silence), in, k = 1, packets[k])
  BY <1>2 DEF PlaysPackets
<1> DEFINE OK(t) == Good(t, list, want, kind, 0)
           All == {k \in 0..n : OK(h[k])}
<1>4. 0 \in All
  BY <1>1, <1>3
<1>5. ASSUME NEW k \in 1..n, k - 1 \in All PROVE k \in All
  <2> DEFINE g == h[k - 1]
             first == k = 1
             pkt == packets[k]
  <2>1. OK(g) /\ k \in 0..n
    BY <1>1, <1>5
  <2>2. first \in BOOLEAN /\ pkt.bytes \in PacketBytes /\ FateOK(pkt.fate)
    BY <1>1
  <2> DEFINE t == Again(g, in, silence)
  <2>3. h[k] = ConvertPacket(t, in, first, pkt)
    BY <1>3
  <2> HIDE DEF g, first, pkt
  <2>5. OK(t)
    <3>1. CASE t = g
      BY <2>1, <3>1
    <3>2. CASE t = [g EXCEPT !.over = "no"]
      <4> HIDE DEF t
      <4> QED
        BY <2>1, <3>2, OverChanges
    <3> QED
      BY <3>1, <3>2 DEF Again
  <2> HIDE DEF t
  <2>4. OK(ConvertPacket(t, in, first, pkt))
    BY <2>2, <2>5, PacketConverted DEF in
  <2> QED
    BY <2>1, <2>3, <2>4
<1>6. n \in All
  <2>1. n \in 0..n
    BY <1>1
  <2> HIDE DEF All
  <2> QED
    BY <1>1, <1>4, <1>5, <2>1, Upwards
<1>7. OK(h[n])
  BY <1>6
<1> QED
  BY <1>3, <1>7 DEF in

(* An order of files.                                                      *)
LEMMA OrderType ==
  ASSUME NEW f, NEW o \in Orders(f)
  PROVE  /\ Len(o) \in Nat /\ 1 \in 1..Len(o) /\ Len(o) \in 1..Files
         /\ \A k \in 1..Len(o) : o[k] \in 1..Files
<1>1. PICK n \in 1..Files : o \in [1..n -> 1..Files]
  BY DEF Orders
<1>2. n \in Nat /\ n >= 1
  BY <1>1, FileStreamWorkerAssumption
<1>3. Len(o) = n
  BY <1>1, <1>2
<1> QED
  BY <1>1, <1>2, <1>3

(* The files of a list, in any order.                                      *)
LEMMA AllPlayed ==
  ASSUME NEW list \in Lists, NEW want, NEW kind, Starts(list, want, kind),
         want \notin Refused, want.enable => Asked(want),
         NEW f, NEW o \in Orders(f), NEW script \in Scripts[Len(o)]
  PROVE  Good(Played(list, want, kind, o, script), list, want, kind, 0)
<1> DEFINE n == Len(o)
<1>1. n \in Nat /\ \A k \in 1..n : o[k] \in 1..Files
  BY OrderType
<1>2. \A k \in 1..n : PacketsOK(script[k])
  <2>1. n \in 1..Files /\ script \in Scripts[n]
    BY OrderType
  <2> HIDE DEF n
  <2> QED
    BY <2>1, ScriptType
<1>3. PICK h : PlaysFiles(h, list, want, kind, o, script, n)
  BY <1>1, FilesRun
<1> HIDE DEF n
<1>4. /\ h[0] = OpenCodec(list, want, kind)
      /\ h[n] = Played(list, want, kind, o, script)
      /\ \A k \in 1..n :
           h[k] = PlayFile(h[k - 1], OpenIn(list[o[k]]), script[k], FALSE)
  BY <1>3 DEF PlaysFiles
<1> DEFINE OK(t) == Good(t, list, want, kind, 0)
           All == {k \in 0..n : OK(h[k])}
<1>5. 0 \in All
  BY <1>1, <1>4, GoodStart
<1>6. ASSUME NEW k \in 1..n, k - 1 \in All PROVE k \in All
  <2> DEFINE g == h[k - 1]
             a == list[o[k]]
             packets == script[k]
  <2>1. OK(g) /\ k \in 0..n
    BY <1>1, <1>6
  <2>2. a \in Plays(list)
    BY <1>1, ListPlays DEF Starts
  <2>3. h[k] = PlayFile(g, OpenIn(a), packets, FALSE) /\ PacketsOK(packets)
    BY <1>2, <1>4
  <2> HIDE DEF g, a, packets
  <2>4. OK(PlayFile(g, OpenIn(a), packets, FALSE))
    BY <2>1, <2>2, <2>3, FilePlayed
  <2> QED
    BY <2>1, <2>3, <2>4
<1>7. n \in All
  <2>1. n \in 0..n
    BY <1>1
  <2> HIDE DEF All
  <2> QED
    BY <1>1, <1>5, <1>6, <2>1, Upwards
<1>8. OK(h[n])
  BY <1>7
<1> QED
  BY <1>4, <1>8

-----------------------------------------------------------------------------
(* What is good is played well.                                            *)
LEMMA GoodConserves ==
  ASSUME NEW list, NEW want, NEW kind, NEW s, Good(s, list, want, kind, 0)
  PROVE  Conserved(s)
<1> DEFINE e == s.enc
           frame == e.ctx.frameSize
           l == s.left
           p == Len(s.parsed) + l
           most == AtMost(want)
           ch == Changes(s.decoded)
<1>0. l \in Nat /\ l + 0 = l
  BY DEF Good
<1>1. PoolOK(s.pool, l) /\ Balanced(s, want, l) /\ s.decoded \in Seq(Plays(list))
      /\ s.parsed \in Seq(ParsedFrames(want))
  <2>1. PoolOK(s.pool, l + 0) /\ Balanced(s, want, l + 0)
    BY DEF Good
  <2> QED
    BY <1>0, <2>1 DEF Good
<1>2. s.pool.inpool + l = s.pool.total /\ Len(s.pool.objs) = s.pool.inpool
  <2> DEFINE pool == s.pool
             i == pool.inpool
             m == Len(pool.objs)
  <2>1. pool.objs \in Seq(PoolObj) /\ i = m /\ pool.total = i + l
    BY <1>1 DEF PoolOK
  <2>2. m \in Nat
    BY <2>1
  <2> QED
    BY <2>1, <2>2
<1>3. p \in Nat /\ most \in Nat /\ FrameOf(want) \in Nat
  BY <1>0, <1>1, FrameType
<1>4. Resampled(e, s.decoded) = SamplesOf(e.ctx.rate, s.decoded)
  BY DEF Resampled, SamplesOf
<1>9. Len(s.parsed) + e.held + l = p + e.held
  <2> DEFINE m == Len(s.parsed)
             h == e.held
  <2>1. m \in Nat /\ h \in Nat
    BY <1>1, ReadyType DEF Balanced
  <2> HIDE DEF m, h, l
  <2>2. m + h + l = (m + l) + h
    BY <1>0, <2>1
  <2> QED
    BY <2>2 DEF m, h
<1>5. CASE e = initEncoder(want) /\ s.decoded = <<>> /\ s.parsed = <<>> /\ l = 0
  <2>1. e.fifo = -1 /\ e.held = 0 /\ e.dropped = 0 /\ frame = 0
    BY <1>5 DEF initEncoder, NoFifo
  <2>2. Resampled(e, s.decoded) = 0
    BY <1>4, <1>5, SamplesAppend
  <2>3. p = 0 /\ Max2(e.fifo, 0) = 0
    BY <1>5, <2>1 DEF Max2
  <2>4. ch = 0
    <3>1. {k \in 2..Len(<<>>) : <<(<<>>)[k].rate, (<<>>)[k].channels>>
             # <<(<<>>)[k - 1].rate, (<<>>)[k - 1].channels>>} = {}
      OBVIOUS
    <3> QED
      BY <1>5, <3>1, FS_EmptySet DEF Changes
  <2> HIDE DEF p, ch, frame
  <2>5. Resampled(e, s.decoded) = (p + e.held) * frame + Max2(e.fifo, 0) + e.dropped
    BY <2>1, <2>2, <2>3
  <2>6. e.dropped <= ch * ((Latency + 1) * frame - 1)
    <3>1. Latency \in Nat
      BY Numbers
    <3> DEFINE lat == Latency
    <3> HIDE DEF lat
    <3>2. ch * ((lat + 1) * frame - 1) = 0
      BY <2>1, <2>4, <3>1 DEF lat
    <3> QED
      BY <2>1, <3>2 DEF lat
  <2> QED
    BY <1>2, <1>9, <2>1, <2>5, <2>6 DEF Conserved, ch, frame
<1>6. CASE /\ Opened(e, want) /\ e.fifo < FrameOf(want)
           /\ e.fifo + (e.held + p) * FrameOf(want)
                + e.dropped = SamplesOf(BestContext(want).rate, s.decoded)
  <2>1. e.ctx = BestContext(want) /\ e.fifo \in Nat /\ e.held \in Nat /\ e.dropped \in Nat
    BY <1>6 DEF Opened
  <2>2. frame = FrameOf(want) /\ e.ctx.rate = BestContext(want).rate
    BY <2>1 DEF FrameOf
  <2>3. Max2(e.fifo, 0) = e.fifo
    BY <2>1 DEF Max2
  <2>4. e.dropped <= ch * ((Latency + 1) * frame - 1)
    BY <1>1, <2>2 DEF Balanced, AtMost
  <2> HIDE DEF p, ch, frame
  <2>5. Resampled(e, s.decoded) = (p + e.held) * frame + Max2(e.fifo, 0) + e.dropped
    <3> DEFINE A == e.fifo
               B == e.dropped
               h == e.held
               all == Resampled(e, s.decoded)
    <3>1. A + (h + p) * frame + B = all
      BY <1>4, <1>6, <2>2
    <3>2. A \in Nat /\ B \in Nat /\ h \in Nat /\ p \in Nat /\ frame \in Nat
      BY <1>3, <2>1, <2>2
    <3> HIDE DEF A, B, h, all
    <3>3. h + p = p + h
      BY <3>2
    <3> DEFINE q == (p + h) * frame
    <3>4. q \in Nat
      BY <3>2
    <3>5. A + q + B = all
      BY <3>1, <3>3
    <3> HIDE DEF q
    <3>6. all = q + A + B
      BY <3>2, <3>4, <3>5
    <3> QED
      BY <2>3, <3>6 DEF A, B, h, all, q
  <2>6. e.fifo < frame
    BY <1>6, <2>2
  <2> QED
    BY <1>2, <1>9, <2>4, <2>5, <2>6 DEF Conserved, ch, frame
<1> QED
  BY <1>1, <1>5, <1>6 DEF Balanced

(* The headers and the output tell what the encoder does.                  *)
LEMMA GoodIsTold ==
  ASSUME NEW list, NEW want, NEW kind, NEW s, Good(s, list, want, kind, 0)
  PROVE  ToldRight(s, want)
<1> SUFFICES ASSUME Made(want) PROVE ToldRight(s, want)
  BY DEF ToldRight, Made
<1> DEFINE told == ToldStream(list, want)
           o == s.out
<1>1. s.parsed \in Seq(ParsedFrames(want)) /\ OutOK(o, kind, told, want)
  BY DEF Good
<1>2. ASSUME NEW k \in 1..Len(s.parsed)
      PROVE  /\ s.parsed[k].rate = want.rate
             /\ s.parsed[k].channels = want.channels
             /\ want.codec = "aac" => s.parsed[k].frameSize = s.parsed[k].size
  <2>1. s.parsed[k] \in ParsedFrames(want)
    BY <1>1
  <2> QED
    BY <2>1 DEF ParsedFrames
<1> HIDE DEF told, o
<1>3. o.codec = told.codec /\ o.rate = told.rate /\ o.channels = told.channels
  BY <1>1 DEF OutOK
<1>4. told.codec # "mp3" =>
        \A k \in 1..Len(o.sent) : ToldAt(o, told, k)
  BY <1>1 DEF OutOK
<1>5. o.codec # "mp3" =>
        \A k \in 1..Len(o.sent) :
          <<o.sent[k].rate, o.sent[k].channels>> = <<o.rate, o.channels>>
  BY <1>3, <1>4 DEF ToldAt
<1> QED
  BY <1>2, <1>5 DEF ToldRight, o

(* Each frame is at its time, and its pieces are over before the next.     *)
LEMMA GoodIsInTime ==
  ASSUME NEW list, NEW want, NEW kind, NEW s, Good(s, list, want, kind, 0),
         Clocked(want)
  PROVE  InTime(s.out.sent)
<1> DEFINE sent == s.out.sent
<1>1. sent \in Seq(SentFrame) /\ \A k \in 1..Len(sent) : TimedAt(sent, k)
  BY DEF Good, OutOK
<1> HIDE DEF sent
<1>2. ASSUME NEW k \in 1..Len(sent)
      PROVE  LET before == TimeOf(SubSeq(sent, 1, k - 1))
             IN /\ sent[k].at \in (before - 1000 - k)..(before + k)
                /\ sent[k].last - sent[k].at
                     <= FrameTime(sent[k].samples, sent[k].rate)
  <2> DEFINE before == TimeOf(SubSeq(sent, 1, k - 1))
             at == sent[k].at
  <2>1. /\ before \in Nat /\ at <= before /\ before < at + 1000
        /\ sent[k].last - sent[k].at <= FrameTime(sent[k].samples, sent[k].rate)
    BY <1>1 DEF TimedAt
  <2>2. at \in Nat
    <3>1. sent[k] \in SentFrame
      BY <1>1
    <3> QED
      BY <3>1 DEF SentFrame
  <2>3. k \in Nat
    BY <1>1
  <2> HIDE DEF before, at
  <2>4. at \in (before - 1000 - k)..(before + k)
    BY <2>1, <2>2, <2>3
  <2> QED
    BY <2>1, <2>4 DEF before, at
<1>3. InTime(sent)
  BY <1>2 DEF InTime, TimeOf
<1> QED
  BY <1>3 DEF sent

(* All of it, for a conversion that FFmpeg does not refuse.                *)
LEMMA GoodIsHeard ==
  ASSUME NEW list, NEW want, NEW kind, NEW s, Good(s, list, want, kind, 0),
         want \notin Refused
  PROVE  PlayedWell(s, want)
<1>1. s.fault = "none"
  BY DEF Good
<1>2. (want.enable /\ want.codec = "aac" => Timed(want.rate)) => InTime(s.out.sent)
  BY GoodIsInTime DEF Clocked
<1> QED
  BY <1>1, <1>2, GoodConserves, GoodIsTold DEF PlayedWell

-----------------------------------------------------------------------------
(* An encoder that was refused has no fifo, and its second frame runs into *)
(* that; the frames of the first format go nowhere.                        *)
Barred(e, want) ==
  e = [want |-> want, ctx |-> e.ctx, adts |-> e.adts, fifo |-> NoFifo,
       swr |-> e.swr, pre |-> e.pre, held |-> e.held, dropped |-> e.dropped]

Muted(s, want) ==
  /\ s = [dec |-> s.dec, enc |-> s.enc, pool |-> s.pool, out |-> s.out,
          fault |-> s.fault, over |-> s.over, decoded |-> s.decoded,
          parsed |-> s.parsed, left |-> s.left]
  /\ Barred(s.enc, want) /\ s.fault \in {"none", "noFifo"}

(* encode() ends with an error, or is without a fifo.                      *)
LEMMA FrameBarred ==
  ASSUME NEW want \in Refused, NEW enc, Barred(enc, want), NEW pool, NEW f,
         NEW bytes,
         NEW e, e = Encode([enc |-> enc, pool |-> pool, output |-> <<>>, rc |-> 0,
                            fault |-> "none"], f, bytes)
  PROVE  /\ Barred(e.enc, want) /\ e.fault \in {"none", "noFifo"}
         /\ e.rc # 0 \/ e.output = <<>>
<1> DEFINE a == [enc |-> enc, pool |-> pool, output |-> <<>>, rc |-> 0,
                 fault |-> "none"]
           u == UpdateCoder(enc, f)
           format == [rate |-> f.rate, channels |-> f.channels,
                      format |-> f.format]
<1>1. enc = [want |-> want, ctx |-> enc.ctx, adts |-> enc.adts, fifo |-> NoFifo,
             swr |-> enc.swr, pre |-> enc.pre, held |-> enc.held,
             dropped |-> enc.dropped]
  BY DEF Barred
<1>2. enc.want = want /\ enc.fifo = NoFifo
  BY <1>1
<1> DEFINE added == [a EXCEPT !.enc = SwrFifoAdd(u.enc, f)]
<1>3. e = IF u.rc # 0 THEN [a EXCEPT !.enc = u.enc, !.rc = u.rc]
          ELSE IF u.enc.fifo = NoFifo THEN [a EXCEPT !.fault = "noFifo"]
          ELSE FoldLeft(LAMBDA b, k : MakeCode(b, bytes), added, Rounds(added.enc))
  BY DEF Encode
<1>4. CASE format = enc.pre
  <2>1. u = [rc |-> 0, enc |-> enc]
    BY <1>4 DEF UpdateCoder
  <2>2. u.rc = 0 /\ u.enc = enc
    BY <2>1
  <2> HIDE DEF u, a, added
  <2>3. e = [a EXCEPT !.fault = "noFifo"]
    BY <1>2, <1>3, <2>2
  <2>4. e.enc = enc /\ e.fault = "noFifo" /\ e.output = <<>>
    BY <2>3 DEF a
  <2> QED
    BY <2>4
<1>5. CASE format # enc.pre
  <2> DEFINE new == [enc EXCEPT !.pre = format]
  <2>1. u = [rc |-> -1, enc |-> new]
    BY <1>2, <1>5 DEF UpdateCoder
  <2>2. u.rc = -1 /\ u.enc = new
    BY <2>1
  <2>3. Barred(new, want)
    <3> HIDE DEF format
    <3>1. new = [want |-> want, ctx |-> enc.ctx, adts |-> enc.adts, fifo |-> NoFifo,
                 swr |-> enc.swr, pre |-> format, held |-> enc.held,
                 dropped |-> enc.dropped]
      BY <1>1
    <3> HIDE DEF new
    <3>2. new.ctx = enc.ctx /\ new.adts = enc.adts /\ new.swr = enc.swr
          /\ new.pre = format /\ new.held = enc.held /\ new.dropped = enc.dropped
      BY <3>1
    <3> QED
      BY <3>1, <3>2 DEF Barred
  <2> HIDE DEF u, a, added, new
  <2>4. e = [a EXCEPT !.enc = u.enc, !.rc = u.rc]
    BY <1>3, <2>2
  <2>5. e = [a EXCEPT !.enc = new, !.rc = -1]
    BY <2>2, <2>4
  <2>6. e.enc = new /\ e.rc = -1 /\ e.fault = "none"
    BY <2>5 DEF a
  <2> QED
    BY <2>3, <2>6
<1> QED
  BY <1>4, <1>5

(* Packets are not converted, or go nowhere.                               *)
LEMMA PacketMuted ==
  ASSUME NEW want \in Refused, NEW in, NEW first, NEW pkt,
         NEW s, Muted(s, want)
  PROVE  Muted(ConvertPacket(s, in, first, pkt), want)
<1> DEFINE fd == readData(in, first)
           e == Encode([enc |-> s.enc, pool |-> s.pool, output |-> <<>>, rc |-> 0,
                        fault |-> "none"], DecodedFrame(s.dec, in.audio), pkt.bytes)
           decoded == Append(s.decoded, in.audio)
           encoded == [s EXCEPT !.enc = e.enc, !.pool = e.pool, !.fault = e.fault,
                                !.decoded = decoded]
           c == ConvertPacket(s, in, first, pkt)
           fate == pkt.fate
           out == Pushed(s.out, fd, fate)
           over == CASE Last(fate) = "refused" -> "gaveUp"
                     [] Last(fate) = "unopened" -> "noOutput"
                     [] OTHER -> "no"
<1>1. /\ s = [dec |-> s.dec, enc |-> s.enc, pool |-> s.pool, out |-> s.out,
              fault |-> s.fault, over |-> s.over, decoded |-> s.decoded,
              parsed |-> s.parsed, left |-> s.left]
      /\ Barred(s.enc, want) /\ s.fault \in {"none", "noFifo"}
  BY DEF Muted
<1>2. Barred(e.enc, want) /\ e.fault \in {"none", "noFifo"}
      /\ (e.rc # 0 \/ e.output = <<>>)
  <2> DEFINE enc == s.enc
             pool == s.pool
             f == DecodedFrame(s.dec, in.audio)
             bytes == pkt.bytes
  <2>1. Barred(enc, want)
    BY <1>1
  <2>2. e = Encode([enc |-> enc, pool |-> pool, output |-> <<>>, rc |-> 0,
                    fault |-> "none"], f, bytes)
    OBVIOUS
  <2> HIDE DEF enc, pool, f, bytes, e
  <2> QED
    BY <2>1, <2>2, FrameBarred
<1>3. \/ c = s
      \/ c = [s EXCEPT !.out = out, !.over = over]
      \/ c = encoded
      \/ e.rc = 0 /\ c = Sent(encoded, fate, e.output)
  BY DEF ConvertPacket, Sent, pushFrame
<1>4. CASE c = [s EXCEPT !.out = out, !.over = over]
  <2> HIDE DEF c, out, over
  <2>1. c = [dec |-> s.dec, enc |-> s.enc, pool |-> s.pool, out |-> out,
             fault |-> s.fault, over |-> over, decoded |-> s.decoded,
             parsed |-> s.parsed, left |-> s.left]
    BY <1>1, <1>4
  <2>2. c.dec = s.dec /\ c.enc = s.enc /\ c.pool = s.pool /\ c.out = out
        /\ c.fault = s.fault /\ c.decoded = s.decoded /\ c.parsed = s.parsed
        /\ c.over = over /\ c.left = s.left
    BY <2>1
  <2>3. Muted(c, want)
    BY <1>1, <2>1, <2>2 DEF Muted
  <2> QED
    BY <2>3 DEF c
<1>5. Muted(encoded, want)
  <2> DEFINE enc == e.enc
             pool == e.pool
             bad == e.fault
             t == encoded
  <2>1. t = [s EXCEPT !.enc = enc, !.pool = pool, !.fault = bad,
                      !.decoded = decoded]
    OBVIOUS
  <2>2. Barred(enc, want) /\ bad \in {"none", "noFifo"}
    BY <1>2
  <2> HIDE DEF enc, pool, bad, t, decoded
  <2>3. t = [dec |-> s.dec, enc |-> enc, pool |-> pool, out |-> s.out,
             fault |-> bad, over |-> s.over, decoded |-> decoded,
             parsed |-> s.parsed, left |-> s.left]
    BY <1>1, <2>1
  <2>4. t.dec = s.dec /\ t.enc = enc /\ t.pool = pool /\ t.out = s.out
        /\ t.fault = bad /\ t.decoded = decoded /\ t.parsed = s.parsed
        /\ t.over = s.over /\ t.left = s.left
    BY <2>3
  <2>5. Muted(t, want)
    BY <2>2, <2>3, <2>4 DEF Muted
  <2> QED
    BY <2>5 DEF t
<1>6. CASE e.rc = 0 /\ c = Sent(encoded, fate, e.output)
  <2>1. e.output = <<>>
    BY <1>2, <1>6
  <2> HIDE DEF e, encoded, c, fate
  <2>2. c = Sent(encoded, fate, <<>>)
    BY <1>6, <2>1
  <2>3. DOMAIN <<>> = 1..0
    OBVIOUS
  <2>4. PICK h : Sends(h, encoded, fate, 0, <<>>)
    BY <2>3, SentRun
  <2>5. c = encoded
    BY <2>2, <2>4 DEF Sends
  <2> QED
    BY <1>5, <2>5 DEF c
<1>7. CASE c = s
  BY <1>7
<1>8. CASE c = encoded
  BY <1>5, <1>8
<1> QED
  BY <1>3, <1>4, <1>6, <1>7, <1>8

(* Who gave up makes no difference.                                        *)
LEMMA OverMuted ==
  ASSUME NEW want, NEW s, Muted(s, want), NEW over
  PROVE  Muted([s EXCEPT !.over = over], want)
<1> DEFINE t == [s EXCEPT !.over = over]
<1>1. /\ s = [dec |-> s.dec, enc |-> s.enc, pool |-> s.pool, out |-> s.out,
              fault |-> s.fault, over |-> s.over, decoded |-> s.decoded,
              parsed |-> s.parsed, left |-> s.left]
      /\ Barred(s.enc, want) /\ s.fault \in {"none", "noFifo"}
  BY DEF Muted
<1>2. t = [dec |-> s.dec, enc |-> s.enc, pool |-> s.pool, out |-> s.out,
           fault |-> s.fault, over |-> over, decoded |-> s.decoded,
           parsed |-> s.parsed, left |-> s.left]
  BY <1>1
<1> HIDE DEF t
<1>3. t.dec = s.dec /\ t.enc = s.enc /\ t.pool = s.pool /\ t.out = s.out
      /\ t.fault = s.fault /\ t.over = over /\ t.decoded = s.decoded
      /\ t.parsed = s.parsed /\ t.left = s.left
  BY <1>2
<1>4. Muted(t, want)
  BY <1>1, <1>2, <1>3 DEF Muted
<1> QED
  BY <1>4 DEF t

(* No more are those of a file.                                            *)
LEMMA FileMuted ==
  ASSUME NEW want \in Refused, NEW in, NEW packets, PacketsOK(packets), NEW silence,
         NEW s, Muted(s, want)
  PROVE  Muted(PlayFile(s, in, packets, silence), want)
<1> DEFINE n == Len(packets)
<1>1. n \in Nat
  BY DEF PacketsOK
<1>2. PICK h : PlaysPackets(h, s, in, packets, silence, n)
  BY <1>1, PacketsRun
<1> HIDE DEF n
<1>3. /\ h[0] = s /\ h[n] = PlayFile(s, in, packets, silence)
      /\ \A k \in 1..n :
           h[k] = ConvertPacket(Again(h[k - 1], in, silence), in, k = 1, packets[k])
  BY <1>2 DEF PlaysPackets
<1> DEFINE All == {k \in 0..n : Muted(h[k], want)}
<1>4. 0 \in All
  BY <1>1, <1>3
<1>5. ASSUME NEW k \in 1..n, k - 1 \in All PROVE k \in All
  <2> DEFINE g == h[k - 1]
             first == k = 1
             pkt == packets[k]
  <2>1. Muted(g, want) /\ k \in 0..n
    BY <1>1, <1>5
  <2> DEFINE t == Again(g, in, silence)
  <2>2. h[k] = ConvertPacket(t, in, first, pkt)
    BY <1>3
  <2> HIDE DEF g, first, pkt
  <2>4. Muted(t, want)
    BY <2>1, OverMuted DEF Again
  <2> HIDE DEF t
  <2>3. Muted(ConvertPacket(t, in, first, pkt), want)
    BY <2>4, PacketMuted
  <2> QED
    BY <2>1, <2>2, <2>3
<1>6. n \in All
  <2>1. n \in 0..n
    BY <1>1
  <2> HIDE DEF All
  <2> QED
    BY <1>1, <1>4, <1>5, <2>1, Upwards
<1> QED
  BY <1>3, <1>6

(* Or those of all files.                                                  *)
LEMMA AllMuted ==
  ASSUME NEW list, NEW want \in Refused, NEW kind,
         NEW f, NEW o \in Orders(f), NEW script \in Scripts[Len(o)]
  PROVE  Muted(Played(list, want, kind, o, script), want)
<1> DEFINE n == Len(o)
<1>1. n \in Nat
  BY OrderType
<1>2. \A k \in 1..n : PacketsOK(script[k])
  <2>1. n \in 1..Files /\ script \in Scripts[n]
    BY OrderType
  <2> HIDE DEF n
  <2> QED
    BY <2>1, ScriptType
<1>3. PICK h : PlaysFiles(h, list, want, kind, o, script, n)
  BY <1>1, FilesRun
<1> HIDE DEF n
<1>4. /\ h[0] = OpenCodec(list, want, kind)
      /\ h[n] = Played(list, want, kind, o, script)
      /\ \A k \in 1..n :
           h[k] = PlayFile(h[k - 1], OpenIn(list[o[k]]), script[k], FALSE)
  BY <1>3 DEF PlaysFiles
<1> DEFINE All == {k \in 0..n : Muted(h[k], want)}
<1>5. 0 \in All
  <2> DEFINE dec == initDecoder(list[1], want)
             enc == initEncoder(want)
             out == initStreamOut(kind, list, want)
             s == OpenCodec(list, want, kind)
  <2>1. s = [dec |-> dec, enc |-> enc, pool |-> CodecInit, out |-> out,
             fault |-> "none", over |-> "no", decoded |-> <<>>,
             parsed |-> <<>>, left |-> 0]
    BY DEF OpenCodec
  <2>2. Barred(enc, want)
    <3> DEFINE ctx == [rate |-> 0, channels |-> 0, format |-> "none", frameSize |-> 0]
               adts == IF want.codec = "aac" THEN AAC_ADTS ELSE NoAdts
    <3>1. enc = [want |-> want, ctx |-> ctx, adts |-> adts, fifo |-> NoFifo,
                 swr |-> FALSE, pre |-> NoPre, held |-> 0, dropped |-> 0]
      BY DEF initEncoder
    <3> HIDE DEF ctx, adts, enc
    <3>2. enc.ctx = ctx /\ enc.adts = adts /\ enc.swr = FALSE /\ enc.pre = NoPre
          /\ enc.held = 0 /\ enc.dropped = 0
      BY <3>1
    <3> QED
      BY <3>1, <3>2 DEF Barred
  <2> HIDE DEF dec, enc, out, s
  <2>3. s.dec = dec /\ s.enc = enc /\ s.pool = CodecInit /\ s.out = out
        /\ s.fault = "none" /\ s.decoded = <<>> /\ s.parsed = <<>>
        /\ s.over = "no" /\ s.left = 0
    BY <2>1
  <2>4. Muted(s, want)
    BY <2>1, <2>2, <2>3 DEF Muted
  <2> QED
    BY <1>1, <1>4, <2>4 DEF s
<1>6. ASSUME NEW k \in 1..n, k - 1 \in All PROVE k \in All
  <2> DEFINE g == h[k - 1]
             in == OpenIn(list[o[k]])
             packets == script[k]
  <2>1. Muted(g, want) /\ k \in 0..n
    BY <1>1, <1>6
  <2>2. h[k] = PlayFile(g, in, packets, FALSE) /\ PacketsOK(packets)
    BY <1>2, <1>4
  <2> HIDE DEF g, in, packets
  <2>3. Muted(PlayFile(g, in, packets, FALSE), want)
    BY <2>1, <2>2, FileMuted
  <2> QED
    BY <2>1, <2>2, <2>3
<1>7. n \in All
  <2>1. n \in 0..n
    BY <1>1
  <2> HIDE DEF All
  <2> QED
    BY <1>1, <1>5, <1>6, <2>1, Upwards
<1> QED
  BY <1>4, <1>7

-----------------------------------------------------------------------------
(* Played in any order, with any packets, on any output.                   *)
LEMMA WantedType ==
  ASSUME NEW want \in Wanted
  PROVE  want.enable \in BOOLEAN /\ (want.enable => Asked(want))
<1>1. want \in ConvertParam
      /\ (want.enable => want.codec \in {"aac", "mp3"} /\ want.channels \in {1, 2})
  BY FileConvertAssumption
<1> QED
  BY <1>1 DEF ConvertParam, Asked

(* A list that is taken, up to some file, and silence after it.            *)
LEMMA ListHeard ==
  ASSUME NEW list \in Lists, NEW want \in Wanted, NEW kind,
         Starts(list, want, kind),
         NEW f, NEW o \in Orders(f), NEW script \in Scripts[Len(o)]
  PROVE  LET s == Played(list, want, kind, o, script)
         IN /\ PlayedWell(s, want)
            /\ \A in \in createSlienceStreamIn(list) :
                 PlayedWell(PlaySilence(s, in, script[1]), want)
<1> DEFINE s == Played(list, want, kind, o, script)
<1>1. PacketsOK(script[1])
  BY OrderType, ScriptType
<1>2. CASE want \in Refused
  <2>1. Muted(s, want)
    BY <1>2, AllMuted
  <2>2. PlayedWell(s, want)
    BY <1>2, <2>1 DEF Muted, PlayedWell
  <2> HIDE DEF s
  <2>3. ASSUME NEW in \in createSlienceStreamIn(list)
        PROVE  PlayedWell(PlaySilence(s, in, script[1]), want)
    <3> DEFINE packets == script[1]
               t == PlaySilence(s, in, packets)
    <3>0. PacketsOK(packets)
      BY <1>1
    <3> HIDE DEF packets
    <3>1. Muted(t, want)
      <4>1. Muted(PlayFile(s, in, packets, TRUE), want)
        BY <1>2, <2>1, <3>0, FileMuted
      <4> QED
        BY <2>1, <4>1 DEF PlaySilence
    <3> HIDE DEF t
    <3>2. PlayedWell(t, want)
      BY <1>2, <3>1 DEF Muted, PlayedWell
    <3> QED
      BY <3>2 DEF t, packets
  <2> QED
    BY <2>2, <2>3 DEF s
<1>3. CASE want \notin Refused
  <2>0. want.enable => Asked(want)
    BY WantedType
  <2>1. Good(s, list, want, kind, 0)
    BY <1>3, <2>0, AllPlayed
  <2> HIDE DEF s
  <2>2. PlayedWell(s, want)
    BY <1>3, <2>1, GoodIsHeard
  <2>3. ASSUME NEW in \in createSlienceStreamIn(list)
        PROVE  PlayedWell(PlaySilence(s, in, script[1]), want)
    <3>1. PICK a \in Plays(list) : in = OpenIn(a)
      BY SilencePlays DEF Starts
    <3> DEFINE packets == script[1]
               t == PlaySilence(s, OpenIn(a), packets)
    <3>0. PacketsOK(packets)
      BY <1>1
    <3> HIDE DEF packets
    <3>2. Good(t, list, want, kind, 0)
      <4>1. Good(PlayFile(s, OpenIn(a), packets, TRUE), list, want, kind, 0)
        BY <1>3, <2>0, <2>1, <3>0, FilePlayed
      <4> QED
        BY <2>1, <4>1 DEF PlaySilence
    <3> HIDE DEF t
    <3>3. PlayedWell(t, want)
      BY <1>3, <3>2, GoodIsHeard
    <3> QED
      BY <3>1, <3>3 DEF t, packets
  <2> QED
    BY <2>2, <2>3 DEF s
<1> QED
  BY <1>2, <1>3

(* Each list the stream takes is heard up to each of its files, whatever   *)
(* of it was played before.                                                *)
THEOREM AllFilesHeard ==
  \A f \in Index, convert \in BOOLEAN : Heard[f][convert]
<1> SUFFICES ASSUME NEW f \in Index, NEW convert \in BOOLEAN
             PROVE  Heard[f][convert]
  OBVIOUS
<1> DEFINE Ends(x, o, script) ==
             LET s == Played(x[1], x[2], x[3], o, script)
             IN /\ PlayedWell(s, x[2])
                /\ \A in \in createSlienceStreamIn(x[1]) :
                     PlayedWell(PlaySilence(s, in, script[1]), x[2])
           All(g, c) == \A x \in Starting(c), o \in Orders(g) :
                          \A script \in Scripts[Len(o)] :
                            Ends(x, o, script)
<1>1. ASSUME NEW x \in Starting(convert), NEW o \in Orders(f),
             NEW script \in Scripts[Len(o)]
      PROVE  Ends(x, o, script)
  <2>1. x[1] \in Lists /\ x[2] \in Wanted /\ Starts(x[1], x[2], x[3])
    BY DEF Starting
  <2> QED
    BY <2>1, ListHeard
<1>2. Heard = [g \in Index |-> [c \in BOOLEAN |-> All(g, c)]]
  BY DEF Heard
<1> HIDE DEF Ends
<1>3. All(f, convert)
  BY <1>1
<1> HIDE DEF All
<1>4. Heard[f][convert] = All(f, convert)
  BY <1>2
<1> QED
  BY <1>3, <1>4

(* HeardAsPlayed: whatever the worker has played, in the order its clients *)
(* made it play, with or without the codec, and silence in a pause, and    *)
(* however often the pusher refused a frame, dropped it while it connected *)
(* or could not be opened: each frame handed to it is at its time, with    *)
(* the format that was told, no sample gets lost before it while the       *)
(* format stays, and every object is in the pool but those behind a frame  *)
(* that was given up.                                                      *)
THEOREM PlayedIsHeard == Spec => []HeardAsPlayed
<1>1. Init => JumpInv
  BY InitJumps
<1>2. JumpInv /\ [Next]_vars => JumpInv'
  BY JumpInvKept
<1>3. JumpInv => HeardAsPlayed
  <2> SUFFICES ASSUME JumpInv, wpc = "push"
               PROVE  Heard[opened[m_streamIn]][info.convert]
    BY DEF HeardAsPlayed
  <2>1. TypeOK /\ SlotInv
    BY DEF JumpInv
  <2>2. m_streamIn \in Input
    BY <2>1 DEF TypeOK, StreamOK, SlotInv, InFile
  <2>3. opened[m_streamIn] \in Index
    BY <2>1, <2>2 DEF TypeOK
  <2>4. info.convert \in BOOLEAN
    <3>1. info \in InfoType
      BY <2>1, FileStreamWorkerAssumption DEF TypeOK, StreamOK
    <3> QED
      BY <3>1 DEF InfoType
  <2> QED
    BY <2>3, <2>4, AllFilesHeard
<1> QED
  BY <1>1, <1>2, <1>3, PTL DEF Spec
=============================================================================
