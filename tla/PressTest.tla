----------------------------- MODULE PressTest -----------------------------
(***************************************************************************)
(* The load generator: a dialog whose buttons start and stop a test, the   *)
(* worker thread that creates the clients of a test in batches and deletes *)
(* them, and for each client its sender threads, its timer and its exam    *)
(* timer at the reactor (CMy80PressTestDlg, ThreadWorker, CUdpClient).     *)
(*                                                                         *)
(* The dialog's flags, the counts and g_flag are shared without a lock.    *)
(* Undefined behaviour is recorded in fault and ends a run.  The contents  *)
(* of the messages and the rows of the list are left out, and so are the   *)
(* answers of the server: they set numbers nothing reads.                  *)
(***************************************************************************)
EXTENDS MemoryPool, FiniteSets

CONSTANTS
  Examination, Normal,   \* serial numbers of a client: EXAMINATION, NORMAL
  Senders,               \* sender threads of a client: 4
  Share,                 \* serial numbers of each: 40
  Sizes,                 \* numbers the user asks for
  Knowing,               \* clients whose reactor() is set by their timer
  Patient,               \* start is pressed when the last test is over
  MaxStarts,             \* bound: the button start is pressed so often
  MaxClients,            \* bound: clients created
  MaxCount               \* bound: counts go no further from 0

ASSUME PressTestAssumption ==
  /\ {Examination, Normal} \subseteq Nat \ {0, 1}
  /\ {Senders, Share, initBlockCount, growBlockcount} \subseteq Nat \ {0}
  /\ {MaxStarts, MaxClients, MaxCount} \subseteq Nat
  /\ Sizes \subseteq Nat
  /\ Patient \in BOOLEAN

Client == 1..MaxClients
Worker == 1..MaxStarts
Sender == 1..Senders
None == 0

VARIABLES
  \* The dialog; user: "idle", "thread" (OnBnClickedStart after GetInfo), or
  \* how the window was closed, "exit" or "close".  info is what clients read
  \* of m_info.
  m_status, m_exit, m_testing, m_Thread, info, g_sn, user,
  \* Workers: where they are, their size, count and mode, the client at hand,
  \* and the pool as Alloc found it.
  wpc, size, batches, exam, cur, found,
  m_clientlist,
  client,            \* see ClientType
  sender,            \* of each client and kind: where the thread is
  count,             \* count, count1 .. of each kind of sender
  g_flag,
  blocks,            \* the memory pool
  fault,
  \* History.
  starts,
  crowd              \* a client was created while there was another

dialog == <<m_status, m_exit, m_testing, m_Thread, info, g_sn, user>>
worker == <<wpc, size, batches, exam, cur, found>>
clients == <<m_clientlist, client, sender>>
globals == <<count, g_flag, blocks>>
history == <<starts, crowd>>
vars == <<dialog, worker, clients, globals, fault, history>>

ClientType ==
  [state : {"none", "live", "deleted"},
   unit : Seq(Nat),         \* its place in the pool
   first : Nat, n : Nat,    \* m_idlist: n numbers from first + 1
   listed : BOOLEAN,        \* m_network and m_snlist are set
   exit : BOOLEAN,          \* m_exit
   start : BOOLEAN,         \* m_start
   timer : BOOLEAN,         \* m_hTimerQueueTimer
   beating : BOOLEAN,       \* TimerRoutine is being executed
   scheduled : BOOLEAN]     \* the reactor calls handle_timeout

TypeOK ==
  /\ {m_status, m_exit, m_testing, g_flag} \subseteq BOOLEAN
  /\ m_Thread \in Worker \cup {None}
  /\ info \in [size : Sizes \cup {0, -1}, exam : BOOLEAN]
  /\ g_sn \in Nat
  /\ user \in {"idle", "thread", "exit", "close"}
  /\ wpc \in [Worker -> {"none", "read", "loop", "batch", "alloc", "init",
                         "request", "timers", "push", "drain", "close",
                         "join", "timer", "free", "rows", "spin", "end"}]
  /\ size \in [Worker -> Int] /\ batches \in [Worker -> Int]
  /\ cur \in [Worker -> Client \cup {None}]
  /\ m_clientlist \in Seq(Client)
  /\ client \in [Client -> ClientType]
  /\ sender \in [Client -> [Sender -> {"none", "check", "send", "end"}]]
  /\ count \in [Sender -> -MaxCount..MaxCount]
  /\ fault \in {"none", "range", "deleted", "timer"}

Init ==
  /\ m_status = FALSE /\ m_exit = FALSE /\ m_testing = FALSE
  /\ m_Thread = None
  /\ info = [size |-> 0, exam |-> FALSE]
  /\ g_sn = 0
  /\ user = "idle"
  /\ wpc = [w \in Worker |-> "none"]
  /\ size = [w \in Worker |-> 0]
  /\ batches = [w \in Worker |-> 0]
  /\ exam = [w \in Worker |-> FALSE]
  /\ cur = [w \in Worker |-> None]
  /\ found = [w \in Worker |-> <<>>]
  /\ m_clientlist = <<>>
  /\ client = [c \in Client |->
                 [state |-> "none", unit |-> <<>>, first |-> 0, n |-> 0,
                  listed |-> FALSE, exit |-> FALSE, start |-> FALSE,
                  timer |-> FALSE, beating |-> FALSE, scheduled |-> FALSE]]
  /\ sender = [c \in Client |-> [k \in Sender |-> "none"]]
  /\ count = [k \in Sender |-> 0]
  /\ g_flag = FALSE
  /\ blocks = <<>>
  /\ fault = "none"
  /\ starts = 0 /\ crowd = FALSE

Running == fault = "none" /\ user \in {"idle", "thread"}
Ended(w) == wpc[w] \in {"none", "end"}
Live == {c \in Client : client[c].state = "live"}
-----------------------------------------------------------------------------
(* The dialog's thread.                                                    *)

(* What the user has typed in; a size of 0 and a heartbeat of 0 are        *)
(* refused after they have been written down.                              *)
GetInfo ==
  \E n \in Sizes, e, heart \in BOOLEAN :
    LET ok == n > 0 /\ heart
    IN  /\ info' = [size |-> n, exam |-> e]
        /\ g_sn' = 0
        /\ m_status' = (ok \/ m_status)
        /\ user' = IF ok THEN "thread" ELSE "idle"

(* OnBnClickedStart up to the end of GetInfo.                              *)
Start ==
  /\ Running
  /\ user = "idle"
  /\ starts < MaxStarts
  /\ Patient => \A w \in Worker : Ended(w)
  /\ ~(m_testing /\ m_exit)
  /\ GetInfo
  /\ starts' = starts + 1
  /\ UNCHANGED <<m_exit, m_testing, m_Thread, worker, clients, globals, fault,
                 crowd>>

(* The rest of it.                                                         *)
StartThread ==
  /\ Running
  /\ user = "thread"
  /\ user' = "idle"
  /\ IF m_Thread # None
       THEN UNCHANGED <<m_Thread, m_testing, wpc>>
       ELSE /\ m_Thread' = starts
            /\ m_testing' = TRUE
            /\ wpc' = [wpc EXCEPT ![starts] = "read"]
  /\ UNCHANGED <<m_status, m_exit, info, g_sn, size, batches, exam, cur, found,
                 clients, globals, fault, history>>

Close ==
  /\ m_testing' = FALSE
  /\ m_status' = FALSE
  /\ m_exit' = TRUE
  /\ m_Thread' = None

(* OnBnClickedStop2.                                                       *)
Stop ==
  /\ Running
  /\ user = "idle"
  /\ m_testing
  /\ Close
  /\ UNCHANGED <<info, g_sn, user, worker, clients, globals, fault, history>>

(* The window closes: the destructor closes the dialog, and the process    *)
(* ends.                                                                   *)
CloseWindow(how) ==
  /\ Running
  /\ user = "idle"
  /\ user' = how
  /\ Close
  /\ UNCHANGED <<info, g_sn, worker, clients, globals, fault, history>>

(* OnBnClickedExit.                                                        *)
Exit == ~m_testing /\ ~m_exit /\ CloseWindow("exit")

(* SC_CLOSE of the system's menu, which OnSysCommand hands on: whatever    *)
(* runs is left, and what it does until the process is gone is left out.   *)
OnSysCommand == CloseWindow("close")
-----------------------------------------------------------------------------
(* ThreadWorker.                                                           *)

Go(w, from, to) ==
  /\ Running
  /\ wpc[w] = from
  /\ wpc' = [wpc EXCEPT ![w] = to]

ReadSize(w) ==
  /\ Go(w, "read", "loop")
  /\ size' = [size EXCEPT ![w] = info.size]
  /\ UNCHANGED <<dialog, batches, exam, cur, found, clients, globals, fault,
                 history>>

BatchSize(w) == IF exam[w] THEN Examination ELSE Normal

(* The number of batches; division rounds towards 0.                       *)
Count(n, b) ==
  IF n % b = 0 THEN n \div b
  ELSE 1 + (IF n >= 0 THEN n \div b ELSE -((-n) \div b))

Begin(w) ==
  /\ m_status
  /\ Go(w, "loop", "batch")
  /\ exam' = [exam EXCEPT ![w] = info.exam]
  /\ batches' = [batches EXCEPT ![w] = Count(size[w], BatchSize(w)')]
  /\ UNCHANGED <<dialog, size, cur, found, clients, globals, fault, history>>

(* All batches done: the flag is taken back, whoever has set it.           *)
Begun(w) ==
  /\ batches[w] = 0
  /\ Go(w, "batch", "loop")
  /\ m_status' = FALSE
  /\ UNCHANGED <<m_exit, m_testing, m_Thread, info, g_sn, user, size, batches,
                 exam, cur, found, clients, globals, fault, history>>

(* CUdpClient::operator new; Alloc takes no lock, and another worker may   *)
(* read the pool before this one has written it.                           *)
NewRead(w) ==
  /\ batches[w] # 0
  /\ Go(w, "batch", "alloc")
  /\ batches' = [batches EXCEPT ![w] = @ - 1]
  /\ found' = [found EXCEPT ![w] = blocks]
  /\ UNCHANGED <<dialog, size, exam, cur, clients, globals, fault, history>>

(* The serial numbers of the next client, and what is left of the size: a  *)
(* last batch that is not full counts it down to -1 first.                 *)
Mantissa(n, b) == IF n < b THEN n ELSE b
Rest(n, b) == (IF n < b THEN -1 ELSE n) - b

(* The constructor starts the senders; the rows of the list count g_sn.    *)
(* A negative size, which a worker that ends leaves in m_info and a second *)
(* start in another mode leads to, makes that loop endless.                *)
New(w) ==
  LET n == Mantissa(size[w], BatchSize(w))
      c == Cardinality({d \in Client : client[d].state # "none"}) + 1
      alloc == Alloc(found[w])
  IN  /\ c \in Client
      /\ Go(w, "alloc", IF size[w] < 0 THEN "spin" ELSE "init")
      /\ found' = [found EXCEPT ![w] = <<>>]
      /\ blocks' = alloc.blocks
      /\ client' = [client EXCEPT ![c].state = "live", ![c].unit = alloc.unit,
                                  ![c].first = g_sn,
                                  ![c].n = IF n > 0 THEN n ELSE 0]
      /\ sender' = [sender EXCEPT ![c] = [k \in Sender |-> "check"]]
      /\ cur' = [cur EXCEPT ![w] = c]
      /\ g_sn' = IF n > 0 THEN g_sn + n ELSE g_sn
      /\ size' = [size EXCEPT ![w] = Rest(@, BatchSize(w))]
      /\ crowd' = (crowd \/ Live # {})
      /\ UNCHANGED <<m_status, m_exit, m_testing, m_Thread, info, user,
                     batches,
                     exam, m_clientlist, count, g_flag, fault, starts>>

SetClient(w, c) ==
  /\ client' = [client EXCEPT ![cur[w]] = c]
  /\ UNCHANGED <<dialog, size, batches, exam, cur, found, m_clientlist, sender,
                 globals, fault, history>>

(* CUdpClient::Init: the network and the serial numbers.                   *)
InitList(w) ==
  /\ Go(w, "init", "request")
  /\ SetClient(w, [client[cur[w]] EXCEPT !.listed = TRUE])

(* Whether a message is sent: not without a network, and it may fail.      *)
sendto(c) == IF client[c].listed THEN BOOLEAN ELSE {FALSE}

(* Each terminal asks for its stream; if a request cannot be sent, the     *)
(* client gets no timers.                                                  *)
InitRequest(w) ==
  /\ wpc[w] = "request"
  /\ \E sent \in sendto(cur[w]) :
       Go(w, "request", IF sent THEN "timers" ELSE "push")
  /\ UNCHANGED <<dialog, size, batches, exam, cur, found, clients, globals,
                 fault, history>>

register_timer_handler(c) == [c EXCEPT !.scheduled = TRUE]

(* An ACE_WFMO_Reactor used without its ACE_Reactor may not have made      *)
(* itself known to the handler: then the timer is not cancelled.           *)
remove_timer_handler(c) ==
  IF c \in Knowing THEN [client[c] EXCEPT !.scheduled = FALSE] ELSE client[c]

(* StartTimer, which may fail, and the exam timer.                         *)
InitTimers(w) ==
  /\ Go(w, "timers", "push")
  /\ \E created \in BOOLEAN :
       LET started == [client[cur[w]] EXCEPT !.timer = created]
       IN  SetClient(w, IF info.exam THEN register_timer_handler(started)
                        ELSE started)

Push(w) ==
  /\ Go(w, "push", "batch")
  /\ m_clientlist' = Append(m_clientlist, cur[w])
  /\ cur' = [cur EXCEPT ![w] = None]
  /\ UNCHANGED <<dialog, size, batches, exam, found, client, sender, globals,
                 fault, history>>

(* m_exit is looked at when m_status is not set.                           *)
BeginDrain(w) ==
  /\ ~m_status
  /\ m_exit
  /\ Go(w, "loop", "drain")
  /\ UNCHANGED <<dialog, size, batches, exam, cur, found, clients, globals,
                 fault, history>>

Drain(w) ==
  /\ m_clientlist # <<>>
  /\ Go(w, "drain", "close")
  /\ cur' = [cur EXCEPT ![w] = Head(m_clientlist)]
  /\ UNCHANGED <<dialog, size, batches, exam, found, clients, globals, fault,
                 history>>

(* A step of CUdpClient::Close, in which the client must still be there.   *)
CloseStep(w, from, to) ==
  /\ Go(w, from, to)
  /\ fault' = IF client[cur[w]].state = "live" THEN fault ELSE "deleted"
  /\ UNCHANGED <<dialog, size, batches, exam, found, count, history>>

(* Mutant: the senders are not told to end.                                *)
CloseStart_NoFlag(w) ==
  /\ CloseStep(w, "close", "join")
  /\ client' = [client EXCEPT ![cur[w]].exit = TRUE]
  /\ UNCHANGED <<cur, m_clientlist, sender, g_flag, blocks>>

(* Each terminal says that it stops; the flag ends all senders there are.  *)
CloseStart(w) ==
  /\ CloseStep(w, "close", "join")
  /\ client' = [client EXCEPT ![cur[w]].exit = TRUE]
  /\ g_flag' = TRUE
  /\ UNCHANGED <<cur, m_clientlist, sender, blocks>>

(* Mutant: the senders are left alone.                                     *)
CloseJoin_Skip(w) ==
  /\ CloseStep(w, "join", "timer")
  /\ UNCHANGED <<cur, clients, g_flag, blocks>>

CloseJoin(w) ==
  /\ CloseStep(w, "join", "timer")
  /\ \A k \in Sender : sender[cur[w]][k] = "end"
  /\ UNCHANGED <<cur, clients, g_flag, blocks>>

(* DeleteTimerQueueTimer waits for a TimerRoutine that is being executed.  *)
CloseTimer(w) ==
  /\ CloseStep(w, "timer", "free")
  /\ ~client[cur[w]].beating
  /\ client' = [client EXCEPT ![cur[w]].timer = FALSE]
  /\ UNCHANGED <<cur, m_clientlist, sender, g_flag, blocks>>

(* The reactor lets go of the client if it is known to it, its memory goes *)
(* back to the pool and its pointer leaves the queue.                      *)
Delete(w) ==
  /\ CloseStep(w, "free", "drain")
  /\ client' = [client EXCEPT ![cur[w]] =
                   [remove_timer_handler(cur[w]) EXCEPT !.state = "deleted",
                                                        !.start = FALSE]]
  /\ blocks' = FreeAlloc(blocks, client[cur[w]].unit)
  /\ m_clientlist' = IF m_clientlist = <<>> THEN <<>> ELSE Tail(m_clientlist)
  /\ cur' = [cur EXCEPT ![w] = None]
  /\ UNCHANGED <<sender, g_flag>>

(* The rows are marked as closed, which leaves -1 in the size; from -1 the *)
(* loop counts through all numbers.                                        *)
Finish(w) ==
  /\ m_clientlist = <<>>
  /\ Go(w, "drain", IF info.size < 0 THEN "spin" ELSE "end")
  /\ info' = [info EXCEPT !.size = -1]
  /\ m_exit' = (info.size < 0 /\ m_exit)
  /\ UNCHANGED <<m_status, m_testing, m_Thread, g_sn, user, size, batches,
                 exam,
                 cur, found, clients, globals, fault, history>>
-----------------------------------------------------------------------------
(* Timers and senders.                                                     *)

(* TimerRoutine: a heartbeat for each terminal, then m_start.  It does not *)
(* look at m_exit again.                                                   *)
Beat(c) ==
  /\ Running
  /\ client[c].timer /\ ~client[c].beating
  /\ ~client[c].exit
  /\ client' = [client EXCEPT ![c].beating = TRUE]
  /\ UNCHANGED <<dialog, worker, m_clientlist, sender, globals, fault,
                 history>>

Beaten(c) ==
  /\ Running
  /\ client[c].beating
  /\ client' = [client EXCEPT ![c].beating = FALSE, ![c].start = TRUE]
  /\ UNCHANGED <<dialog, worker, m_clientlist, sender, globals, fault,
                 history>>

(* handle_timeout: a tick of the exam timer is handed to one sender of     *)
(* each kind; the timer ends with the client's m_exit.  A timer that was   *)
(* not cancelled calls a client that is no more.                           *)
Tick(c) ==
  /\ Running
  /\ client[c].scheduled
  /\ ~client[c].exit /\ client[c].start
  /\ \A k \in Sender : count[k] < MaxCount
  /\ count' = [k \in Sender |-> count[k] + 1]
  /\ UNCHANGED <<dialog, worker, clients, g_flag, blocks, fault, history>>

TickEnds(c) ==
  /\ Running
  /\ client[c].scheduled
  /\ client[c].exit
  /\ client' = [client EXCEPT ![c].scheduled = FALSE]
  /\ fault' = IF client[c].state = "live" THEN fault ELSE "timer"
  /\ UNCHANGED <<dialog, worker, m_clientlist, sender, globals, history>>

SetSender(c, k, from, to) ==
  /\ Running
  /\ sender[c][k] = from
  /\ sender' = [sender EXCEPT ![c][k] = to]
  /\ UNCHANGED <<dialog, worker, m_clientlist, client, g_flag, blocks,
                 history>>

(* SendHartPacket .. SendHartPacket3: the count is looked at, ...          *)
Look(c, k) ==
  /\ ~g_flag
  /\ count[k] # 0
  /\ SetSender(c, k, "check", "send")
  /\ UNCHANGED <<count, fault>>

(* Mutant: the tick is taken twice.                                        *)
Send_Twice(c, k) ==
  /\ SetSender(c, k, "send", "check")
  /\ count' = [count EXCEPT ![k] = IF @ > 1 - MaxCount THEN @ - 2 ELSE @]
  /\ fault' = IF client[c].listed /\ client[c].n >= k * Share
              THEN fault ELSE "range"

(* ... the messages for the thread's share of the serial numbers are sent, *)
(* and only then the tick is taken off the count.                          *)
Send(c, k) ==
  /\ SetSender(c, k, "send", "check")
  /\ count' = [count EXCEPT ![k] = IF @ > -MaxCount THEN @ - 1 ELSE @]
  /\ fault' = IF client[c].listed /\ client[c].n >= k * Share
              THEN fault ELSE "range"

SenderEnds(c, k) ==
  /\ g_flag
  /\ SetSender(c, k, "check", "end")
  /\ UNCHANGED <<count, fault>>
-----------------------------------------------------------------------------
User == Start \/ StartThread \/ Stop \/ Exit \/ OnSysCommand

Work(w) ==
  \/ ReadSize(w) \/ Begin(w) \/ Begun(w) \/ NewRead(w) \/ New(w)
  \/ InitList(w) \/ InitRequest(w) \/ InitTimers(w) \/ Push(w)
  \/ BeginDrain(w) \/ Drain(w) \/ CloseStart(w) \/ CloseJoin(w)
  \/ CloseTimer(w) \/ Delete(w) \/ Finish(w)

(* The system's timer queue, and a thread of the reactor.                  *)
TimerQueue(c) == Beat(c) \/ Beaten(c)
Reactor(c) == Tick(c) \/ TickEnds(c)

SendHartPacket(c, k) == Look(c, k) \/ Send(c, k) \/ SenderEnds(c, k)

Next ==
  \/ User
  \/ \E w \in Worker : Work(w)
  \/ \E c \in Client : TimerQueue(c) \/ Reactor(c)
  \/ \E c \in Client, k \in Sender : SendHartPacket(c, k)

(* Threads run; OnBnClickedStart does not stop half way, and a             *)
(* TimerRoutine comes to its end.                                          *)
Spec ==
  /\ Init /\ [][Next]_vars
  /\ WF_vars(StartThread)
  /\ \A w \in Worker : WF_vars(Work(w))
  /\ \A c \in Client : WF_vars(Beaten(c))
  /\ \A c \in Client, k \in Sender : WF_vars(SendHartPacket(c, k))
-----------------------------------------------------------------------------
(* A client is deleted as a whole: no thread and no timer of it outlives   *)
(* it, but for the exam timer of a client that does not know its reactor.  *)
(* When the exit button closes the window every client has been deleted    *)
(* and every worker has ended, so the flags it looks at say what it wants  *)
(* to know (Close, ThreadWorker, OnBnClickedExit).  The system's menu      *)
(* looks at no flag: of a window it closes nothing is said.                *)
EndsCleanly ==
  /\ \A c \in Client :
       client[c].state = "deleted" =>
         /\ ~client[c].timer /\ ~client[c].beating
         /\ client[c].scheduled => c \notin Knowing
         /\ \A k \in Sender : sender[c][k] = "end"
  /\ user = "exit" =>
       /\ Live = {}
       /\ m_clientlist = <<>>
       /\ \A w \in Worker : Ended(w)

(* What clients share without a lock does no harm while there is one at a  *)
(* time: no count falls below 0, after which its senders would send        *)
(* without end, no worker closes a client that is deleted, and with enough *)
(* serial numbers for all senders none is read that is not there.  (An     *)
(* exam timer that was not cancelled is another matter.)  Two clients      *)
(* never share memory or serial numbers.                                   *)
AloneIsSafe ==
  /\ ~crowd =>
       /\ \A k \in Sender : count[k] >= 0
       /\ fault # "deleted"
       /\ fault = "range" =>
            \E c \in Client : client[c].n \in 1..Senders * Share - 1
  /\ \A c, d \in Live :
       c # d => /\ client[c].unit # client[d].unit
                /\ \/ client[c].first + client[c].n <= client[d].first
                   \/ client[d].first + client[d].n <= client[c].first

(* A test that is stopped ends: its clients are deleted, and the dialog    *)
(* can be used again.                                                      *)
StopEndsTest == m_exit ~> (~m_exit \/ ~Running)
=============================================================================
