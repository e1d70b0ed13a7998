----------------------------- MODULE HttpClient -----------------------------
(***************************************************************************)
(* httpClient/HttpClient.cpp: the callbacks of the streams are queued by   *)
(* the streams' threads and sent by a thread of the client's own.  Two     *)
(* such clients exist, one for progress and one for stop callbacks; this   *)
(* is either of them, from HttpClientManage::open to the end of close.     *)
(***************************************************************************)
EXTENDS Naturals, Sequences, FiniteSets

CONSTANTS
  Producer,     \* the threads that report something
  Worker,       \* the client's thread
  MaxMsgSize,   \* MAXMSGSIZE
  MaxSubmit,    \* bound: callbacks of one producer
  NoMsg,
  Shutdown      \* close() may be called

ASSUME HttpClientAssumption ==
  /\ IsFiniteSet(Producer)
  /\ Worker \notin Producer
  /\ MaxMsgSize \in Nat \ {0}
  /\ MaxSubmit \in Nat
  /\ Shutdown \in BOOLEAN

Msg == Producer \X (1..MaxSubmit)

VARIABLES
  m_msg, m_run, call, asleep,     \* m_msgQue
  m_runing,
  phase,        \* of the client: "none", "created", "open", "closing", "closed"
  ppc,          \* where each producer is in push()
  count,        \* callbacks it has created; the last is the one it pushes
  wpc,          \* where the worker is in threadfunc()
  sending,      \* the request it has taken from the queue
  sent          \* history: the requests that reached their url

queue == <<m_msg, m_run, call, asleep>>
producers == <<ppc, count>>
worker == <<wpc, sending, sent>>
vars == <<queue, m_runing, phase, producers, worker>>

INSTANCE MessageQueue WITH
  Thread <- Producer \cup {Worker}, Val <- Msg,
  MaxLen <- MaxMsgSize + Cardinality(Producer)

TypeOK ==
  /\ QueueTypeOK
  /\ m_runing \in BOOLEAN
  /\ phase \in {"none", "created", "open", "closing", "closed"}
  /\ ppc \in [Producer -> {"idle", "size", "discard", "push", "notify"}]
  /\ count \in [Producer -> 0..MaxSubmit]
  /\ wpc \in {"none", "test", "pop", "send", "exit"}
  /\ sending \in Msg \cup {NoMsg}
  /\ sent \in Seq(Msg)

Init ==
  /\ QueueInit
  /\ m_runing = FALSE
  /\ phase = "none"
  /\ ppc = [p \in Producer |-> "idle"]
  /\ count = [p \in Producer |-> 0]
  /\ wpc = "none"
  /\ sending = NoMsg
  /\ sent = <<>>

-----------------------------------------------------------------------------
(* Producers: Module_Interface::sendStream... and HttpClient::push.        *)

(* The request is created; while there is no client it goes no further.    *)
Create(p) ==
  /\ phase # "closed"
  /\ ppc[p] = "idle"
  /\ count[p] < MaxSubmit
  /\ count' = [count EXCEPT ![p] = @ + 1]
  /\ ppc' = [ppc EXCEPT ![p] = IF phase = "none" THEN "idle" ELSE "size"]
  /\ UNCHANGED <<queue, m_runing, phase, worker>>

(* Mutant: one too many is let in.                                         *)
CheckSize_Above(p) ==
  /\ ppc[p] = "size"
  /\ \/ Len(m_msg) > MaxMsgSize /\ Pop(p) /\ ppc' = [ppc EXCEPT ![p] = "discard"]
     \/ Len(m_msg) <= MaxMsgSize /\ UNCHANGED queue
          /\ ppc' = [ppc EXCEPT ![p] = "push"]
  /\ UNCHANGED <<m_runing, phase, count, worker>>

(* size() is asked in a critical section of its own; when the queue is     *)
(* full the oldest message is popped, by the pop() without a time limit.   *)
CheckSize(p) ==
  /\ ppc[p] = "size"
  /\ \/ Len(m_msg) >= MaxMsgSize /\ Pop(p) /\ ppc' = [ppc EXCEPT ![p] = "discard"]
     \/ Len(m_msg) < MaxMsgSize /\ UNCHANGED queue
          /\ ppc' = [ppc EXCEPT ![p] = "push"]
  /\ UNCHANGED <<m_runing, phase, count, worker>>

Discard(p) ==
  /\ ppc[p] = "discard"
  /\ \/ Take(p) /\ ppc' = [ppc EXCEPT ![p] = "push"]
     \/ (Sleep(p) \/ WakeSpuriously(p)) /\ UNCHANGED ppc
  /\ UNCHANGED <<m_runing, phase, count, worker>>

Push(p) ==
  /\ ppc[p] = "push"
  /\ PushBack(p, <<p, count[p]>>)
  /\ ppc' = [ppc EXCEPT ![p] = "notify"]
  /\ UNCHANGED <<m_runing, phase, count, worker>>

Notify(p) ==
  /\ ppc[p] = "notify"
  /\ NotifyOne(p)
  /\ ppc' = [ppc EXCEPT ![p] = "idle"]
  /\ UNCHANGED <<m_runing, phase, count, worker>>

-----------------------------------------------------------------------------
(* The worker: HttpClient::threadfunc.                                     *)

TestRuning ==
  /\ wpc = "test"
  /\ IF m_runing THEN TimedPop(Worker) /\ wpc' = "pop"
                 ELSE UNCHANGED queue /\ wpc' = "exit"
  /\ UNCHANGED <<m_runing, phase, producers, sending, sent>>

WorkerPop ==
  /\ wpc = "pop"
  /\ \/ Take(Worker) /\ sending' = Head(m_msg) /\ wpc' = "send"
     \/ Sleep(Worker) /\ UNCHANGED <<sending, wpc>>
     \/ WakeSpuriously(Worker) /\ UNCHANGED <<sending, wpc>>
  /\ UNCHANGED <<m_runing, phase, producers, sent>>

WorkerTimeOut ==
  /\ wpc = "pop"
  /\ TimeOut(Worker)
  /\ UNCHANGED <<m_runing, phase, producers, worker>>

(* Mutant: the worker ends when there is nothing to send.                  *)
WorkerNothing_Break ==
  /\ wpc = "pop"
  /\ GiveUp(Worker)
  /\ wpc' = "exit"
  /\ UNCHANGED <<m_runing, phase, producers, sending, sent>>

WorkerNothing ==
  /\ wpc = "pop"
  /\ GiveUp(Worker)
  /\ wpc' = "test"
  /\ UNCHANGED <<m_runing, phase, producers, sending, sent>>

(* HttpRequest::action: the request reaches its url once, or does not,     *)
(* since it cannot be connected for 5 s or takes more than 10 s; a         *)
(* redirection is followed, and nothing is tried again.                    *)
action(reached, request) == {reached, Append(reached, request)}

(* Mutant: a request that was sent is sent again.                          *)
Send_Again ==
  /\ wpc = "send"
  /\ sent' = Append(sent, sending)
  /\ Len(sent) < MaxSubmit * Cardinality(Producer)
  /\ UNCHANGED <<queue, m_runing, phase, producers, wpc, sending>>

(* What the request comes to is not looked at, and it is destroyed.        *)
Send ==
  /\ wpc = "send"
  /\ sent' \in action(sent, sending)
  /\ sending' = NoMsg
  /\ wpc' = "test"
  /\ UNCHANGED <<queue, m_runing, phase, producers>>

-----------------------------------------------------------------------------
(* HttpClientManage::open and close.  After close() has joined the worker  *)
(* the client is deleted with what is left in its queue; whether a push is *)
(* under way then is not looked at, and what it does is undefined.         *)
NewClient ==
  /\ phase = "none"
  /\ phase' = "created"
  /\ UNCHANGED <<queue, m_runing, producers, worker>>

Open ==
  /\ phase = "created"
  /\ phase' = "open"
  /\ m_runing' = TRUE
  /\ wpc' = "test"
  /\ UNCHANGED <<queue, producers, sending, sent>>

Close ==
  /\ Shutdown
  /\ phase = "open"
  /\ phase' = "closing"
  /\ m_runing' = FALSE
  /\ UNCHANGED <<queue, producers, worker>>

Joined ==
  /\ phase = "closing"
  /\ wpc = "exit"
  /\ phase' = "closed"
  /\ UNCHANGED <<queue, m_runing, producers, worker>>

-----------------------------------------------------------------------------
PushStep(p) == CheckSize(p) \/ Discard(p) \/ Push(p) \/ Notify(p)

WorkerStep == TestRuning \/ WorkerPop \/ WorkerNothing \/ Send

Next ==
  \/ \E p \in Producer : Create(p) \/ (phase # "closed" /\ PushStep(p))
  \/ WorkerStep \/ WorkerTimeOut
  \/ NewClient \/ Open \/ Close \/ Joined

Spec == Init /\ [][Next]_vars

(* Every thread runs; a request ends after 10 s at the latest (CURLOPT_    *)
(* TIMEOUT), a pop with a time limit after 3 s.                            *)
FairSpec ==
  /\ Spec
  /\ \A p \in Producer : WF_vars(PushStep(p) /\ phase # "closed")
  /\ WF_vars(WorkerStep)
  /\ SF_vars(WorkerTimeOut)
  /\ WF_vars(Open)
  /\ WF_vars(Joined)

-----------------------------------------------------------------------------
(* Properties.                                                             *)

(* The size is checked and the message pushed in two critical sections:    *)
(* each producer can put one message on top of a queue that was not full.  *)
OverrunByProducersOnly == Len(m_msg) < MaxMsgSize + Cardinality(Producer)

(* Callbacks are delivered in order and at most once, with producers that  *)
(* discard the oldest message and a worker that sends it at the same time. *)
(* What waits is the request that is being sent, then the queue.           *)
Held == IF wpc = "send" THEN <<sending>> ELSE <<>>
Waiting == Held \o m_msg

Channel == INSTANCE CallbackChannel WITH pending <- Waiting, delivered <- sent

ImplementsChannel == Channel!Spec

(* No callback stays in the queue for ever while the client is open.       *)
Queued(m) == \E i \in DOMAIN m_msg : m_msg[i] = m

CallbackLeaves ==
  \A m \in Msg :
    phase = "open" /\ Queued(m) ~> phase # "open" \/ ~Queued(m)
=============================================================================
