---------------------------- MODULE MessageQueue ----------------------------
(***************************************************************************)
(* common/messageQueue.h: a queue guarded by m_msg_mux, with one condition *)
(* variable on which the callers of pop() wait.  A step is one critical    *)
(* section of the mutex, or one notification, which the code sends after   *)
(* the mutex is released.                                                  *)
(***************************************************************************)
EXTENDS Naturals, Sequences, FiniteSets

CONSTANTS
  Thread,      \* the callers
  Val,         \* what is queued
  MaxLen       \* bound: nothing is pushed on a queue that is this long

ASSUME MessageQueueAssumption ==
  /\ IsFiniteSet(Thread)
  /\ MaxLen \in Nat

VARIABLES
  m_msg,
  m_run,
  call,        \* the operation each thread is in
  asleep       \* the threads in the condition variable's wait set

queueVars == <<m_msg, m_run, call, asleep>>

Popping == {"pop", "timedPop", "timedOut"}

QueueTypeOK ==
  /\ m_msg \in Seq(Val)
  /\ m_run \in BOOLEAN
  /\ call \in [Thread -> Popping \cup {"none", "notifyOne", "notifyAll"}]
  /\ asleep \in SUBSET {t \in Thread : call[t] \in Popping}

QueueInit ==
  /\ m_msg = <<>>
  /\ m_run = TRUE
  /\ call = [t \in Thread |-> "none"]
  /\ asleep = {}

Enter(t, op) == call[t] = "none" /\ call' = [call EXCEPT ![t] = op]
Leave(t) == call' = [call EXCEPT ![t] = "none"]

(* push(): one message, one notification.                                  *)
PushBack(t, v) ==
  /\ Enter(t, "notifyOne")
  /\ m_msg' = Append(m_msg, v)
  /\ UNCHANGED <<m_run, asleep>>

(* Mutant: the notification is forgotten.                                  *)
NotifyOne_Skip(t) ==
  /\ call[t] = "notifyOne"
  /\ Leave(t)
  /\ UNCHANGED <<m_msg, m_run, asleep>>

NotifyOne(t) ==
  /\ call[t] = "notifyOne"
  /\ \/ asleep = {} /\ UNCHANGED asleep
     \/ \E u \in asleep : asleep' = asleep \ {u}
  /\ Leave(t)
  /\ UNCHANGED <<m_msg, m_run>>

(* pop(val) and pop(val, ms): wait until there is a message or stop() has  *)
(* been called; the one with a time limit stops waiting when it is over.   *)
Pop(t) == Enter(t, "pop") /\ UNCHANGED <<m_msg, m_run, asleep>>
TimedPop(t) == Enter(t, "timedPop") /\ UNCHANGED <<m_msg, m_run, asleep>>

Awake(t) == call[t] \in Popping /\ t \notin asleep

(* A message is taken whether or not the queue is stopped.                 *)
Take(t) ==
  /\ Awake(t)
  /\ m_msg # <<>>
  /\ m_msg' = Tail(m_msg)
  /\ Leave(t)
  /\ UNCHANGED <<m_run, asleep>>

(* Returns -1.                                                             *)
GiveUp(t) ==
  /\ Awake(t)
  /\ m_msg = <<>>
  /\ ~m_run \/ call[t] = "timedOut"
  /\ Leave(t)
  /\ UNCHANGED <<m_msg, m_run, asleep>>

Sleep(t) ==
  /\ Awake(t)
  /\ m_msg = <<>>
  /\ m_run
  /\ call[t] # "timedOut"
  /\ asleep' = asleep \cup {t}
  /\ UNCHANGED <<m_msg, m_run, call>>

(* A condition variable may wake a thread for no reason.                   *)
WakeSpuriously(t) ==
  /\ t \in asleep
  /\ asleep' = asleep \ {t}
  /\ UNCHANGED <<m_msg, m_run, call>>

TimeOut(t) ==
  /\ call[t] = "timedPop"
  /\ t \in asleep
  /\ call' = [call EXCEPT ![t] = "timedOut"]
  /\ asleep' = asleep \ {t}
  /\ UNCHANGED <<m_msg, m_run>>

(* stop() clears the queue, and wakes everyone after the mutex is          *)
(* released.                                                               *)
Stop(t) ==
  /\ Enter(t, "notifyAll")
  /\ m_run' = FALSE
  /\ m_msg' = <<>>
  /\ UNCHANGED asleep

(* Mutant: stop() wakes one waiter.                                        *)
NotifyAll_One(t) ==
  /\ call[t] = "notifyAll"
  /\ \/ asleep = {} /\ UNCHANGED asleep
     \/ \E u \in asleep : asleep' = asleep \ {u}
  /\ Leave(t)
  /\ UNCHANGED <<m_msg, m_run>>

NotifyAll(t) ==
  /\ call[t] = "notifyAll"
  /\ asleep' = {}
  /\ Leave(t)
  /\ UNCHANGED <<m_msg, m_run>>

Start(t) ==
  /\ call[t] = "none"
  /\ m_run' = TRUE
  /\ m_msg' = <<>>
  /\ UNCHANGED <<call, asleep>>

-----------------------------------------------------------------------------
(* The queue on its own: any thread may call anything at any time.         *)
Return(t) == Take(t) \/ GiveUp(t) \/ NotifyOne(t) \/ NotifyAll(t)

Call(t) ==
  \/ \E v \in Val : Len(m_msg) < MaxLen /\ PushBack(t, v)
  \/ Pop(t) \/ TimedPop(t) \/ Stop(t) \/ Start(t)

QueueNext ==
  \E t \in Thread :
    Call(t) \/ Return(t) \/ Sleep(t) \/ WakeSpuriously(t) \/ TimeOut(t)

QueueSpec == QueueInit /\ [][QueueNext]_queueVars

(* Threads run and get the mutex; the time limit of a pop is a point in    *)
(* time, which waking up before it does not put off.                       *)
QueueFairness ==
  \A t \in Thread :
    /\ WF_queueVars(Return(t) \/ Sleep(t))
    /\ SF_queueVars(TimeOut(t))

QueueFairSpec == QueueSpec /\ QueueFairness

-----------------------------------------------------------------------------
(* Properties.                                                             *)

(* While a thread sleeps in pop(), there are no more messages than there   *)
(* are threads up and about to take one, or to wake one: no message is     *)
(* left lying with a thread asleep.                                        *)
NoLostWakeup ==
  asleep # {} =>
    Len(m_msg) <= Cardinality({t \in Thread : Awake(t) \/ call[t] = "notifyOne"})

(* After stop() no thread sleeps on: the one that called it has yet to     *)
(* wake them all.                                                          *)
StopReachesSleepers ==
  ~m_run /\ asleep # {} => \E t \in Thread : call[t] = "notifyAll"

(* pop() blocks until stop() is called, and no longer, unless the queue is *)
(* started again in the meantime.                                          *)
StopEndsPop ==
  \A t \in Thread : call[t] = "pop" /\ ~m_run ~> call[t] = "none" \/ m_run
=============================================================================
