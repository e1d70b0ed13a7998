----------------------------- MODULE StreamMng -----------------------------
(***************************************************************************)
(* The life cycle of push streams: the manager StreamMng<T> with its       *)
(* collector thread, the stream objects T (FileStream or RealTimeStream)   *)
(* with their worker threads, and the HTTP threads that start and stop     *)
(* streams.  Sources: stream/streamMng.h, start/stop/svr of                *)
(* stream/fileStream.cpp and stream/realTimeStream.cpp, and the start and  *)
(* stop handlers of httpServer/.                                           *)
(*                                                                         *)
(* A step is what runs without another thread being able to interfere: one *)
(* critical section of m_streamLock, or the code between two accesses to   *)
(* m_stop, m_thread or m_info that another thread can see.  What a worker  *)
(* pushes while it loops is left to a module of its own; here the loop     *)
(* ends because of m_stop, or for a reason of its own.                     *)
(***************************************************************************)
EXTENDS Naturals, FiniteSets

CONSTANTS
  Id,           \* the stream ids the clients use
  Obj,          \* storage for stream objects; a destroyed object's is reused
  NoObj,        \* the empty shared_ptr
  Client,       \* threads of the HTTP server's pool
  Collector,    \* the manager's own thread, StreamMng::svr
  Kind,         \* T: "file" for FileStream, "realtime" for RealTimeStream
  Operations,   \* the requests the clients send, a subset of {"start", "stop"}
  ReleaseTime,  \* streamReleaseTime, in seconds
  Serial,       \* clients send the requests for one id one after the other
  Prompt,       \* a worker gets from its end to reportStop within ReleaseTime
  Shutdown      \* StreamMng::close may be called

ASSUME StreamMngAssumption ==
  /\ NoObj \notin Obj \cup Id
  /\ Collector \notin Client
  /\ Kind \in {"file", "realtime"}
  /\ Operations \subseteq {"start", "stop"}
  /\ ReleaseTime \in Nat \ {0}
  /\ {Serial, Prompt, Shutdown} \subseteq BOOLEAN

Thread == Client \cup {Collector}
MaxAge == ReleaseTime + 1      \* ages are not counted any further

VARIABLES
  \* The manager.
  streams,      \* m_streams: the object of each id, or NoObj
  todo,         \* ids the collector's loop has still to visit
  closing,      \* StreamMng::m_stop
  \* The HTTP threads and the collector.
  pc,           \* where the thread is
  req,          \* the request it works on; the collector's visit
  held,         \* the shared_ptr (for the collector, the reference) it holds
  fault,        \* "none", or what made the process undefined or terminate
  \* The stream objects.
  allocated,    \* the objects that exist
  name,         \* m_info.id(), the key of the map
  mStop,        \* m_stop
  report,       \* m_enableReportStop
  thread,       \* m_thread
  status,       \* m_info.status()
  age,          \* now - m_info.stopTime(), see below
  due,          \* the age is over ReleaseTime, by the collector's clock
  out,          \* m_streamOut is open
  wpc,          \* where svr() is
  \* History.
  idle,         \* seconds since the worker gave up pushing
  passed,       \* the threads that found m_stop unset in stop()
  sent          \* stop callbacks handed to the HTTP client

manager == <<streams, todo, closing>>
threads == <<pc, req, held, fault>>
members == <<allocated, name, mStop, report, thread, status, age, due, out, wpc>>
history == <<idle, passed, sent>>
objects == <<members, history>>
vars == <<manager, threads, objects>>

(***************************************************************************)
(* Ages are cut off at MaxAge: a stopTime that was never set is zero,      *)
(* hence long ago.  The collector reads the clock once for a pass, and due *)
(* compares that now with stopTime().                                      *)
(***************************************************************************)
NoReq == [op |-> "none", id |-> NoObj, report |-> TRUE]
Request ==
  {NoReq} \cup [op : {"start", "stop", "collect"}, id : Id, report : BOOLEAN]

ObjectsOK ==
  /\ allocated \in SUBSET Obj
  /\ name \in [Obj -> Id \cup {NoObj}]
  /\ mStop \in [Obj -> BOOLEAN]
  /\ report \in [Obj -> BOOLEAN]
  /\ thread \in [Obj -> {"none", "running", "exited", "joined"}]
  /\ status \in [Obj -> {"init", "running", "stopped"}]
  /\ age \in [Obj -> 0..MaxAge]
  /\ due \in [Obj -> BOOLEAN]
  /\ out \in [Obj -> BOOLEAN]
  /\ wpc \in [Obj -> {"none", "begin", "init", "loop", "end", "stamped",
                      "failed", "report", "failReport", "close", "failClose",
                      "done"}]
  /\ idle \in [Obj -> 0..MaxAge]
  /\ passed \in [Obj -> SUBSET Thread]
  /\ sent \in [Obj -> 0..1]

TypeOK ==
  /\ streams \in [Id -> Obj \cup {NoObj}]
  /\ todo \in SUBSET Id
  /\ closing \in BOOLEAN
  /\ pc \in [Thread -> {"idle", "get", "stop", "set", "join", "forget",
                        "create", "start", "spawn", "return", "sleep",
                        "scan", "erase", "exit", "closed"}]
  /\ req \in [Thread -> Request]
  /\ held \in [Thread -> Obj \cup {NoObj}]
  /\ fault \in {"none", "badJoin", "terminate"}
  /\ ObjectsOK

Init ==
  /\ streams = [i \in Id |-> NoObj]
  /\ todo = {}
  /\ closing = FALSE
  /\ pc = [t \in Thread |-> IF t = Collector THEN "sleep" ELSE "idle"]
  /\ req = [t \in Thread |-> NoReq]
  /\ held = [t \in Thread |-> NoObj]
  /\ fault = "none"
  /\ allocated = {}
  /\ name = [o \in Obj |-> NoObj]
  /\ mStop = [o \in Obj |-> Kind = "file"]
  /\ report = [o \in Obj |-> TRUE]
  /\ thread = [o \in Obj |-> "none"]
  /\ status = [o \in Obj |-> "init"]
  /\ age = [o \in Obj |-> MaxAge]
  /\ due = [o \in Obj |-> FALSE]
  /\ out = [o \in Obj |-> FALSE]
  /\ wpc = [o \in Obj |-> "none"]
  /\ idle = [o \in Obj |-> 0]
  /\ passed = [o \in Obj |-> {}]
  /\ sent = [o \in Obj |-> 0]

Goto(t, l) == pc' = [pc EXCEPT ![t] = l]

(* Mutant: the collector lets go of m_streamLock while it stops a stream.  *)
LockFree_Released == pc[Collector] \notin {"scan", "erase"}

(* m_streamLock is held by the collector for the whole of a pass; the      *)
(* critical sections of the other threads are single steps.                *)
LockFree == pc[Collector] \in {"sleep", "exit", "closed"}

Joinable(o) == thread[o] \in {"running", "exited"}

(* When the map becomes s and the held pointers h, the objects no          *)
(* shared_ptr refers to any longer are destroyed.                          *)
Unreferenced(s, h) ==
  {o \in allocated : (\A i \in Id : s[i] # o) /\ (\A t \in Thread : h[t] # o)}

(* The storage in S is as the constructor leaves it; o's key is i.         *)
Reset(f, S, v) == [o \in Obj |-> IF o \in S THEN v ELSE f[o]]

Construct(S, o, i) ==
  /\ name' = [p \in Obj |-> IF p = o THEN i
                            ELSE IF p \in S THEN NoObj ELSE name[p]]
  /\ mStop' = Reset(mStop, S, Kind = "file")
  /\ report' = Reset(report, S, TRUE)
  /\ thread' = Reset(thread, S, "none")
  /\ status' = Reset(status, S, "init")
  /\ age' = Reset(age, S, MaxAge)
  /\ due' = Reset(due, S, FALSE)
  /\ out' = Reset(out, S, FALSE)
  /\ wpc' = Reset(wpc, S, "none")
  /\ idle' = Reset(idle, S, 0)
  /\ passed' = Reset(passed, S, {})
  /\ sent' = Reset(sent, S, 0)

(* The map and the held pointers change; o, unless it is NoObj, is a new   *)
(* object.  Destroying a joinable std::thread terminates the process.      *)
Repoint(s, h, o, i) ==
  LET dead == Unreferenced(s, h)
  IN  /\ streams' = s
      /\ held' = h
      /\ fault' = IF \E p \in dead : Joinable(p) THEN "terminate" ELSE "none"
      /\ allocated' = (allocated \ dead) \cup ({o} \ {NoObj})
      /\ Construct(dead \cup {o}, o, i)

-----------------------------------------------------------------------------
(* HTTP threads: the tails of the start and stop handlers.                 *)

(* A request arrives: the parameters have been read and checked.           *)
Receive(t, op, i, rep) ==
  /\ pc[t] = "idle"
  /\ Serial => \A u \in Client : req[u].id # i
  /\ (op = "start") => ~rep
  /\ req' = [req EXCEPT ![t] = [op |-> op, id |-> i, report |-> rep]]
  /\ Goto(t, "get")
  /\ UNCHANGED <<manager, held, fault, objects>>

GetStream(t) ==
  /\ pc[t] = "get"
  /\ LockFree
  /\ held' = [held EXCEPT ![t] = streams[req[t].id]]
  /\ Goto(t, IF streams[req[t].id] # NoObj THEN "stop"
             ELSE IF req[t].op = "start" THEN "create" ELSE "return")
  /\ UNCHANGED <<manager, req, fault, objects>>

(* Where a thread goes on once stop() has returned.                        *)
AfterStop(t) ==
  CASE req[t].op = "start" -> "forget"
    [] req[t].op = "stop" -> "return"
    [] OTHER -> "erase"

(* What m_enableReportStop and m_stop are to stop(reportStop): the one is  *)
(* set in any case, then the other is read.                                *)
EnterStop(t) ==
  /\ pc[t] = "stop"
  /\ report' = [report EXCEPT ![held[t]] = req[t].report]
  /\ passed' = IF mStop[held[t]] THEN passed
               ELSE [passed EXCEPT ![held[t]] = @ \cup {t}]
  /\ UNCHANGED <<manager, req, held, fault, allocated, name, mStop, thread,
                 status, age, due, out, wpc, idle, sent>>

(* Mutant: stop() does not test m_stop.                                    *)
StopTest_NoTest(t) == EnterStop(t) /\ Goto(t, "set")

(* Setting m_stop and joining the worker are steps of their own.           *)
StopTest(t) ==
  EnterStop(t) /\ Goto(t, IF mStop[held[t]] THEN AfterStop(t) ELSE "set")

SetStop(t) ==
  /\ pc[t] = "set"
  /\ mStop' = [mStop EXCEPT ![held[t]] = TRUE]
  /\ UNCHANGED <<manager, req, held, fault, allocated, name, report, thread,
                 status, age, due, out, wpc, history>>

StopSet(t) == SetStop(t) /\ Goto(t, "join")

(* m_thread.join(): returns when svr() has returned.  Joining a thread     *)
(* that was never started or that another caller has joined throws         *)
(* (nothing in the collector would catch that), and is undefined when both *)
(* callers are inside join.                                                *)
StopJoin(t) ==
  /\ pc[t] = "join"
  /\ \/ /\ thread[held[t]] = "exited"
        /\ thread' = [thread EXCEPT ![held[t]] = "joined"]
        /\ Goto(t, AfterStop(t))
        /\ UNCHANGED fault
     \/ /\ thread[held[t]] \in {"none", "joined"}
        /\ fault' = "badJoin"
        /\ UNCHANGED <<thread, pc>>
  /\ UNCHANGED <<manager, req, held, allocated, name, mStop, report, status,
                 age, due, out, wpc, history>>

(* The start handler lets go of the old object (ps = NULL).                *)
Forget(t) ==
  /\ pc[t] = "forget"
  /\ Repoint(streams, [held EXCEPT ![t] = NoObj], NoObj, NoObj)
  /\ Goto(t, "create")
  /\ UNCHANGED <<req, todo, closing>>

(* The new object goes into the map whether or not the entry still is the  *)
(* one that was stopped.                                                   *)
CreateStream(t) ==
  /\ pc[t] = "create"
  /\ LockFree
  /\ \E o \in Obj \ allocated :
       Repoint([streams EXCEPT ![req[t].id] = o], [held EXCEPT ![t] = o],
               o, req[t].id)
  /\ Goto(t, "start")
  /\ UNCHANGED <<req, todo, closing>>

(* FileStream::start refuses an empty file list and leaves the object      *)
(* behind as it is; otherwise m_stop is cleared before the thread exists.  *)
StartRefused(t) ==
  /\ pc[t] = "start"
  /\ Kind = "file"
  /\ Goto(t, "return")
  /\ UNCHANGED <<manager, req, held, fault, objects>>

StartClear(t) ==
  /\ pc[t] = "start"
  /\ mStop' = [mStop EXCEPT ![held[t]] = FALSE]
  /\ Goto(t, "spawn")
  /\ UNCHANGED <<manager, req, held, fault, allocated, name, report, thread,
                 status, age, due, out, wpc, history>>

StartSpawn(t) ==
  /\ pc[t] = "spawn"
  /\ thread' = [thread EXCEPT ![held[t]] = "running"]
  /\ wpc' = [wpc EXCEPT ![held[t]] = "begin"]
  /\ Goto(t, "return")
  /\ UNCHANGED <<manager, req, held, fault, allocated, name, mStop, report,
                 status, age, due, out, history>>

(* The response is sent and the handler's shared_ptr goes out of scope.    *)
Respond(t) ==
  /\ pc[t] = "return"
  /\ Repoint(streams, [held EXCEPT ![t] = NoObj], NoObj, NoObj)
  /\ req' = [req EXCEPT ![t] = NoReq]
  /\ Goto(t, "idle")
  /\ UNCHANGED <<todo, closing>>

-----------------------------------------------------------------------------
(* Worker threads: svr() of FileStream and RealTimeStream.                 *)

Advance(o, from, to) ==
  /\ thread[o] = "running"
  /\ wpc[o] = from
  /\ wpc' = [wpc EXCEPT ![o] = to]
  /\ UNCHANGED <<manager, threads, allocated, name, mStop, report, idle, passed>>

SvrBegin(o) ==
  /\ Advance(o, "begin", "init")
  /\ status' = [status EXCEPT ![o] = "running"]
  /\ UNCHANGED <<thread, age, due, out, sent>>

SvrInitOk(o) ==
  /\ Advance(o, "init", "loop")
  /\ out' = [out EXCEPT ![o] = TRUE]
  /\ UNCHANGED <<thread, status, age, due, sent>>

(* FileStream leaves through its common end; no output is open then.       *)
(* RealTimeStream returns early, by a path that does not set stopTime; the *)
(* output stays open there when it is a codec that failed.                 *)
SvrInitFail(o) ==
  /\ \/ Kind = "file" /\ Advance(o, "init", "end") /\ UNCHANGED out
     \/ /\ Kind = "realtime"
        /\ Advance(o, "init", "failed")
        /\ \E codec \in BOOLEAN : out' = [out EXCEPT ![o] = codec]
  /\ UNCHANGED <<thread, status, age, due, sent>>

(* Mutant: the loop does not look at m_stop.                               *)
SvrStop_Deaf(o) == FALSE /\ UNCHANGED vars

(* The loop ends when m_stop is seen, or because the files, the duration   *)
(* or the connection are at an end.                                        *)
SvrStop(o) ==
  /\ mStop[o]
  /\ Advance(o, "loop", "end")
  /\ UNCHANGED <<thread, status, age, due, out, sent>>

SvrFinish(o) ==
  /\ Advance(o, "loop", "end")
  /\ UNCHANGED <<thread, status, age, due, out, sent>>

(* Mutant: the stop time is not recorded.                                  *)
SvrStamp_None(o) ==
  /\ Advance(o, "end", "stamped")
  /\ UNCHANGED <<thread, status, age, due, out, sent>>

SvrStamp(o) ==
  /\ Advance(o, "end", "stamped")
  /\ age' = [age EXCEPT ![o] = 0]
  /\ due' = [due EXCEPT ![o] = FALSE]
  /\ UNCHANGED <<thread, status, out, sent>>

SvrStopped(o) ==
  /\ Advance(o, "stamped", "report") \/ Advance(o, "failed", "failReport")
  /\ status' = [status EXCEPT ![o] = "stopped"]
  /\ UNCHANGED <<thread, age, due, out, sent>>

(* Mutant: reportStop() does not ask m_enableReportStop.                   *)
SvrReport_Always(o) ==
  /\ Advance(o, "report", "close") \/ Advance(o, "failReport", "failClose")
  /\ sent' = [sent EXCEPT ![o] = 1]
  /\ UNCHANGED <<thread, status, age, due, out>>

(* reportStop(): the callback is created if m_enableReportStop still is    *)
(* set now.  The client asked for stop callbacks when it started the       *)
(* stream (enableStopCb), or nothing is ever sent.                         *)
SvrReport(o) ==
  /\ Advance(o, "report", "close") \/ Advance(o, "failReport", "failClose")
  /\ sent' = [sent EXCEPT ![o] = IF report[o] THEN 1 ELSE @]
  /\ UNCHANGED <<thread, status, age, due, out>>

(* The streams are closed and deleted, and svr() returns; the early return *)
(* of RealTimeStream closes nothing here.                                  *)
SvrClose(o) ==
  /\ \/ Advance(o, "close", "done") /\ out' = [out EXCEPT ![o] = FALSE]
     \/ Advance(o, "failClose", "done") /\ UNCHANGED out
  /\ thread' = [thread EXCEPT ![o] = "exited"]
  /\ UNCHANGED <<status, age, due, sent>>

-----------------------------------------------------------------------------
(* The collector: StreamMng::svr.                                          *)

Expired(o) == status[o] = "stopped" /\ due[o]

SetDue(S) ==
  /\ due' = [o \in Obj |-> o \in S]
  /\ UNCHANGED <<allocated, name, mStop, report, thread, status, age, out, wpc,
                 history>>

(* The clock is read and the lock taken; the pass goes over the whole map. *)
CollectBegin ==
  /\ pc[Collector] = "sleep"
  /\ todo' = {i \in Id : streams[i] # NoObj}
  /\ SetDue({o \in allocated : age[o] > ReleaseTime})
  /\ Goto(Collector, "scan")
  /\ UNCHANGED <<streams, closing, req, held, fault>>

CollectVisit(i) ==
  /\ pc[Collector] = "scan"
  /\ i \in todo
  /\ IF Expired(streams[i])
       THEN /\ held' = [held EXCEPT ![Collector] = streams[i]]
            /\ req' = [req EXCEPT ![Collector] =
                         [op |-> "collect", id |-> i, report |-> TRUE]]
            /\ Goto(Collector, "stop")
            /\ UNCHANGED todo
       ELSE /\ todo' = todo \ {i}
            /\ UNCHANGED <<held, req, pc>>
  /\ UNCHANGED <<streams, closing, fault, objects>>

CollectErase ==
  /\ pc[Collector] = "erase"
  /\ Repoint([streams EXCEPT ![req[Collector].id] = NoObj],
             [held EXCEPT ![Collector] = NoObj], NoObj, NoObj)
  /\ todo' = todo \ {req[Collector].id}
  /\ req' = [req EXCEPT ![Collector] = NoReq]
  /\ Goto(Collector, "scan")
  /\ UNCHANGED closing

PassOver ==
  /\ pc[Collector] = "scan"
  /\ todo = {}
  /\ SetDue({})
  /\ UNCHANGED <<manager, req, held, fault>>

CollectEnd == PassOver /\ Goto(Collector, IF closing THEN "exit" ELSE "sleep")

(* close(): m_stop is set, the collector finishes a last pass and is       *)
(* joined, and the map is cleared; no stream is stopped.                   *)
CloseBegin ==
  /\ Shutdown
  /\ ~closing
  /\ closing' = TRUE
  /\ UNCHANGED <<streams, todo, threads, objects>>

CloseClear ==
  /\ pc[Collector] = "exit"
  /\ Repoint([i \in Id |-> NoObj], held, NoObj, NoObj)
  /\ Goto(Collector, "closed")
  /\ UNCHANGED <<req, todo, closing>>

(* A second passes.  Under Prompt a worker between its end and reportStop  *)
(* is not held up for as long as ReleaseTime: nothing blocks there.        *)
Older(a) == IF a < MaxAge THEN a + 1 ELSE a

Ended == {"end", "stamped", "failed", "report", "failReport", "close",
          "failClose", "done"}

Tick ==
  /\ Prompt => \A o \in allocated :
       wpc[o] \in {"end", "stamped", "failed", "report", "failReport"}
         => idle[o] < ReleaseTime
  /\ age' = [o \in Obj |-> IF o \in allocated THEN Older(age[o]) ELSE age[o]]
  /\ idle' = [o \in Obj |-> IF o \in allocated /\ wpc[o] \in Ended
                              THEN Older(idle[o]) ELSE idle[o]]
  /\ UNCHANGED <<manager, threads, allocated, name, mStop, report, thread,
                 status, due, out, wpc, passed, sent>>

-----------------------------------------------------------------------------
LockStep(t) == GetStream(t) \/ CreateStream(t)

StopStep(t) == StopTest(t) \/ StopSet(t) \/ StopJoin(t)

ClientStep(t) ==
  \/ LockStep(t) \/ StopStep(t) \/ Forget(t) \/ StartRefused(t)
  \/ StartClear(t) \/ StartSpawn(t) \/ Respond(t)

CollectorStep ==
  \/ CollectBegin \/ (\E i \in Id : CollectVisit(i)) \/ CollectErase
  \/ CollectEnd \/ StopStep(Collector) \/ CloseClear

WorkerStep(o) ==
  \/ SvrBegin(o) \/ SvrInitOk(o) \/ SvrInitFail(o) \/ SvrStop(o)
  \/ SvrFinish(o) \/ SvrStamp(o) \/ SvrStopped(o) \/ SvrReport(o)
  \/ SvrClose(o)

Running ==
  \/ \E t \in Client, op \in Operations, i \in Id, rep \in BOOLEAN :
       Receive(t, op, i, rep)
  \/ \E t \in Client : ClientStep(t)
  \/ \E o \in Obj : WorkerStep(o)
  \/ CollectorStep
  \/ CloseBegin
  \/ Tick

(* After a fault nothing more is said of the process.                      *)
Halted == fault # "none" /\ UNCHANGED vars

Next == (fault = "none" /\ Running) \/ Halted

Spec == Init /\ [][Next]_vars

(* Fairness: every thread is scheduled, the network calls of a worker      *)
(* return (they have timeouts), and time passes.  The collector sleeps a   *)
(* whole second without m_streamLock between two passes, so a thread that  *)
(* wants the lock gets it: strong fairness.  SvrFinish has none, a stream  *)
(* may play forever, and so may a client send nothing.                     *)
Alive(A) == fault = "none" /\ A

Fairness ==
  /\ \A t \in Client :
       /\ SF_vars(Alive(LockStep(t)))
       /\ WF_vars(Alive(StopStep(t)))
       /\ WF_vars(Alive(Forget(t) \/ StartClear(t) \/ StartSpawn(t)
                          \/ Respond(t)))
  /\ \A o \in Obj :
       /\ WF_vars(Alive(SvrBegin(o) \/ SvrInitOk(o) \/ SvrInitFail(o)))
       /\ WF_vars(Alive(SvrStop(o)))
       /\ WF_vars(Alive(SvrStamp(o) \/ SvrStopped(o) \/ SvrReport(o)
                          \/ SvrClose(o)))
  /\ WF_vars(Alive(CollectorStep))
  /\ WF_vars(Alive(Tick))

FairSpec == Spec /\ Fairness

-----------------------------------------------------------------------------
(* Properties.                                                             *)

(* A stream object whose worker is alive or whose output is open.          *)
Active(o) == o \in allocated /\ (thread[o] = "running" \/ out[o])

(* When a client sends the requests for a stream id one after the other,   *)
(* at most one stream of an id is active at any time: a start that         *)
(* replaces a stream does not push to the url before the old worker has    *)
(* let go of it, the collector notwithstanding.                            *)
ExclusivePush ==
  \A o, p \in Obj :
    Active(o) /\ Active(p) /\ name[o] = name[p] => o = p

(* With such clients the only thing that can go wrong with the threads is  *)
(* that a stop() and the collector's stop() of the same stream both get    *)
(* past the test of m_stop before either sets it, and both join.  No       *)
(* stream is destroyed with its worker unjoined, until close() clears the  *)
(* map.                                                                    *)
FaultOnlyByStopRace ==
  /\ fault = "terminate" => pc[Collector] = "closed"
  /\ fault = "badJoin" => \E o \in Obj : Cardinality(passed[o]) > 1

(* A stopped stream stays in the map, where clients can query it, for more *)
(* than streamReleaseTime seconds after its worker gave up.                *)
KeptForReleaseTime ==
  [][\A i \in Id :
       streams[i] # NoObj /\ streams'[i] = NoObj /\ ~closing
         => idle[streams[i]] > ReleaseTime]_vars

(* What KeptForReleaseTime rests on, for FileStream: a client at work has  *)
(* a request, the collector works on an entry of the map that is due, a    *)
(* client starts an object nobody has started, and a worker has been idle  *)
(* for at least as long as its stopTime tells.                             *)
ClientsHaveRequests ==
  \A t \in Client :
    /\ pc[t] \in {"idle", "get", "stop", "set", "join", "forget", "create",
                  "start", "spawn", "return"}
    /\ pc[t] # "idle" => req[t].id \in Id /\ req[t].op \in {"start", "stop"}

Collecting == pc[Collector] \in {"stop", "set", "join", "erase"}

CollectsOnlyDue ==
  /\ pc[Collector] \in {"sleep", "scan", "exit", "closed"} \/ Collecting
  /\ pc[Collector] \in {"exit", "closed"} => closing
  /\ \A i \in todo : pc[Collector] \notin {"sleep", "exit", "closed"}
                       /\ streams[i] # NoObj
  /\ Collecting =>
       /\ req[Collector].op = "collect"
       /\ req[Collector].id \in Id
       /\ held[Collector] = streams[req[Collector].id]
       /\ held[Collector] \in Obj
       /\ idle[held[Collector]] > ReleaseTime

IdleSinceStopTime ==
  \A o \in Obj :
    /\ status[o] = "stopped" => wpc[o] \in {"report", "close", "done"}
    /\ wpc[o] \in {"stamped", "report", "close", "done"} =>
         /\ idle[o] >= age[o]
         /\ due[o] => idle[o] > ReleaseTime
    /\ wpc[o] \notin {"failed", "failReport", "failClose"}

Starting(t) == t \in Client /\ pc[t] \in {"start", "spawn"}

StartsFresh ==
  \A t \in Client : Starting(t) =>
    /\ held[t] \in allocated
    /\ wpc[held[t]] = "none"
    /\ status[held[t]] = "init"
    /\ \A u \in Client \ {t} : Starting(u) => held[u] # held[t]

RetentionInv ==
  /\ TypeOK
  /\ ClientsHaveRequests
  /\ CollectsOnlyDue
  /\ StartsFresh
  /\ IdleSinceStopTime

(* What ExclusivePush, FaultOnlyByStopRace and StopIsFinal rest on, for      *)
(* clients that serialise: no two of them work on one id.                  *)
OneAtATime ==
  \A t, u \in Client : req[t].id \in Id /\ req[t].id = req[u].id => t = u

(* The pointers: a thread holds what its request is about, and nothing in  *)
(* between; every object is in the map or held; a client and the map never *)
(* point to two objects of one id.                                         *)
HoldsItsOwn ==
  /\ \A t \in Thread : held[t] # NoObj =>
       held[t] \in allocated /\ name[held[t]] = req[t].id
  /\ \A t \in Client :
       /\ pc[t] \in {"idle", "get", "create"} => held[t] = NoObj
       /\ pc[t] \in {"stop", "set", "join", "forget", "start", "spawn"}
            => held[t] # NoObj
       /\ held[t] # NoObj /\ streams[req[t].id] # NoObj
            => held[t] = streams[req[t].id]

NoneLeftOver ==
  /\ \A i \in Id : streams[i] # NoObj =>
       streams[i] \in allocated /\ name[streams[i]] = i
  /\ \A o \in allocated :
       (\E i \in Id : streams[i] = o) \/ (\E t \in Thread : held[t] = o)

(* The collector holds a stream of the map that has stopped.               *)
CollectsStopped ==
  /\ pc[Collector] \in {"sleep", "scan", "exit", "closed"} \/ Collecting
  /\ \A i \in todo : (pc[Collector] = "scan" \/ Collecting)
                       /\ streams[i] # NoObj
  /\ ~Collecting => held[Collector] = NoObj
  /\ Collecting =>
       /\ req[Collector].op = "collect" /\ req[Collector].id \in Id
       /\ held[Collector] = streams[req[Collector].id]
       /\ held[Collector] \in Obj
       /\ status[held[Collector]] = "stopped"

StoppedLate ==
  \A o \in Obj : status[o] = "stopped" =>
    wpc[o] \in {"report", "failReport", "close", "failClose", "done"}

(* The threads of the objects: m_stop is set before a worker is joined, an *)
(* object is erased or let go of; a stopped worker that is not joined has  *)
(* somebody in join(); nobody stops an object that never started.          *)
StopsFirst ==
  /\ \A t \in Thread : pc[t] \in {"join", "forget", "erase"} => mStop[held[t]]
  /\ \A t \in Client :
       /\ pc[t] = "create" /\ streams[req[t].id] # NoObj
            => mStop[streams[req[t].id]]
       /\ pc[Collector] # "closed" /\ held[t] # NoObj
            /\ streams[req[t].id] # held[t] => mStop[held[t]] /\ ~Starting(t)

JoinerPresent ==
  \A o \in allocated : mStop[o] /\ Joinable(o) =>
    \E t \in Thread : pc[t] = "join" /\ held[t] = o

StartsOnce ==
  /\ \A t \in Client :
       /\ Starting(t) => thread[held[t]] = "none"
       /\ pc[t] = "start" /\ Kind = "file" => mStop[held[t]]
       /\ pc[t] = "spawn" => ~mStop[held[t]]
  /\ \A o \in allocated : thread[o] = "none" /\ ~mStop[o] =>
       \E t \in Client : Starting(t) /\ held[t] = o

(* Who is past the test of m_stop has been counted, and so has the one who *)
(* joined.                                                                 *)
Past(t, o) == pc[t] \in {"set", "join"} /\ held[t] = o

RaceCounted ==
  /\ \A o \in Obj : IsFiniteSet(passed[o])
  /\ \A t \in Thread : pc[t] \in {"set", "join"} =>
       t \in passed[held[t]] /\ thread[held[t]] # "none"
  /\ \A o \in allocated : thread[o] = "joined" =>
       mStop[o] /\ \E t \in passed[o] : ~Past(t, o)

ExclusionInv ==
  /\ TypeOK /\ ClientsHaveRequests
  /\ OneAtATime
  /\ HoldsItsOwn
  /\ NoneLeftOver
  /\ CollectsStopped
  /\ StoppedLate
  /\ StartsFresh
  /\ StopsFirst
  /\ JoinerPresent
  /\ StartsOnce
  /\ RaceCounted
  /\ FaultOnlyByStopRace

(* What makes a stop final for FileStream: a worker that has not ended is  *)
(* not idle and a prompt one is not idle for long before reportStop, so    *)
(* the collector does not ask for the report of one that has been told to  *)
(* be silent; only a start starts.                                         *)
IdleSinceEnd ==
  \A o \in Obj :
    /\ wpc[o] \notin Ended => idle[o] = 0
    /\ wpc[o] \in {"end", "stamped", "report"} => idle[o] <= ReleaseTime

StaysSilent ==
  \A t \in Client :
    /\ pc[t] \in {"set", "join"} /\ ~req[t].report =>
         ~report[held[t]] \/ wpc[held[t]] \in {"close", "done"}
    /\ pc[t] \in {"forget", "create", "start", "spawn"} => req[t].op = "start"

SilenceInv == ExclusionInv /\ RetentionInv /\ IdleSinceEnd /\ StaysSilent

(* A stop is final: when stop() has returned 0 the stream is not pushing    *)
(* any more, and no stop callback is sent while a stop(false) waits for the *)
(* worker, so a client that asks for silence gets it (FileStream::stop,     *)
(* reportStop).                                                             *)
StopIsFinal ==
  [][\A t \in Client :
       /\ pc[t] = "join" /\ ~req[t].report
            => sent'[held[t]] = sent[held[t]]
       /\ pc[t] # "return" /\ pc'[t] = "return" /\ req[t].op = "stop"
            /\ held[t] # NoObj
            => ~(thread'[held[t]] = "running"
                   /\ status'[held[t]] # "stopped")]_vars

(* Every request is answered.                                              *)
RequestAnswered ==
  \A t \in Client : pc[t] # "idle" ~> pc[t] = "idle" \/ fault # "none"
=============================================================================
