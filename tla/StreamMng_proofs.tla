-------------------------- MODULE StreamMng_proofs --------------------------
(* Theorems about StreamMng, for any number of streams, objects and        *)
(* clients: types, and that a stopped FileStream can be queried for        *)
(* streamReleaseTime seconds, whatever the clients do; for clients that    *)
(* serialise, that one stream of an id pushes, that nothing but the race   *)
(* of two stop() or close() is a fault, and that a stop is final.          *)
EXTENDS StreamMng, FiniteSetTheorems, TLAPS

USE StreamMngAssumption

(* A second older is still an age.                                         *)
LEMMA OlderType == \A a \in 0..MaxAge : Older(a) \in 0..MaxAge /\ Older(a) >= a
BY DEF Older, MaxAge

(* Destroying and creating objects keeps their members' types.             *)
LEMMA RepointType ==
  ASSUME TypeOK, NEW s \in [Id -> Obj \cup {NoObj}],
         NEW h \in [Thread -> Obj \cup {NoObj}], NEW o \in Obj \cup {NoObj},
         NEW i \in Id \cup {NoObj}, Repoint(s, h, o, i)
  PROVE  /\ ObjectsOK'
         /\ streams' = s /\ held' = h
         /\ fault' \in {"none", "badJoin", "terminate"}
<1> DEFINE S == Unreferenced(s, h) \cup {o}
<1>1. Construct(S, o, i)
    BY DEF Repoint
<1>2. MaxAge \in 0..MaxAge /\ 0 \in 0..MaxAge
    BY DEF MaxAge
<1>3. allocated' \in SUBSET Obj
    BY DEF Repoint, Unreferenced, TypeOK, ObjectsOK
<1> HIDE DEF S
<1>4. mStop' \in [Obj -> BOOLEAN]
    <2>1. (Kind = "file") \in BOOLEAN
        OBVIOUS
    <2> QED
        BY <1>1, <2>1 DEF Construct, Reset, TypeOK, ObjectsOK
<1>5. name' \in [Obj -> Id \cup {NoObj}]
    BY <1>1 DEF Construct, TypeOK, ObjectsOK
<1>6. passed' \in [Obj -> SUBSET Thread]
    BY <1>1 DEF Construct, Reset, TypeOK, ObjectsOK
<1>7. /\ report' \in [Obj -> BOOLEAN]
      /\ due' \in [Obj -> BOOLEAN]
      /\ out' \in [Obj -> BOOLEAN]
    BY <1>1 DEF Construct, Reset, TypeOK, ObjectsOK
<1>8. /\ age' \in [Obj -> 0..MaxAge]
      /\ idle' \in [Obj -> 0..MaxAge]
      /\ sent' \in [Obj -> 0..1]
    BY <1>1, <1>2 DEF Construct, Reset, TypeOK, ObjectsOK
<1>9. /\ thread' \in [Obj -> {"none", "running", "exited", "joined"}]
      /\ status' \in [Obj -> {"init", "running", "stopped"}]
      /\ wpc' \in [Obj -> {"none", "begin", "init", "loop", "end", "stamped",
                          "failed", "report", "failReport", "close",
                          "failClose", "done"}]
    BY <1>1 DEF Construct, Reset, TypeOK, ObjectsOK
<1>10. /\ streams' = s /\ held' = h
       /\ fault' \in {"none", "badJoin", "terminate"}
    BY DEF Repoint
<1> QED
    BY <1>3, <1>4, <1>5, <1>6, <1>7, <1>8, <1>9, <1>10 DEF ObjectsOK

(* The collector's marks are a set of objects.                             *)
LEMMA DueType == \A S : [o \in Obj |-> o \in S] \in [Obj -> BOOLEAN]
<1> SUFFICES ASSUME NEW S, NEW o \in Obj PROVE (o \in S) \in BOOLEAN
    OBVIOUS
<1> QED
    OBVIOUS

(* What a request carries for m_enableReportStop is a truth value.         *)
LEMMA ReportType == \A r \in Request : r.report \in BOOLEAN
<1> SUFFICES ASSUME NEW r \in Request PROVE r.report \in BOOLEAN
    OBVIOUS
<1>1. CASE r = NoReq
    <2>1. r.report = TRUE
        BY <1>1 DEF NoReq
    <2> QED
        BY <2>1
<1>2. CASE r \in [op : {"start", "stop", "collect"}, id : Id, report : BOOLEAN]
    BY <1>2
<1> QED
    BY <1>1, <1>2 DEF Request

(* The program starts in the invariant.                                    *)
LEMMA InitInv == Init => RetentionInv
<1> SUFFICES ASSUME Init PROVE RetentionInv
    OBVIOUS
<1>1. TypeOK
    <2>1. mStop \in [Obj -> BOOLEAN]
        <3>1. (Kind = "file") \in BOOLEAN
            OBVIOUS
        <3> QED
            BY <3>1 DEF Init
    <2>2. ObjectsOK
        BY <2>1 DEF Init, ObjectsOK, MaxAge
    <2> QED
        BY <2>2 DEF Init, TypeOK, Request, NoReq, Thread
<1>2. ClientsHaveRequests
    BY DEF Init, ClientsHaveRequests, Thread
<1>3. CollectsOnlyDue
    BY DEF Init, CollectsOnlyDue, Collecting, Thread
<1>4. StartsFresh
    BY DEF Init, StartsFresh, Starting, Thread
<1>5. IdleSinceStopTime
    BY DEF Init, IdleSinceStopTime
<1> QED BY <1>1, <1>2, <1>3, <1>4, <1>5 DEF RetentionInv

(* Types are kept as long as a client at work has a request.               *)
TypeInv == TypeOK /\ ClientsHaveRequests

(* The steps of an HTTP thread keep the types.                             *)
LEMMA ClientTypes ==
  ASSUME TypeInv, NEW t \in Client, ClientStep(t)
  PROVE  TypeInv'
<1> USE DEF TypeInv, TypeOK, ObjectsOK, ClientsHaveRequests, Thread, Goto,
            manager, objects, members, history
<1>0. /\ t \in Thread /\ t # Collector
      /\ pc[t] # "idle" => req[t].id \in Id /\ req[t].op \in {"start", "stop"}
      /\ req[t].report \in BOOLEAN
    BY ReportType
<1>1. CASE GetStream(t)
    BY <1>0, <1>1 DEF GetStream
<1>2. CASE CreateStream(t)
    <2>1. PICK o \in Obj :
            Repoint([streams EXCEPT ![req[t].id] = o], [held EXCEPT ![t] = o],
                    o, req[t].id)
        BY <1>2 DEF CreateStream
    <2>2. /\ ObjectsOK'
          /\ streams' = [streams EXCEPT ![req[t].id] = o]
          /\ held' = [held EXCEPT ![t] = o]
          /\ fault' \in {"none", "badJoin", "terminate"}
        BY <1>0, <1>2, <2>1, RepointType DEF CreateStream
    <2> QED
        BY <1>0, <1>2, <2>2 DEF CreateStream
<1>3. CASE StopTest(t)
    BY <1>0, <1>3 DEF StopTest, EnterStop, AfterStop
<1>4. CASE StopSet(t)
    BY <1>0, <1>4 DEF StopSet, SetStop
<1>5. CASE StopJoin(t)
    BY <1>0, <1>5 DEF StopJoin, AfterStop
<1>6. CASE StartRefused(t)
    BY <1>0, <1>6 DEF StartRefused
<1>7. CASE StartClear(t)
    BY <1>0, <1>7 DEF StartClear
<1>8. CASE StartSpawn(t)
    BY <1>0, <1>8 DEF StartSpawn
<1>9. CASE Respond(t)
    <2>1. /\ ObjectsOK'
          /\ streams' = streams
          /\ held' = [held EXCEPT ![t] = NoObj]
          /\ fault' \in {"none", "badJoin", "terminate"}
        BY <1>0, <1>9, RepointType DEF Respond
    <2> QED
        BY <1>0, <1>9, <2>1 DEF Respond, Request
<1>10. CASE Forget(t)
    <2>1. /\ ObjectsOK'
          /\ streams' = streams
          /\ held' = [held EXCEPT ![t] = NoObj]
          /\ fault' \in {"none", "badJoin", "terminate"}
        BY <1>0, <1>10, RepointType DEF Forget
    <2> QED
        BY <1>0, <1>10, <2>1 DEF Forget
<1> QED
    BY <1>1, <1>2, <1>3, <1>4, <1>5, <1>6, <1>7, <1>8, <1>9, <1>10
    DEF ClientStep, LockStep, StopStep

(* So do the steps of a worker.                                            *)
LEMMA WorkerTypes ==
  ASSUME TypeInv, NEW o \in Obj, WorkerStep(o)
  PROVE  TypeInv'
<1> USE DEF TypeInv, TypeOK, ObjectsOK, ClientsHaveRequests, Advance, manager,
            threads
<1>0. 0 \in 0..MaxAge
    BY DEF MaxAge
<1>1. CASE SvrBegin(o)
    BY <1>1 DEF SvrBegin
<1>2. CASE SvrInitOk(o)
    BY <1>2 DEF SvrInitOk
<1>3. CASE SvrInitFail(o)
    BY <1>3 DEF SvrInitFail
<1>4. CASE SvrStop(o)
    BY <1>4 DEF SvrStop
<1>5. CASE SvrFinish(o)
    BY <1>5 DEF SvrFinish
<1>6. CASE SvrStamp(o)
    BY <1>0, <1>6 DEF SvrStamp
<1>7. CASE SvrStopped(o)
    BY <1>7 DEF SvrStopped
<1>8. CASE SvrReport(o)
    BY <1>8 DEF SvrReport
<1>9. CASE SvrClose(o)
    BY <1>9 DEF SvrClose
<1> QED
    BY <1>1, <1>2, <1>3, <1>4, <1>5, <1>6, <1>7, <1>8, <1>9 DEF WorkerStep

(* So do those of the collector.                                           *)
LEMMA CollectorTypes ==
  ASSUME TypeInv, CollectorStep
  PROVE  TypeInv'
<1> USE DEF TypeInv, TypeOK, ObjectsOK, ClientsHaveRequests, Thread, Goto,
            manager, objects, members, history
<1>0. /\ Collector \in Thread /\ Collector \notin Client
      /\ req[Collector].report \in BOOLEAN
    BY ReportType
<1>1. CASE CollectBegin
    <2>1. due' \in [Obj -> BOOLEAN]
        BY <1>1, DueType DEF CollectBegin, SetDue
    <2>2. todo' \in SUBSET Id
        BY <1>1 DEF CollectBegin
    <2>3. pc' = [pc EXCEPT ![Collector] = "scan"]
        BY <1>1 DEF CollectBegin
    <2>4. UNCHANGED <<streams, closing, req, held, fault, allocated, name,
                      mStop, report, thread, status, age, out, wpc, history>>
        BY <1>1 DEF CollectBegin, SetDue
    <2> QED
        BY <1>0, <2>1, <2>2, <2>3, <2>4
<1>2. ASSUME NEW i \in Id, CollectVisit(i) PROVE TypeInv'
    <2>1. [op |-> "collect", id |-> i, report |-> TRUE] \in Request
        BY DEF Request
    <2>2. CASE Expired(streams[i])
        <3>1. /\ held' = [held EXCEPT ![Collector] = streams[i]]
              /\ req' = [req EXCEPT ![Collector] =
                           [op |-> "collect", id |-> i, report |-> TRUE]]
              /\ pc' = [pc EXCEPT ![Collector] = "stop"]
            BY <1>2, <2>2 DEF CollectVisit
        <3>2. UNCHANGED <<streams, todo, closing, fault, objects>>
            BY <1>2, <2>2 DEF CollectVisit
        <3>3. /\ held' \in [Thread -> Obj \cup {NoObj}]
              /\ req' \in [Thread -> Request]
            BY <1>0, <2>1, <3>1
        <3>4. \A t \in Client : req'[t] = req[t] /\ pc'[t] = pc[t]
            BY <1>0, <3>1
        <3> QED
            BY <1>0, <3>1, <3>2, <3>3, <3>4
    <2>3. CASE ~Expired(streams[i])
        BY <1>0, <1>2, <2>3 DEF CollectVisit
    <2> QED
        BY <2>2, <2>3
<1>3. CASE CollectErase
    <2>1. /\ ObjectsOK'
          /\ streams' = [streams EXCEPT ![req[Collector].id] = NoObj]
          /\ held' = [held EXCEPT ![Collector] = NoObj]
          /\ fault' \in {"none", "badJoin", "terminate"}
        BY <1>0, <1>3, RepointType DEF CollectErase
    <2> QED
        BY <1>0, <1>3, <2>1 DEF CollectErase, Request
<1>4. CASE CollectEnd
    BY <1>0, <1>4 DEF CollectEnd, PassOver, SetDue
<1>5. CASE StopTest(Collector)
    BY <1>0, <1>5 DEF StopTest, EnterStop, AfterStop
<1>6. CASE StopSet(Collector)
    BY <1>0, <1>6 DEF StopSet, SetStop
<1>7. CASE StopJoin(Collector)
    BY <1>0, <1>7 DEF StopJoin, AfterStop
<1>8. CASE CloseClear
    <2>1. /\ ObjectsOK'
          /\ streams' = [i \in Id |-> NoObj]
          /\ held' = held
          /\ fault' \in {"none", "badJoin", "terminate"}
        BY <1>0, <1>8, RepointType DEF CloseClear
    <2> QED
        BY <1>0, <1>8, <2>1 DEF CloseClear
<1> QED
    BY <1>1, <1>2, <1>3, <1>4, <1>5, <1>6, <1>7, <1>8
    DEF CollectorStep, StopStep

(* And so does every step.                                                 *)
LEMMA TypeStep == TypeInv /\ [Next]_vars => TypeInv'
<1> SUFFICES ASSUME TypeInv, [Next]_vars PROVE TypeInv'
    OBVIOUS
<1> USE DEF TypeInv, TypeOK, ObjectsOK, ClientsHaveRequests, manager, threads,
            objects, members, history
<1>1. ASSUME NEW t \in Client, NEW op \in Operations, NEW i \in Id,
             NEW rep \in BOOLEAN, Receive(t, op, i, rep)
      PROVE  TypeInv'
    <2>1. [op |-> op, id |-> i, report |-> rep] \in Request
        BY DEF Request
    <2> QED
        BY <1>1, <2>1 DEF Receive, Goto, Thread
<1>2. ASSUME NEW t \in Client, ClientStep(t) PROVE TypeInv'
    BY <1>2, ClientTypes
<1>3. ASSUME NEW o \in Obj, WorkerStep(o) PROVE TypeInv'
    BY <1>3, WorkerTypes
<1>4. CASE CollectorStep
    BY <1>4, CollectorTypes
<1>5. CASE CloseBegin
    BY <1>5 DEF CloseBegin
<1>6. CASE Tick
    <2>1. /\ age' \in [Obj -> 0..MaxAge]
          /\ idle' \in [Obj -> 0..MaxAge]
        BY <1>6, OlderType DEF Tick
    <2> QED
        BY <1>6, <2>1 DEF Tick
<1>7. CASE UNCHANGED vars
    BY <1>7 DEF vars
<1> QED
    BY <1>1, <1>2, <1>3, <1>4, <1>5, <1>6, <1>7 DEF Next, Running, Halted

(* Every variable stays within its type, whatever the clients do.          *)
THEOREM TypesCorrect == Spec => []TypeOK
<1>1. Init => TypeInv
    BY InitInv DEF RetentionInv, TypeInv
<1>2. TypeInv /\ [Next]_vars => TypeInv'
    BY TypeStep
<1>3. TypeInv => TypeOK
    BY DEF TypeInv
<1> QED
    BY <1>1, <1>2, <1>3, PTL DEF Spec

-----------------------------------------------------------------------------
(* Retention.  What a step that destroys or creates objects does to the    *)
(* members the invariant speaks of.                                        *)
LEMMA RepointEffect ==
  ASSUME TypeOK, NEW s, NEW h, NEW o \in Obj \cup {NoObj}, NEW i,
         Repoint(s, h, o, i)
  PROVE  \A p \in Obj :
           \/ /\ status'[p] = "init" /\ wpc'[p] = "none"
              /\ p = o \/ p \in Unreferenced(s, h)
           \/ /\ status'[p] = status[p] /\ wpc'[p] = wpc[p] /\ due'[p] = due[p]
              /\ idle'[p] = idle[p] /\ age'[p] = age[p]
              /\ p # o /\ p \notin Unreferenced(s, h)
              /\ p \in allocated' <=> p \in allocated
<1> DEFINE S == Unreferenced(s, h) \cup {o}
<1>1. Construct(S, o, i) /\ allocated' = (allocated \ Unreferenced(s, h))
                                           \cup ({o} \ {NoObj})
    BY DEF Repoint
<1> SUFFICES ASSUME NEW p \in Obj
             PROVE  \/ /\ status'[p] = "init" /\ wpc'[p] = "none"
                       /\ p \in S
                    \/ /\ status'[p] = status[p] /\ wpc'[p] = wpc[p]
                       /\ due'[p] = due[p]
                       /\ idle'[p] = idle[p] /\ age'[p] = age[p]
                       /\ p \notin S
                       /\ p \in allocated' <=> p \in allocated
    OBVIOUS
<1>2. CASE p \in S
    <2> HIDE DEF S
    <2> QED
        BY <1>1, <1>2 DEF Construct, Reset
<1>3. CASE p \notin S
    <2>1. p \in allocated' <=> p \in allocated
        BY <1>1, <1>3
    <2> HIDE DEF S
    <2> QED
        BY <1>1, <1>3, <2>1 DEF Construct, Reset
<1> QED
    BY <1>2, <1>3

(* An object a remaining pointer refers to is not destroyed.               *)
LEMMA Referenced ==
  ASSUME NEW s, NEW h, NEW p \in Obj,
         (\E t \in Thread : h[t] = p) \/ (\E i \in Id : s[i] = p)
  PROVE  p \notin Unreferenced(s, h)
BY DEF Unreferenced

(* Destroying and creating objects does not make a stop time too old.      *)
LEMMA IdleRepoint ==
  ASSUME RetentionInv, NEW s, NEW h, NEW o \in Obj \cup {NoObj}, NEW i,
         Repoint(s, h, o, i)
  PROVE  IdleSinceStopTime'
BY RepointEffect DEF RetentionInv, IdleSinceStopTime

(* No step makes a worker's stop time older than the end of its pushing.   *)
LEMMA IdleStep ==
  ASSUME RetentionInv, Kind = "file", Next
  PROVE  IdleSinceStopTime'
<1> USE DEF RetentionInv, TypeOK, ObjectsOK, manager, threads, objects, members,
            history
<1>1. ASSUME NEW t \in Client, ClientStep(t) PROVE IdleSinceStopTime'
    <2>0. t \in Thread
        BY DEF Thread
    <2>1. CASE GetStream(t)
        BY <2>1 DEF GetStream, IdleSinceStopTime
    <2>2. CASE CreateStream(t)
        BY <2>2, IdleRepoint DEF CreateStream
    <2>3. CASE StopStep(t)
        BY <2>3 DEF StopStep, StopTest, EnterStop, StopSet, SetStop, StopJoin,
                    IdleSinceStopTime
    <2>4. CASE StartRefused(t)
        BY <2>4 DEF StartRefused, IdleSinceStopTime
    <2>5. CASE StartClear(t)
        BY <2>5 DEF StartClear, IdleSinceStopTime
    <2>6. CASE StartSpawn(t)
        <3>1. held[t] \in Obj /\ status[held[t]] = "init"
            BY <2>6 DEF StartSpawn, StartsFresh, Starting
        <3> QED
            BY <2>6, <3>1 DEF StartSpawn, IdleSinceStopTime
    <2>7. CASE Respond(t)
        BY <2>7, IdleRepoint DEF Respond
    <2>8. CASE Forget(t)
        BY <2>8, IdleRepoint DEF Forget
    <2> QED
        BY <1>1, <2>1, <2>2, <2>3, <2>4, <2>5, <2>6, <2>7, <2>8
        DEF ClientStep, LockStep
<1>2. ASSUME NEW o \in Obj, WorkerStep(o) PROVE IdleSinceStopTime'
    <2> USE DEF Advance, IdleSinceStopTime
    <2>1. CASE SvrBegin(o)
        BY <2>1 DEF SvrBegin
    <2>2. CASE SvrInitOk(o)
        BY <2>2 DEF SvrInitOk
    <2>3. CASE SvrInitFail(o)
        BY <2>3 DEF SvrInitFail
    <2>4. CASE SvrStop(o) \/ SvrFinish(o)
        BY <2>4 DEF SvrStop, SvrFinish
    <2>5. CASE SvrStamp(o)
        BY <2>5 DEF SvrStamp, MaxAge
    <2>6. CASE SvrStopped(o)
        BY <2>6 DEF SvrStopped
    <2>7. CASE SvrReport(o)
        BY <2>7 DEF SvrReport
    <2>8. CASE SvrClose(o)
        BY <2>8 DEF SvrClose
    <2> QED
        BY <1>2, <2>1, <2>2, <2>3, <2>4, <2>5, <2>6, <2>7, <2>8 DEF WorkerStep
<1>3. CASE CollectorStep
    <2>1. CASE CollectBegin
        <3>1. /\ UNCHANGED <<status, age, wpc, idle>>
              /\ \A o \in Obj : due'[o] => age[o] > ReleaseTime
            BY <2>1 DEF CollectBegin, SetDue
        <3>2. \A o \in Obj : age[o] \in Nat /\ idle[o] \in Nat
            BY DEF MaxAge
        <3> QED
            BY <3>1, <3>2 DEF IdleSinceStopTime
    <2>2. ASSUME NEW i \in Id, CollectVisit(i) PROVE IdleSinceStopTime'
        BY <2>2 DEF CollectVisit, IdleSinceStopTime
    <2>3. CASE CollectErase
        BY <2>3, IdleRepoint DEF CollectErase
    <2>4. CASE CollectEnd
        BY <2>4 DEF CollectEnd, PassOver, SetDue, IdleSinceStopTime
    <2>5. CASE StopStep(Collector)
        BY <2>5 DEF StopStep, StopTest, EnterStop, StopSet, SetStop, StopJoin,
                    IdleSinceStopTime
    <2>6. CASE CloseClear
        BY <2>6, IdleRepoint DEF CloseClear
    <2> QED
        BY <1>3, <2>1, <2>2, <2>3, <2>4, <2>5, <2>6 DEF CollectorStep
<1>4. CASE Tick
    <2>1. ASSUME NEW o \in Obj
          PROVE  /\ age'[o] \in {age[o], Older(age[o])}
                 /\ idle'[o] \in {idle[o], Older(idle[o])}
                 /\ wpc[o] \in Ended /\ age'[o] # age[o]
                      => idle'[o] = Older(idle[o])
        BY <1>4 DEF Tick
    <2>2. \A a, b \in 0..MaxAge : /\ Older(a) >= a
                                  /\ a >= b => Older(a) >= Older(b)
        BY DEF Older, MaxAge
    <2>3. UNCHANGED <<status, wpc, due>>
        BY <1>4 DEF Tick
    <2>4. \A o \in Obj : age[o] \in 0..MaxAge /\ idle[o] \in 0..MaxAge
        OBVIOUS
    <2> QED
        BY <2>1, <2>2, <2>3, <2>4, OlderType
        DEF IdleSinceStopTime, Ended, MaxAge
<1>5. CASE CloseBegin
    BY <1>5 DEF CloseBegin, IdleSinceStopTime
<1>6. ASSUME NEW t \in Client, NEW op \in Operations, NEW i \in Id,
             NEW rep \in BOOLEAN, Receive(t, op, i, rep)
      PROVE  IdleSinceStopTime'
    BY <1>6 DEF Receive, IdleSinceStopTime
<1>7. CASE Halted
    BY <1>7 DEF Halted, vars, IdleSinceStopTime
<1> QED
    BY <1>1, <1>2, <1>3, <1>4, <1>5, <1>6, <1>7 DEF Next, Running

(* The collector works on an entry that is in the map and due: nobody else *)
(* takes entries out or replaces them while it holds m_streamLock.         *)
LEMMA CollectsStep ==
  ASSUME RetentionInv, Kind = "file", Next
  PROVE  CollectsOnlyDue'
<1> USE DEF RetentionInv, manager, threads, objects, members, history
<1> DEFINE Frame ==
      /\ UNCHANGED <<streams, todo, closing>>
      /\ pc'[Collector] = pc[Collector]
      /\ req'[Collector] = req[Collector]
      /\ held'[Collector] = held[Collector]
      /\ held[Collector] \in Obj => idle'[held[Collector]] >= idle[held[Collector]]
<1>0. /\ Collector \in Thread
      /\ \A o \in Obj : idle[o] \in Nat /\ idle'[o] \in Nat
    <2>1. TypeInv /\ TypeInv'
        BY TypeStep DEF TypeInv
    <2> QED
        BY <2>1 DEF TypeInv, TypeOK, ObjectsOK, Thread, MaxAge
<1>1. Frame => CollectsOnlyDue'
    BY <1>0 DEF CollectsOnlyDue, Collecting
<1>2. ASSUME NEW t \in Client, ClientStep(t) PROVE CollectsOnlyDue'
    <2>0. t # Collector /\ t \in Thread
        BY DEF Thread
    <2>1. CASE GetStream(t)
        BY <1>0, <1>1, <2>0, <2>1 DEF GetStream, Goto, TypeOK
    <2>2. CASE CreateStream(t)
        <3>1. pc[Collector] \in {"sleep", "exit", "closed"} /\ todo = {}
            BY <2>2 DEF CreateStream, LockFree, CollectsOnlyDue
        <3>2. UNCHANGED <<todo, closing>> /\ pc'[Collector] = pc[Collector]
            BY <1>0, <2>0, <2>2 DEF CreateStream, Goto, TypeOK
        <3> QED
            BY <3>1, <3>2 DEF CollectsOnlyDue, Collecting
    <2>3. CASE StopTest(t)
        BY <1>0, <1>1, <2>0, <2>3 DEF StopTest, EnterStop, Goto, TypeOK
    <2>4. CASE StopSet(t)
        BY <1>0, <1>1, <2>0, <2>4 DEF StopSet, SetStop, Goto, TypeOK
    <2>5. CASE StopJoin(t)
        BY <1>0, <1>1, <2>0, <2>5 DEF StopJoin, Goto, TypeOK
    <2>6. CASE StartRefused(t)
        BY <1>0, <1>1, <2>0, <2>6 DEF StartRefused, Goto, TypeOK
    <2>7. CASE StartClear(t)
        BY <1>0, <1>1, <2>0, <2>7 DEF StartClear, Goto, TypeOK
    <2>8. CASE StartSpawn(t)
        BY <1>0, <1>1, <2>0, <2>8 DEF StartSpawn, Goto, TypeOK
    <2>9. CASE Respond(t) \/ Forget(t)
        <3> DEFINE h == [held EXCEPT ![t] = NoObj]
        <3>1. Repoint(streams, h, NoObj, NoObj)
            BY <2>9 DEF Respond, Forget
        <3>2. h[Collector] = held[Collector]
            BY <1>0, <2>0 DEF TypeOK
        <3>3. streams' = streams /\ held' = h
            BY <3>1 DEF Repoint
        <3>4. ASSUME held[Collector] \in Obj
              PROVE  idle'[held[Collector]] = idle[held[Collector]]
            <4>1. held[Collector] \notin Unreferenced(streams, h)
                BY <1>0, <3>2, <3>4, Referenced
            <4>2. held[Collector] # NoObj
                BY <3>4
            <4> HIDE DEF h
            <4> QED
                BY <3>1, <3>4, <4>1, <4>2, RepointEffect
        <3>5. Frame
            BY <1>0, <2>0, <2>9, <3>2, <3>3, <3>4
            DEF Respond, Forget, Goto, TypeOK
        <3> QED
            BY <1>1, <3>5
    <2> QED
        BY <1>2, <2>1, <2>2, <2>3, <2>4, <2>5, <2>6, <2>7, <2>8, <2>9
        DEF ClientStep, LockStep, StopStep
<1>3. ASSUME NEW o \in Obj, WorkerStep(o) PROVE CollectsOnlyDue'
    <2>1. UNCHANGED <<streams, todo, closing, pc, req, held, idle>>
        BY <1>3 DEF WorkerStep, SvrBegin, SvrInitOk, SvrInitFail, SvrStop,
                    SvrFinish, SvrStamp, SvrStopped, SvrReport, SvrClose, Advance
    <2> QED
        BY <1>0, <1>1, <2>1
<1>4. CASE CollectorStep
    <2>1. CASE CollectBegin
        BY <1>0, <2>1 DEF CollectBegin, CollectsOnlyDue, Collecting, Goto, TypeOK
    <2>2. ASSUME NEW i \in Id, CollectVisit(i) PROVE CollectsOnlyDue'
        <3>1. streams[i] \in Obj /\ i \in todo /\ pc[Collector] = "scan"
            BY <2>2 DEF CollectVisit, CollectsOnlyDue, TypeOK
        <3>2. UNCHANGED <<streams, closing, idle>>
            BY <2>2 DEF CollectVisit
        <3>3. CASE Expired(streams[i])
            <4>1. idle[streams[i]] > ReleaseTime
                BY <3>1, <3>3 DEF Expired, IdleSinceStopTime
            <4>2. /\ held' = [held EXCEPT ![Collector] = streams[i]]
                  /\ req' = [req EXCEPT ![Collector] =
                               [op |-> "collect", id |-> i, report |-> TRUE]]
                  /\ pc' = [pc EXCEPT ![Collector] = "stop"]
                  /\ todo' = todo
                BY <2>2, <3>3 DEF CollectVisit, Goto
            <4>3. /\ held'[Collector] = streams[i]
                  /\ req'[Collector].op = "collect" /\ req'[Collector].id = i
                  /\ pc'[Collector] = "stop"
                BY <1>0, <4>2 DEF TypeOK
            <4> QED
                BY <3>1, <3>2, <4>1, <4>2, <4>3 DEF CollectsOnlyDue, Collecting
        <3>4. CASE ~Expired(streams[i])
            BY <3>1, <3>2, <3>4, <2>2
            DEF CollectVisit, CollectsOnlyDue, Collecting
        <3> QED
            BY <3>3, <3>4
    <2>3. CASE CollectErase
        <3>1. /\ streams' = [streams EXCEPT ![req[Collector].id] = NoObj]
              /\ todo' = todo \ {req[Collector].id}
              /\ pc' = [pc EXCEPT ![Collector] = "scan"]
              /\ closing' = closing
            BY <2>3 DEF CollectErase, Repoint, Goto
        <3> QED
            BY <1>0, <3>1 DEF CollectsOnlyDue, Collecting, TypeOK
    <2>4. CASE CollectEnd
        BY <1>0, <2>4
        DEF CollectEnd, PassOver, Goto, CollectsOnlyDue, Collecting, TypeOK
    <2>5. CASE StopStep(Collector)
        <3>1. Collecting /\ req[Collector].op = "collect"
            BY <2>5 DEF StopStep, StopTest, EnterStop, StopSet, SetStop, StopJoin,
                        CollectsOnlyDue, Collecting
        <3>2. AfterStop(Collector) = "erase"
            BY <3>1 DEF AfterStop
        <3>3. /\ UNCHANGED <<streams, todo, closing, req, held, idle>>
              /\ pc'[Collector] \in {"stop", "set", "join", "erase"}
            BY <1>0, <2>5, <3>1, <3>2
            DEF StopStep, StopTest, EnterStop, StopSet, SetStop, StopJoin, Goto,
                TypeOK, Collecting
        <3> QED
            BY <3>1, <3>3 DEF CollectsOnlyDue, Collecting
    <2>6. CASE CloseClear
        <3>1. /\ UNCHANGED <<todo, closing>>
              /\ pc[Collector] = "exit"
              /\ pc'[Collector] = "closed"
            BY <1>0, <2>6 DEF CloseClear, Goto, TypeOK
        <3> QED
            BY <3>1 DEF CollectsOnlyDue, Collecting
    <2> QED
        BY <1>4, <2>1, <2>2, <2>3, <2>4, <2>5, <2>6 DEF CollectorStep
<1>5. CASE Tick
    <2>1. UNCHANGED <<streams, todo, closing, pc, req, held>>
        BY <1>5 DEF Tick
    <2>2. \A o \in Obj : idle'[o] >= idle[o]
        BY <1>0, <1>5, OlderType DEF Tick, TypeOK, ObjectsOK
    <2> QED
        BY <1>1, <2>1, <2>2
<1>6. CASE CloseBegin
    BY <1>6 DEF CloseBegin, CollectsOnlyDue, Collecting
<1>7. ASSUME NEW t \in Client, NEW op \in Operations, NEW i \in Id,
             NEW rep \in BOOLEAN, Receive(t, op, i, rep)
      PROVE  CollectsOnlyDue'
    BY <1>0, <1>1, <1>7 DEF Receive, Goto, TypeOK, Thread
<1>8. CASE Halted
    BY <1>8 DEF Halted, vars, CollectsOnlyDue, Collecting
<1> QED
    BY <1>2, <1>3, <1>4, <1>5, <1>6, <1>7, <1>8 DEF Next, Running

(* The object a client starts is the one it has created, and no other      *)
(* client's.                                                               *)
LEMMA StartsStep ==
  ASSUME TypeInv, StartsFresh, Next
  PROVE  StartsFresh'
<1> USE DEF TypeInv, manager, threads, objects, members, history
<1> DEFINE Keeps(u) ==
      /\ held'[u] = held[u]
      /\ held[u] \in allocated
           => /\ held[u] \in allocated'
              /\ wpc[held[u]] = "none" =>
                   wpc'[held[u]] = "none" /\ status'[held[u]] = status[held[u]]
<1>0. /\ Client \subseteq Thread
      /\ Collector \in Thread \ Client
      /\ pc \in [Thread -> {"idle", "get", "stop", "set", "join", "forget",
                            "create", "start", "spawn", "return", "sleep",
                            "scan", "erase", "exit", "closed"}]
      /\ held \in [Thread -> Obj \cup {NoObj}]
    BY DEF Thread, TypeOK
<1>1. ASSUME \A u \in Client : (Starting(u))' => Starting(u) /\ Keeps(u)
      PROVE  StartsFresh'
    BY <1>1 DEF StartsFresh, Starting
<1>2. ASSUME NEW s, NEW h, NEW o \in Obj \cup {NoObj}, NEW i,
             Repoint(s, h, o, i), o \notin allocated,
             NEW u \in Client, h[u] = held[u]
      PROVE  Keeps(u)
    <2>1. held' = h
        BY <1>2 DEF Repoint
    <2>2. ASSUME held[u] \in allocated
          PROVE  /\ held[u] \in allocated'
                 /\ wpc'[held[u]] = wpc[held[u]]
                 /\ status'[held[u]] = status[held[u]]
        <3>1. held[u] \in Obj /\ held[u] # o
            BY <1>2, <2>2 DEF TypeOK, ObjectsOK
        <3>2. held[u] \notin Unreferenced(s, h)
            BY <1>0, <1>2, <3>1, Referenced
        <3> QED
            BY <1>2, <2>2, <3>1, <3>2, RepointEffect
    <2> QED
        BY <1>2, <2>1, <2>2
<1>3. NoObj \notin allocated
    BY DEF TypeOK, ObjectsOK
<1>4. ASSUME NEW t \in Client, ClientStep(t) PROVE StartsFresh'
    <2>1. CASE GetStream(t)
        BY <1>0, <1>1, <2>1 DEF GetStream, Goto, Starting
    <2>2. CASE CreateStream(t)
        <3>1. PICK o \in Obj \ allocated :
                Repoint([streams EXCEPT ![req[t].id] = o],
                        [held EXCEPT ![t] = o], o, req[t].id)
            BY <2>2 DEF CreateStream
        <3>2. /\ held' = [held EXCEPT ![t] = o]
              /\ o \in allocated'
            BY <3>1 DEF Repoint
        <3>3. wpc'[o] = "none" /\ status'[o] = "init"
            BY <3>1, RepointEffect
        <3>4. pc' = [pc EXCEPT ![t] = "start"]
            BY <2>2 DEF CreateStream, Goto
        <3>5. ASSUME NEW u \in Client \ {t}, Starting(u)
              PROVE  Keeps(u)
            <4> DEFINE h == [held EXCEPT ![t] = o]
            <4>1. h[u] = held[u]
                BY <1>0
            <4>2. Repoint([streams EXCEPT ![req[t].id] = o], h, o, req[t].id)
                BY <3>1
            <4> HIDE DEF h, Keeps
            <4> QED
                BY <1>2, <4>1, <4>2
        <3>6. \A u \in Client \ {t} : (Starting(u))' => Starting(u)
            BY <1>0, <3>4 DEF Starting
        <3>7. \A u \in Client \ {t} :
                Starting(u) => held'[u] = held[u] /\ held[u] # o
            BY <1>0, <3>1, <3>2 DEF StartsFresh
        <3>8. held'[t] = o
            BY <1>0, <3>2
        <3> QED
            BY <3>2, <3>3, <3>5, <3>6, <3>7, <3>8 DEF StartsFresh, Starting
    <2>3. CASE StopStep(t)
        <3>1. UNCHANGED <<held, allocated, wpc, status>>
            BY <2>3 DEF StopStep, StopTest, EnterStop, StopSet, SetStop, StopJoin
        <3>2. req[t].op \in {"start", "stop"} /\ pc[t] \in {"stop", "set", "join"}
            BY <2>3 DEF ClientsHaveRequests, StopStep, StopTest, EnterStop,
                        StopSet, SetStop, StopJoin
        <3>3. AfterStop(t) \in {"forget", "return"}
            BY <3>2 DEF AfterStop
        <3>4. \E l \in {"forget", "return", "set", "join"} :
                pc' = [pc EXCEPT ![t] = l]
            BY <1>0, <2>3, <3>2, <3>3
            DEF StopStep, StopTest, EnterStop, StopSet, SetStop, StopJoin, Goto
        <3> QED
            BY <1>0, <1>1, <3>1, <3>4 DEF Starting
    <2>4. CASE StartRefused(t)
        BY <1>0, <1>1, <2>4 DEF StartRefused, Goto, Starting
    <2>5. CASE StartClear(t)
        BY <1>0, <1>1, <2>5 DEF StartClear, Goto, Starting
    <2>6. CASE StartSpawn(t)
        <3>1. pc' = [pc EXCEPT ![t] = "return"] /\ Starting(t)
            BY <2>6 DEF StartSpawn, Goto, Starting
        <3>2. \A u \in Client : (Starting(u))' => u # t /\ Starting(u)
            BY <1>0, <3>1 DEF Starting
        <3>3. \A u \in Client \ {t} : Starting(u) => held[u] # held[t]
            BY <3>1 DEF StartsFresh
        <3>4. /\ UNCHANGED <<held, allocated, status>>
              /\ wpc' = [wpc EXCEPT ![held[t]] = "begin"]
            BY <2>6 DEF StartSpawn
        <3>5. \A u \in Client \ {t} : Starting(u) => Keeps(u)
            BY <1>0, <3>3, <3>4 DEF TypeOK, ObjectsOK
        <3> QED
            BY <1>1, <3>2, <3>5
    <2>7. CASE Respond(t) \/ Forget(t)
        <3>1. Repoint(streams, [held EXCEPT ![t] = NoObj], NoObj, NoObj)
            BY <2>7 DEF Respond, Forget
        <3>2. \A u \in Client : (Starting(u))' => u # t /\ Starting(u)
            BY <1>0, <2>7 DEF Respond, Forget, Goto, Starting
        <3>3. ASSUME NEW u \in Client \ {t} PROVE Keeps(u)
            <4> DEFINE h == [held EXCEPT ![t] = NoObj]
            <4>1. h[u] = held[u]
                BY <1>0
            <4>2. Repoint(streams, h, NoObj, NoObj)
                BY <3>1
            <4> HIDE DEF h, Keeps
            <4> QED
                BY <1>2, <1>3, <4>1, <4>2
        <3> QED
            BY <1>1, <3>2, <3>3
    <2> QED
        BY <1>4, <2>1, <2>2, <2>3, <2>4, <2>5, <2>6, <2>7
        DEF ClientStep, LockStep
<1>5. ASSUME NEW o \in Obj, WorkerStep(o) PROVE StartsFresh'
    <2>1. /\ UNCHANGED <<pc, held, allocated>>
          /\ \A p \in Obj : p # o => wpc'[p] = wpc[p] /\ status'[p] = status[p]
          /\ wpc[o] # "none"
        BY <1>5 DEF WorkerStep, SvrBegin, SvrInitOk, SvrInitFail, SvrStop,
                    SvrFinish, SvrStamp, SvrStopped, SvrReport, SvrClose,
                    Advance, TypeOK, ObjectsOK
    <2> QED
        BY <1>1, <2>1 DEF Starting, TypeOK, ObjectsOK
<1>6. CASE CollectorStep
    <2>1. \A u \in Client : pc'[u] = pc[u]
        BY <1>0, <1>6
        DEF CollectorStep, CollectBegin, CollectVisit, CollectErase, CollectEnd,
            PassOver, StopStep, StopTest, EnterStop, StopSet, SetStop, StopJoin,
            CloseClear, Goto
    <2>2. CASE CollectErase \/ CloseClear
        <3>1. CASE CollectErase
            <4> DEFINE h == [held EXCEPT ![Collector] = NoObj]
                       s == [streams EXCEPT ![req[Collector].id] = NoObj]
            <4>1. \A u \in Client : h[u] = held[u]
                BY <1>0
            <4>2. Repoint(s, h, NoObj, NoObj)
                BY <3>1 DEF CollectErase
            <4>3. \A u \in Client : Keeps(u)
                <5> HIDE DEF h, s, Keeps
                <5> QED
                    BY <1>2, <1>3, <4>1, <4>2
            <4> QED
                BY <1>1, <2>1, <4>3 DEF Starting
        <3>2. CASE CloseClear
            BY <1>0, <1>1, <1>2, <1>3, <2>1, <3>2 DEF CloseClear, Starting
        <3> QED
            BY <2>2, <3>1, <3>2
    <2>3. CASE ~(CollectErase \/ CloseClear)
        <3>1. /\ \A u \in Client : held'[u] = held[u]
              /\ UNCHANGED <<allocated, wpc, status>>
            BY <1>0, <1>6, <2>3
            DEF CollectorStep, CollectBegin, CollectVisit, CollectEnd, PassOver,
                SetDue, StopStep, StopTest, EnterStop, StopSet, SetStop, StopJoin
        <3> QED
            BY <1>1, <2>1, <3>1 DEF Starting
    <2> QED
        BY <2>2, <2>3
<1>7. CASE Tick
    BY <1>1, <1>7 DEF Tick, Starting
<1>8. CASE CloseBegin
    BY <1>1, <1>8 DEF CloseBegin, Starting
<1>9. ASSUME NEW t \in Client, NEW op \in Operations, NEW i \in Id,
             NEW rep \in BOOLEAN, Receive(t, op, i, rep)
      PROVE  StartsFresh'
    BY <1>0, <1>1, <1>9 DEF Receive, Goto, Starting
<1>10. CASE Halted
    BY <1>1, <1>10 DEF Halted, vars, Starting
<1> QED
    BY <1>4, <1>5, <1>6, <1>7, <1>8, <1>9, <1>10 DEF Next, Running

(* The invariant is inductive, for files.                                  *)
LEMMA RetentionStep ==
  ASSUME Kind = "file", RetentionInv, [Next]_vars
  PROVE  RetentionInv'
<1>1. CASE Next
    <2>1. TypeInv'
        BY TypeStep DEF RetentionInv, TypeInv
    <2> QED
        BY <1>1, <2>1, CollectsStep, StartsStep, IdleStep
        DEF RetentionInv, TypeInv
<1>2. CASE UNCHANGED vars
    <2> USE DEF manager, threads, objects, members, history
    <2>1. TypeInv'
        BY TypeStep DEF RetentionInv, TypeInv
    <2>2. CollectsOnlyDue'
        BY <1>2 DEF RetentionInv, vars, CollectsOnlyDue, Collecting
    <2>3. StartsFresh'
        BY <1>2 DEF RetentionInv, vars, StartsFresh, Starting
    <2>4. IdleSinceStopTime'
        BY <1>2 DEF RetentionInv, vars, IdleSinceStopTime
    <2> QED
        BY <2>1, <2>2, <2>3, <2>4 DEF RetentionInv, TypeInv
<1> QED
    BY <1>1, <1>2

(* Only the collector empties an entry of the map, and only a due one.     *)
LEMMA OnlyDueErased ==
  ASSUME RetentionInv, [Next]_vars, NEW i \in Id,
         streams[i] # NoObj, streams'[i] = NoObj, ~closing
  PROVE  idle[streams[i]] > ReleaseTime
<1> USE DEF RetentionInv, manager, threads, objects, members, history
<1>1. streams \in [Id -> Obj \cup {NoObj}]
    BY DEF TypeOK
<1>2. ~UNCHANGED streams
    BY DEF TypeOK
<1>3. ASSUME NEW t \in Client, CreateStream(t) PROVE FALSE
    <2>1. PICK o \in Obj : streams' = [streams EXCEPT ![req[t].id] = o]
        BY <1>3 DEF CreateStream, Repoint
    <2> QED
        BY <1>1, <2>1
<1>4. CASE CollectErase
    <2>1. streams' = [streams EXCEPT ![req[Collector].id] = NoObj]
        BY <1>4 DEF CollectErase, Repoint
    <2>2. i = req[Collector].id
        BY <1>1, <2>1
    <2> QED
        BY <1>4, <2>2 DEF CollectErase, CollectsOnlyDue, Collecting
<1>5. ~CloseClear
    BY DEF CloseClear, CollectsOnlyDue
<1>6. ASSUME NEW t \in Client, ClientStep(t), ~CreateStream(t) PROVE FALSE
    BY <1>2, <1>6
    DEF ClientStep, LockStep, GetStream, StopStep, StopTest, EnterStop, StopSet,
        SetStop, StopJoin, Forget, StartRefused, StartClear, StartSpawn, Respond,
        Repoint
<1>7. ASSUME NEW o \in Obj, WorkerStep(o) PROVE FALSE
    BY <1>2, <1>7
    DEF WorkerStep, SvrBegin, SvrInitOk, SvrInitFail, SvrStop, SvrFinish,
        SvrStamp, SvrStopped, SvrReport, SvrClose, Advance
<1>8. CASE CollectorStep
    BY <1>2, <1>4, <1>5, <1>8
    DEF CollectorStep, CollectBegin, CollectVisit, CollectEnd, PassOver,
        StopStep, StopTest, EnterStop, StopSet, SetStop, StopJoin
<1>9. ~CloseBegin /\ ~Tick /\ ~Halted /\ ~UNCHANGED vars
    BY <1>2 DEF CloseBegin, Tick, Halted, vars
<1>10. ASSUME NEW t \in Client, NEW op \in Operations, NEW j \in Id,
              NEW rep \in BOOLEAN
       PROVE  ~Receive(t, op, j, rep)
    BY <1>2 DEF Receive
<1> QED
    BY <1>3, <1>6, <1>7, <1>8, <1>9, <1>10 DEF Next, Running

(* Whatever the clients do, the strengthened invariant of the retention of *)
(* FileStreams holds: what StreamMng::svr erases is in the map and due.    *)
THEOREM RetentionHolds == ASSUME Kind = "file" PROVE Spec => []RetentionInv
<1>1. Init => RetentionInv
    BY InitInv
<1>2. RetentionInv /\ [Next]_vars => RetentionInv'
    BY RetentionStep
<1> QED
    BY <1>1, <1>2, PTL DEF Spec

(* Whatever the clients do, a FileStream that has stopped stays in the map *)
(* for more than streamReleaseTime seconds: StreamMng::svr does not take   *)
(* it out any earlier.                                                     *)
THEOREM FilesKept == ASSUME Kind = "file" PROVE Spec => KeptForReleaseTime
<1>1. Spec => []RetentionInv
    BY RetentionHolds
<1>2. RetentionInv /\ [Next]_vars =>
        [\A i \in Id :
           streams[i] # NoObj /\ streams'[i] = NoObj /\ ~closing
             => idle[streams[i]] > ReleaseTime]_vars
    BY OnlyDueErased
<1> QED
    BY <1>1, <1>2, PTL DEF Spec, KeptForReleaseTime
-----------------------------------------------------------------------------
(* Exclusion, for clients that serialise their requests.  What changes of  *)
(* the objects that are destroyed or created, and what does not of others. *)
LEMMA RepointMembers ==
  ASSUME TypeOK, NEW s, NEW h, NEW o \in Obj \cup {NoObj}, NEW i,
         Repoint(s, h, o, i)
  PROVE  /\ streams' = s /\ held' = h
         /\ \A p \in Obj :
              \/ /\ p = o \/ p \in Unreferenced(s, h)
                 /\ p \in allocated' <=> p = o
                 /\ p = o => name'[p] = i
                 /\ mStop'[p] = (Kind = "file") /\ thread'[p] = "none"
                 /\ status'[p] = "init" /\ wpc'[p] = "none"
                 /\ passed'[p] = {}
              \/ /\ p # o /\ p \notin Unreferenced(s, h)
                 /\ p \in allocated' <=> p \in allocated
                 /\ name'[p] = name[p]
                 /\ mStop'[p] = mStop[p] /\ thread'[p] = thread[p]
                 /\ status'[p] = status[p] /\ wpc'[p] = wpc[p]
                 /\ passed'[p] = passed[p]
<1> DEFINE S == Unreferenced(s, h) \cup {o}
<1>1. /\ Construct(S, o, i) /\ streams' = s /\ held' = h
      /\ allocated' = (allocated \ Unreferenced(s, h)) \cup ({o} \ {NoObj})
    BY DEF Repoint
<1> SUFFICES ASSUME NEW p \in Obj
             PROVE  \/ /\ p \in S
                       /\ p \in allocated' <=> p = o
                       /\ p = o => name'[p] = i
                       /\ mStop'[p] = (Kind = "file") /\ thread'[p] = "none"
                       /\ status'[p] = "init" /\ wpc'[p] = "none"
                       /\ passed'[p] = {}
                    \/ /\ p \notin S
                       /\ p \in allocated' <=> p \in allocated
                       /\ name'[p] = name[p]
                       /\ mStop'[p] = mStop[p] /\ thread'[p] = thread[p]
                       /\ status'[p] = status[p] /\ wpc'[p] = wpc[p]
                       /\ passed'[p] = passed[p]
    BY <1>1
<1>2. CASE p \in S
    <2>1. p \in allocated' <=> p = o
        BY <1>1, <1>2
    <2> HIDE DEF S
    <2>2. mStop'[p] = (Kind = "file")
        BY <1>1, <1>2 DEF Construct, Reset
    <2>3. /\ p = o => name'[p] = i
          /\ thread'[p] = "none" /\ status'[p] = "init" /\ wpc'[p] = "none"
          /\ passed'[p] = {}
        BY <1>1, <1>2 DEF Construct, Reset
    <2> QED
        BY <1>2, <2>1, <2>2, <2>3
<1>3. CASE p \notin S
    <2>1. p # o /\ (p \in allocated' <=> p \in allocated)
        BY <1>1, <1>3
    <2> HIDE DEF S
    <2>2. mStop'[p] = mStop[p]
        BY <1>1, <1>3 DEF Construct, Reset
    <2>3. /\ name'[p] = name[p]
          /\ thread'[p] = thread[p] /\ status'[p] = status[p]
          /\ wpc'[p] = wpc[p] /\ passed'[p] = passed[p]
        BY <1>1, <1>3, <2>1 DEF Construct, Reset
    <2> QED
        BY <1>3, <2>1, <2>2, <2>3
<1> QED
    BY <1>2, <1>3

(* The parts of ExclusionInv this section is about.                        *)
Excl ==
  /\ OneAtATime /\ HoldsItsOwn /\ NoneLeftOver /\ CollectsStopped
  /\ StoppedLate /\ StopsFirst /\ JoinerPresent /\ StartsOnce
  /\ RaceCounted /\ FaultOnlyByStopRace

(* The types a step of the proof needs.                                    *)
LEMMA Typed ==
  ASSUME TypeInv
  PROVE  /\ Client \subseteq Thread /\ Collector \in Thread \ Client
         /\ Thread = Client \cup {Collector}
         /\ NoObj \notin Obj /\ NoObj \notin Id
         /\ allocated \subseteq Obj
         /\ streams \in [Id -> Obj \cup {NoObj}]
         /\ held \in [Thread -> Obj \cup {NoObj}]
         /\ DOMAIN pc = Thread /\ DOMAIN req = Thread /\ DOMAIN name = Obj
         /\ DOMAIN mStop = Obj /\ DOMAIN thread = Obj /\ DOMAIN status = Obj
         /\ DOMAIN wpc = Obj /\ DOMAIN passed = Obj
         /\ \A t \in Client :
              /\ pc[t] \in {"idle", "get", "stop", "set", "join", "forget",
                            "create", "start", "spawn", "return"}
              /\ pc[t] # "idle" => req[t].id \in Id
                                   /\ req[t].op \in {"start", "stop"}
BY DEF TypeInv, TypeOK, ObjectsOK, ClientsHaveRequests, Thread

(* A step of stop(), by a client or by the collector.                      *)
Stopper(t) == t \in Client \/ (t = Collector /\ Collecting)

(* Who finds m_stop unset is counted, and the object has been started.     *)
LEMMA ExclTest ==
  ASSUME TypeInv, StartsFresh, Excl, fault = "none",
         NEW t \in Thread, Stopper(t), StopTest(t)
  PROVE  Excl'
<1> DEFINE o == held[t]
           l == IF mStop[o] THEN AfterStop(t) ELSE "set"
<1>0. /\ Client \subseteq Thread /\ Collector \in Thread \ Client
      /\ Thread = Client \cup {Collector}
      /\ DOMAIN pc = Thread /\ DOMAIN passed = Obj
    BY Typed
<1>1. /\ pc[t] = "stop" /\ pc' = [pc EXCEPT ![t] = l]
      /\ passed' = IF mStop[o] THEN passed
                   ELSE [passed EXCEPT ![o] = @ \cup {t}]
      /\ UNCHANGED <<streams, todo, req, held, fault, allocated, name, mStop,
                     thread, status, wpc>>
    BY DEF StopTest, EnterStop, Goto, manager
<1>2. /\ o \in Obj /\ o \in allocated
      /\ t \in Client => l \in {"set", "forget", "return"} /\ name[o] = req[t].id
      /\ t = Collector => l \in {"set", "erase"} /\ Collecting
    <2>1. CASE t \in Client
        BY <1>1, <2>1, Typed DEF Excl, HoldsItsOwn, AfterStop
    <2>2. CASE t = Collector
        BY <1>1, <2>2, Typed
        DEF Excl, HoldsItsOwn, CollectsStopped, Stopper, AfterStop
    <2> QED BY <2>1, <2>2 DEF Stopper
<1>3. ~mStop[o] => thread[o] # "none"
    <2> SUFFICES ASSUME ~mStop[o], thread[o] = "none" PROVE FALSE
        OBVIOUS
    <2>1. PICK u \in Client : Starting(u) /\ held[u] = o
        BY <1>2 DEF Excl, StartsOnce
    <2>2. CASE t \in Client
        <3>1. name[o] = req[u].id /\ name[o] = req[t].id /\ req[t].id \in Id
            BY <1>0, <1>1, <1>2, <2>1, <2>2, Typed DEF Excl, HoldsItsOwn
        <3>2. t = u
            BY <2>1, <2>2, <3>1 DEF Excl, OneAtATime
        <3> QED BY <1>1, <2>1, <3>2 DEF Starting
    <2>3. CASE t = Collector
        BY <1>1, <1>2, <2>1, <2>3
        DEF StartsFresh, Excl, CollectsStopped
    <2> QED BY <1>0, <2>2, <2>3
<1> HIDE DEF l, o
<1>4. \A u \in Thread : u # t => pc'[u] = pc[u]
    BY <1>0, <1>1
<1>5. pc'[t] = l
    BY <1>0, <1>1
<1>6. OneAtATime' /\ NoneLeftOver' /\ StoppedLate'
    BY <1>1 DEF Excl, OneAtATime, NoneLeftOver, StoppedLate
<1>7. HoldsItsOwn'
    BY <1>0, <1>1, <1>2, <1>4, <1>5 DEF Excl, HoldsItsOwn
<1>8. CollectsStopped'
    BY <1>0, <1>1, <1>2, <1>4, <1>5 DEF Excl, CollectsStopped, Collecting
<1>9. StopsFirst'
    BY <1>0, <1>1, <1>2, <1>4, <1>5
    DEF Excl, StopsFirst, Starting, l, o, AfterStop
<1>10. JoinerPresent'
    BY <1>0, <1>1, <1>4 DEF Excl, JoinerPresent, Joinable
<1>11. StartsOnce'
    BY <1>0, <1>1, <1>2, <1>4, <1>5 DEF Excl, StartsOnce, Starting
<1>12. RaceCounted'
    <2>1. \A p \in Obj : IsFiniteSet(passed'[p])
        BY <1>0, <1>1, <1>2, FS_AddElement DEF Excl, RaceCounted
    <2>2. \A p \in Obj : passed[p] \subseteq passed'[p]
        BY <1>0, <1>1, <1>2
    <2>3. ~mStop[o] => t \in passed'[o]
        BY <1>0, <1>1, <1>2
    <2>4. pc'[t] = "set" => ~mStop[o]
        BY <1>2, <1>5 DEF l, AfterStop
    <2>5. pc'[t] # "join"
        BY <1>0, <1>2, <1>5
    <2>6. \A u \in Thread : pc'[u] \in {"set", "join"} =>
            u \in passed'[held'[u]] /\ thread'[held'[u]] # "none"
        BY <1>0, <1>1, <1>3, <1>4, <2>2, <2>3, <2>4, <2>5, Typed
        DEF Excl, RaceCounted, HoldsItsOwn, CollectsStopped, Collecting, o
    <2>7. ASSUME NEW p \in allocated', thread'[p] = "joined"
          PROVE  mStop'[p] /\ \E u \in passed'[p] : ~(Past(u, p))'
        <3>1. mStop[p] /\ p \in Obj
            BY <1>1, <2>7, Typed DEF Excl, RaceCounted
        <3>2. PICK u \in passed[p] : ~Past(u, p)
            BY <1>1, <2>7 DEF Excl, RaceCounted
        <3>3. ~(Past(u, p))'
            <4>1. CASE u = t /\ p = o
                BY <2>4, <2>5, <3>1, <4>1 DEF Past
            <4>2. CASE u = t /\ p # o
                BY <1>1, <4>2 DEF Past, o
            <4>3. CASE u # t
                <5>1. u \in Thread
                    BY <3>1, <3>2 DEF TypeInv, TypeOK, ObjectsOK
                <5> QED BY <1>1, <1>4, <3>2, <4>3, <5>1 DEF Past
            <4> QED BY <4>1, <4>2, <4>3
        <3> QED BY <1>1, <2>2, <3>1, <3>2, <3>3
    <2> QED BY <2>1, <2>6, <2>7 DEF RaceCounted
<1>13. FaultOnlyByStopRace'
    BY <1>1 DEF FaultOnlyByStopRace
<1> QED
    BY <1>6, <1>7, <1>8, <1>9, <1>10, <1>11, <1>12, <1>13 DEF Excl

(* Who stops, joins, forgets or starts holds an object.                    *)
LEMMA HeldExists ==
  ASSUME TypeInv, Excl
  PROVE  /\ \A u \in Thread :
              /\ pc[u] \in {"stop", "set", "join", "forget", "erase"} =>
                   held[u] \in Obj /\ held[u] \in allocated
              /\ u \in Client /\ Starting(u) =>
                   held[u] \in Obj /\ held[u] \in allocated
              /\ held[u] # NoObj => held[u] \in Obj /\ held[u] \in allocated
         /\ \A i \in Id : streams[i] # NoObj =>
              streams[i] \in Obj /\ streams[i] \in allocated
<1>1. /\ Client \subseteq Thread /\ Collector \in Thread \ Client
      /\ Thread = Client \cup {Collector} /\ NoObj \notin Obj
      /\ allocated \subseteq Obj
    BY Typed
<1>2. \A u \in Thread : pc[u] \in {"stop", "set", "join", "forget", "erase"} =>
        held[u] # NoObj
    BY <1>1, Typed DEF Excl, HoldsItsOwn, CollectsStopped, Collecting
<1>3. \A u \in Client : Starting(u) => held[u] # NoObj
    BY DEF Excl, HoldsItsOwn, Starting
<1> QED
    BY <1>1, <1>2, <1>3 DEF Excl, HoldsItsOwn, NoneLeftOver

(* m_stop is set by one who has been counted, on a stream once started.    *)
LEMMA ExclSet ==
  ASSUME TypeInv, StartsFresh, Excl, fault = "none",
         NEW t \in Thread, Stopper(t), StopSet(t)
  PROVE  Excl'
<1> DEFINE o == held[t]
<1>0. /\ Client \subseteq Thread /\ Collector \in Thread \ Client
      /\ Thread = Client \cup {Collector}
      /\ DOMAIN pc = Thread /\ DOMAIN mStop = Obj
    BY Typed
<1>1. /\ pc[t] = "set" /\ pc' = [pc EXCEPT ![t] = "join"]
      /\ mStop' = [mStop EXCEPT ![o] = TRUE]
      /\ UNCHANGED <<streams, todo, req, held, fault, allocated, name, thread,
                     status, wpc, passed>>
    BY DEF StopSet, SetStop, Goto, manager, history
<1>2. o \in Obj /\ o \in allocated /\ thread[o] # "none"
    BY <1>0, <1>1, Typed
    DEF Excl, HoldsItsOwn, CollectsStopped, Stopper, RaceCounted
<1> HIDE DEF o
<1>3. \A u \in Thread : u # t => pc'[u] = pc[u]
    BY <1>0, <1>1
<1>4. pc'[t] = "join"
    BY <1>0, <1>1
<1>5. /\ mStop'[o] = TRUE
      /\ \A p \in Obj : p # o => mStop'[p] = mStop[p]
    BY <1>0, <1>1, <1>2
<1>6. OneAtATime' /\ NoneLeftOver' /\ StoppedLate' /\ FaultOnlyByStopRace'
    BY <1>1 DEF Excl, OneAtATime, NoneLeftOver, StoppedLate,
                FaultOnlyByStopRace
<1>7. HoldsItsOwn'
    BY <1>0, <1>1, <1>2, <1>3, <1>4 DEF Excl, HoldsItsOwn
<1>8. CollectsStopped'
    BY <1>0, <1>1, <1>3, <1>4 DEF Excl, CollectsStopped, Collecting
<1>9. StopsFirst'
    BY <1>0, <1>1, <1>3, <1>4, <1>5 DEF Excl, StopsFirst, Starting, o
<1>10. JoinerPresent'
    BY <1>0, <1>1, <1>3, <1>4, <1>5 DEF Excl, JoinerPresent, Joinable, o
<1>11. StartsOnce'
    BY <1>0, <1>1, <1>2, <1>3, <1>4, <1>5 DEF Excl, StartsOnce, Starting
<1>12. RaceCounted'
    <2>1. \A u \in Thread : pc'[u] \in {"set", "join"} <=> pc[u] \in {"set", "join"}
        BY <1>1, <1>3, <1>4
    <2>2. \A u \in Thread : \A p : (Past(u, p))' <=> Past(u, p)
        BY <1>1, <2>1 DEF Past
    <2>3. \A p \in Obj : passed[p] \subseteq Thread
        BY DEF TypeInv, TypeOK, ObjectsOK
    <2>4. ASSUME NEW p \in allocated', thread'[p] = "joined"
          PROVE  mStop'[p] /\ \E u \in passed'[p] : ~(Past(u, p))'
        <3>1. p \in Obj /\ mStop[p] /\ \E u \in passed[p] : ~Past(u, p)
            BY <1>1, <2>4, Typed DEF Excl, RaceCounted
        <3> QED
            BY <1>1, <1>5, <2>2, <2>3, <3>1
    <2> QED
        BY <1>1, <2>1, <2>4 DEF Excl, RaceCounted
<1> QED
    BY <1>6, <1>7, <1>8, <1>9, <1>10, <1>11, <1>12 DEF Excl

(* Two members of a finite set count for more than one.                    *)
LEMMA TwoCounted ==
  ASSUME NEW S, IsFiniteSet(S), NEW a \in S, NEW b \in S, a # b
  PROVE  Cardinality(S) > 1
<1>1. IsFiniteSet({a}) /\ Cardinality({a}) = 1
    BY FS_Singleton
<1>2. \A T, x : IsFiniteSet(T) => Cardinality(T \cup {x}) =
        IF x \in T THEN Cardinality(T) ELSE Cardinality(T) + 1
    BY FS_AddElement
<1>3. Cardinality({a} \cup {b}) = 2
    BY <1>1, <1>2
<1>4. \A T \in SUBSET S : Cardinality(T) <= Cardinality(S)
    BY FS_Subset
<1>5. Cardinality({a} \cup {b}) <= Cardinality(S)
    BY <1>4
<1>6. Cardinality(S) \in Nat
    BY FS_CardinalityType
<1> QED
    BY <1>3, <1>5, <1>6

(* join(): the thread object is joined once; a second join is the race.    *)
LEMMA ExclJoin ==
  ASSUME TypeInv, StartsFresh, Excl, fault = "none",
         NEW t \in Thread, Stopper(t), StopJoin(t)
  PROVE  Excl'
<1> DEFINE o == held[t]
<1>0. /\ Client \subseteq Thread /\ Collector \in Thread \ Client
      /\ Thread = Client \cup {Collector}
      /\ DOMAIN pc = Thread /\ DOMAIN thread = Obj
    BY Typed
<1>1. /\ pc[t] = "join"
      /\ UNCHANGED <<streams, todo, req, held, allocated, name, mStop, status,
                     wpc, passed>>
    BY DEF StopJoin, manager, history
<1>2. /\ o \in Obj /\ o \in allocated /\ thread[o] # "none" /\ mStop[o]
      /\ t \in passed[o]
    BY <1>0, <1>1, Typed
    DEF Excl, HoldsItsOwn, CollectsStopped, Stopper, RaceCounted, StopsFirst
<1>3. CASE /\ thread[o] \in {"none", "joined"}
           /\ fault' = "badJoin" /\ UNCHANGED <<thread, pc>>
    <2>1. thread[o] = "joined"
        BY <1>2, <1>3
    <2>2. PICK u \in passed[o] : ~Past(u, o)
        BY <1>2, <2>1 DEF Excl, RaceCounted
    <2>3. Past(t, o)
        BY <1>1 DEF Past
    <2>4. IsFiniteSet(passed[o])
        BY <1>2 DEF Excl, RaceCounted
    <2>5. Cardinality(passed[o]) > 1
        BY <1>2, <2>2, <2>3, <2>4, TwoCounted
    <2>6. FaultOnlyByStopRace'
        BY <1>1, <1>2, <1>3, <2>5 DEF FaultOnlyByStopRace
    <2>7. /\ OneAtATime' /\ HoldsItsOwn' /\ NoneLeftOver' /\ CollectsStopped'
          /\ StoppedLate'
        BY <1>1, <1>3 DEF Excl, OneAtATime, HoldsItsOwn, NoneLeftOver,
             CollectsStopped, Collecting, StoppedLate
    <2>8. /\ StopsFirst' /\ JoinerPresent' /\ StartsOnce' /\ RaceCounted'
        BY <1>1, <1>3 DEF Excl, StopsFirst, Starting, JoinerPresent, Joinable,
             StartsOnce, RaceCounted, Past
    <2> QED
        BY <2>6, <2>7, <2>8 DEF Excl
<1>4. CASE /\ thread[o] = "exited"
           /\ thread' = [thread EXCEPT ![o] = "joined"]
           /\ Goto(t, AfterStop(t)) /\ UNCHANGED fault
    <2> DEFINE l == AfterStop(t)
    <2>1. /\ t \in Client => l \in {"forget", "return"}
          /\ t = Collector => l = "erase" /\ Collecting
        BY <1>0, <1>1, Typed
        DEF Excl, CollectsStopped, Collecting, Stopper, AfterStop
    <2> HIDE DEF o, l
    <2>2. pc'[t] = l /\ \A u \in Thread : u # t => pc'[u] = pc[u]
        BY <1>0, <1>4 DEF Goto, l
    <2>3. /\ thread'[o] = "joined"
          /\ \A p \in Obj : p # o => thread'[p] = thread[p]
        BY <1>0, <1>2, <1>4
    <2>4. OneAtATime' /\ NoneLeftOver' /\ StoppedLate' /\ FaultOnlyByStopRace'
        BY <1>1, <1>4 DEF Excl, OneAtATime, NoneLeftOver, StoppedLate,
                          FaultOnlyByStopRace
    <2>5. HoldsItsOwn'
        BY <1>0, <1>1, <2>1, <2>2 DEF Excl, HoldsItsOwn
    <2>6. CollectsStopped'
        BY <1>0, <1>1, <2>1, <2>2 DEF Excl, CollectsStopped, Collecting
    <2>7. StopsFirst'
        BY <1>0, <1>1, <1>2, <2>1, <2>2 DEF Excl, StopsFirst, Starting, o
    <2>8. JoinerPresent'
        BY <1>0, <1>1, <2>1, <2>2, <2>3, Typed
        DEF Excl, JoinerPresent, Joinable, o
    <2>9. StartsOnce'
        BY <1>0, <1>1, <1>2, <1>4, <2>1, <2>2, <2>3
        DEF Excl, StartsOnce, Starting
    <2>10. RaceCounted'
        <3>1. \A u \in Thread : pc'[u] \in {"set", "join"} =>
                u # t /\ pc[u] \in {"set", "join"}
            BY <1>0, <2>1, <2>2
        <3>2. \A u \in Thread : \A p : (Past(u, p))' => Past(u, p)
            BY <1>1, <3>1 DEF Past
        <3>3. \A p \in Obj : passed[p] \subseteq Thread
            BY DEF TypeInv, TypeOK, ObjectsOK
        <3>4. ASSUME NEW p \in allocated', thread'[p] = "joined"
              PROVE  mStop'[p] /\ \E u \in passed'[p] : ~(Past(u, p))'
            <4>1. CASE p = o
                BY <1>1, <1>2, <3>1, <4>1 DEF Past
            <4>2. CASE p # o
                <5>1. p \in Obj /\ mStop[p] /\ \E u \in passed[p] : ~Past(u, p)
                    BY <1>1, <2>3, <3>4, <4>2, Typed DEF Excl, RaceCounted
                <5> QED
                    BY <1>1, <3>2, <3>3, <5>1
            <4> QED BY <4>1, <4>2
        <3> QED
            BY <1>1, <2>3, <3>1, <3>4, HeldExists DEF Excl, RaceCounted
    <2> QED
        BY <2>4, <2>5, <2>6, <2>7, <2>8, <2>9, <2>10 DEF Excl
<1> QED
    BY <1>3, <1>4 DEF StopJoin

(* No two clients hold the same stream.                                    *)
LEMMA HeldAlone ==
  ASSUME TypeInv, Excl, NEW t \in Client, pc[t] # "idle", held[t] # NoObj
  PROVE  /\ \A u \in Client : held[u] = held[t] => u = t
         /\ \A u \in Client : req[u].id = req[t].id => u = t
<1>1. Client \subseteq Thread /\ req[t].id \in Id
    BY Typed
<1>2. \A u \in Client : held[u] = held[t] => req[u].id = req[t].id
    BY <1>1 DEF Excl, HoldsItsOwn
<1> QED
    BY <1>1, <1>2 DEF Excl, OneAtATime

(* A request arrives; nobody else works on its id.                         *)
LEMMA ExclReceive ==
  ASSUME Serial, TypeInv, StartsFresh, Excl, fault = "none",
         NEW t \in Client, NEW op \in Operations, NEW i \in Id,
         NEW rep \in BOOLEAN, Receive(t, op, i, rep)
  PROVE  Excl'
<1>0. /\ Client \subseteq Thread /\ Collector \in Thread \ Client
      /\ Thread = Client \cup {Collector} /\ NoObj \notin Obj
      /\ allocated \subseteq Obj
    BY Typed
<1>1. /\ pc[t] = "idle" /\ held[t] = NoObj
      /\ \A u \in Client : req[u].id # i
      /\ UNCHANGED <<streams, todo, held, fault, allocated, name, mStop, thread,
                     status, wpc, passed>>
    BY DEF Receive, manager, objects, members, history, Excl, HoldsItsOwn
<1>2. /\ pc'[t] = "get" /\ req'[t].id = i
      /\ \A u \in Thread : u # t => pc'[u] = pc[u] /\ req'[u] = req[u]
    BY <1>0, Typed DEF Receive, Goto
<1>3. OneAtATime'
    BY <1>0, <1>1, <1>2 DEF Excl, OneAtATime
<1>4. HoldsItsOwn'
    BY <1>0, <1>1, <1>2 DEF Excl, HoldsItsOwn
<1>5. NoneLeftOver' /\ StoppedLate' /\ FaultOnlyByStopRace'
    BY <1>1 DEF Excl, NoneLeftOver, StoppedLate, FaultOnlyByStopRace
<1>6. CollectsStopped'
    BY <1>0, <1>1, <1>2 DEF Excl, CollectsStopped, Collecting
<1>7. StopsFirst'
    BY <1>0, <1>1, <1>2 DEF Excl, StopsFirst, Starting
<1>8. JoinerPresent'
    BY <1>0, <1>1, <1>2 DEF Excl, JoinerPresent, Joinable
<1>9. StartsOnce'
    BY <1>0, <1>1, <1>2 DEF Excl, StartsOnce, Starting
<1>10. RaceCounted'
    <2>1. \A u \in Thread : pc'[u] \in {"set", "join"} <=>
                              pc[u] \in {"set", "join"}
        BY <1>1, <1>2
    <2>2. \A p \in Obj : passed[p] \subseteq Thread
        BY DEF TypeInv, TypeOK, ObjectsOK
    <2> QED
        BY <1>0, <1>1, <2>1, <2>2 DEF Excl, RaceCounted, Past
<1> QED
    BY <1>3, <1>4, <1>5, <1>6, <1>7, <1>8, <1>9, <1>10 DEF Excl

(* A client looks its stream up; the collector holds nothing then.         *)
LEMMA ExclGet ==
  ASSUME TypeInv, StartsFresh, Excl, fault = "none",
         NEW t \in Client, GetStream(t)
  PROVE  Excl'
<1> DEFINE l == IF streams[req[t].id] # NoObj THEN "stop"
                ELSE IF req[t].op = "start" THEN "create" ELSE "return"
<1>0. /\ Client \subseteq Thread /\ Collector \in Thread \ Client
      /\ Thread = Client \cup {Collector} /\ NoObj \notin Obj
      /\ allocated \subseteq Obj
    BY Typed
<1>1. /\ pc[t] = "get" /\ held[t] = NoObj /\ req[t].id \in Id
      /\ UNCHANGED <<streams, todo, req, fault, allocated, name, mStop, thread,
                     status, wpc, passed>>
    BY Typed DEF GetStream, manager, objects, members, history, Excl,
                 HoldsItsOwn
<1>2. /\ pc'[t] = l /\ held'[t] = streams[req[t].id]
      /\ \A u \in Thread : u # t => pc'[u] = pc[u] /\ held'[u] = held[u]
    BY <1>0, Typed DEF GetStream, Goto
<1>3. l \in {"stop", "create", "return"}
      /\ (l = "stop" <=> streams[req[t].id] # NoObj)
    OBVIOUS
<1> HIDE DEF l
<1>4. OneAtATime' /\ StoppedLate' /\ FaultOnlyByStopRace'
    BY <1>0, <1>1, <1>2
    DEF Excl, OneAtATime, StoppedLate, FaultOnlyByStopRace
<1>5. HoldsItsOwn'
    BY <1>0, <1>1, <1>2, <1>3 DEF Excl, HoldsItsOwn, NoneLeftOver
<1>6. NoneLeftOver'
    BY <1>0, <1>1, <1>2 DEF Excl, NoneLeftOver
<1>7. CollectsStopped'
    BY <1>0, <1>1, <1>2 DEF Excl, CollectsStopped, Collecting
<1>8. StopsFirst'
    BY <1>0, <1>1, <1>2, <1>3 DEF Excl, StopsFirst, Starting
<1>9. JoinerPresent'
    BY <1>0, <1>1, <1>2, <1>3 DEF Excl, JoinerPresent, Joinable
<1>10. StartsOnce'
    BY <1>0, <1>1, <1>2, <1>3 DEF Excl, StartsOnce, Starting
<1>11. RaceCounted'
    <2>1. \A u \in Thread : pc'[u] \in {"set", "join"} =>
                              u # t /\ pc[u] \in {"set", "join"}
        BY <1>1, <1>2, <1>3
    <2>2. \A p \in Obj : passed[p] \subseteq Thread
        BY DEF TypeInv, TypeOK, ObjectsOK
    <2>3. \A u \in Thread : \A p : (Past(u, p))' => Past(u, p)
        BY <1>2, <2>1 DEF Past
    <2> QED
        BY <1>0, <1>1, <1>2, <2>1, <2>2, <2>3 DEF Excl, RaceCounted
<1> QED
    BY <1>4, <1>5, <1>6, <1>7, <1>8, <1>9, <1>10, <1>11 DEF Excl

(* start(): the object is new, so nobody stops it meanwhile.               *)
LEMMA ExclStart ==
  ASSUME TypeInv, StartsFresh, Excl, fault = "none", NEW t \in Client,
         StartRefused(t) \/ StartClear(t) \/ StartSpawn(t)
  PROVE  Excl'
<1> DEFINE o == held[t]
<1>0. /\ Client \subseteq Thread /\ Collector \in Thread \ Client
      /\ Thread = Client \cup {Collector} /\ NoObj \notin Obj
      /\ allocated \subseteq Obj
    BY Typed
<1>1. /\ Starting(t)
      /\ UNCHANGED <<streams, todo, req, held, fault, allocated, name, status,
                     passed>>
    BY DEF StartRefused, StartClear, StartSpawn, Starting, manager, objects,
           members, history
<1>2. /\ o \in allocated /\ o \in Obj /\ thread[o] = "none"
      /\ wpc[o] = "none" /\ status[o] = "init"
      /\ \A u \in Client : held[u] = o => u = t
      /\ \A u \in Client : req[u].id = req[t].id => u = t
      /\ name[o] = req[t].id /\ req[t].id \in Id
    BY <1>0, <1>1, HeldAlone, Typed
    DEF StartsFresh, Excl, StartsOnce, Starting, HoldsItsOwn
<1>3. Collecting => held[Collector] # o
    BY <1>2 DEF Excl, CollectsStopped
<1>4. pc[Collector] # "closed" => streams[req[t].id] = o
    BY <1>0, <1>1, <1>2 DEF Excl, StopsFirst
<1>5. /\ pc'[t] \in {"spawn", "return"}
      /\ \A u \in Thread : u # t => pc'[u] = pc[u]
    BY <1>0, Typed DEF StartRefused, StartClear, StartSpawn, Goto
<1>6. /\ \A p \in Obj : p # o =>
           mStop'[p] = mStop[p] /\ thread'[p] = thread[p] /\ wpc'[p] = wpc[p]
      /\ thread'[o] \in {"none", "running"}
      /\ pc'[t] = "spawn" => ~mStop'[o] /\ thread'[o] = "none"
      /\ pc'[t] = "return" => (mStop'[o] \/ thread'[o] # "none")
      /\ thread'[o] # "none" => ~mStop'[o]
    <2>0. DOMAIN pc = Thread /\ DOMAIN mStop = Obj /\ DOMAIN thread = Obj
          /\ DOMAIN wpc = Obj
        BY Typed
    <2>1. CASE StartRefused(t)
        <3>1. mStop[o]
            BY <2>1 DEF StartRefused, Excl, StartsOnce
        <3>2. pc'[t] = "return" /\ UNCHANGED <<mStop, thread, wpc>>
            BY <1>0, <2>0, <2>1 DEF StartRefused, Goto, objects, members
        <3> QED BY <1>2, <3>1, <3>2
    <2>2. CASE StartClear(t)
        BY <1>0, <1>2, <2>0, <2>2 DEF StartClear, Goto
    <2>3. CASE StartSpawn(t)
        <3>1. ~mStop[o]
            BY <2>3 DEF StartSpawn, Excl, StartsOnce
        <3> QED BY <1>0, <1>2, <2>0, <2>3, <3>1 DEF StartSpawn, Goto
    <2> QED BY <2>1, <2>2, <2>3
<1> HIDE DEF o
<1>7. OneAtATime' /\ NoneLeftOver' /\ FaultOnlyByStopRace'
    BY <1>0, <1>1 DEF Excl, OneAtATime, NoneLeftOver, FaultOnlyByStopRace
<1>8. HoldsItsOwn'
    BY <1>0, <1>1, <1>5 DEF Excl, HoldsItsOwn, Starting
<1>9. CollectsStopped'
    BY <1>0, <1>1, <1>5 DEF Excl, CollectsStopped, Collecting
<1>10. StoppedLate'
    BY <1>1, <1>2, <1>6 DEF Excl, StoppedLate
<1>11. StopsFirst'
    <2>1. ASSUME NEW u \in Thread, pc'[u] \in {"join", "forget", "erase"}
          PROVE  mStop'[held'[u]]
        <3>1. u # t /\ pc[u] = pc'[u] /\ mStop[held[u]]
            BY <1>5, <2>1 DEF Excl, StopsFirst
        <3>2. held[u] # o
            BY <1>0, <1>2, <1>3, <2>1, <3>1, Typed
            DEF Collecting, Excl, CollectsStopped
        <3> QED BY <1>1, <1>6, <2>1, <3>1, <3>2, HeldExists
    <2>2. ASSUME NEW u \in Client, pc'[u] = "create",
                 streams[req[u].id] # NoObj
          PROVE  mStop'[streams[req[u].id]]
        <3>1. u # t /\ pc[u] = "create" /\ req[u].id \in Id
            BY <1>0, <1>5, <2>2, Typed
        <3>2. streams[req[u].id] # o
            BY <1>2, <2>2, <3>1 DEF Excl, NoneLeftOver
        <3> QED BY <1>6, <2>2, <3>1, <3>2, HeldExists DEF Excl, StopsFirst
    <2>3. ASSUME NEW u \in Client, pc'[Collector] # "closed",
                 held[u] # NoObj, streams[req[u].id] # held[u]
          PROVE  mStop'[held[u]] /\ ~(Starting(u))'
        <3>1. pc[Collector] # "closed"
            BY <1>0, <1>5, <2>3
        <3>2. u # t /\ held[u] # o
            BY <1>2, <1>4, <2>3, <3>1 DEF o
        <3>3. mStop[held[u]] /\ ~Starting(u)
            BY <2>3, <3>1 DEF Excl, StopsFirst
        <3> QED BY <1>0, <1>5, <1>6, <2>3, <3>2, <3>3, HeldExists
            DEF Starting
    <2> QED
        BY <1>1, <2>1, <2>2, <2>3 DEF StopsFirst
<1>12. JoinerPresent'
    BY <1>0, <1>1, <1>2, <1>5, <1>6
    DEF Excl, JoinerPresent, Joinable, Starting
<1>13. StartsOnce'
    <2>1. ASSUME NEW u \in Client, u # t, (Starting(u))'
          PROVE  Starting(u) /\ held[u] # o /\ pc'[u] = pc[u]
        BY <1>0, <1>2, <1>5, <2>1 DEF Starting
    <2>2. \A u \in Client : u # t /\ Starting(u) => (Starting(u))'
        BY <1>0, <1>5 DEF Starting
    <2>3. pc'[t] = "spawn" => (Starting(t))'
        BY DEF Starting
    <2>4. (Starting(t))' => pc'[t] = "spawn"
        BY <1>5 DEF Starting
    <2>5. ASSUME NEW p \in allocated, thread'[p] = "none", ~mStop'[p]
          PROVE  \E u \in Client : (Starting(u))' /\ held[u] = p
        BY <1>0, <1>5, <1>6, <2>2, <2>3, <2>5 DEF Excl, StartsOnce, o
    <2>6. ASSUME NEW u \in Client
          PROVE  /\ (Starting(u))' => thread'[held[u]] = "none"
                 /\ pc'[u] = "start" /\ Kind = "file" => mStop'[held[u]]
                 /\ pc'[u] = "spawn" => ~mStop'[held[u]]
        <3>1. CASE u = t
            BY <1>5, <1>6, <2>4, <3>1 DEF o
        <3>2. CASE u # t
            BY <1>0, <1>6, <2>1, <3>2, HeldExists
            DEF Excl, StartsOnce, Starting
        <3> QED BY <3>1, <3>2
    <2> QED
        BY <1>1, <2>5, <2>6 DEF StartsOnce
<1>14. RaceCounted'
    <2>1. \A u \in Thread : pc'[u] \in {"set", "join"} =>
                              u # t /\ pc[u] \in {"set", "join"}
        BY <1>5
    <2>2. \A p \in Obj : passed[p] \subseteq Thread
        BY DEF TypeInv, TypeOK, ObjectsOK
    <2>3. \A u \in Thread : \A p : (Past(u, p))' => Past(u, p)
        BY <1>1, <1>5, <2>1 DEF Past
    <2>4. \A u \in Thread : pc'[u] \in {"set", "join"} => held[u] # o
        BY <1>2, <2>1 DEF Excl, RaceCounted
    <2>5. \A p \in allocated : thread'[p] = "joined" => p # o
        BY <1>6
    <2> QED
        BY <1>0, <1>1, <1>6, <2>1, <2>2, <2>3, <2>4, <2>5, HeldExists
        DEF Excl, RaceCounted
<1> QED
    BY <1>7, <1>8, <1>9, <1>10, <1>11, <1>12, <1>13, <1>14 DEF Excl

(* What a worker does to its own object, and that it leaves the others.    *)
LEMMA WorkerEffect ==
  ASSUME TypeInv, StoppedLate, NEW o \in Obj, WorkerStep(o)
  PROVE  /\ UNCHANGED <<manager, threads, allocated, name, mStop, report,
                        passed>>
         /\ \A p \in Obj : p # o => /\ thread'[p] = thread[p]
                                    /\ status'[p] = status[p]
                                    /\ wpc'[p] = wpc[p]
         /\ thread[o] = "running" /\ thread'[o] \in {"running", "exited"}
         /\ status[o] = "stopped" => status'[o] = "stopped"
         /\ status'[o] = "stopped" =>
              wpc'[o] \in {"report", "failReport", "close", "failClose", "done"}
<1>0. DOMAIN thread = Obj /\ DOMAIN status = Obj /\ DOMAIN wpc = Obj
    BY Typed
<1>1. ASSUME NEW f, NEW g, Advance(o, f, g)
      PROVE  /\ UNCHANGED <<manager, threads, allocated, name, mStop, report,
                            passed>>
             /\ thread[o] = "running" /\ wpc[o] = f /\ wpc'[o] = g
             /\ \A p \in Obj : p # o => wpc'[p] = wpc[p]
    BY <1>0, <1>1 DEF Advance
<1>2. CASE SvrBegin(o)
    BY <1>0, <1>1, <1>2 DEF SvrBegin, StoppedLate
<1>3. CASE SvrInitOk(o) \/ SvrInitFail(o) \/ SvrStop(o) \/ SvrFinish(o)
    BY <1>1, <1>3
    DEF SvrInitOk, SvrInitFail, SvrStop, SvrFinish, StoppedLate
<1>4. CASE SvrStamp(o) \/ SvrReport(o)
    BY <1>1, <1>4 DEF SvrStamp, SvrReport, StoppedLate
<1>5. CASE SvrStopped(o)
    BY <1>0, <1>1, <1>5 DEF SvrStopped
<1>6. CASE SvrClose(o)
    BY <1>0, <1>1, <1>6 DEF SvrClose
<1> QED
    BY <1>2, <1>3, <1>4, <1>5, <1>6 DEF WorkerStep

(* A worker never joins itself or starts anew.                             *)
LEMMA ExclWorker ==
  ASSUME TypeInv, StartsFresh, Excl, fault = "none",
         NEW o \in Obj, WorkerStep(o)
  PROVE  Excl'
<1>0. /\ Client \subseteq Thread /\ Collector \in Thread \ Client
      /\ Thread = Client \cup {Collector} /\ NoObj \notin Obj
      /\ allocated \subseteq Obj
    BY Typed
<1>1. /\ UNCHANGED <<streams, todo, pc, req, held, fault, allocated, name,
                     mStop, passed>>
      /\ \A p \in Obj : p # o => /\ thread'[p] = thread[p]
                                 /\ status'[p] = status[p]
                                 /\ wpc'[p] = wpc[p]
      /\ thread[o] = "running" /\ thread'[o] \in {"running", "exited"}
      /\ status[o] = "stopped" => status'[o] = "stopped"
      /\ status'[o] = "stopped" =>
           wpc'[o] \in {"report", "failReport", "close", "failClose", "done"}
    BY WorkerEffect DEF Excl, manager, threads
<1>2. /\ OneAtATime' /\ HoldsItsOwn' /\ NoneLeftOver' /\ StopsFirst'
      /\ FaultOnlyByStopRace'
    BY <1>1 DEF Excl, OneAtATime, HoldsItsOwn, NoneLeftOver, StopsFirst,
                Starting, FaultOnlyByStopRace
<1>3. CollectsStopped'
    BY <1>1 DEF Excl, CollectsStopped, Collecting
<1>4. StoppedLate'
    BY <1>1 DEF Excl, StoppedLate
<1>5. JoinerPresent'
    BY <1>0, <1>1 DEF Excl, JoinerPresent, Joinable
<1>6. StartsOnce'
    BY <1>0, <1>1, HeldExists DEF Excl, StartsOnce, Starting
<1>7. RaceCounted'
    BY <1>0, <1>1, HeldExists DEF Excl, RaceCounted, Past
<1> QED
    BY <1>2, <1>3, <1>4, <1>5, <1>6, <1>7 DEF Excl

(* The collector goes over the map without taking anything out of it.      *)
LEMMA ExclScan ==
  ASSUME TypeInv, StartsFresh, Excl, fault = "none",
         CollectBegin \/ (\E i \in Id : CollectVisit(i)) \/ CollectEnd
  PROVE  Excl'
<1> DEFINE Scans ==
      /\ \A u \in Client : /\ pc'[u] = pc[u] /\ req'[u] = req[u]
                           /\ held'[u] = held[u]
      /\ pc'[Collector] \in {"sleep", "scan", "exit", "stop"}
      /\ pc'[Collector] # "stop" => held'[Collector] = NoObj
      /\ pc'[Collector] = "stop" =>
           \E i \in Id : /\ i \in todo /\ Expired(streams[i])
                         /\ held'[Collector] = streams[i]
                         /\ req'[Collector].id = i
                         /\ req'[Collector].op = "collect"
      /\ \A i \in todo' : pc'[Collector] \in {"scan", "stop"}
                            /\ streams[i] # NoObj
<1>0. /\ Client \subseteq Thread /\ Collector \in Thread \ Client
      /\ Thread = Client \cup {Collector} /\ NoObj \notin Obj
      /\ allocated \subseteq Obj
      /\ DOMAIN pc = Thread /\ DOMAIN req = Thread
    BY Typed
<1>1. /\ pc[Collector] \in {"sleep", "scan"} /\ held[Collector] = NoObj
      /\ UNCHANGED <<streams, fault, allocated, name, mStop, thread, status,
                     wpc, passed>>
    BY DEF CollectBegin, CollectVisit, CollectEnd, PassOver, SetDue, Excl,
           CollectsStopped, Collecting, manager, history, objects, members
<1>2. Scans
    <2>1. CASE CollectBegin
        BY <1>0, <1>1, <2>1 DEF CollectBegin, Goto
    <2>2. ASSUME NEW i \in Id, CollectVisit(i), Expired(streams[i])
          PROVE  Scans
        BY <1>0, <1>1, <2>2, Typed DEF CollectVisit, Goto, Excl, CollectsStopped
    <2>3. ASSUME NEW i \in Id, CollectVisit(i), ~Expired(streams[i])
          PROVE  Scans
        BY <1>0, <1>1, <2>3 DEF CollectVisit, Excl, CollectsStopped
    <2>4. CASE CollectEnd
        BY <1>0, <1>1, <2>4 DEF CollectEnd, PassOver, Goto, manager
    <2> QED BY <2>1, <2>2, <2>3, <2>4
<1>3. /\ OneAtATime' /\ StoppedLate' /\ FaultOnlyByStopRace'
    BY <1>1, <1>2 DEF Excl, OneAtATime, StoppedLate, FaultOnlyByStopRace
<1>4. HoldsItsOwn'
    <2>1. held'[Collector] # NoObj =>
            /\ held'[Collector] \in allocated
            /\ name[held'[Collector]] = req'[Collector].id
        BY <1>2 DEF Excl, NoneLeftOver
    <2> QED
        BY <1>0, <1>1, <1>2, <2>1 DEF Excl, HoldsItsOwn
<1>5. NoneLeftOver'
    BY <1>0, <1>1, <1>2 DEF Excl, NoneLeftOver
<1>6. CollectsStopped'
    BY <1>0, <1>1, <1>2, HeldExists
    DEF Excl, CollectsStopped, Collecting, Expired
<1>7. StopsFirst'
    BY <1>0, <1>1, <1>2 DEF Excl, StopsFirst, Starting
<1>8. JoinerPresent'
    BY <1>0, <1>1, <1>2 DEF Excl, JoinerPresent, Joinable
<1>9. StartsOnce'
    BY <1>0, <1>1, <1>2 DEF Excl, StartsOnce, Starting
<1>10. RaceCounted'
    <2>1. \A u \in Thread : /\ pc'[u] \in {"set", "join"} =>
                                 u # Collector /\ pc[u] = pc'[u]
                            /\ u # Collector => held'[u] = held[u]
        BY <1>0, <1>1, <1>2
    <2>2. \A p \in Obj : passed[p] \subseteq Thread
        BY DEF TypeInv, TypeOK, ObjectsOK
    <2>3. \A u \in Thread : \A p : (Past(u, p))' => Past(u, p)
        BY <1>2, <2>1 DEF Past
    <2> QED
        BY <1>0, <1>1, <1>2, <2>1, <2>2, <2>3 DEF Excl, RaceCounted
<1> QED
    BY <1>3, <1>4, <1>5, <1>6, <1>7, <1>8, <1>9, <1>10 DEF Excl

(* close() begins, time passes, or nothing happens.                        *)
LEMMA ExclStill ==
  ASSUME Excl, CloseBegin \/ Tick \/ UNCHANGED vars
  PROVE  Excl'
<1>1. UNCHANGED <<streams, todo, pc, req, held, fault, allocated, name, mStop,
                  thread, status, wpc, passed>>
    BY DEF CloseBegin, Tick, vars, manager, threads, objects, members, history
<1>2. /\ OneAtATime' /\ HoldsItsOwn' /\ NoneLeftOver' /\ CollectsStopped'
      /\ StoppedLate'
    BY <1>1 DEF Excl, OneAtATime, HoldsItsOwn, NoneLeftOver, CollectsStopped,
                Collecting, StoppedLate
<1>3. /\ StopsFirst' /\ JoinerPresent' /\ StartsOnce' /\ RaceCounted'
      /\ FaultOnlyByStopRace'
    BY <1>1 DEF Excl, StopsFirst, Starting, JoinerPresent, Joinable, StartsOnce,
                RaceCounted, Past, FaultOnlyByStopRace
<1> QED
    BY <1>2, <1>3 DEF Excl

(* Pointers change: the objects still referred to stay as they are, the    *)
(* others are gone, and a new one is as its constructor leaves it.         *)
Referred(s, h, p) ==
  (\E i \in Id : s[i] = p) \/ (\E t \in Thread : h[t] = p)

Kept(p) ==
  /\ p \in allocated /\ p \in allocated'
  /\ name'[p] = name[p] /\ mStop'[p] = mStop[p] /\ thread'[p] = thread[p]
  /\ status'[p] = status[p] /\ passed'[p] = passed[p]

(* What is kept is what is referred to.                                    *)
LEMMA Survivors ==
  ASSUME TypeInv, Excl, NEW s, NEW h, NEW o \in Obj \cup {NoObj},
         o \notin allocated, NEW i, Repoint(s, h, o, i)
  PROVE  /\ streams' = s /\ held' = h /\ allocated' \subseteq Obj
         /\ \A p \in allocated' :
              p = o \/ (p # o /\ Kept(p) /\ Referred(s, h, p))
         /\ \A p \in allocated : Referred(s, h, p) => p # o /\ Kept(p)
         /\ o # NoObj => /\ o \in allocated' /\ name'[o] = i
                         /\ mStop'[o] = (Kind = "file")
                         /\ thread'[o] = "none"
         /\ StoppedLate' /\ (\A p \in Obj : IsFiniteSet(passed'[p]))
<1>0. NoObj \notin Obj /\ allocated \subseteq Obj /\ TypeOK
    BY Typed DEF TypeInv
<1>1. /\ streams' = s /\ held' = h
      /\ \A p \in Obj :
           \/ /\ p = o \/ p \in Unreferenced(s, h)
              /\ p \in allocated' <=> p = o
              /\ p = o => name'[p] = i
              /\ mStop'[p] = (Kind = "file") /\ thread'[p] = "none"
              /\ status'[p] = "init" /\ wpc'[p] = "none"
              /\ passed'[p] = {}
           \/ /\ p # o /\ p \notin Unreferenced(s, h)
              /\ p \in allocated' <=> p \in allocated
              /\ name'[p] = name[p]
              /\ mStop'[p] = mStop[p] /\ thread'[p] = thread[p]
              /\ status'[p] = status[p] /\ wpc'[p] = wpc[p]
              /\ passed'[p] = passed[p]
    BY <1>0, RepointMembers
<1>2. allocated' = (allocated \ Unreferenced(s, h)) \cup ({o} \ {NoObj})
    BY DEF Repoint
<1>3. allocated' \subseteq Obj
    BY <1>0, <1>2
<1>4. \A p \in allocated :
        p \in Unreferenced(s, h) <=> ~Referred(s, h, p)
    BY DEF Unreferenced, Referred
<1>5. \A p \in allocated' :
        p = o \/ (p # o /\ Kept(p) /\ Referred(s, h, p))
    BY <1>1, <1>3, <1>4 DEF Kept
<1>6. \A p \in allocated : Referred(s, h, p) => p # o /\ Kept(p)
    BY <1>0, <1>1, <1>4 DEF Kept
<1>7. o # NoObj => /\ o \in allocated' /\ name'[o] = i
                   /\ mStop'[o] = (Kind = "file") /\ thread'[o] = "none"
    BY <1>1
<1>8. StoppedLate'
    BY <1>1 DEF Excl, StoppedLate
<1>9. \A p \in Obj : IsFiniteSet(passed'[p])
    BY <1>1, FS_EmptySet DEF Excl, RaceCounted
<1> QED
    BY <1>1, <1>3, <1>5, <1>6, <1>7, <1>8, <1>9

(* The same when nothing is created.                                       *)
LEMMA Destroyed ==
  ASSUME TypeInv, Excl, NEW s, NEW h, Repoint(s, h, NoObj, NoObj)
  PROVE  /\ streams' = s /\ held' = h /\ allocated' \subseteq Obj
         /\ \A p \in allocated' : Kept(p) /\ Referred(s, h, p)
         /\ \A p \in allocated : Referred(s, h, p) => Kept(p)
         /\ StoppedLate' /\ (\A p \in Obj : IsFiniteSet(passed'[p]))
<1>1. NoObj \in Obj \cup {NoObj} /\ NoObj \notin allocated
    BY Typed
<1>2. /\ streams' = s /\ held' = h /\ allocated' \subseteq Obj
      /\ \A p \in allocated' :
           p = NoObj \/ (p # NoObj /\ Kept(p) /\ Referred(s, h, p))
      /\ \A p \in allocated : Referred(s, h, p) => p # NoObj /\ Kept(p)
      /\ StoppedLate' /\ (\A p \in Obj : IsFiniteSet(passed'[p]))
    BY <1>1, Survivors
<1> QED
    BY <1>2, Typed

(* Nothing is destroyed unjoined when m_stop was set on all that goes and  *)
(* everybody in join() keeps the object: the one who joins holds it.       *)
LEMMA NoneUnjoined ==
  ASSUME TypeInv, Excl, NEW s, NEW h, NEW o, NEW i, Repoint(s, h, o, i),
         \A p \in allocated : ~Referred(s, h, p) => mStop[p],
         \A u \in Thread : pc[u] = "join" => h[u] = held[u]
  PROVE  fault' = "none"
<1>1. \A p \in Unreferenced(s, h) : ~Joinable(p)
    BY DEF Unreferenced, Referred, Excl, JoinerPresent
<1> QED
    BY <1>1 DEF Repoint

(* A client lets go of its stream.                                         *)
LEMMA ExclLetGo ==
  ASSUME TypeInv, StartsFresh, Excl, fault = "none",
         NEW t \in Client, Forget(t) \/ Respond(t)
  PROVE  Excl'
<1> DEFINE h == [held EXCEPT ![t] = NoObj]
<1>0. /\ Client \subseteq Thread /\ Collector \in Thread \ Client
      /\ Thread = Client \cup {Collector} /\ NoObj \notin Obj /\ NoObj \notin Id
      /\ allocated \subseteq Obj
      /\ DOMAIN pc = Thread /\ DOMAIN req = Thread /\ DOMAIN held = Thread
    BY Typed
<1>1. Repoint(streams, h, NoObj, NoObj) /\ todo' = todo
    BY DEF Forget, Respond
<1>2. /\ h[t] = NoObj
      /\ \A u \in Thread : u # t => h[u] = held[u]
    BY <1>0
<1>3. /\ \A u \in Thread : u # t => pc'[u] = pc[u] /\ req'[u] = req[u]
      /\ \/ pc[t] = "forget" /\ pc'[t] = "create" /\ req'[t] = req[t]
         \/ pc[t] = "return" /\ pc'[t] = "idle" /\ req'[t].id = NoObj
    BY <1>0 DEF Forget, Respond, Goto, NoReq
<1> HIDE DEF h
<1>4. /\ streams' = streams /\ held' = h /\ allocated' \subseteq Obj
      /\ \A p \in allocated' : Kept(p) /\ Referred(streams, h, p)
      /\ \A p \in allocated : Referred(streams, h, p) => Kept(p)
      /\ StoppedLate' /\ (\A p \in Obj : IsFiniteSet(passed'[p]))
    BY <1>1, Destroyed
<1>5. /\ \A u \in Thread : u # t /\ held[u] # NoObj =>
                             held'[u] = held[u] /\ Kept(held[u])
      /\ \A i \in Id : streams[i] # NoObj => Kept(streams[i])
    BY <1>2, <1>4, HeldExists DEF Referred
<1>6. FaultOnlyByStopRace'
    <2>1. CASE pc[Collector] = "closed"
        BY <1>0, <1>1, <1>3, <2>1 DEF Repoint, FaultOnlyByStopRace
    <2>2. CASE pc[Collector] # "closed"
        <3>1. ASSUME NEW p \in allocated, ~Referred(streams, h, p)
              PROVE  mStop[p]
            <4>1. held[t] = p
                BY <1>2, <3>1 DEF Excl, NoneLeftOver, Referred
            <4>2. req[t].id \in Id
                BY <1>3, Typed
            <4>3. streams[req[t].id] # p /\ held[t] # NoObj
                BY <1>0, <3>1, <4>1, <4>2 DEF Referred
            <4> QED
                BY <2>2, <4>1, <4>3 DEF Excl, StopsFirst
        <3>2. \A u \in Thread : pc[u] = "join" => h[u] = held[u]
            BY <1>2, <1>3
        <3>3. fault' = "none"
            BY <1>1, <3>1, <3>2, NoneUnjoined
        <3> QED
            BY <3>3 DEF FaultOnlyByStopRace
    <2> QED
        BY <2>1, <2>2
<1>7. OneAtATime'
    BY <1>0, <1>3 DEF Excl, OneAtATime
<1>8. HoldsItsOwn'
    BY <1>0, <1>2, <1>3, <1>4, <1>5 DEF Excl, HoldsItsOwn, Kept
<1>9. NoneLeftOver'
    BY <1>4, <1>5 DEF Excl, NoneLeftOver, Kept, Referred
<1>10. CollectsStopped'
    BY <1>0, <1>1, <1>2, <1>3, <1>4, <1>5
    DEF Excl, CollectsStopped, Collecting, Kept
<1>11. StopsFirst'
    <2>1. \A u \in Thread : pc'[u] \in {"join", "forget", "erase"} =>
            mStop'[held'[u]]
        BY <1>0, <1>3, <1>5, HeldExists DEF Excl, StopsFirst, Kept
    <2>2. ASSUME NEW u \in Client, pc'[u] = "create",
                 streams[req'[u].id] # NoObj
          PROVE  mStop'[streams[req'[u].id]]
        <3>1. req'[u] = req[u] /\ req[u].id \in Id
            BY <1>0, <1>3, <2>2, Typed
        <3>2. CASE u = t
            <4>1. held[t] = streams[req[t].id] /\ mStop[held[t]]
                BY <1>0, <1>3, <2>2, <3>1, <3>2
                DEF Excl, HoldsItsOwn, StopsFirst
            <4> QED BY <1>5, <2>2, <3>1, <3>2, <4>1 DEF Kept
        <3>3. CASE u # t
            BY <1>0, <1>3, <1>5, <2>2, <3>1, <3>3 DEF Excl, StopsFirst, Kept
        <3> QED BY <3>2, <3>3
    <2>3. ASSUME NEW u \in Client, pc'[Collector] # "closed",
                 held'[u] # NoObj, streams[req'[u].id] # held'[u]
          PROVE  mStop'[held'[u]] /\ ~(Starting(u))'
        BY <1>0, <1>2, <1>3, <1>4, <1>5, <2>3
        DEF Excl, StopsFirst, Starting, Kept
    <2> QED
        BY <1>4, <2>1, <2>2, <2>3 DEF StopsFirst
<1>12. JoinerPresent'
    BY <1>0, <1>2, <1>3, <1>4 DEF Excl, JoinerPresent, Joinable, Kept
<1>13. \A u \in Client : (Starting(u))' => u # t /\ Starting(u)
    BY <1>0, <1>3 DEF Starting
<1>14. StartsOnce'
    <2>1. \A u \in Client : u # t /\ Starting(u) =>
            /\ (Starting(u))' /\ held'[u] = held[u] /\ Kept(held[u])
            /\ pc'[u] = pc[u]
        BY <1>0, <1>3, <1>5, HeldExists DEF Starting
    <2>2. ~Starting(t)
        BY <1>3 DEF Starting
    <2>3. \A u \in Client : pc'[u] \in {"start", "spawn"} => (Starting(u))'
        BY DEF Starting
    <2> QED
        BY <1>4, <1>13, <2>1, <2>2, <2>3 DEF Excl, StartsOnce, Kept
<1>15. RaceCounted'
    <2>1. \A u \in Thread : pc'[u] \in {"set", "join"} =>
            /\ u # t /\ pc[u] = pc'[u] /\ held'[u] = held[u] /\ Kept(held[u])
        BY <1>3, <1>5, HeldExists, <1>0
    <2>2. \A p \in Obj : passed[p] \subseteq Thread
        BY DEF TypeInv, TypeOK, ObjectsOK
    <2>3. \A u \in Thread : \A p : (Past(u, p))' => Past(u, p)
        BY <2>1 DEF Past
    <2> QED
        BY <1>0, <1>4, <2>1, <2>2, <2>3 DEF Excl, RaceCounted, Kept
<1> QED
    BY <1>4, <1>6, <1>7, <1>8, <1>9, <1>10, <1>11, <1>12, <1>14, <1>15 DEF Excl

(* The collector takes the stream it has stopped out of the map.           *)
LEMMA ExclErase ==
  ASSUME TypeInv, StartsFresh, Excl, fault = "none", CollectErase
  PROVE  Excl'
<1> DEFINE h == [held EXCEPT ![Collector] = NoObj]
           i == req[Collector].id
           s == [streams EXCEPT ![i] = NoObj]
           o == held[Collector]
<1>0. /\ Client \subseteq Thread /\ Collector \in Thread \ Client
      /\ Thread = Client \cup {Collector} /\ NoObj \notin Obj /\ NoObj \notin Id
      /\ allocated \subseteq Obj
      /\ DOMAIN pc = Thread /\ DOMAIN req = Thread /\ DOMAIN held = Thread
      /\ DOMAIN streams = Id
    BY Typed
<1>1. Repoint(s, h, NoObj, NoObj) /\ todo' = todo \ {i}
    BY DEF CollectErase
<1>2. /\ pc[Collector] = "erase" /\ Collecting /\ i \in Id
      /\ o = streams[i] /\ o \in Obj /\ status[o] = "stopped" /\ mStop[o]
    BY <1>0 DEF CollectErase, Collecting, Excl, CollectsStopped, StopsFirst
<1>3. /\ h[Collector] = NoObj /\ s[i] = NoObj
      /\ \A u \in Client : h[u] = held[u]
      /\ \A j \in Id : j # i => s[j] = streams[j]
    BY <1>0, <1>2
<1>4. /\ pc'[Collector] = "scan"
      /\ \A u \in Client : pc'[u] = pc[u] /\ req'[u] = req[u]
    BY <1>0 DEF CollectErase, Goto
<1> HIDE DEF h, s, i, o
<1>5. /\ streams' = s /\ held' = h /\ allocated' \subseteq Obj
      /\ \A p \in allocated' : Kept(p) /\ Referred(s, h, p)
      /\ \A p \in allocated : Referred(s, h, p) => Kept(p)
      /\ StoppedLate' /\ (\A p \in Obj : IsFiniteSet(passed'[p]))
    BY <1>1, Destroyed
<1>6. /\ \A u \in Client : held[u] # NoObj => Kept(held[u])
      /\ \A j \in Id : s[j] # NoObj => s[j] = streams[j] /\ Kept(s[j])
    BY <1>0, <1>2, <1>3, <1>5, HeldExists DEF Referred
<1>7. FaultOnlyByStopRace'
    <2>1. ASSUME NEW p \in allocated, ~Referred(s, h, p)
          PROVE  mStop[p]
        <3>1. p = o
            BY <1>0, <1>2, <1>3, <2>1 DEF Excl, NoneLeftOver, Referred, o
        <3> QED
            BY <1>2, <3>1
    <2>2. \A u \in Thread : pc[u] = "join" => h[u] = held[u]
        BY <1>0, <1>2, <1>3
    <2>3. fault' = "none"
        BY <1>1, <2>1, <2>2, NoneUnjoined
    <2> QED
        BY <2>3 DEF FaultOnlyByStopRace
<1>8. OneAtATime'
    BY <1>0, <1>4 DEF Excl, OneAtATime
<1>9. HoldsItsOwn'
    BY <1>0, <1>3, <1>4, <1>5, <1>6, Typed DEF Excl, HoldsItsOwn, Kept
<1>10. NoneLeftOver'
    BY <1>5, <1>6 DEF Excl, NoneLeftOver, Kept, Referred
<1>11. CollectsStopped'
    <2>1. todo \subseteq Id
        BY DEF TypeInv, TypeOK
    <2> QED
        BY <1>0, <1>1, <1>2, <1>3, <1>4, <1>5, <2>1
        DEF Excl, CollectsStopped, Collecting
<1>12. StopsFirst'
    <2>1. \A u \in Thread : pc'[u] \in {"join", "forget", "erase"} =>
            mStop'[held'[u]]
        BY <1>0, <1>3, <1>4, <1>5, <1>6, HeldExists DEF Excl, StopsFirst, Kept
    <2>2. ASSUME NEW u \in Client, pc'[u] = "create",
                 s[req[u].id] # NoObj
          PROVE  mStop'[s[req[u].id]]
        <3>1. req[u].id \in Id /\ pc[u] = "create"
            BY <1>0, <1>4, <2>2, Typed
        <3> QED BY <1>6, <2>2, <3>1 DEF Excl, StopsFirst, Kept
    <2>3. ASSUME NEW u \in Client, held[u] # NoObj, s[req[u].id] # held[u]
          PROVE  mStop'[held[u]] /\ ~(Starting(u))'
        <3>1. CASE req[u].id = i
            <4>1. held[u] = o
                BY <1>0, <1>2, <2>3, <3>1 DEF Excl, HoldsItsOwn
            <4>2. ~Starting(u)
                BY <1>2, <4>1 DEF StartsFresh
            <4> QED
                BY <1>2, <1>4, <1>6, <2>3, <4>1, <4>2 DEF Kept, Starting
        <3>2. CASE req[u].id # i
            <4>1. req[u].id \in Id
                BY <2>3, Typed DEF Excl, HoldsItsOwn
            <4>2. mStop[held[u]] /\ ~Starting(u)
                BY <1>2, <1>3, <2>3, <3>2, <4>1 DEF Excl, StopsFirst
            <4> QED
                BY <1>4, <1>6, <2>3, <4>2 DEF Kept, Starting
        <3> QED BY <3>1, <3>2
    <2> QED
        BY <1>0, <1>3, <1>4, <1>5, <2>1, <2>2, <2>3 DEF StopsFirst
<1>13. JoinerPresent'
    BY <1>0, <1>2, <1>3, <1>4, <1>5 DEF Excl, JoinerPresent, Joinable, Kept
<1>14. StartsOnce'
    <2>1. \A u \in Client : (Starting(u))' <=> Starting(u)
        BY <1>4 DEF Starting
    <2>2. \A u \in Client : Starting(u) =>
            held'[u] = held[u] /\ Kept(held[u])
        BY <1>0, <1>3, <1>5, <1>6, HeldExists
    <2>3. \A u \in Client : pc[u] \in {"start", "spawn"} => Starting(u)
        BY DEF Starting
    <2> QED
        BY <1>4, <1>5, <2>1, <2>2, <2>3 DEF Excl, StartsOnce, Kept
<1>15. RaceCounted'
    <2>1. \A u \in Thread : pc'[u] \in {"set", "join"} =>
            pc[u] = pc'[u] /\ held'[u] = held[u] /\ Kept(held[u])
        BY <1>0, <1>3, <1>4, <1>5, <1>6, HeldExists
    <2>2. \A p \in Obj : passed[p] \subseteq Thread
        BY DEF TypeInv, TypeOK, ObjectsOK
    <2>3. \A u \in Thread : \A p : (Past(u, p))' => Past(u, p)
        BY <2>1 DEF Past
    <2> QED
        BY <1>0, <1>5, <2>1, <2>2, <2>3 DEF Excl, RaceCounted, Kept
<1> QED
    BY <1>5, <1>7, <1>8, <1>9, <1>10, <1>11, <1>12, <1>13, <1>14, <1>15 DEF Excl

(* close() clears the map: the one step that may destroy a live worker.    *)
LEMMA ExclClear ==
  ASSUME TypeInv, StartsFresh, Excl, fault = "none", CloseClear
  PROVE  Excl'
<1> DEFINE s == [i \in Id |-> NoObj]
<1>0. /\ Client \subseteq Thread /\ Collector \in Thread \ Client
      /\ Thread = Client \cup {Collector} /\ NoObj \notin Obj
      /\ allocated \subseteq Obj /\ DOMAIN pc = Thread
    BY Typed
<1>1. /\ Repoint(s, held, NoObj, NoObj) /\ UNCHANGED <<todo, req>>
      /\ held[Collector] = NoObj /\ todo = {}
    BY DEF CloseClear, Excl, CollectsStopped, Collecting
<1>2. /\ pc'[Collector] = "closed"
      /\ \A u \in Client : pc'[u] = pc[u]
    BY <1>0 DEF CloseClear, Goto
<1>3. \A i \in Id : s[i] = NoObj
    OBVIOUS
<1> HIDE DEF s
<1>4. /\ streams' = s /\ held' = held /\ allocated' \subseteq Obj
      /\ \A p \in allocated' : Kept(p) /\ Referred(s, held, p)
      /\ \A p \in allocated : Referred(s, held, p) => Kept(p)
      /\ StoppedLate' /\ (\A p \in Obj : IsFiniteSet(passed'[p]))
    BY <1>1, Destroyed
<1>5. \A u \in Thread : held[u] # NoObj => Kept(held[u])
    BY <1>4, HeldExists DEF Referred
<1>6. OneAtATime' /\ FaultOnlyByStopRace'
    BY <1>1, <1>2 DEF Excl, OneAtATime, FaultOnlyByStopRace, Repoint
<1>7. HoldsItsOwn'
    BY <1>0, <1>1, <1>2, <1>3, <1>4, <1>5, Typed DEF Excl, HoldsItsOwn, Kept
<1>8. NoneLeftOver'
    BY <1>0, <1>3, <1>4 DEF Excl, NoneLeftOver, Kept, Referred
<1>9. CollectsStopped'
    BY <1>1, <1>2, <1>4 DEF Excl, CollectsStopped, Collecting
<1>10. StopsFirst'
    <2>1. \A u \in Thread : pc'[u] \in {"join", "forget", "erase"} =>
            pc[u] = pc'[u] /\ held[u] # NoObj
        BY <1>0, <1>2, HeldExists
    <2>2. \A u \in Client : pc'[u] = "create" => req[u].id \in Id
        BY <1>0, <1>2, Typed
    <2> QED
        BY <1>1, <1>2, <1>3, <1>4, <1>5, <2>1, <2>2 DEF Excl, StopsFirst, Kept
<1>11. JoinerPresent'
    BY <1>0, <1>1, <1>2, <1>4 DEF Excl, JoinerPresent, Joinable, Kept, CloseClear
<1>12. StartsOnce'
    <2>1. \A u \in Client : (Starting(u))' <=> Starting(u)
        BY <1>2 DEF Starting
    <2>2. \A u \in Client : Starting(u) => Kept(held[u])
        BY <1>0, <1>5, HeldExists
    <2>3. \A u \in Client : pc[u] \in {"start", "spawn"} => Starting(u)
        BY DEF Starting
    <2> QED
        BY <1>2, <1>4, <2>1, <2>2, <2>3 DEF Excl, StartsOnce, Kept
<1>13. RaceCounted'
    <2>1. \A u \in Thread : pc'[u] \in {"set", "join"} =>
            pc[u] = pc'[u] /\ Kept(held[u])
        BY <1>0, <1>2, <1>5, HeldExists
    <2>2. \A p \in Obj : passed[p] \subseteq Thread
        BY DEF TypeInv, TypeOK, ObjectsOK
    <2>3. \A u \in Thread : \A p : (Past(u, p))' => Past(u, p)
        BY <1>4, <2>1 DEF Past
    <2> QED
        BY <1>0, <1>4, <2>1, <2>2, <2>3 DEF Excl, RaceCounted, Kept
<1> QED
    BY <1>4, <1>6, <1>7, <1>8, <1>9, <1>10, <1>11, <1>12, <1>13 DEF Excl

(* A new object replaces the entry of the map, which has been stopped.     *)
LEMMA ExclCreate ==
  ASSUME TypeInv, StartsFresh, Excl, fault = "none",
         NEW t \in Client, CreateStream(t)
  PROVE  Excl'
<1>0. /\ Client \subseteq Thread /\ Collector \in Thread \ Client
      /\ Thread = Client \cup {Collector} /\ NoObj \notin Obj /\ NoObj \notin Id
      /\ allocated \subseteq Obj
      /\ DOMAIN pc = Thread /\ DOMAIN req = Thread /\ DOMAIN held = Thread
      /\ DOMAIN streams = Id
    BY Typed
<1> DEFINE i == req[t].id
<1>1. PICK o \in Obj \ allocated :
        Repoint([streams EXCEPT ![i] = o], [held EXCEPT ![t] = o], o, i)
    BY DEF CreateStream
<1> DEFINE s == [streams EXCEPT ![i] = o]
           h == [held EXCEPT ![t] = o]
<1>2. /\ pc[t] = "create" /\ i \in Id /\ held[t] = NoObj
      /\ held[Collector] = NoObj /\ ~Collecting
      /\ UNCHANGED <<todo, req>>
    BY <1>0, Typed
    DEF CreateStream, LockFree, Excl, HoldsItsOwn, CollectsStopped, Collecting
<1>3. /\ h[t] = o /\ s[i] = o
      /\ \A u \in Thread : u # t => h[u] = held[u]
      /\ \A j \in Id : j # i => s[j] = streams[j]
    BY <1>0, <1>2
<1>4. /\ pc'[t] = "start"
      /\ \A u \in Thread : u # t => pc'[u] = pc[u]
    BY <1>0 DEF CreateStream, Goto
<1>5. Repoint(s, h, o, i)
    BY <1>1
<1> HIDE DEF h, s, i
<1>6. /\ streams' = s /\ held' = h /\ allocated' \subseteq Obj
      /\ \A p \in allocated' :
           p = o \/ (p # o /\ Kept(p) /\ Referred(s, h, p))
      /\ \A p \in allocated : Referred(s, h, p) => p # o /\ Kept(p)
      /\ o # NoObj => /\ o \in allocated' /\ name'[o] = i
                      /\ mStop'[o] = (Kind = "file") /\ thread'[o] = "none"
      /\ StoppedLate' /\ (\A p \in Obj : IsFiniteSet(passed'[p]))
    <2>1. o \in Obj \cup {NoObj} /\ o \notin allocated
        OBVIOUS
    <2> QED BY <1>5, <2>1, Survivors
<1>7. o \in allocated' /\ name'[o] = i /\ thread'[o] = "none"
      /\ mStop'[o] = (Kind = "file")
    BY <1>0, <1>6
<1>8. /\ \A u \in Thread : u # t /\ held[u] # NoObj =>
                             held'[u] = held[u] /\ held[u] # o /\ Kept(held[u])
      /\ \A j \in Id : j # i /\ streams[j] # NoObj =>
           s[j] = streams[j] /\ s[j] # o /\ Kept(s[j])
    BY <1>3, <1>6, HeldExists DEF Referred
<1>9. \A u \in Client : req[u].id = i => u = t
    BY <1>2 DEF Excl, OneAtATime, i
<1>10. FaultOnlyByStopRace'
    <2>1. ASSUME NEW p \in allocated, ~Referred(s, h, p)
          PROVE  mStop[p]
        <3>1. p = streams[i] /\ p # NoObj
            BY <1>0, <1>2, <1>3, <2>1 DEF Excl, NoneLeftOver, Referred
        <3> QED
            BY <1>2, <3>1 DEF Excl, StopsFirst, i
    <2>2. \A u \in Thread : pc[u] = "join" => h[u] = held[u]
        BY <1>2, <1>3
    <2>3. fault' = "none"
        BY <1>5, <2>1, <2>2, NoneUnjoined
    <2> QED
        BY <2>3 DEF FaultOnlyByStopRace
<1>11. OneAtATime'
    BY <1>2 DEF Excl, OneAtATime
<1>12. HoldsItsOwn'
    <2>1. \A u \in Thread : held'[u] # NoObj =>
            held'[u] \in allocated' /\ name'[held'[u]] = req'[u].id
        BY <1>2, <1>3, <1>6, <1>7, <1>8 DEF Excl, HoldsItsOwn, Kept, i
    <2>2. ASSUME NEW u \in Client, u # t
          PROVE  /\ pc'[u] \in {"idle", "get", "create"} => held'[u] = NoObj
                 /\ pc'[u] \in {"stop", "set", "join", "forget", "start",
                                "spawn"} => held'[u] # NoObj
                 /\ held'[u] # NoObj /\ streams'[req'[u].id] # NoObj
                      => held'[u] = streams'[req'[u].id]
        <3>1. held'[u] = held[u] /\ pc'[u] = pc[u] /\ req'[u] = req[u]
            BY <1>0, <1>2, <1>3, <1>4, <1>6, <2>2
        <3>2. held[u] # NoObj => streams'[req[u].id] = streams[req[u].id]
            <4>1. held[u] # NoObj => req[u].id \in Id
                BY Typed DEF Excl, HoldsItsOwn
            <4> QED BY <1>3, <1>6, <1>9, <2>2, <4>1
        <3> QED BY <3>1, <3>2 DEF Excl, HoldsItsOwn
    <2>3. held'[t] # NoObj /\ held'[t] = streams'[req'[t].id]
        BY <1>0, <1>2, <1>3, <1>6 DEF i
    <2> QED BY <1>4, <2>1, <2>2, <2>3 DEF HoldsItsOwn
<1>13. NoneLeftOver'
    <2>1. \A j \in Id : streams'[j] # NoObj =>
            streams'[j] \in allocated' /\ name'[streams'[j]] = j
        BY <1>3, <1>6, <1>7, <1>8 DEF Excl, NoneLeftOver, Kept
    <2>2. \A p \in allocated' :
            (\E j \in Id : streams'[j] = p) \/ (\E u \in Thread : held'[u] = p)
        BY <1>2, <1>3, <1>6 DEF Referred
    <2> QED BY <2>1, <2>2 DEF NoneLeftOver
<1>14. CollectsStopped'
    <2>1. pc'[Collector] = pc[Collector] /\ held'[Collector] = NoObj
        BY <1>0, <1>2, <1>3, <1>4, <1>6
    <2>2. \A j \in todo : streams'[j] # NoObj
        BY <1>0, <1>3, <1>6, Typed
        DEF Excl, CollectsStopped, TypeInv, TypeOK
    <2> QED
        BY <1>2, <2>1, <2>2 DEF Excl, CollectsStopped, Collecting
<1>15. StopsFirst'
    <2>1. \A u \in Thread : pc'[u] \in {"join", "forget", "erase"} =>
            mStop'[held'[u]]
        BY <1>0, <1>4, <1>8, HeldExists DEF Excl, StopsFirst, Kept
    <2>2. ASSUME NEW u \in Client, pc'[u] = "create",
                 streams'[req[u].id] # NoObj
          PROVE  mStop'[streams'[req[u].id]]
        <3>1. u # t /\ req[u].id \in Id /\ pc[u] = "create"
            BY <1>0, <1>4, <2>2, Typed
        <3>2. req[u].id # i
            BY <1>9, <3>1
        <3>3. streams'[req[u].id] = streams[req[u].id]
            BY <1>3, <1>6, <3>1, <3>2
        <3> QED
            BY <1>6, <1>8, <2>2, <3>1, <3>2, <3>3 DEF Excl, StopsFirst, Kept
    <2>3. ASSUME NEW u \in Client, pc'[Collector] # "closed",
                 held'[u] # NoObj, streams'[req[u].id] # held'[u]
          PROVE  mStop'[held'[u]] /\ ~(Starting(u))'
        <3>1. u # t
            BY <1>2, <1>3, <1>6, <2>3 DEF i
        <3>2. /\ held'[u] = held[u] /\ held[u] # NoObj /\ Kept(held[u])
              /\ req[u].id \in Id /\ req[u].id # i
            BY <1>0, <1>3, <1>6, <1>8, <1>9, <2>3, <3>1, Typed
            DEF Excl, HoldsItsOwn
        <3>3. mStop[held[u]] /\ ~Starting(u)
            BY <1>0, <1>3, <1>4, <1>6, <2>3, <3>2 DEF Excl, StopsFirst
        <3> QED
            BY <1>0, <1>4, <3>1, <3>2, <3>3 DEF Kept, Starting
    <2> QED
        BY <1>2, <2>1, <2>2, <2>3 DEF StopsFirst
<1>16. JoinerPresent'
    <2>1. \A u \in Thread : pc[u] = "join" =>
            pc'[u] = "join" /\ held'[u] = held[u]
        BY <1>2, <1>3, <1>4, <1>6
    <2> QED
        BY <1>6, <1>7, <2>1 DEF Excl, JoinerPresent, Joinable, Kept
<1>17. StartsOnce'
    <2>1. \A u \in Client : u # t => ((Starting(u))' <=> Starting(u))
                                       /\ pc'[u] = pc[u]
        BY <1>0, <1>4 DEF Starting
    <2>2. \A u \in Client : u # t /\ Starting(u) =>
            held'[u] = held[u] /\ Kept(held[u])
        BY <1>0, <1>8, HeldExists
    <2>3. (Starting(t))' /\ held'[t] = o
        BY <1>3, <1>4, <1>6 DEF Starting
    <2>4. \A u \in Client : pc[u] \in {"start", "spawn"} => Starting(u)
        BY DEF Starting
    <2>5. ~Starting(t)
        BY <1>2 DEF Starting
    <2>6. ASSUME NEW u \in Client
          PROVE  /\ (Starting(u))' => thread'[held'[u]] = "none"
                 /\ pc'[u] = "start" /\ Kind = "file" => mStop'[held'[u]]
                 /\ pc'[u] = "spawn" => ~mStop'[held'[u]]
        <3>1. CASE u = t
            BY <1>4, <1>7, <2>3, <3>1
        <3>2. CASE u # t
            BY <2>1, <2>2, <2>4, <3>2 DEF Excl, StartsOnce, Kept
        <3> QED BY <3>1, <3>2
    <2>7. ASSUME NEW p \in allocated', thread'[p] = "none", ~mStop'[p]
          PROVE  \E u \in Client : (Starting(u))' /\ held'[u] = p
        <3>1. CASE p = o
            BY <2>3, <3>1
        <3>2. CASE p # o
            BY <1>6, <2>1, <2>2, <2>5, <2>7, <3>2 DEF Excl, StartsOnce, Kept
        <3> QED BY <3>1, <3>2
    <2> QED
        BY <2>6, <2>7 DEF StartsOnce
<1>18. RaceCounted'
    <2>1. \A u \in Thread : pc'[u] \in {"set", "join"} =>
            /\ u # t /\ pc[u] = pc'[u] /\ held'[u] = held[u] /\ Kept(held[u])
        BY <1>4, <1>8, HeldExists, <1>0
    <2>2. \A p \in Obj : passed[p] \subseteq Thread
        BY DEF TypeInv, TypeOK, ObjectsOK
    <2>3. \A u \in Thread : \A p : (Past(u, p))' => Past(u, p)
        BY <2>1 DEF Past
    <2>4. \A p \in allocated' : thread'[p] = "joined" => p # o
        BY <1>7
    <2> QED
        BY <1>0, <1>6, <2>1, <2>2, <2>3, <2>4 DEF Excl, RaceCounted, Kept
<1> QED
    BY <1>6, <1>10, <1>11, <1>12, <1>13, <1>14, <1>15, <1>16, <1>17, <1>18
    DEF Excl

(* There is nothing at first.                                              *)
LEMMA ExclInit == Init => TypeInv /\ StartsFresh /\ Excl
<1> SUFFICES ASSUME Init PROVE TypeInv /\ StartsFresh /\ Excl
    OBVIOUS
<1>1. TypeInv /\ StartsFresh
    BY InitInv DEF RetentionInv, TypeInv
<1>2. /\ Client \subseteq Thread /\ Collector \in Thread \ Client
      /\ NoObj \notin Id
    BY <1>1, Typed
<1>3. /\ \A t \in Thread : held[t] = NoObj /\ req[t].id = NoObj
      /\ \A t \in Client : pc[t] = "idle"
      /\ pc[Collector] = "sleep"
    BY <1>2 DEF Init, NoReq
<1>4. OneAtATime /\ HoldsItsOwn /\ NoneLeftOver /\ CollectsStopped
    BY <1>2, <1>3
    DEF Init, OneAtATime, HoldsItsOwn, NoneLeftOver, CollectsStopped, Collecting
<1>5. StoppedLate /\ StopsFirst /\ JoinerPresent /\ StartsOnce
    BY <1>2, <1>3
    DEF Init, StoppedLate, StopsFirst, JoinerPresent, StartsOnce, Starting,
        Thread
<1>6. RaceCounted /\ FaultOnlyByStopRace
    BY <1>2, <1>3, FS_EmptySet
    DEF Init, RaceCounted, FaultOnlyByStopRace, Thread
<1> QED
    BY <1>1, <1>4, <1>5, <1>6 DEF Excl

(* The invariant is inductive, for clients that serialise.                 *)
LEMMA ExclStep ==
  ASSUME Serial, TypeInv, StartsFresh, Excl, [Next]_vars
  PROVE  TypeInv' /\ StartsFresh' /\ Excl'
<1>1. TypeInv'
    BY TypeStep
<1>2. StartsFresh'
    <2>1. CASE Next
        BY <2>1, StartsStep
    <2>2. CASE UNCHANGED vars
        BY <2>2 DEF vars, StartsFresh, Starting, threads, objects, members
    <2> QED BY <2>1, <2>2
<1>3. Excl'
    <2>1. CASE UNCHANGED vars
        BY <2>1, ExclStill
    <2>2. CASE fault = "none" /\ Running
        <3>1. ASSUME NEW t \in Client, NEW op \in Operations, NEW i \in Id,
                     NEW rep \in BOOLEAN, Receive(t, op, i, rep)
              PROVE  Excl'
            BY <2>2, <3>1, ExclReceive
        <3>2. ASSUME NEW t \in Client, ClientStep(t) PROVE Excl'
            <4>1. t \in Thread /\ Stopper(t)
                BY DEF Thread, Stopper
            <4>2. CASE StopStep(t)
                BY <2>2, <4>1, <4>2, ExclTest, ExclSet, ExclJoin DEF StopStep
            <4>3. CASE LockStep(t)
                BY <2>2, <4>3, ExclGet, ExclCreate DEF LockStep
            <4>4. CASE Forget(t) \/ Respond(t)
                BY <2>2, <4>4, ExclLetGo
            <4>5. CASE StartRefused(t) \/ StartClear(t) \/ StartSpawn(t)
                BY <2>2, <4>5, ExclStart
            <4> QED
                BY <3>2, <4>2, <4>3, <4>4, <4>5 DEF ClientStep
        <3>3. ASSUME NEW o \in Obj, WorkerStep(o) PROVE Excl'
            BY <2>2, <3>3, ExclWorker
        <3>4. CASE CollectorStep
            <4>1. CASE StopStep(Collector)
                <5>1. Collector \in Thread
                    BY Typed
                <5>2. Stopper(Collector)
                    BY <4>1 DEF Stopper, StopStep, StopTest, EnterStop, StopSet,
                       SetStop, StopJoin, Collecting
                <5> QED
                    BY <2>2, <4>1, <5>1, <5>2, ExclTest, ExclSet, ExclJoin
                    DEF StopStep
            <4>2. CASE CollectBegin \/ (\E i \in Id : CollectVisit(i))
                         \/ CollectEnd
                BY <2>2, <4>2, ExclScan
            <4> QED
                BY <2>2, <3>4, <4>1, <4>2, ExclErase, ExclClear
                DEF CollectorStep
        <3>5. CASE CloseBegin \/ Tick
            BY <3>5, ExclStill
        <3> QED
            BY <2>2, <3>1, <3>2, <3>3, <3>4, <3>5 DEF Running
    <2> QED
        BY <2>1, <2>2 DEF Next, Halted
<1> QED
    BY <1>1, <1>2, <1>3

(* What the exclusion of streams and the absence of thread faults rest on  *)
(* holds for any number of clients that serialise.                         *)
THEOREM ExclusionHolds == ASSUME Serial PROVE Spec => []ExclusionInv
<1> DEFINE I == TypeInv /\ StartsFresh /\ Excl
<1>1. Init => I
    BY ExclInit
<1>2. I /\ [Next]_vars => I'
    BY ExclStep
<1>3. I => ExclusionInv
    BY DEF TypeInv, Excl, ExclusionInv
<1> HIDE DEF I
<1> QED
    BY <1>1, <1>2, <1>3, PTL DEF Spec

(* Every object of an id is the one of the map or of the client that works *)
(* on the id, and a client that holds one while the map has one holds that:*)
(* a start lets go of the stopped object before it creates the next.       *)
LEMMA OneOfAnId ==
  ASSUME TypeInv, Excl, NEW o \in allocated, NEW p \in allocated,
         name[o] = name[p]
  PROVE  o = p
<1>1. Thread = Client \cup {Collector} /\ Collector \notin Client
      /\ NoObj \notin allocated
    BY Typed
<1>2. ASSUME NEW q \in allocated
      PROVE  \/ \E i \in Id : streams[i] = q /\ name[q] = i
             \/ \E t \in Client : held[t] = q /\ name[q] = req[t].id
                                    /\ req[t].id \in Id
    <2>1. CASE \E i \in Id : streams[i] = q
        BY <1>1, <2>1 DEF Excl, NoneLeftOver
    <2>2. ASSUME NEW t \in Client, held[t] = q
          PROVE  name[q] = req[t].id /\ req[t].id \in Id
        BY <1>1, <2>2, Typed DEF Excl, HoldsItsOwn
    <2>3. CASE held[Collector] = q
        BY <1>1, <2>3 DEF Excl, CollectsStopped, NoneLeftOver
    <2> QED
        BY <1>1, <2>1, <2>2, <2>3 DEF Excl, NoneLeftOver
<1>3. ASSUME NEW q \in allocated, NEW r \in allocated, name[q] = name[r],
             NEW i \in Id, streams[i] = q, name[q] = i
      PROVE  q = r
    <2>1. ASSUME NEW j \in Id, streams[j] = r, name[r] = j PROVE q = r
        BY <1>3, <2>1
    <2>2. ASSUME NEW t \in Client, held[t] = r, name[r] = req[t].id
          PROVE  q = r
        BY <1>1, <1>3, <2>2 DEF Excl, HoldsItsOwn
    <2> QED
        BY <1>2, <2>1, <2>2
<1>4. ASSUME NEW t \in Client, NEW u \in Client, held[t] = o, held[u] = p,
             name[o] = req[t].id, name[p] = req[u].id, req[t].id \in Id
      PROVE  o = p
    BY <1>4 DEF Excl, OneAtATime
<1> QED
    BY <1>2, <1>3, <1>4

(* With clients that serialise, at most one stream of an id pushes or has  *)
(* its output open: start() replaces a stream only when its worker is      *)
(* through, the collector notwithstanding.                                 *)
THEOREM OnePushes == ASSUME Serial PROVE Spec => []ExclusivePush
<1>1. Spec => []ExclusionInv
    BY ExclusionHolds
<1>2. ExclusionInv => ExclusivePush
    <2> SUFFICES ASSUME TypeInv, Excl PROVE ExclusivePush
        BY DEF ExclusionInv, TypeInv, Excl
    <2> QED
        BY OneOfAnId DEF ExclusivePush, Active
<1> QED
    BY <1>1, <1>2, PTL

(* With clients that serialise, the process only ever goes wrong by the    *)
(* race of two stop() past the test of m_stop, or in close().              *)
THEOREM OnlyStopRaceFaults == ASSUME Serial PROVE Spec => []FaultOnlyByStopRace
<1>1. Spec => []ExclusionInv
    BY ExclusionHolds
<1>2. ExclusionInv => FaultOnlyByStopRace
    BY DEF ExclusionInv
<1> QED
    BY <1>1, <1>2, PTL

-----------------------------------------------------------------------------
(* Finality of stop(), for FileStreams.  What is left of the members that  *)
(* it speaks of when objects are destroyed or created.                     *)
LEMMA RepointHistory ==
  ASSUME TypeOK, NEW s, NEW h, NEW o \in Obj \cup {NoObj}, NEW i,
         Repoint(s, h, o, i)
  PROVE  \A p \in Obj :
           \/ /\ p = o \/ p \in Unreferenced(s, h)
              /\ wpc'[p] = "none" /\ idle'[p] = 0
           \/ /\ p # o /\ p \notin Unreferenced(s, h)
              /\ wpc'[p] = wpc[p] /\ idle'[p] = idle[p]
              /\ report'[p] = report[p] /\ sent'[p] = sent[p]
<1> DEFINE S == Unreferenced(s, h) \cup {o}
<1>1. Construct(S, o, i)
    BY DEF Repoint
<1> SUFFICES ASSUME NEW p \in Obj
             PROVE  \/ p \in S /\ wpc'[p] = "none" /\ idle'[p] = 0
                    \/ /\ p \notin S
                       /\ wpc'[p] = wpc[p] /\ idle'[p] = idle[p]
                       /\ report'[p] = report[p] /\ sent'[p] = sent[p]
    OBVIOUS
<1> HIDE DEF S
<1>2. CASE p \in S
    BY <1>1, <1>2 DEF Construct, Reset
<1>3. CASE p \notin S
    <2>1. report'[p] = report[p]
        BY <1>1, <1>3 DEF Construct, Reset
    <2> QED
        BY <1>1, <1>3, <2>1 DEF Construct, Reset
<1> QED
    BY <1>2, <1>3

(* The actions that destroy or create; u's pointer is the one that moves.  *)
Repoints(u, s, h, o, i) ==
  /\ Repoint(s, h, o, i)
  /\ o \in Obj \cup {NoObj} /\ o \notin allocated
  /\ \A t \in Client : t # u => h[t] = held[t]
  /\ \A t \in Client : t # u => pc'[t] = pc[t] /\ req'[t] = req[t]
  /\ u \in Client => /\ pc'[u] \notin {"stop", "set", "join", "forget", "spawn"}
                     /\ pc[u] \notin {"stop", "set", "join", "start", "get"}

(* They are five.                                                          *)
LEMMA RepointCases ==
  ASSUME TypeInv, Excl, NEW u \in Thread,
         \/ u \in Client /\ (Forget(u) \/ Respond(u) \/ CreateStream(u))
         \/ u = Collector /\ (CollectErase \/ CloseClear)
  PROVE  \E s, h, o, i : Repoints(u, s, h, o, i)
<1>0. /\ Client \subseteq Thread /\ Collector \in Thread \ Client
      /\ NoObj \notin Obj /\ allocated \subseteq Obj
      /\ DOMAIN pc = Thread /\ DOMAIN req = Thread /\ DOMAIN held = Thread
    BY Typed
<1>1. CASE u \in Client /\ (Forget(u) \/ Respond(u))
    <2> DEFINE h == [held EXCEPT ![u] = NoObj]
    <2>1. Repoint(streams, h, NoObj, NoObj)
        BY <1>1 DEF Forget, Respond
    <2>2. \A t \in Client : t # u => h[t] = held[t]
        BY <1>0
    <2>3. /\ \A t \in Client : t # u => pc'[t] = pc[t] /\ req'[t] = req[t]
          /\ pc'[u] \in {"create", "idle"} /\ pc[u] \in {"forget", "return"}
        BY <1>0, <1>1 DEF Forget, Respond, Goto
    <2>4. Repoints(u, streams, h, NoObj, NoObj)
        <3> HIDE DEF h
        <3> QED BY <1>0, <2>1, <2>2, <2>3 DEF Repoints
    <2> QED BY <2>4
<1>2. CASE u \in Client /\ CreateStream(u)
    <2>1. PICK o \in Obj \ allocated :
            Repoint([streams EXCEPT ![req[u].id] = o], [held EXCEPT ![u] = o],
                    o, req[u].id)
        BY <1>2 DEF CreateStream
    <2> DEFINE h == [held EXCEPT ![u] = o]
               s == [streams EXCEPT ![req[u].id] = o]
    <2>2. Repoint(s, h, o, req[u].id)
        BY <2>1
    <2>3. \A t \in Client : t # u => h[t] = held[t]
        BY <1>0
    <2>4. /\ \A t \in Client : t # u => pc'[t] = pc[t] /\ req'[t] = req[t]
          /\ pc'[u] = "start" /\ pc[u] = "create"
        BY <1>0, <1>2 DEF CreateStream, Goto
    <2>5. Repoints(u, s, h, o, req[u].id)
        <3> HIDE DEF h, s
        <3> QED BY <1>0, <2>2, <2>3, <2>4 DEF Repoints
    <2> QED BY <2>5
<1>3. CASE u = Collector /\ CollectErase
    <2> DEFINE h == [held EXCEPT ![Collector] = NoObj]
               s == [streams EXCEPT ![req[Collector].id] = NoObj]
    <2>1. Repoint(s, h, NoObj, NoObj)
        BY <1>3 DEF CollectErase
    <2>2. \A t \in Client : h[t] = held[t]
        BY <1>0
    <2>3. \A t \in Client : pc'[t] = pc[t] /\ req'[t] = req[t]
        BY <1>0, <1>3 DEF CollectErase, Goto
    <2>4. Repoints(u, s, h, NoObj, NoObj)
        <3> HIDE DEF h, s
        <3> QED BY <1>0, <1>3, <2>1, <2>2, <2>3 DEF Repoints
    <2> QED BY <2>4
<1>4. CASE u = Collector /\ CloseClear
    <2> DEFINE s == [i \in Id |-> NoObj]
    <2>1. Repoint(s, held, NoObj, NoObj)
        BY <1>4 DEF CloseClear
    <2>2. \A t \in Client : pc'[t] = pc[t] /\ req'[t] = req[t]
        BY <1>0, <1>4 DEF CloseClear, Goto
    <2>3. Repoints(u, s, held, NoObj, NoObj)
        <3> HIDE DEF s
        <3> QED BY <1>0, <1>4, <2>1, <2>2 DEF Repoints
    <2> QED BY <2>3
<1> QED
    BY <1>1, <1>2, <1>3, <1>4

(* Who holds an object keeps it as it is.                                  *)
LEMMA RepointKeeps ==
  ASSUME TypeInv, Excl, NEW u, NEW s, NEW h, NEW o, NEW i,
         Repoints(u, s, h, o, i)
  PROVE  /\ IdleSinceEnd => IdleSinceEnd'
         /\ \A t \in Client \ {u} : held[t] # NoObj =>
              /\ held'[t] = held[t] /\ wpc'[held[t]] = wpc[held[t]]
              /\ report'[held[t]] = report[held[t]]
              /\ sent'[held[t]] = sent[held[t]]
<1>1. TypeOK /\ o \in Obj \cup {NoObj} /\ Repoint(s, h, o, i) /\ held' = h
      /\ Client \subseteq Thread
    BY Typed DEF TypeInv, Repoints, Repoint
<1>2. \A p \in Obj :
        \/ /\ p = o \/ p \in Unreferenced(s, h)
           /\ wpc'[p] = "none" /\ idle'[p] = 0
        \/ /\ p # o /\ p \notin Unreferenced(s, h)
           /\ wpc'[p] = wpc[p] /\ idle'[p] = idle[p]
           /\ report'[p] = report[p] /\ sent'[p] = sent[p]
    BY <1>1, RepointHistory
<1>3. IdleSinceEnd => IdleSinceEnd'
    BY <1>2 DEF IdleSinceEnd, Ended
<1>4. ASSUME NEW t \in Client \ {u}, held[t] # NoObj
      PROVE  /\ held'[t] = held[t] /\ wpc'[held[t]] = wpc[held[t]]
             /\ report'[held[t]] = report[held[t]]
             /\ sent'[held[t]] = sent[held[t]]
    <2>1. held[t] \in Obj /\ held[t] \in allocated /\ h[t] = held[t]
        BY <1>1, <1>4, HeldExists DEF Repoints
    <2>2. held[t] \notin Unreferenced(s, h)
        BY <1>1, <2>1 DEF Unreferenced
    <2>3. held[t] # o
        BY <2>1 DEF Repoints
    <2> QED
        BY <1>1, <1>2, <2>1, <2>2, <2>3
<1> QED
    BY <1>3, <1>4

(* A worker that has not ended is not idle; Prompt bounds how long it is   *)
(* before reportStop.                                                      *)
LEMMA IdleEndStep ==
  ASSUME Kind = "file", Prompt, TypeInv, StartsFresh, Excl, IdleSinceEnd,
         [Next]_vars
  PROVE  IdleSinceEnd'
<1>0. /\ Client \subseteq Thread /\ Collector \in Thread
      /\ DOMAIN wpc = Obj /\ allocated \subseteq Obj
      /\ idle \in [Obj -> 0..MaxAge]
    BY Typed DEF TypeInv, TypeOK, ObjectsOK
<1>1. ASSUME UNCHANGED <<wpc, idle>> PROVE IdleSinceEnd'
    BY <1>1 DEF IdleSinceEnd
<1>2. ASSUME NEW t \in Client, ClientStep(t) PROVE IdleSinceEnd'
    <2>1. CASE CreateStream(t) \/ Forget(t) \/ Respond(t)
        <3>1. \E s, h, o, i : Repoints(t, s, h, o, i)
            BY <1>0, <2>1, RepointCases
        <3> QED
            BY <3>1, RepointKeeps
    <2>2. CASE StartSpawn(t)
        <3>1. /\ wpc' = [wpc EXCEPT ![held[t]] = "begin"] /\ idle' = idle
              /\ held[t] \in Obj /\ wpc[held[t]] = "none"
            BY <1>0, <2>2 DEF StartSpawn, StartsFresh, Starting, history
        <3>2. idle[held[t]] = 0
            BY <3>1 DEF IdleSinceEnd, Ended
        <3> QED
            BY <1>0, <3>1, <3>2 DEF IdleSinceEnd, Ended
    <2>3. CASE GetStream(t) \/ StopStep(t) \/ StartRefused(t) \/ StartClear(t)
        BY <1>1, <2>3
        DEF GetStream, StopStep, StopTest, EnterStop, StopSet, SetStop,
            StopJoin, StartRefused, StartClear, objects, members, history
    <2> QED
        BY <1>2, <2>1, <2>2, <2>3 DEF ClientStep, LockStep
<1>3. ASSUME NEW o \in Obj, WorkerStep(o) PROVE IdleSinceEnd'
    <2>1. ASSUME NEW f, NEW g, Advance(o, f, g),
                 g \notin Ended => f \notin Ended,
                 g \in {"stamped", "report"} => f \in {"end", "stamped"},
                 g = "end" => f \notin Ended
          PROVE  IdleSinceEnd'
        <3>1. /\ wpc' = [wpc EXCEPT ![o] = g] /\ idle' = idle /\ wpc[o] = f
            BY <2>1 DEF Advance
        <3>2. g \notin Ended => idle[o] = 0
            BY <2>1, <3>1 DEF IdleSinceEnd, Ended
        <3>3. g \in {"end", "stamped", "report"} => idle[o] <= ReleaseTime
            BY <2>1, <3>1 DEF IdleSinceEnd
        <3> QED
            BY <1>0, <3>1, <3>2, <3>3 DEF IdleSinceEnd
    <2>2. CASE SvrBegin(o) \/ SvrInitOk(o) \/ SvrInitFail(o)
        BY <2>1, <2>2 DEF SvrBegin, SvrInitOk, SvrInitFail, Ended
    <2>3. CASE SvrStop(o) \/ SvrFinish(o) \/ SvrStamp(o)
        BY <2>1, <2>3 DEF SvrStop, SvrFinish, SvrStamp, Ended
    <2>4. CASE SvrStopped(o)
        BY <2>1, <2>4 DEF SvrStopped, Ended
    <2>5. CASE SvrReport(o) \/ SvrClose(o)
        BY <2>1, <2>5 DEF SvrReport, SvrClose, Ended
    <2> QED
        BY <1>3, <2>2, <2>3, <2>4, <2>5 DEF WorkerStep
<1>4. CASE CollectorStep
    <2>1. CASE CollectErase \/ CloseClear
        <3>1. \E s, h, o, i : Repoints(Collector, s, h, o, i)
            BY <1>0, <2>1, RepointCases
        <3> QED
            BY <3>1, RepointKeeps
    <2>2. CASE CollectBegin \/ CollectEnd \/ StopStep(Collector)
                 \/ (\E i \in Id : CollectVisit(i))
        BY <1>1, <2>2
        DEF CollectBegin, CollectEnd, PassOver, SetDue, CollectVisit, StopStep,
            StopTest, EnterStop, StopSet, SetStop, StopJoin, objects, members,
            history
    <2> QED
        BY <1>4, <2>1, <2>2 DEF CollectorStep
<1>5. CASE Tick
    <2>1. ASSUME NEW o \in Obj
          PROVE  /\ wpc'[o] \notin Ended => idle'[o] = 0
                 /\ wpc'[o] \in {"end", "stamped", "report"} =>
                      idle'[o] <= ReleaseTime
        <3>1. wpc'[o] = wpc[o] /\ idle'[o] = IF o \in allocated
                /\ wpc[o] \in Ended THEN Older(idle[o]) ELSE idle[o]
            BY <1>5 DEF Tick
        <3>2. o \in allocated /\ wpc[o] \in {"end", "stamped", "report"} =>
                idle[o] < ReleaseTime
            BY <1>5 DEF Tick
        <3>3. idle[o] \in 0..MaxAge
            BY <1>0
        <3>4. CASE o \in allocated /\ wpc[o] \in {"end", "stamped", "report"}
            BY <3>1, <3>2, <3>3, <3>4 DEF Older, MaxAge, Ended
        <3>5. CASE ~(o \in allocated /\ wpc[o] \in {"end", "stamped", "report"})
            BY <3>1, <3>5 DEF IdleSinceEnd
        <3> QED
            BY <3>4, <3>5
    <2> QED
        BY <2>1 DEF IdleSinceEnd
<1>6. ASSUME NEW t \in Client, NEW op \in Operations, NEW i \in Id,
             NEW rep \in BOOLEAN, Receive(t, op, i, rep)
      PROVE  IdleSinceEnd'
    BY <1>1, <1>6 DEF Receive, objects, members, history
<1>7. CASE CloseBegin \/ UNCHANGED vars
    BY <1>1, <1>7 DEF CloseBegin, vars, objects, members, history
<1> QED
    BY <1>2, <1>3, <1>4, <1>5, <1>6, <1>7 DEF Next, Running, Halted

(* What a stop(false) has asked for is not undone before it returns: only  *)
(* the collector could, and it stops those whose report is behind them.    *)
LEMMA SilentStep ==
  ASSUME Kind = "file", Serial, SilenceInv, TypeInv, Excl, [Next]_vars
  PROVE  StaysSilent'
<1> DEFINE Silent(t) ==
      pc[t] \in {"set", "join"} /\ ~req[t].report =>
        ~report[held[t]] \/ wpc[held[t]] \in {"close", "done"}
           Starts(t) ==
      pc[t] \in {"forget", "create", "start", "spawn"} => req[t].op = "start"
<1>0. /\ Client \subseteq Thread /\ Collector \in Thread \ Client
      /\ DOMAIN pc = Thread /\ DOMAIN req = Thread
      /\ DOMAIN wpc = Obj /\ DOMAIN report = Obj /\ allocated \subseteq Obj
      /\ StartsFresh
    BY Typed DEF TypeInv, TypeOK, ObjectsOK, SilenceInv, RetentionInv
<1>1. \A t \in Client : Silent(t) /\ Starts(t)
    BY DEF SilenceInv, StaysSilent
<1>2. ASSUME \A t \in Client : (Silent(t))' /\ (Starts(t))'
      PROVE  StaysSilent'
    BY <1>2 DEF StaysSilent
<1>3. ASSUME NEW t \in Client, pc'[t] = pc[t], req'[t] = req[t],
             pc[t] \in {"set", "join"} =>
               /\ held'[t] = held[t]
               /\ report'[held[t]] = report[held[t]]
                    \/ wpc'[held[t]] \in {"close", "done"}
               /\ wpc[held[t]] \in {"close", "done"} =>
                    wpc'[held[t]] \in {"close", "done"}
      PROVE  (Silent(t))' /\ (Starts(t))'
    BY <1>1, <1>3
<1>4. ASSUME NEW t \in Client, pc'[t] \notin {"set", "join"},
             pc'[t] \in {"forget", "create", "start", "spawn"} =>
               req'[t].op = "start"
      PROVE  (Silent(t))' /\ (Starts(t))'
    BY <1>4
<1> HIDE DEF Silent, Starts
<1>5. ASSUME NEW u \in Thread, NEW s, NEW h, NEW o, NEW i,
             Repoints(u, s, h, o, i), NEW t \in Client \ {u}
      PROVE  (Silent(t))' /\ (Starts(t))'
    <2>1. pc[t] \in {"set", "join"} =>
            /\ held'[t] = held[t] /\ wpc'[held[t]] = wpc[held[t]]
            /\ report'[held[t]] = report[held[t]]
        BY <1>0, <1>5, RepointKeeps DEF Excl, HoldsItsOwn
    <2> QED
        BY <1>3, <1>5, <2>1 DEF Repoints
<1>6. ASSUME NEW u \in Client, ClientStep(u) PROVE StaysSilent'
    <2>1. ASSUME NEW t \in Client, t # u PROVE (Silent(t))' /\ (Starts(t))'
        <3>1. CASE CreateStream(u) \/ Forget(u) \/ Respond(u)
            <4>1. \E s, h, o, i : Repoints(u, s, h, o, i)
                BY <1>0, <3>1, RepointCases
            <4> QED
                BY <1>0, <1>5, <2>1, <4>1
        <3>2. CASE ~(CreateStream(u) \/ Forget(u) \/ Respond(u))
            <4>1. /\ pc'[t] = pc[t] /\ req'[t] = req[t] /\ held'[t] = held[t]
                BY <1>0, <1>6, <2>1, <3>2, Typed
                DEF ClientStep, LockStep, GetStream, StopStep, StopTest,
                    EnterStop, StopSet, SetStop, StopJoin, StartRefused,
                    StartClear, StartSpawn, Goto
            <4>2. ASSUME pc[t] \in {"set", "join"}
                  PROVE  /\ report'[held[t]] = report[held[t]]
                         /\ wpc'[held[t]] = wpc[held[t]]
                <5>1. held[t] \in Obj /\ held[u] # held[t]
                    BY <1>0, <2>1, <4>2, HeldAlone, HeldExists, Typed
                <5> QED
                    BY <1>0, <1>6, <3>2, <5>1
                    DEF ClientStep, LockStep, GetStream, StopStep, StopTest,
                        EnterStop, StopSet, SetStop, StopJoin, StartRefused,
                        StartClear, StartSpawn, objects, members
            <4> QED
                BY <1>3, <4>1, <4>2
        <3> QED
            BY <3>1, <3>2
    <2>2. (Silent(u))' /\ (Starts(u))'
        <3>1. CASE StopTest(u)
            <4>1. /\ report' = [report EXCEPT ![held[u]] = req[u].report]
                  /\ UNCHANGED <<req, held>> /\ held[u] \in Obj
                  /\ req[u].op \in {"start", "stop"}
                BY <1>0, <3>1, HeldExists, Typed DEF StopTest, EnterStop
            <4>2. /\ pc'[u] \in {"set", "forget", "return"}
                  /\ pc'[u] = "forget" => req[u].op = "start"
                BY <1>0, <3>1, <4>1 DEF StopTest, Goto, AfterStop
            <4> QED
                BY <1>0, <4>1, <4>2 DEF Silent, Starts
        <3>2. CASE StopSet(u)
            BY <1>0, <1>1, <3>2 DEF StopSet, SetStop, Goto, Silent, Starts
        <3>3. CASE StopJoin(u)
            <4>1. CASE UNCHANGED pc
                BY <1>1, <3>3, <4>1 DEF StopJoin, Silent, Starts
            <4>2. CASE pc' = [pc EXCEPT ![u] = AfterStop(u)]
                <5>1. /\ req' = req /\ req[u].op \in {"start", "stop"}
                    BY <3>3, Typed DEF StopJoin
                <5>2. /\ pc'[u] \in {"forget", "return"}
                      /\ pc'[u] = "forget" => req[u].op = "start"
                    BY <1>0, <4>2, <5>1 DEF AfterStop
                <5> QED
                    BY <1>4, <5>1, <5>2
            <4> QED
                BY <3>3, <4>1, <4>2 DEF StopJoin, Goto
        <3>4. CASE GetStream(u) \/ StartRefused(u) \/ StartClear(u)
                     \/ StartSpawn(u) \/ Forget(u) \/ Respond(u)
                     \/ CreateStream(u)
            <4>1. /\ pc'[u] \notin {"set", "join"}
                  /\ pc'[u] \in {"forget", "create", "start", "spawn"} =>
                       req'[u].op = "start"
                BY <1>0, <1>1, <3>4
                DEF GetStream, StartRefused, StartClear, StartSpawn, Forget,
                    Respond, CreateStream, Goto, Starts
            <4> QED
                BY <1>4, <4>1
        <3> QED
            BY <1>6, <3>1, <3>2, <3>3, <3>4 DEF ClientStep, LockStep, StopStep
    <2> QED
        BY <1>2, <2>1, <2>2
<1>7. ASSUME NEW o \in Obj, WorkerStep(o) PROVE StaysSilent'
    <2>1. UNCHANGED <<pc, req, held, report>>
        BY <1>7, WorkerEffect DEF Excl, threads
    <2>2. \A p \in Obj : wpc[p] \in {"close", "done"} =>
                           wpc'[p] \in {"close", "done"}
        BY <1>0, <1>7
        DEF WorkerStep, SvrBegin, SvrInitOk, SvrInitFail, SvrStop, SvrFinish,
            SvrStamp, SvrStopped, SvrReport, SvrClose, Advance
    <2>3. \A t \in Client : pc[t] \in {"set", "join"} => held[t] \in Obj
        BY <1>0, HeldExists
    <2> QED
        BY <1>2, <1>3, <2>1, <2>2, <2>3
<1>8. CASE CollectorStep
    <2>1. CASE CollectErase \/ CloseClear
        <3>1. \E s, h, o, i : Repoints(Collector, s, h, o, i)
            BY <1>0, <2>1, RepointCases
        <3> QED
            BY <1>0, <1>2, <1>5, <3>1
    <2>2. CASE StopTest(Collector)
        <3>1. /\ report' = [report EXCEPT ![held[Collector]] =
                              req[Collector].report]
              /\ UNCHANGED <<req, held, wpc>> /\ held[Collector] \in Obj
              /\ \A t \in Client : pc'[t] = pc[t]
            BY <1>0, <2>2, HeldExists DEF StopTest, EnterStop, Goto
        <3>2. wpc[held[Collector]] \in {"close", "done"}
            <4>1. /\ idle[held[Collector]] > ReleaseTime
                  /\ status[held[Collector]] = "stopped"
                BY <2>2 DEF StopTest, EnterStop, SilenceInv, RetentionInv,
                            CollectsOnlyDue, Collecting, Excl, CollectsStopped
            <4>2. wpc[held[Collector]] \in {"report", "close", "done"}
                BY <3>1, <4>1 DEF SilenceInv, RetentionInv, IdleSinceStopTime
            <4>3. ~(idle[held[Collector]] <= ReleaseTime)
                BY <3>1, <4>1 DEF TypeInv, TypeOK, ObjectsOK
            <4> QED
                BY <3>1, <4>2, <4>3 DEF SilenceInv, IdleSinceEnd
        <3>3. \A t \in Client : pc[t] \in {"set", "join"} => held[t] \in Obj
            BY <1>0, HeldExists
        <3>4. \A p \in Obj : p # held[Collector] => report'[p] = report[p]
            BY <1>0, <3>1
        <3> QED
            BY <1>2, <1>3, <3>1, <3>2, <3>3, <3>4
    <2>3. CASE ~(CollectErase \/ CloseClear \/ StopTest(Collector))
        <3>1. /\ UNCHANGED <<report, wpc>>
              /\ \A t \in Client : /\ pc'[t] = pc[t] /\ req'[t] = req[t]
                                   /\ held'[t] = held[t]
            BY <1>0, <1>8, <2>3, Typed
            DEF CollectorStep, CollectBegin, CollectVisit, CollectEnd, PassOver,
                SetDue, StopStep, StopSet, SetStop, StopJoin, Goto, objects,
                members
        <3> QED
            BY <1>2, <1>3, <3>1
    <2> QED
        BY <2>1, <2>2, <2>3
<1>9. ASSUME NEW u \in Client, NEW op \in Operations, NEW i \in Id,
             NEW rep \in BOOLEAN, Receive(u, op, i, rep)
      PROVE  StaysSilent'
    <2>1. /\ UNCHANGED <<held, report, wpc>> /\ pc'[u] = "get"
          /\ \A t \in Client : t # u => pc'[t] = pc[t] /\ req'[t] = req[t]
        BY <1>0, <1>9 DEF Receive, Goto, objects, members
    <2> QED
        BY <1>2, <1>3, <1>4, <2>1
<1>10. CASE CloseBegin \/ Tick \/ UNCHANGED vars
    <2>1. UNCHANGED <<pc, req, held, report, wpc>>
        BY <1>10 DEF CloseBegin, Tick, vars, threads, objects, members
    <2> QED
        BY <1>2, <1>3, <2>1
<1> QED
    BY <1>6, <1>7, <1>8, <1>9, <1>10 DEF Next, Running, Halted

(* The invariant of finality is inductive.                                 *)
LEMMA SilenceInit == ASSUME Kind = "file" PROVE Init => SilenceInv
<1> SUFFICES ASSUME Init PROVE SilenceInv
    OBVIOUS
<1>1. RetentionInv /\ TypeInv /\ StartsFresh /\ Excl
    BY InitInv, ExclInit
<1>2. Client \subseteq Thread /\ Collector \notin Client
    BY <1>1, Typed
<1>3. IdleSinceEnd /\ StaysSilent
    BY <1>2 DEF Init, IdleSinceEnd, Ended, StaysSilent
<1> QED
    BY <1>1, <1>3 DEF SilenceInv, ExclusionInv, Excl, TypeInv

(* Its parts, put together.                                                *)
LEMMA SilenceStep ==
  ASSUME Kind = "file", Serial, Prompt, SilenceInv, [Next]_vars
  PROVE  SilenceInv'
<1>1. TypeInv /\ StartsFresh /\ Excl /\ RetentionInv /\ IdleSinceEnd
    BY DEF SilenceInv, ExclusionInv, TypeInv, Excl
<1>2. TypeInv' /\ StartsFresh' /\ Excl'
    BY <1>1, ExclStep
<1>3. RetentionInv'
    BY <1>1, RetentionStep
<1>4. IdleSinceEnd'
    BY <1>1, IdleEndStep
<1>5. StaysSilent'
    BY <1>1, SilentStep
<1>6. ExclusionInv'
    BY <1>2 DEF ExclusionInv, TypeInv, Excl
<1> QED
    BY <1>3, <1>4, <1>5, <1>6 DEF SilenceInv

(* While a stop(false) joins the worker, no callback is handed over.       *)
LEMMA SilentJoin ==
  ASSUME Kind = "file", SilenceInv, TypeInv, Excl, [Next]_vars,
         NEW t \in Client, pc[t] = "join", ~req[t].report
  PROVE  sent'[held[t]] = sent[held[t]]
<1>0. /\ Client \subseteq Thread /\ Collector \in Thread \ Client
      /\ DOMAIN sent = Obj /\ DOMAIN wpc = Obj
    BY Typed DEF TypeInv, TypeOK, ObjectsOK
<1>1. /\ held[t] \in Obj /\ held[t] # NoObj
      /\ ~report[held[t]] \/ wpc[held[t]] \in {"close", "done"}
    BY <1>0, HeldExists, Typed DEF SilenceInv, StaysSilent
<1>2. ASSUME NEW u \in Thread, u # t, NEW s, NEW h, NEW o, NEW i,
             Repoints(u, s, h, o, i)
      PROVE  sent'[held[t]] = sent[held[t]]
    BY <1>1, <1>2, RepointKeeps
<1>3. ASSUME NEW u \in Client, ClientStep(u)
      PROVE  sent'[held[t]] = sent[held[t]]
    <2>1. CASE CreateStream(u) \/ Forget(u) \/ Respond(u)
        <3>1. \E s, h, o, i : Repoints(u, s, h, o, i)
            BY <1>0, <2>1, RepointCases
        <3>2. u # t
            BY <2>1 DEF CreateStream, Forget, Respond
        <3> QED
            BY <1>0, <1>2, <3>1, <3>2
    <2>2. CASE ~(CreateStream(u) \/ Forget(u) \/ Respond(u))
        <3>1. UNCHANGED sent
            BY <1>3, <2>2
            DEF ClientStep, LockStep, GetStream, StopStep, StopTest, EnterStop,
                StopSet, SetStop, StopJoin, StartRefused, StartClear,
                StartSpawn, objects, history
        <3> QED
            BY <3>1
    <2> QED
        BY <2>1, <2>2
<1>4. ASSUME NEW o \in Obj, WorkerStep(o)
      PROVE  sent'[held[t]] = sent[held[t]]
    <2>1. CASE SvrReport(o)
        <3>1. wpc[o] \in {"report", "failReport"}
            BY <2>1 DEF SvrReport, Advance
        <3>2. wpc[o] # "failReport"
            BY DEF SilenceInv, RetentionInv, IdleSinceStopTime
        <3>3. o = held[t] => ~report[o]
            BY <1>1, <3>1, <3>2
        <3>4. sent' = [sent EXCEPT ![o] = IF report[o] THEN 1 ELSE @]
            BY <2>1 DEF SvrReport
        <3> QED
            BY <1>0, <1>1, <3>3, <3>4
    <2>2. CASE ~SvrReport(o)
        <3>1. UNCHANGED sent
            BY <1>4, <2>2
            DEF WorkerStep, SvrBegin, SvrInitOk, SvrInitFail, SvrStop,
                SvrFinish, SvrStamp, SvrStopped, SvrClose
        <3> QED
            BY <3>1
    <2> QED
        BY <2>1, <2>2
<1>5. CASE CollectorStep
    <2>1. CASE CollectErase \/ CloseClear
        <3>1. \E s, h, o, i : Repoints(Collector, s, h, o, i)
            BY <1>0, <2>1, RepointCases
        <3> QED
            BY <1>0, <1>2, <3>1
    <2>2. CASE ~(CollectErase \/ CloseClear)
        <3>1. UNCHANGED sent
            BY <1>5, <2>2
            DEF CollectorStep, CollectBegin, CollectVisit, CollectEnd, PassOver,
                SetDue, StopStep, StopTest, EnterStop, StopSet, SetStop,
                StopJoin, objects, history
        <3> QED
            BY <3>1
    <2> QED
        BY <2>1, <2>2
<1>6. ASSUME NEW u \in Client, NEW op \in Operations, NEW i \in Id,
             NEW rep \in BOOLEAN, Receive(u, op, i, rep)
      PROVE  UNCHANGED sent
    BY <1>6 DEF Receive, objects, history
<1>7. CASE CloseBegin \/ Tick \/ UNCHANGED vars
    BY <1>7 DEF CloseBegin, Tick, vars, objects, history
<1> QED
    BY <1>3, <1>4, <1>5, <1>6, <1>7 DEF Next, Running, Halted

(* Where a stop() returns, the worker is through or on its way out.        *)
LEMMA StopReturns ==
  ASSUME SilenceInv, TypeInv, Excl, [Next]_vars,
         NEW t \in Client, pc[t] # "return", pc'[t] = "return",
         req[t].op = "stop", held[t] # NoObj
  PROVE  ~(thread'[held[t]] = "running" /\ status'[held[t]] # "stopped")
<1>0. /\ Client \subseteq Thread /\ Collector \in Thread \ Client
      /\ Thread = Client \cup {Collector}
      /\ DOMAIN pc = Thread /\ DOMAIN thread = Obj
      /\ held[t] \in Obj /\ held[t] \in allocated
    BY Typed, HeldExists DEF TypeInv, TypeOK, ObjectsOK
<1>1. ASSUME NEW u \in Client, ClientStep(u)
      PROVE  u = t /\ (StopTest(t) \/ StopJoin(t))
    <2>1. \A v \in Thread : v # u => pc'[v] = pc[v]
        BY <1>0, <1>1
        DEF ClientStep, LockStep, GetStream, CreateStream, StopStep, StopTest,
            EnterStop, StopSet, SetStop, StopJoin, Forget, StartRefused,
            StartClear, StartSpawn, Respond, Goto
    <2>2. u = t
        BY <1>0, <2>1
    <2>3. ~(GetStream(t) \/ StartRefused(t) \/ StartClear(t) \/ StartSpawn(t))
        BY <1>0 DEF GetStream, StartRefused, StartClear, StartSpawn, Excl,
                    HoldsItsOwn, SilenceInv, StaysSilent
    <2>4. ~(StopSet(t) \/ Forget(t) \/ CreateStream(t) \/ Respond(t))
        BY <1>0 DEF StopSet, Forget, CreateStream, Respond, Goto
    <2> QED
        BY <1>1, <2>2, <2>3, <2>4 DEF ClientStep, LockStep, StopStep
<1>2. CASE StopTest(t)
    <2>1. /\ mStop[held[t]] /\ UNCHANGED <<thread, status>> /\ pc[t] = "stop"
        BY <1>0, <1>2 DEF StopTest, EnterStop, Goto
    <2>2. CASE Joinable(held[t])
        <3>1. PICK u \in Thread : pc[u] = "join" /\ held[u] = held[t]
            BY <1>0, <2>1, <2>2 DEF Excl, JoinerPresent
        <3>2. u = Collector
            BY <1>0, <2>1, <3>1, HeldAlone
        <3>3. status[held[t]] = "stopped"
            BY <3>1, <3>2 DEF Excl, CollectsStopped, Collecting
        <3> QED
            BY <2>1, <3>3
    <2>3. CASE ~Joinable(held[t])
        BY <2>1, <2>3 DEF Joinable
    <2> QED
        BY <2>2, <2>3
<1>3. CASE StopJoin(t)
    BY <1>0, <1>3 DEF StopJoin
<1>4. ASSUME NEW o \in Obj, WorkerStep(o) PROVE FALSE
    BY <1>4, WorkerEffect DEF Excl, threads
<1>5. CASE CollectorStep
    <2>1. pc'[t] = pc[t]
        BY <1>0, <1>5
        DEF CollectorStep, CollectBegin, CollectVisit, CollectErase, CollectEnd,
            PassOver, StopStep, StopTest, EnterStop, StopSet, SetStop, StopJoin,
            CloseClear, Goto
    <2> QED
        BY <2>1
<1>6. ASSUME NEW u \in Client, NEW op \in Operations, NEW i \in Id,
             NEW rep \in BOOLEAN, Receive(u, op, i, rep)
      PROVE  FALSE
    BY <1>0, <1>6 DEF Receive, Goto
<1>7. ~(CloseBegin \/ Tick \/ UNCHANGED vars)
    BY DEF CloseBegin, Tick, vars, threads
<1> QED
    BY <1>1, <1>2, <1>3, <1>4, <1>5, <1>6, <1>7 DEF Next, Running, Halted

(* With clients that serialise, and workers that are not held up between   *)
(* their end and reportStop for streamReleaseTime, FileStream::stop is     *)
(* final: nothing pushes when it has returned, and a stop(false) that      *)
(* waits for the worker is not followed by a stop callback.                *)
THEOREM StopFinal ==
  ASSUME Kind = "file", Serial, Prompt PROVE Spec => StopIsFinal
<1>1. Init => SilenceInv
    BY SilenceInit
<1>2. SilenceInv /\ [Next]_vars => SilenceInv'
    BY SilenceStep
<1>3. SilenceInv /\ [Next]_vars =>
        [\A t \in Client :
           /\ pc[t] = "join" /\ ~req[t].report
                => sent'[held[t]] = sent[held[t]]
           /\ pc[t] # "return" /\ pc'[t] = "return" /\ req[t].op = "stop"
                /\ held[t] # NoObj
                => ~(thread'[held[t]] = "running"
                       /\ status'[held[t]] # "stopped")]_vars
    <2> SUFFICES ASSUME SilenceInv, [Next]_vars, NEW t \in Client
                 PROVE  /\ pc[t] = "join" /\ ~req[t].report
                             => sent'[held[t]] = sent[held[t]]
                        /\ pc[t] # "return" /\ pc'[t] = "return"
                             /\ req[t].op = "stop" /\ held[t] # NoObj
                             => ~(thread'[held[t]] = "running"
                                    /\ status'[held[t]] # "stopped")
        OBVIOUS
    <2>1. TypeInv /\ Excl
        BY DEF SilenceInv, ExclusionInv, TypeInv, Excl
    <2> QED
        BY <2>1, SilentJoin, StopReturns
<1> QED
    BY <1>1, <1>2, <1>3, PTL DEF Spec, StopIsFinal
=============================================================================
