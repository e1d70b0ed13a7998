------------------------------ MODULE Launcher ------------------------------
(***************************************************************************)
(* The life of the process: main.cpp, service/Launcher.cpp and the         *)
(* services it starts and stops one after the other, together with the     *)
(* threads they leave running: the HTTP server's, the two managers'        *)
(* collectors, the streams' workers and the callback clients' senders.     *)
(* What happens inside one component is left to its own module; here a     *)
(* step of a thread is what can meet another component's start or end.     *)
(***************************************************************************)
EXTENDS Naturals, Sequences

CONSTANTS
  Handler,      \* threads of the HTTP server's pool
  Stream,       \* bound: the stream objects ever created
  NoStream,     \* the empty shared_ptr
  MaxMsgSize,   \* MAXMSGSIZE
  MaxReport     \* bound: callbacks of one stream

ASSUME LauncherAssumption ==
  /\ NoStream \notin Stream
  /\ MaxMsgSize \in Nat \ {0}
  /\ MaxReport \in Nat

Kind == {"file", "realtime"}         \* m_fileStreamMng, m_realStreamMng
Callback == {"progress", "stop"}     \* m_streamProgress, m_streamStop

(* Mutant: the services are closed in the reverse order.                   *)
Program_ClosedBackwards == <<
  "initConfig", "initStream", "initInterface", "initClient", "openStream",
  "openInterface", "openClient", "register", "sign", "loop", "quitProgress",
  "awaitProgress", "deleteProgress", "quitStop", "awaitStop", "deleteStop",
  "closeManage", "closeInterface", "stopFile", "joinFile", "clearFile",
  "stopRealtime", "joinRealtime", "clearRealtime", "finitConfig",
  "finitStream", "finitInterface", "end" >>

(* What main does in order: init, open, close and finit over the list of   *)
(* services, with StreamModInterface::close and HttpClientManage::close    *)
(* taken apart.  The services whose part in a phase is empty are left out. *)
Program == <<
  "initConfig", "initStream", "initInterface", "initClient", "openStream",
  "openInterface", "openClient", "register", "sign", "loop", "stopFile",
  "joinFile", "clearFile", "stopRealtime", "joinRealtime", "clearRealtime",
  "closeInterface", "quitProgress", "awaitProgress", "deleteProgress",
  "quitStop", "awaitStop", "deleteStop", "closeManage", "finitConfig",
  "finitStream", "finitInterface", "end" >>

StopOf == [file |-> "stopFile", realtime |-> "stopRealtime"]
JoinOf == [file |-> "joinFile", realtime |-> "joinRealtime"]
ClearOf == [file |-> "clearFile", realtime |-> "clearRealtime"]
QuitOf == [progress |-> "quitProgress", stop |-> "quitStop"]
AwaitOf == [progress |-> "awaitProgress", stop |-> "awaitStop"]
DeleteOf == [progress |-> "deleteProgress", stop |-> "deleteStop"]

VARIABLES
  at,           \* main's place in Program
  sign,         \* m_ThreadSign
  proc,         \* "alive", or how the process ended
  mng,          \* of each kind: "null", or m_stop of the manager
  streams,      \* of each kind: the objects m_streams refers to
  col,          \* the collector threads, StreamMng::svr
  server,       \* the HttpServer and its socket
  listener,     \* the thread of InterfaceService::httpListen
  hpc, hreq, held,   \* the pool: place, request, shared_ptr
  life,         \* of each stream: the object and its thread
  reports,      \* callbacks it has made
  got,          \* the client its thread holds a pointer to, or "none"
  client,       \* the pointers of HttpClientManage and their objects
  sender,       \* the clients' threads
  queue,        \* requests in the clients' queues
  lost          \* history: callbacks the order of the services costs

main == <<at, sign>>
manager == <<mng, streams, col>>
http == <<server, listener>>
handlers == <<hpc, hreq, held>>
workers == <<life, reports, got>>
clients == <<client, sender, queue, lost>>
vars == <<main, proc, manager, http, handlers, workers, clients>>

(* A callback finds no client, or dies with one.                           *)
Loss == {"noClient", "withClient"}

Request == [op : {"start", "stop"}, kind : Kind]
NoReq == [op |-> "none", kind |-> "file"]
Faults == {"terminate", "race", "noManager", "freedManager", "freedClient",
           "freedServer", "freedConfig", "tornConfig"}

TypeOK ==
  /\ at \in DOMAIN Program
  /\ sign \in BOOLEAN
  /\ proc \in {"alive", "exited"} \cup Faults
  /\ mng \in [Kind -> {"null", "stopped", "open"}]
  /\ streams \in [Kind -> SUBSET Stream]
  /\ col \in [Kind -> {"none", "sleep", "exit"}]
  /\ server \in {"none", "routed", "listening", "stopped", "deleted"}
  /\ listener \in {"none", "begin", "accept", "exit"}
  /\ hpc \in [Handler -> {"idle", "config", "map", "use", "return"}]
  /\ hreq \in [Handler -> Request \cup {NoReq}]
  /\ held \in [Handler -> Stream \cup {NoStream}]
  /\ life \in [Stream -> {"none", "created", "running", "ended", "joined",
                          "gone"}]
  /\ reports \in [Stream -> 0..MaxReport]
  /\ got \in [Stream -> Callback \cup {"none"}]
  /\ client \in [Callback -> {"null", "open", "closing", "deleted"}]
  /\ sender \in [Callback -> {"none", "run", "exit"}]
  /\ queue \in [Callback -> Nat]
  /\ lost \in [Loss -> Nat]

Init ==
  /\ at = 1 /\ sign = FALSE /\ proc = "alive"
  /\ mng = [k \in Kind |-> "null"]
  /\ streams = [k \in Kind |-> {}]
  /\ col = [k \in Kind |-> "none"]
  /\ server = "none" /\ listener = "none"
  /\ hpc = [h \in Handler |-> "idle"]
  /\ hreq = [h \in Handler |-> NoReq]
  /\ held = [h \in Handler |-> NoStream]
  /\ life = [s \in Stream |-> "none"]
  /\ reports = [s \in Stream |-> 0]
  /\ got = [s \in Stream |-> "none"]
  /\ client = [c \in Callback |-> "null"]
  /\ sender = [c \in Callback |-> "none"]
  /\ queue = [c \in Callback |-> 0]
  /\ lost = [r \in Loss |-> 0]

-----------------------------------------------------------------------------
At(step) == proc = "alive" /\ Program[at] = step
Advance == at' = at + 1 /\ UNCHANGED sign

(* Undefined behaviour, or std::terminate: nothing is said of what follows.*)
Fails(why) ==
  /\ proc' = why
  /\ UNCHANGED <<main, manager, http, handlers, workers, clients>>

InMap(h, k) == hpc[h] = "map" /\ hreq[h].kind = k
Reading == {h \in Handler : hpc[h] = "config"}
HeldByHandler(s) == \E h \in Handler : held[h] = s

(* The last shared_ptr to an object goes: its std::thread is destroyed     *)
(* with it, and a joinable one terminates the process.                     *)
Joinable(s) == life[s] \in {"running", "ended"}
Destroyed(S) == [s \in Stream |-> IF s \in S THEN "gone" ELSE life[s]]

-----------------------------------------------------------------------------
(* main: Launcher::init and Launcher::open.                                *)

(* -h or -v: no service is made, so there is nothing to open or close.     *)
OnlyUsage ==
  /\ At("initConfig")
  /\ at' = Len(Program)
  /\ UNCHANGED <<sign, proc, manager, http, handlers, workers, clients>>

InitStream ==
  /\ At("initStream") /\ Advance
  /\ mng' = [k \in Kind |-> "stopped"]
  /\ UNCHANGED <<proc, streams, col, http, handlers, workers, clients>>

(* ConfigMod::init does not look at what load returned; the other two only *)
(* make their objects.                                                     *)
InitRest ==
  /\ At("initConfig") \/ At("initInterface") \/ At("initClient")
  /\ Advance
  /\ UNCHANGED <<proc, manager, http, handlers, workers, clients>>

OpenStream ==
  /\ At("openStream") /\ Advance
  /\ mng' = [k \in Kind |-> "open"]
  /\ col' = [k \in Kind |-> "sleep"]
  /\ UNCHANGED <<proc, streams, http, handlers, workers, clients>>

(* The routes are set; the thread that will listen is detached.            *)
OpenInterface ==
  /\ At("openInterface") /\ Advance
  /\ server' = "routed" /\ listener' = "begin"
  /\ UNCHANGED <<proc, manager, handlers, workers, clients>>

(* Mutant: the client of the stop callbacks is forgotten.                  *)
OpenClient_OnlyProgress ==
  /\ At("openClient") /\ Advance
  /\ client' = [client EXCEPT !["progress"] = "open"]
  /\ sender' = [c \in Callback |-> "run"]
  /\ UNCHANGED <<proc, manager, http, handlers, workers, queue, lost>>

OpenClient ==
  /\ At("openClient") /\ Advance
  /\ client' = [c \in Callback |-> "open"]
  /\ sender' = [c \in Callback |-> "run"]
  /\ UNCHANGED <<proc, manager, http, handlers, workers, queue, lost>>

Register ==
  /\ At("register") /\ Advance
  /\ UNCHANGED <<proc, manager, http, handlers, workers, clients>>

(* m_ThreadSign is set after the handlers have been registered: a SIGINT   *)
(* in between is forgotten.                                                *)
SetSign ==
  /\ At("sign")
  /\ sign' = TRUE /\ at' = at + 1
  /\ UNCHANGED <<proc, manager, http, handlers, workers, clients>>

LeaveLoop ==
  /\ At("loop") /\ ~sign /\ Advance
  /\ UNCHANGED <<proc, manager, http, handlers, workers, clients>>

(* ACE_Reactor, which calls handle_signal from the operating system's      *)
(* handler.  At any other time a signal kills the process: left out.       *)
Registered == At("sign") \/ At("loop")

Interrupt ==
  /\ Registered
  /\ sign' = FALSE
  /\ UNCHANGED <<at, proc, manager, http, handlers, workers, clients>>

(* reloadConfig: m_json is assigned, whoever is reading it.  With nobody   *)
(* there nothing changes that is modelled.                                 *)
Reload ==
  /\ Registered
  /\ Reading # {}
  /\ Fails("tornConfig")

-----------------------------------------------------------------------------
(* main: Launcher::close.                                                  *)

StopManager(k) ==
  /\ At(StopOf[k]) /\ Advance
  /\ mng' = [mng EXCEPT ![k] = "stopped"]
  /\ UNCHANGED <<proc, streams, col, http, handlers, workers, clients>>

(* Mutant: close does not wait for the collector.                          *)
JoinCollector_NoWait(k) ==
  /\ At(JoinOf[k]) /\ Advance
  /\ UNCHANGED <<proc, manager, http, handlers, workers, clients>>

JoinCollector(k) ==
  /\ At(JoinOf[k]) /\ col[k] = "exit" /\ Advance
  /\ UNCHANGED <<proc, manager, http, handlers, workers, clients>>

(* The map goes, be it by m_streams.clear() or with its manager: without   *)
(* m_streamLock, and without stopping the streams in it.                   *)
DropMaps(K) ==
  LET unheld == {s \in UNION {streams[k] : k \in K} : ~HeldByHandler(s)}
  IN  IF \E h \in Handler, k \in K : InMap(h, k) THEN Fails("race")
      ELSE IF \E s \in unheld : Joinable(s) THEN Fails("terminate")
      ELSE /\ streams' = [k \in Kind |-> IF k \in K THEN {} ELSE streams[k]]
           /\ life' = Destroyed(unheld)
           /\ mng' = IF K = Kind THEN [k \in Kind |-> "null"] ELSE mng
           /\ Advance
           /\ UNCHANGED <<proc, col, http, handlers, reports, got,
                          clients>>

ClearStreams(k) == At(ClearOf[k]) /\ DropMaps({k})

(* Server::stop does nothing unless the server already runs, and does not  *)
(* wait; m_path2handler is cleared while the listener may walk through it. *)
CloseInterface ==
  /\ At("closeInterface")
  /\ \/ listener = "begin" /\ Fails("race")
     \/ /\ Advance
        /\ server' = IF server = "listening" THEN "stopped" ELSE server
        /\ UNCHANGED <<proc, manager, listener, handlers, workers,
                       clients>>

(* Mutant: close does not reset m_runing.                                  *)
QuitClient_StillRuning(c) ==
  /\ At(QuitOf[c]) /\ Advance
  /\ UNCHANGED <<proc, manager, http, handlers, workers, clients>>

QuitClient(c) ==
  /\ At(QuitOf[c]) /\ Advance
  /\ client' = [client EXCEPT ![c] = "closing"]
  /\ UNCHANGED <<proc, manager, http, handlers, workers, sender, queue,
                 lost>>

JoinSender(c) ==
  /\ At(AwaitOf[c]) /\ sender[c] = "exit" /\ Advance
  /\ UNCHANGED <<proc, manager, http, handlers, workers, clients>>

(* The object goes with its queue; the manager's pointer stays.            *)
DeleteClient(c) ==
  /\ At(DeleteOf[c]) /\ Advance
  /\ client' = [client EXCEPT ![c] = "deleted"]
  /\ lost' = [lost EXCEPT !.withClient = @ + queue[c]]
  /\ queue' = [queue EXCEPT ![c] = 0]
  /\ UNCHANGED <<proc, manager, http, handlers, workers, sender>>

(* HTTPCLIENTMANAGE::close(): whoever asks for the singleton from now on   *)
(* gets a new one, with both pointers NULL.                                *)
CloseManage ==
  /\ At("closeManage") /\ Advance
  /\ client' = [c \in Callback |-> "null"]
  /\ UNCHANGED <<proc, manager, http, handlers, workers, sender, queue,
                 lost>>

(* Launcher::finit, and the end of main.                                   *)
FinitConfig ==
  /\ At("finitConfig")
  /\ \/ Reading # {} /\ Fails("freedConfig")
     \/ /\ Reading = {} /\ Advance
        /\ UNCHANGED <<proc, manager, http, handlers, workers, clients>>

FinitStream == At("finitStream") /\ DropMaps(Kind)

FinitInterface ==
  /\ At("finitInterface") /\ Advance
  /\ server' = "deleted"
  /\ UNCHANGED <<proc, manager, listener, handlers, workers, clients>>

Exit == At("end") /\ Fails("exited")

-----------------------------------------------------------------------------
(* The HTTP server.                                                        *)

(* HttpServer::open: the handlers are handed over, then the socket opens.  *)
Listen ==
  /\ proc = "alive" /\ listener = "begin"
  /\ \/ server = "deleted" /\ Fails("freedServer")
     \/ /\ server = "routed"
        /\ server' = "listening" /\ listener' = "accept"
        /\ UNCHANGED <<proc, main, manager, handlers, workers, clients>>

(* The socket is closed: the pool is shut down, which waits for it, and    *)
(* the server is written to once more.                                     *)
ListenerEnds ==
  /\ proc = "alive" /\ listener = "accept"
  /\ \A h \in Handler : hpc[h] = "idle"
  /\ \/ server = "deleted" /\ Fails("freedServer")
     \/ /\ server = "stopped"
        /\ listener' = "exit"
        /\ UNCHANGED <<proc, main, manager, server, handlers, workers,
                       clients>>

(* A connection accepted before the socket was closed may be read after.   *)
Accept(h) ==
  /\ proc = "alive" /\ hpc[h] = "idle" /\ listener = "accept"
  /\ \/ server = "deleted" /\ Fails("freedServer")
     \/ /\ server \in {"listening", "stopped"}
        /\ \E r \in Request :
             /\ hreq' = [hreq EXCEPT ![h] = r]
             /\ hpc' = [hpc EXCEPT ![h] =
                          IF r.op = "start" THEN "config" ELSE "map"]
             /\ IF r.op = "stop"
                THEN /\ mng[r.kind] # "null"
                     /\ \A g \in Handler : ~InMap(g, r.kind)
                ELSE TRUE
        /\ UNCHANGED <<proc, main, manager, http, held, workers,
                       clients>>
     \/ /\ \E k \in Kind : mng[k] = "null"
        /\ server \in {"listening", "stopped"}
        /\ Fails("noManager")

(* A start request takes the callback urls from the configuration, then    *)
(* goes to the map.                                                        *)
ReadConfig(h) ==
  /\ proc = "alive" /\ hpc[h] = "config"
  /\ LET k == hreq[h].kind
     IN \/ mng[k] = "null" /\ Fails("noManager")
        \/ /\ mng[k] # "null" /\ \A g \in Handler : ~InMap(g, k)
           /\ hpc' = [hpc EXCEPT ![h] = "map"]
           /\ UNCHANGED <<proc, main, manager, http, hreq, held,
                          workers, clients>>

(* createStream; what became of an older stream of the id is StreamMng's.  *)
(* There may be no memory for it.                                          *)
Create(h) ==
  /\ proc = "alive" /\ hpc[h] = "map" /\ hreq[h].op = "start"
  /\ \/ \E s \in Stream :
          /\ life[s] = "none"
          /\ life' = [life EXCEPT ![s] = "created"]
          /\ held' = [held EXCEPT ![h] = s]
          /\ streams' = [streams EXCEPT ![hreq[h].kind] = @ \cup {s}]
          /\ hpc' = [hpc EXCEPT ![h] = "use"]
     \/ /\ hpc' = [hpc EXCEPT ![h] = "return"]
        /\ UNCHANGED <<life, held, streams>>
  /\ UNCHANGED <<proc, main, mng, col, http, hreq, reports, got, clients>>

(* getStream, of a stop request.                                           *)
Get(h) ==
  /\ proc = "alive" /\ hpc[h] = "map" /\ hreq[h].op = "stop"
  /\ \/ \E s \in streams[hreq[h].kind] :
          held' = [held EXCEPT ![h] = s] /\ hpc' = [hpc EXCEPT ![h] = "use"]
     \/ hpc' = [hpc EXCEPT ![h] = "return"] /\ UNCHANGED held
  /\ UNCHANGED <<proc, main, manager, http, hreq, workers, clients>>

(* start() of the object: its thread runs.  The arguments may be refused.  *)
Start(h) ==
  /\ proc = "alive" /\ hpc[h] = "use" /\ hreq[h].op = "start"
  /\ life' \in {life, [life EXCEPT ![held[h]] = "running"]}
  /\ hpc' = [hpc EXCEPT ![h] = "return"]
  /\ UNCHANGED <<proc, main, manager, http, hreq, held, reports, got,
                 clients>>

(* stop() of the object: its thread is joined, unless it was before.       *)
Stop(h) ==
  /\ proc = "alive" /\ hpc[h] = "use" /\ hreq[h].op = "stop"
  /\ life[held[h]] # "running"
  /\ life' = [life EXCEPT ![held[h]] = IF @ = "ended" THEN "joined" ELSE @]
  /\ hpc' = [hpc EXCEPT ![h] = "return"]
  /\ UNCHANGED <<proc, main, manager, http, hreq, held, reports, got,
                 clients>>

(* The response is written by the server; the shared_ptr is let go.        *)
Return(h) ==
  /\ proc = "alive" /\ hpc[h] = "return"
  /\ LET s == held[h]
         last == /\ s # NoStream
                 /\ \A k \in Kind : s \notin streams[k]
                 /\ \A g \in Handler \ {h} : held[g] # s
     IN \/ last /\ Joinable(s) /\ Fails("terminate")
        \/ server = "deleted" /\ Fails("freedServer")
        \/ /\ ~(last /\ Joinable(s)) /\ server # "deleted"
           /\ life' = Destroyed(IF last THEN {s} ELSE {})
           /\ held' = [held EXCEPT ![h] = NoStream]
           /\ hreq' = [hreq EXCEPT ![h] = NoReq]
           /\ hpc' = [hpc EXCEPT ![h] = "idle"]
           /\ UNCHANGED <<proc, main, manager, http, reports, got,
                          clients>>

-----------------------------------------------------------------------------
(* The collector of a manager: one more pass after m_stop has been set.    *)
Collect(k) ==
  /\ proc = "alive" /\ col[k] = "sleep"
  /\ \/ mng[k] = "null" /\ Fails("freedManager")
     \/ /\ mng[k] # "null" /\ \A h \in Handler : ~InMap(h, k)
        /\ \E S \in SUBSET {s \in streams[k] :
                               life[s] \in {"ended", "joined"}} :
             /\ streams' = [streams EXCEPT ![k] = @ \ S]
             /\ life' = [s \in Stream |->
                           IF s \notin S THEN life[s]
                           ELSE IF HeldByHandler(s) THEN "joined" ELSE "gone"]
        /\ col' = [col EXCEPT ![k] =
                     IF mng[k] = "open" THEN "sleep" ELSE "exit"]
        /\ UNCHANGED <<proc, main, mng, http, handlers, reports, got,
                       clients>>

(* A stream's thread reports progress or its end: Module_Interface.        *)
GetClient(s, c) ==
  /\ proc = "alive" /\ life[s] = "running" /\ got[s] = "none"
  /\ reports[s] < MaxReport
  /\ reports' = [reports EXCEPT ![s] = @ + 1]
  /\ \/ /\ client[c] = "null"
        /\ lost' = [lost EXCEPT !.noClient = @ + 1] /\ UNCHANGED got
     \/ /\ client[c] # "null"
        /\ got' = [got EXCEPT ![s] = c] /\ UNCHANGED lost
  /\ UNCHANGED <<proc, main, manager, http, handlers, life, client,
                 sender, queue>>

(* HttpClient::push: in a full queue the oldest is discarded to make room, *)
(* and is lost.  HttpClient takes the two critical sections apart.         *)
Push(s) ==
  /\ proc = "alive" /\ got[s] # "none"
  /\ LET c == got[s]
     IN \/ client[c] \in {"null", "deleted"} /\ Fails("freedClient")
        \/ /\ client[c] \in {"open", "closing"}
           /\ queue' = [queue EXCEPT ![c] = IF @ >= MaxMsgSize THEN @ ELSE @ + 1]
           /\ got' = [got EXCEPT ![s] = "none"]
           /\ UNCHANGED <<proc, main, manager, http, handlers, life,
                          reports, client, sender, lost>>

(* The thread ends, of itself or because m_stop has been set.  (Nobody     *)
(* counts the callbacks of a thread that has ended.)                       *)
StreamEnds(s) ==
  /\ proc = "alive" /\ life[s] = "running" /\ got[s] = "none"
  /\ life' = [life EXCEPT ![s] = "ended"]
  /\ reports' = [reports EXCEPT ![s] = 0]
  /\ UNCHANGED <<proc, main, manager, http, handlers, got,
                 clients>>

(* HttpClient::threadfunc and send2Dest, which do not ask what became of   *)
(* the request: it leaves the queue and is destroyed whether or not it has *)
(* failed, so that both look the same to the process.                      *)
Send(c) ==
  /\ proc = "alive" /\ sender[c] = "run" /\ queue[c] > 0
  /\ queue' = [queue EXCEPT ![c] = @ - 1]
  /\ UNCHANGED <<proc, main, manager, http, handlers, workers, client,
                 sender, lost>>

SenderEnds(c) ==
  /\ proc = "alive" /\ sender[c] = "run" /\ client[c] = "closing"
  /\ sender' = [sender EXCEPT ![c] = "exit"]
  /\ UNCHANGED <<proc, main, manager, http, handlers, workers, client,
                 queue, lost>>

-----------------------------------------------------------------------------
Main ==
  \/ InitStream \/ InitRest \/ OpenStream \/ OpenInterface
  \/ OpenClient \/ Register \/ SetSign \/ LeaveLoop
  \/ \E k \in Kind : StopManager(k) \/ JoinCollector(k) \/ ClearStreams(k)
  \/ CloseInterface
  \/ \E c \in Callback : QuitClient(c) \/ JoinSender(c) \/ DeleteClient(c)
  \/ CloseManage \/ FinitConfig \/ FinitStream \/ FinitInterface \/ Exit

Pool(h) ==
  \/ Accept(h) \/ ReadConfig(h) \/ Create(h) \/ Get(h) \/ Start(h) \/ Stop(h)
  \/ Return(h)

Next ==
  \/ Main \/ OnlyUsage \/ Interrupt \/ Reload
  \/ Listen \/ ListenerEnds
  \/ \E h \in Handler : Pool(h)
  \/ \E k \in Kind : Collect(k)
  \/ \E s \in Stream :
       Push(s) \/ StreamEnds(s) \/ \E c \in Callback : GetClient(s, c)
  \/ \E c \in Callback : Send(c) \/ SenderEnds(c)

Spec == Init /\ [][Next]_vars

(* The scheduler runs main, the collectors and the senders, and lets a     *)
(* handler out of its critical section.  Requests that follow each other   *)
(* do not keep a collector from m_streamLock for ever (SF).  Nothing is    *)
(* assumed of signals, clients and streams.                                *)
Fairness ==
  /\ WF_vars(Main)
  /\ \A h \in Handler : WF_vars(Create(h) \/ Get(h))
  /\ \A k \in Kind : SF_vars(Collect(k))
  /\ \A c \in Callback : WF_vars(SenderEnds(c))

FairSpec == Spec /\ Fairness

-----------------------------------------------------------------------------
(* A shutdown meets trouble only if it is not quiet: as long as every      *)
(* stream has been stopped, no request is being worked on and the listener *)
(* has ended, neither main nor a thread it waits for touches what is gone. *)
Busy ==
  \/ \E s \in Stream : Joinable(s)
  \/ \E h \in Handler : hpc[h] # "idle"
  \/ listener \in {"begin", "accept"}

QuietIsSafe == proc \in Faults => Busy

(* Callbacks of streams that the server still manages find their client:   *)
(* the clients go only after both managers have let go of their streams,   *)
(* so only a stream of a late request can meet a freed client.             *)
ClientsOutliveManagers ==
  proc = "freedClient" => \A k \in Kind : mng[k] # "open"

(* While main is in its loop the order of the services costs no callback:  *)
(* none finds a client missing, and none dies with its client, for that    *)
(* happens only before the clients are opened, which is after the HTTP     *)
(* server, or at shutdown.  Callbacks are still lost in service, to a full *)
(* queue and to requests that fail: HttpClient's own doing.                *)
LostAtTheEdges ==
  [][Program[at] = "loop" =>
       /\ lost'.noClient = lost.noClient
       /\ lost'.withClient = lost.withClient]_vars

(* A SIGINT that finds main in its loop makes the process end.             *)
InterruptEnds ==
  (Program[at] = "loop" /\ ~sign) ~> (proc # "alive")
=============================================================================
