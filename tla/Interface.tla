----------------------------- MODULE Interface -----------------------------
(* The HTTP interface: routes, handlers and what they make of a request,    *)
(* against streams that run, end and are collected meanwhile (httpServer/,  *)
(* the streamInfo of stream/, and what the streams write to it).            *)
(*                                                                          *)
(* A stream is created in four steps a query can look between.  A query     *)
(* keeps raw pointers to the infos, lets go of the streams, and reads field *)
(* by field without a lock; reading what has been deleted, or what start()  *)
(* is copying, is undefined: fault says which, and the model ends there.    *)
(* Requests that start, stop or command one stream come one after the other *)
(* (StreamMng has the races of two of them).                                *)
EXTENDS Integers, Sequences, SequencesExt

CONSTANTS Clients,            \* threads of the server that handle requests
          Workloads,          \* sequences of requests: they get those of one
          Id,                 \* ids the requests may name
          Configs,            \* what load() may find in the file, first [1]
          Media,              \* path -> what opening the file finds
          PushUrls,           \* urls initStreamOut has an output for
          streamReleaseTime,
          MaxStreams, MaxRequests, ReloadsUntil, MaxTime      \* bounds

Kinds == {"file", "realtime"}
Callbacks == {"process", "filestart", "stop"}

VARIABLES
  m_json,       \* the "callback" module of the configuration
  m_streams,    \* kind -> id -> the stream, its place in heap
  heap,         \* every stream ever created; none takes another's place
  client,       \* what each thread of the server is doing
  sent,         \* the callback a stream is sending
  now, fault, workload, requests

vars == <<m_json, m_streams, heap, client, sent, now, fault, workload,
          requests>>

-----------------------------------------------------------------------------
(* Requests.  A member of the wrong type counts as missing everywhere.      *)

Has(body, m, type) == m \in DOMAIN body /\ body[m].type = type
Get(body, m, type, default) ==
  IF Has(body, m, type) THEN body[m].value ELSE default

OK == 0
INVALID_METHOD == 1
PARAMETER == 100
NotFound == 404

SEC_FILELIST == 200
SEC_STREAMIN == 202
SEC_STREAMOUT == 201
SEC_CODEC == 203

addHandlers(base, paths) == {<<base, p>> : p \in paths}
Routes == addHandlers("file", {"start", "stop", "jump", "pause", "resume",
                               "query"})
            \cup addHandlers("realtime", {"start", "stop", "query"})

getStringParam(json, key, value) ==
  IF Has(json, key, "string") THEN json[key].value ELSE value

(* What starting a stream makes of its request.                             *)
DefaultInfo ==
  [id |-> "", url |-> "", source |-> "", files |-> <<>>, duration |-> 0,
   cycle |-> 0, mode |-> 1, convert |-> FALSE,
   enable |-> [process |-> FALSE, filestart |-> FALSE, stop |-> TRUE],
   callback |-> [k \in Callbacks |-> ""],
   startTime |-> 0, stopTime |-> 0, status |-> "init", error |-> 0]

UrlMember == [process |-> "processCbUrl", filestart |-> "fileStarCbUrl",
              stop |-> "stopCbUrl"]
CallbackUrls_ConfigLast(json, body, keys) ==
  [k \in Callbacks |->
     IF k \in keys
     THEN getStringParam(json, k, Get(body, UrlMember[k], "string", ""))
     ELSE ""]
CallbackUrls(json, body, keys) ==
  [k \in Callbacks |->
     IF k \in keys
     THEN Get(body, UrlMember[k], "string", getStringParam(json, k, ""))
     ELSE ""]

FileCallbacks(body) ==
  [process |-> Get(body, "enableProcessCb", "bool", FALSE),
   filestart |-> Get(body, "enableFileStartCb", "bool", FALSE),
   stop |-> Get(body, "enableStopCb", "bool", TRUE)]

Converts(body) ==
  Has(body, "audioConvert", "object")
    /\ Get(body.audioConvert.value, "enable", "bool", FALSE)
BadConvert(body) ==
  /\ Converts(body)
  /\ LET a == body.audioConvert.value
     IN  \/ Get(a, "codec", "string", "") \notin {"mp3", "aac"}
         \/ Get(a, "ar", "int", 0) = 0
         \/ Get(a, "ab", "int", 0) * 1000 = 0
         \/ Get(a, "ac", "int", 0) \notin 1..2

BadFiles(body) ==
  \/ ~Has(body, "files", "array")
  \/ \E f \in Range(body.files.value) :
       ~Has(f, "path", "string") \/ ~Has(f, "index", "int")
         \/ ~Has(f, "id", "string")

(* A std::map keeps the first file of each index.  The list is in the order *)
(* of the indices: here it is that map.                                     *)
Indices(body) == {f.index.value : f \in Range(body.files.value)}
FileOf(f) == [path |-> f.path.value, index |-> f.index.value,
              id |-> f.id.value]
FileList_KeepsLast(body) ==
  LET given == body.files.value
  IN  [i \in Indices(body) |->
         FileOf(given[CHOOSE k \in DOMAIN given :
                        /\ given[k].index.value = i
                        /\ \A j \in DOMAIN given :
                             given[j].index.value = i => j <= k])]
FileList(body) ==
  LET given == body.files.value
  IN  [i \in Indices(body) |->
         FileOf(given[CHOOSE k \in DOMAIN given :
                        /\ given[k].index.value = i
                        /\ \A j \in DOMAIN given :
                             given[j].index.value = i => k <= j])]

FileInfo(json, body) ==
  [DefaultInfo EXCEPT
     !.id = body.id.value, !.url = body.url.value, !.files = FileList(body),
     !.duration = Get(body, "duration", "int", 0),
     !.cycle = Get(body, "cycle", "int", 0),
     !.mode = Get(body, "mode", "int", 1),
     !.convert = Converts(body), !.enable = FileCallbacks(body),
     !.callback = CallbackUrls(json, body, Callbacks)]

(* enableProcessCb is read, and then the false it began with is set.        *)
RealtimeInfo(json, body) ==
  [DefaultInfo EXCEPT
     !.id = body.id.value, !.url = body.url.value,
     !.source = body.source.value,
     !.duration = Get(body, "duration", "int", 0),
     !.convert = Converts(body),
     !.enable.stop = Get(body, "enableStopCb", "bool", TRUE),
     !.callback = CallbackUrls(json, body, {"process", "stop"})]

BadStart(q) ==
  \/ ~Has(q.body, "id", "string")
  \/ ~Has(q.body, "url", "string")
  \/ BadConvert(q.body)
  \/ IF q.kind = "file" THEN BadFiles(q.body)
     ELSE ~Has(q.body, "source", "string")

(* The answer that needs no stream, or OK when the handler goes on.         *)
FirstCode(q) ==
  IF <<q.kind, q.path>> \notin Routes THEN NotFound
  ELSE IF q.method # "POST" \/ ~q.parses THEN INVALID_METHOD
  ELSE IF \/ q.path = "start" /\ BadStart(q)
          \/ q.path = "query" /\ ~Has(q.body, "id", "array")
          \/ q.path \notin {"start", "query"} /\ ~Has(q.body, "id", "string")
       THEN PARAMETER
  ELSE OK

(* Arrays are sequences, integers are integers, and Id has the ids of all   *)
(* requests.                                                                *)
IsArray(a) == a \in Seq(Range(a))
ASSUME InterfaceAssumption ==
  /\ streamReleaseTime \in Nat
  /\ Configs # <<>>
  /\ \A w \in DOMAIN Workloads : \A r \in DOMAIN Workloads[w] :
       LET q == Workloads[w][r]
       IN  FirstCode(q) = OK =>
             /\ IF q.path = "query"
                THEN /\ IsArray(q.body.id.value)
                     /\ \A v \in Range(q.body.id.value) : v.value \in Id
                ELSE q.body.id.value \in Id
             /\ q.path = "start" /\ q.kind = "file" =>
                  /\ IsArray(q.body.files.value)
                  /\ Indices(q.body) \subseteq Int
-----------------------------------------------------------------------------
(* The maps of the two managers.                                            *)

Streams == DOMAIN heap
getStream(kind, id) == m_streams[kind][id]      \* 0: there is none
InMap(o) == m_streams[heap[o].kind][heap[o].id] = o
Live(o) == InMap(o) \/ \E c \in Clients : client[c].ps = o
Ids(kind) == DOMAIN m_streams[kind]
Present(kind) == {id \in Ids(kind) : m_streams[kind][id] # 0}

NewStream(kind, id, q, json) ==
  [kind |-> kind, id |-> id, info |-> DefaultInfo, m_stop |-> TRUE,
   report |-> TRUE, worker |-> "none",
   asked |-> [request |-> q, json |-> json], ran |-> FALSE, spoiled |-> FALSE]

(* A stream that neither the map nor a handler holds is deleted; what is    *)
(* left of it is what the properties ask.                                   *)
Delete(streams, map, handlers) ==
  [o \in DOMAIN streams |->
     LET s == streams[o]
     IN  IF map[s.kind][s.id] = o \/ \E c \in Clients : handlers[c].ps = o
         THEN s
         ELSE [NewStream(s.kind, s.id, 0, <<>>) EXCEPT !.ran = s.ran]]

Idle == [pc |-> "idle", request |-> 0, json |-> <<>>, ps |-> 0,
         left |-> <<>>, entries |-> <<>>, k |-> 1, field |-> 1,
         shown |-> <<>>, before |-> {}, ever |-> {}]

Requests == Workloads[workload]
Request(c) == Requests[client[c].request]
IdOf(c) == Request(c).body.id.value
Writes(q) == q.path # "query"
Answer(c) == client' = [client EXCEPT ![c] = Idle]

(* Queries see which ids come and go (before: there all along; ever: there  *)
(* at some time), for QueryComplete.                                        *)
Comes(cl, kind, id) ==
  [c \in Clients |->
     IF cl[c].pc = "fetch" /\ Requests[cl[c].request].kind = kind
     THEN [cl[c] EXCEPT !.ever = @ \cup {id}] ELSE cl[c]]
Goes(cl, kind, id) ==
  [c \in Clients |->
     IF cl[c].pc = "fetch" /\ Requests[cl[c].request].kind = kind
     THEN [cl[c] EXCEPT !.before = @ \ {id}] ELSE cl[c]]

Init ==
  /\ m_json = Configs[1]
  /\ m_streams = [k \in Kinds |-> [id \in Id |-> 0]]
  /\ heap = <<>>
  /\ client = [c \in Clients |-> Idle]
  /\ sent = {}
  /\ now = streamReleaseTime + 1
  /\ fault = "none"
  /\ workload \in DOMAIN Workloads
  /\ requests = 0

(* A failed load keeps what was there.                                      *)
Reload ==
  /\ requests \in 1..ReloadsUntil
  /\ m_json' \in Range(Configs)
  /\ UNCHANGED <<m_streams, heap, client, sent, now, fault, workload,
                 requests>>

-----------------------------------------------------------------------------
(* Handlers.                                                                *)

(* Queries change nothing another query could see: one at a time will do.   *)
Alone(q) ==
  \A c \in Clients :
    client[c].pc # "idle" /\ Writes(Request(c)) = Writes(q) =>
      /\ Writes(q)
      /\ Request(c).kind # q.kind \/ IdOf(c) # q.body.id.value

(* The request is parsed, checked and, if it has to be, refused.            *)
Receive(c) ==
  /\ client[c].pc = "idle"
  /\ requests < MaxRequests
  /\ requests' = requests + 1
  /\ \E r \in DOMAIN Requests :
       LET q == Requests[r]
       IN  IF FirstCode(q) # OK THEN Answer(c)
           ELSE /\ Alone(q)
                /\ client' = [client EXCEPT ![c] =
                     [Idle EXCEPT
                        !.pc = IF q.path = "query" THEN "fetch" ELSE "find",
                        !.request = r,
                        !.json = IF q.path = "start" THEN m_json ELSE <<>>,
                        !.left = IF q.path = "query"
                                 THEN [i \in DOMAIN q.body.id.value |->
                                         q.body.id.value[i].value]
                                 ELSE <<>>,
                        !.before = IF q.path = "query"
                                   THEN Present(q.kind) ELSE {},
                        !.ever = IF q.path = "query"
                                 THEN Present(q.kind) ELSE {}]]
  /\ UNCHANGED <<m_json, m_streams, heap, sent, now, fault, workload>>

(* stop(reportStop): who finds m_stop false joins the worker.               *)
Stop(c, o, reportStop) ==
  /\ heap' = [heap EXCEPT ![o].report = reportStop, ![o].m_stop = TRUE]
  /\ client' = [client EXCEPT
       ![c].pc = IF heap[o].m_stop THEN "stopped" ELSE "join", ![c].ps = o]

FindForStart(c) ==
  /\ client[c].pc = "find" /\ Request(c).path = "start"
  /\ LET o == getStream(Request(c).kind, IdOf(c))
     IN  IF o = 0 THEN /\ client' = [client EXCEPT ![c].pc = "create"]
                       /\ UNCHANGED heap
         ELSE Stop(c, o, FALSE)
  /\ UNCHANGED <<m_json, m_streams, sent, now, fault, workload, requests>>

FindForStop(c) ==
  /\ client[c].pc = "find" /\ Request(c).path = "stop"
  /\ LET o == getStream(Request(c).kind, IdOf(c))
     IN  IF o = 0 THEN Answer(c) /\ UNCHANGED heap
         ELSE Stop(c, o, ~Get(Request(c).body, "disableStopCb", "bool", FALSE))
  /\ UNCHANGED <<m_json, m_streams, sent, now, fault, workload, requests>>

(* pause and resume leave a command (FileStreamWorker has what becomes of   *)
(* it).  A jump may fail to open its file: it leaves its error in the info  *)
(* of a stream that goes on, and no answer.                                 *)
Command(c) ==
  /\ client[c].pc = "find" /\ Request(c).path \in {"pause", "resume", "jump"}
  /\ LET q == Request(c)
         o == getStream(q.kind, IdOf(c))
     IN  \/ UNCHANGED heap
         \/ /\ q.path = "jump" /\ o # 0 /\ Has(q.body, "pos", "int")
            /\ heap' = [heap EXCEPT ![o].info.error = SEC_STREAMIN,
                                  ![o].spoiled = TRUE]
  /\ Answer(c)
  /\ UNCHANGED <<m_json, m_streams, sent, now, fault, workload, requests>>

Join(c) ==
  /\ client[c].pc = "join" /\ heap[client[c].ps].worker = "done"
  /\ client' = [client EXCEPT ![c].pc = "stopped"]
  /\ UNCHANGED <<m_json, m_streams, heap, sent, now, fault, workload,
                 requests>>

Stopped(c) ==
  /\ client[c].pc = "stopped"
  /\ IF Request(c).path = "stop" THEN Answer(c)
     ELSE client' = [client EXCEPT ![c].pc = "create", ![c].ps = 0]
  /\ heap' = Delete(heap, m_streams, client')
  /\ UNCHANGED <<m_json, m_streams, sent, now, fault, workload, requests>>

CreateStream(c) ==
  /\ client[c].pc = "create" /\ Len(heap) < MaxStreams
  /\ LET q == Request(c)
         o == Len(heap) + 1
         new == NewStream(q.kind, IdOf(c), client[c].request, client[c].json)
     IN  /\ m_streams' = [m_streams EXCEPT ![q.kind][IdOf(c)] = o]
         /\ heap' = Append(Delete(heap, m_streams', client), new)
         /\ client' = Comes([client EXCEPT ![c].pc = "copy", ![c].ps = o],
                            q.kind, IdOf(c))
  /\ UNCHANGED <<m_json, sent, now, fault, workload, requests>>

(* start(): the info is copied; without files the stream stays as it is.    *)
StartFile(c) ==
  /\ client[c].pc = "copy" /\ Request(c).kind = "file"
  /\ LET info == FileInfo(client[c].json, Request(c).body)
     IN  heap' = [heap EXCEPT ![client[c].ps] =
                    IF DOMAIN info.files = {} THEN [@ EXCEPT !.info = info]
                    ELSE [@ EXCEPT !.info = info, !.m_stop = FALSE,
                                   !.worker = "begin"]]
  /\ Answer(c)
  /\ UNCHANGED <<m_json, m_streams, sent, now, fault, workload, requests>>

StartRealtime(c) ==
  /\ client[c].pc = "copy" /\ Request(c).kind = "realtime"
  /\ heap' = [heap EXCEPT ![client[c].ps] =
                [@ EXCEPT !.info =
                            RealtimeInfo(client[c].json, Request(c).body),
                          !.m_stop = FALSE, !.worker = "begin"]]
  /\ Answer(c)
  /\ UNCHANGED <<m_json, m_streams, sent, now, fault, workload, requests>>

-----------------------------------------------------------------------------
(* Queries.                                                                 *)

Due(o) == LET i == heap[o].info
          IN  i.status = "stopped" /\ now > i.stopTime
                /\ now - i.stopTime > streamReleaseTime

(* What is found, and how long it is kept at least.                         *)
KeptUntil(o) ==
  LET i == heap[o].info
  IN  (IF i.stopTime = 0 THEN now ELSE i.stopTime) + streamReleaseTime
Entry(o) == [stream |-> o, until |-> KeptUntil(o)]

(* The streams are let go of when the last has been found.  The order in    *)
(* which a query for all lists them is left open.                           *)
GetAllStream(c) ==
  /\ client[c].pc = "fetch" /\ Request(c).body.id.value = <<>>
  /\ LET kind == Request(c).kind
     IN  \E ids \in Bijection(1..Cardinality(Present(kind)), Present(kind)) :
           client' = [client EXCEPT ![c].pc = "read",
                        ![c].entries = [k \in DOMAIN ids |->
                                          Entry(m_streams[kind][ids[k]])]]
  /\ UNCHANGED <<m_json, m_streams, heap, sent, now, fault, workload,
                 requests>>

GetNext_UntilMissing(c) ==
  /\ client[c].pc = "fetch" /\ client[c].left # <<>>
  /\ LET o == getStream(Request(c).kind, Head(client[c].left))
     IN  client' = [client EXCEPT
           ![c].pc = IF o = 0 \/ Len(client[c].left) = 1
                     THEN "read" ELSE "fetch",
           ![c].left = Tail(@),
           ![c].entries = IF o = 0 THEN @ ELSE Append(@, Entry(o))]
  /\ UNCHANGED <<m_json, m_streams, heap, sent, now, fault, workload,
                 requests>>

GetNext(c) ==
  /\ client[c].pc = "fetch" /\ client[c].left # <<>>
  /\ LET o == getStream(Request(c).kind, Head(client[c].left))
     IN  client' = [client EXCEPT
           ![c].pc = IF Len(client[c].left) = 1 THEN "read" ELSE "fetch",
           ![c].left = Tail(@),
           ![c].entries = IF o = 0 THEN @ ELSE Append(@, Entry(o))]
  /\ UNCHANGED <<m_json, m_streams, heap, sent, now, fault, workload,
                 requests>>

(* What is shown of the infos.  The count of files is never incremented:    *)
(* only the last one is there.                                              *)
ShownFile(files) ==
  IF DOMAIN files = {} THEN <<>> ELSE <<files[Max(DOMAIN files)]>>
Shown(i) == [id |-> i.id, url |-> i.url, source |-> i.source,
             files |-> ShownFile(i.files), duration |-> i.duration,
             cycle |-> i.cycle, mode |-> i.mode]

(* The fields in the order they are read; the status is asked three times,  *)
(* and the last answer that fits is shown.                                  *)
Fields == <<"given", "running", "paused", "stopped", "error">>
WithField_ErrorFirst(e, field, i) ==
  CASE field = "given" -> [given |-> Shown(i), status |-> "",
                           error |-> i.error]
    [] field \in {"running", "paused", "stopped"} ->
         IF i.status = field THEN [e EXCEPT !.status = field] ELSE e
    [] OTHER -> e
WithField(e, field, i) ==
  CASE field = "given" -> [given |-> Shown(i), status |-> "", error |-> 0]
    [] field \in {"running", "paused", "stopped"} ->
         IF i.status = field THEN [e EXCEPT !.status = field] ELSE e
    [] OTHER -> [e EXCEPT !.error = i.error]

Reading(c) == client[c].pc = "read" /\ client[c].k <= Len(client[c].entries)
Copying(o) == \E c \in Clients : client[c].pc = "copy" /\ client[c].ps = o

Read(c) ==
  /\ Reading(c)
  /\ LET me == client[c]
         o == me.entries[me.k].stream
         lastField == me.field = Len(Fields)
         sofar == IF me.field = 1 THEN <<>> ELSE Last(me.shown)
     IN  /\ Live(o)
         /\ client' = [client EXCEPT
              ![c].k = IF lastField THEN @ + 1 ELSE @,
              ![c].field = IF lastField THEN 1 ELSE @ + 1,
              ![c].shown =
                 (IF me.field = 1 THEN @ ELSE Front(@))
                   \o <<WithField(sofar, Fields[me.field], heap[o].info)>>]
  /\ UNCHANGED <<m_json, m_streams, heap, sent, now, fault, workload,
                 requests>>

Undefined(c) ==
  /\ Reading(c)
  /\ LET o == client[c].entries[client[c].k].stream
     IN  \/ ~Live(o) /\ fault' = "freed"
         \/ Live(o) /\ Copying(o) /\ fault' = "torn"
  /\ UNCHANGED <<m_json, m_streams, heap, client, sent, now, workload,
                 requests>>

Answered(c) ==
  /\ client[c].pc = "read" /\ ~Reading(c)
  /\ Answer(c)
  /\ UNCHANGED <<m_json, m_streams, heap, sent, now, fault, workload,
                 requests>>

-----------------------------------------------------------------------------
(* The streams, as far as their infos and callbacks go.                     *)

Worker(o, from, to, info) ==
  /\ heap[o].worker = from
  /\ heap' = [heap EXCEPT ![o].worker = to, ![o].info = info]
  /\ UNCHANGED <<m_json, m_streams, client, now, fault, workload, requests>>

Begins(o) ==
  /\ Worker(o, "begin", "opening",
            [heap[o].info EXCEPT !.error = 0, !.status = "running"])
  /\ sent' = {}

(* Every file opens, is a file, and is like the first one; of mp3 files     *)
(* channels and sample rates may differ.                                    *)
checkFiles(files) ==
  \A f \in Range(files) :
    LET first == Media[files[Min(DOMAIN files)].path]
        m == Media[f.path]
    IN  /\ m.opens /\ m.total # 0
        /\ m.codec = first.codec
        /\ \/ m.codec = "mp3"
           \/ m.channel = first.channel /\ m.rate = first.rate

(* What may go wrong before the first frame.                                *)
CodecErrors(i) == IF i.convert THEN {SEC_CODEC} ELSE {}
FileOpenErrors(i) ==
  IF checkFiles(i.files) THEN CodecErrors(i) \cup {SEC_STREAMOUT}
  ELSE {SEC_FILELIST}
RealtimeOpenErrors(i) == CodecErrors(i) \cup {SEC_STREAMIN, SEC_STREAMOUT}
OpenErrors(o) ==
  IF heap[o].kind = "file" THEN FileOpenErrors(heap[o].info)
  ELSE RealtimeOpenErrors(heap[o].info)

OpenFails(o) ==
  /\ \E e \in OpenErrors(o) :
       Worker(o, "opening",
              IF heap[o].kind = "file" THEN "ending" ELSE "failed",
              [heap[o].info EXCEPT !.error = e])
  /\ sent' = {}
OpensBoth(o) ==
  /\ heap[o].kind = "file" => checkFiles(heap[o].info.files)
  /\ heap[o].info.url \in PushUrls
  /\ heap[o].worker = "opening"
  /\ heap' = [heap EXCEPT ![o].worker = "running", ![o].ran = TRUE]
  /\ sent' = {}
  /\ UNCHANGED <<m_json, m_streams, client, now, fault, workload, requests>>

Pauses(o) ==
  /\ heap[o].kind = "file"
  /\ \E s \in {"paused", "running"} :
       Worker(o, "running", "running", [heap[o].info EXCEPT !.status = s])
  /\ sent' = {}

(* A callback of either client, to the url the info has.                    *)
Send(o, k) ==
  sent' = IF heap[o].info.enable[k]
          THEN {[stream |-> o, callback |-> k,
                 url |-> heap[o].info.callback[k]]}
          ELSE {}
ReportProcess(o) ==
  /\ Worker(o, "running", "running", heap[o].info)
  /\ Send(o, "process")
ReportFileStart(o) ==
  /\ heap[o].kind = "file"
  /\ Worker(o, "running", "running", heap[o].info)
  /\ Send(o, "filestart")

LoopEnds(o) ==
  /\ Worker(o, "running", "ending", heap[o].info)
  /\ sent' = {}
LoopFails(o) ==
  /\ \E e \in {SEC_STREAMIN, SEC_STREAMOUT} :
       Worker(o, "running", "ending", [heap[o].info EXCEPT !.error = e])
  /\ sent' = {}

(* The collector looks at stopTime as soon as the status is stopped.        *)
SetStopTime_Forgotten(o) ==
  /\ Worker(o, "ending", "stopping", heap[o].info)
  /\ sent' = {}
SetStopTime(o) ==
  /\ Worker(o, "ending", "stopping", [heap[o].info EXCEPT !.stopTime = now])
  /\ sent' = {}
SetStopped(o) ==
  /\ Worker(o, "stopping", "reporting",
            [heap[o].info EXCEPT !.status = "stopped"])
  /\ sent' = {}
(* A realtime stream that cannot begin has no stopTime.                     *)
SetFailed(o) ==
  /\ Worker(o, "failed", "reporting",
            [heap[o].info EXCEPT !.status = "stopped"])
  /\ sent' = {}
ReportStop(o) ==
  /\ Worker(o, "reporting", "done", heap[o].info)
  /\ IF heap[o].report THEN Send(o, "stop") ELSE sent' = {}

(* The collector takes what is due out of the map, and stops it first.      *)
Collect(o) ==
  /\ InMap(o) /\ Due(o) /\ heap[o].worker = "done"
  /\ m_streams' = [m_streams EXCEPT ![heap[o].kind][heap[o].id] = 0]
  /\ heap' = Delete([heap EXCEPT ![o].m_stop = TRUE], m_streams', client)
  /\ client' = Goes(client, heap[o].kind, heap[o].id)
  /\ UNCHANGED <<m_json, sent, now, fault, workload, requests>>

(* Time runs on whatever is being done.                                     *)
Tick ==
  /\ now < MaxTime
  /\ now' = now + 1
  /\ UNCHANGED <<m_json, m_streams, heap, client, sent, fault, workload,
                 requests>>

Handle(c) ==
  \/ Receive(c) \/ FindForStart(c) \/ FindForStop(c) \/ Command(c) \/ Join(c)
  \/ Stopped(c) \/ CreateStream(c) \/ StartFile(c) \/ StartRealtime(c)
  \/ GetAllStream(c) \/ GetNext(c) \/ Read(c) \/ Undefined(c) \/ Answered(c)
Work(o) ==
  \/ Begins(o) \/ OpenFails(o) \/ OpensBoth(o) \/ Pauses(o) \/ ReportProcess(o)
  \/ ReportFileStart(o) \/ LoopEnds(o) \/ LoopFails(o) \/ SetStopTime(o)
  \/ SetStopped(o) \/ SetFailed(o) \/ ReportStop(o)

Next ==
  /\ fault = "none"
  /\ \/ Reload \/ Tick
     \/ \E c \in Clients : Handle(c)
     \/ \E o \in Streams : Work(o) \/ Collect(o)

Spec == Init /\ [][Next]_vars

-----------------------------------------------------------------------------
(* What a request asked for, read off its members.                          *)

AskedOf(o) == Requests[heap[o].asked.request].body
AskedFile(body) ==
  LET fs == body.files.value
      last == CHOOSE i \in DOMAIN fs :
                \A j \in DOMAIN fs :
                  \/ fs[j].index.value < fs[i].index.value
                  \/ fs[j].index.value = fs[i].index.value /\ i <= j
  IN  IF fs = <<>> THEN <<>>
      ELSE <<[path |-> fs[last].path.value, index |-> fs[last].index.value,
              id |-> fs[last].id.value]>>
Asked(o) ==
  LET b == AskedOf(o)
      file == heap[o].kind = "file"
  IN  [id |-> b.id.value, url |-> b.url.value,
       source |-> IF file THEN DefaultInfo.source ELSE b.source.value,
       files |-> IF file THEN AskedFile(b) ELSE <<>>,
       duration |-> Get(b, "duration", "int", 0),
       cycle |-> IF file THEN Get(b, "cycle", "int", 0) ELSE 0,
       mode |-> IF file THEN Get(b, "mode", "int", 1) ELSE 1]

Reads ==
  {r \in Clients \X (1..MaxStreams) : r[2] \in DOMAIN client[r[1]].shown}
ShownBy(r) == client[r[1]].shown[r[2]]
StreamOf(r) == client[r[1]].entries[r[2]].stream

(* Whatever starts, ends or is collected while a query reads: what it shows *)
(* of a stream is what the stream was asked for - of its files the one with *)
(* the highest index, and of two with one index the first - or, before      *)
(* start() has copied the request, an info without an id.                   *)
ShownAsAsked ==
  \A r \in Reads :
    Live(StreamOf(r)) =>
      ShownBy(r).given \in {Asked(StreamOf(r)), Shown(DefaultInfo)}

(* A query that shows a stream as stopped also shows why: the error is read *)
(* after the status and set before it.  Only a jump that failed can have    *)
(* left an error of its own.                                                *)
StoppedTellsWhy ==
  \A r \in Reads :
    LET o == StreamOf(r)
        complete == client[r[1]].k > r[2]
    IN  /\ Live(o) /\ complete /\ ~heap[o].spoiled
        /\ ShownBy(r).status = "stopped"
        => ShownBy(r).error = heap[o].info.error

(* Callbacks go where the request says, else where the configuration said   *)
(* when the request was handled, and only if they are wanted: a stop        *)
(* callback unless it was switched off, the other two if switched on.       *)
ReportsAsAsked ==
  \A m \in {x \in sent : Live(x.stream)} :
    LET b == AskedOf(m.stream)
        config == getStringParam(heap[m.stream].asked.json, m.callback, "")
    IN  /\ m.url = Get(b, UrlMember[m.callback], "string", config)
        /\ CASE m.callback = "process" ->
                    Get(b, "enableProcessCb", "bool", FALSE)
             [] m.callback = "filestart" ->
                    Get(b, "enableFileStartCb", "bool", FALSE)
             [] OTHER -> Get(b, "enableStopCb", "bool", TRUE)

(* A stream that a query finds is kept, for all the query reads of it, for  *)
(* streamReleaseTime more if it has not ended, and until streamReleaseTime  *)
(* after its stop time if it has: stopTime is set before the status, so     *)
(* that the collector never takes a stream that has just ended.  Before     *)
(* that a query reads freed memory only of a stream that was started anew   *)
(* since it was found, or of a realtime stream that could not begin; after  *)
(* that nothing keeps the stream for a query that takes so long.            *)
FreedOnlyWhenDue ==
  \A c \in Clients : \A k \in DOMAIN client[c].entries :
    LET e == client[c].entries[k]
        s == heap[e.stream]
    IN  \/ Live(e.stream) \/ now > e.until
        \/ \E o \in Streams :
             o > e.stream /\ heap[o].kind = s.kind /\ heap[o].id = s.id
        \/ s.kind = "realtime" /\ ~s.ran

(* A query for all streams finds every stream that is there all the time,   *)
(* and none that never was; a query for some finds of these what it asks.   *)
QueryComplete ==
  \A c \in Clients :
    client[c].pc = "read" =>
      LET asked == Range(Request(c).body.id.value)
          wanted == IF asked = {} THEN Ids(Request(c).kind)
                    ELSE {v.value : v \in asked}
          found == {heap[e.stream].id : e \in Range(client[c].entries)}
      IN  client[c].before \cap wanted \subseteq found
            /\ found \subseteq client[c].ever \cap wanted
=============================================================================
