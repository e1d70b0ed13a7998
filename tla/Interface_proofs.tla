-------------------------- MODULE Interface_proofs --------------------------
(***************************************************************************)
(* Theorems about Interface, for any clients, ids, requests, files and     *)
(* configurations: what a query shows of a stream, where callbacks go, and *)
(* which streams a query's raw pointers may have lost.                     *)
(***************************************************************************)
EXTENDS Interface, FiniteSetTheorems, SequenceTheorems, WellFoundedInduction,
        TLAPS

-----------------------------------------------------------------------------
(* The inductive invariant.                                                *)

Pcs == {"idle", "find", "join", "stopped", "create", "copy", "fetch", "read"}
Holding == {"join", "stopped", "copy"}
Querying == {"fetch", "read"}
Workers == {"none", "begin", "opening", "running", "ending", "failed",
            "stopping", "reporting", "done"}
StreamFields == {"kind", "id", "info", "m_stop", "report", "worker", "asked",
                 "ran", "spoiled"}
InfoFields == {"id", "url", "source", "files", "duration", "cycle", "mode",
               "convert", "enable", "callback", "startTime", "stopTime",
               "status", "error"}
ClientFields == {"pc", "request", "json", "ps", "left", "entries", "k",
                 "field", "shown", "before", "ever"}

(* Every stream that was created, by its shape.                            *)
StreamsOK ==
  /\ IsArray(heap)
  /\ \A o \in Streams :
       /\ DOMAIN heap[o] = StreamFields
       /\ DOMAIN heap[o].info = InfoFields
       /\ heap[o].kind \in Kinds /\ heap[o].id \in Id
       /\ heap[o].worker \in Workers
       /\ heap[o].info.stopTime \in Nat

(* A map has streams of its kind under their ids.                          *)
MapsOK ==
  /\ m_streams \in [Kinds -> [Id -> Nat]]
  /\ \A k \in Kinds : \A id \in Id :
       m_streams[k][id] # 0 =>
         /\ m_streams[k][id] \in Streams
         /\ heap[m_streams[k][id]].kind = k
         /\ heap[m_streams[k][id]].id = id

(* Where a client is fits what it was asked and what it holds.             *)
ClientOK(c) ==
  /\ DOMAIN client[c] = ClientFields
  /\ client[c].pc \in Pcs
  /\ client[c].pc # "idle" =>
       /\ client[c].request \in DOMAIN Requests
       /\ FirstCode(Request(c)) = OK
       /\ client[c].pc \in Querying <=> ~Writes(Request(c))
  /\ client[c].pc \in {"create", "copy"} => Request(c).path = "start"
  /\ client[c].pc \in {"join", "stopped"} =>
       Request(c).path \in {"start", "stop"}
  /\ IF client[c].pc \in Holding THEN client[c].ps \in Streams
     ELSE client[c].ps = 0
ClientsOK ==
  DOMAIN client = Clients /\ \A c \in Clients : ClientOK(c)

(* What a query has found, and how far it has read.                        *)
QueryOK(c) ==
  /\ client[c].left \in Seq(Id)
  /\ IsArray(client[c].entries) /\ IsArray(client[c].shown)
  /\ \A k \in DOMAIN client[c].entries :
       client[c].entries[k].stream \in Streams
  /\ client[c].k \in Nat \ {0}
  /\ client[c].field \in DOMAIN Fields
  /\ Len(client[c].shown) = IF client[c].field = 1 THEN client[c].k - 1
                            ELSE client[c].k
  /\ Len(client[c].shown) <= Len(client[c].entries)
  /\ client[c].pc # "read" => client[c].k = 1 /\ client[c].field = 1
  /\ client[c].pc \notin Querying => client[c].entries = <<>>
QueriesOK == \A c \in Clients : QueryOK(c)

(* Requests that write to streams are for different streams.               *)
WritersApart ==
  \A c, d \in Clients :
    /\ c # d /\ client[c].pc # "idle" /\ client[d].pc # "idle"
    /\ Writes(Request(c)) /\ Writes(Request(d))
    => Request(c).kind # Request(d).kind \/ IdOf(c) # IdOf(d)

(* Before start() copies the request, the stream it is for is the one in   *)
(* the map, is untouched, and stands for that request.                     *)
CopiesOwn ==
  \A c \in Clients :
    client[c].pc = "copy" =>
      LET o == client[c].ps
      IN  /\ m_streams[Request(c).kind][IdOf(c)] = o
          /\ heap[o].worker = "none" /\ ~heap[o].ran
          /\ heap[o].asked = [request |-> client[c].request,
                              json |-> client[c].json]

(* The worker of a stream, and what its info says meanwhile.               *)
WorkersOK ==
  \A o \in Streams :
    /\ heap[o].worker \in {"begin", "opening", "failed"} => ~heap[o].ran
    /\ heap[o].worker = "failed" => heap[o].kind = "realtime"
    /\ heap[o].info.stopTime <= now
    /\ heap[o].worker = "stopping" => heap[o].info.stopTime # 0
    /\ heap[o].info.status = "stopped" =>
         /\ heap[o].worker \in {"reporting", "done"}
         /\ \/ heap[o].info.stopTime # 0
            \/ heap[o].kind = "realtime" /\ ~heap[o].ran
    /\ ~Live(o) => heap[o].worker = "none"

(* What an info shows is what was asked for, or nothing yet.               *)
InfosAsAsked ==
  \A o \in Streams :
    Live(o) => Shown(heap[o].info) \in {Asked(o), Shown(DefaultInfo)}

(* The callback k of stream o goes to the url u and is wanted.             *)
CallbackAsAsked(o, k, u) ==
  LET b == AskedOf(o)
  IN  /\ u = Get(b, UrlMember[k], "string",
                 getStringParam(heap[o].asked.json, k, ""))
      /\ k = "process" => Get(b, "enableProcessCb", "bool", FALSE)
      /\ k = "filestart" => Get(b, "enableFileStartCb", "bool", FALSE)
      /\ k = "stop" => Get(b, "enableStopCb", "bool", TRUE)
CallbacksAsAsked ==
  /\ \A o \in Streams : heap[o].worker # "none" =>
       \A k \in Callbacks : heap[o].info.enable[k] =>
         CallbackAsAsked(o, k, heap[o].info.callback[k])
  /\ \A m \in sent :
       /\ m.stream \in Streams
       /\ m.callback \in Callbacks
       /\ Live(m.stream) => CallbackAsAsked(m.stream, m.callback, m.url)

(* What a query has found is still in its map, and nothing has shortened   *)
(* its time since; or that time is over, it was started anew, or it could  *)
(* not begin.                                                              *)
Unbegun(o) ==
  /\ heap[o].kind = "realtime" /\ ~heap[o].ran
  /\ heap[o].worker \in {"reporting", "done"} \/ ~Live(o)
Renewed(o) ==
  \E p \in Streams :
    p > o /\ heap[p].kind = heap[o].kind /\ heap[p].id = heap[o].id
KeptFor(o, until) ==
  /\ InMap(o) /\ until <= KeptUntil(o)
  /\ heap[o].info.stopTime # 0 \/ heap[o].info.status # "stopped"
Lasts(o, until) ==
  now > until \/ Renewed(o) \/ Unbegun(o) \/ KeptFor(o, until)
EntriesKept ==
  \A c \in Clients : \A k \in DOMAIN client[c].entries :
    LET e == client[c].entries[k]
    IN  e.until \in Nat /\ Lasts(e.stream, e.until)

(* What has been shown of a stream that is still there.                    *)
ShownOK ==
  \A c \in Clients : \A k \in DOMAIN client[c].shown :
    LET o == client[c].entries[k].stream
        e == client[c].shown[k]
    IN  Live(o) =>
          /\ DOMAIN e = {"given", "status", "error"}
          /\ e.given \in {Asked(o), Shown(DefaultInfo)}
          /\ e.status = "stopped" =>
               /\ heap[o].worker \in {"reporting", "done"}
               /\ client[c].k > k /\ ~heap[o].spoiled =>
                    e.error = heap[o].info.error

(* A query that still looks for streams has all it passed by.              *)
Wanted(c) ==
  LET asked == Range(Request(c).body.id.value)
  IN  IF asked = {} THEN Ids(Request(c).kind) ELSE {v.value : v \in asked}
Found(c) == {heap[e.stream].id : e \in Range(client[c].entries)}
FetchRight(c) ==
  /\ client[c].before \subseteq Present(Request(c).kind)
  /\ Present(Request(c).kind) \subseteq client[c].ever
  /\ client[c].left = <<>> <=> Request(c).body.id.value = <<>>
  /\ Range(client[c].left) \subseteq Wanted(c)
  /\ client[c].left # <<>> =>
       client[c].before \cap Wanted(c)
         \subseteq Found(c) \cup Range(client[c].left)
  /\ Found(c) \subseteq client[c].ever \cap Wanted(c)
FetchOK == \A c \in Clients : client[c].pc = "fetch" => FetchRight(c)

Types ==
  /\ StreamsOK /\ MapsOK /\ ClientsOK /\ QueriesOK
  /\ now \in Nat \ {0} /\ workload \in DOMAIN Workloads
Inv ==
  /\ Types /\ WritersApart /\ CopiesOwn /\ WorkersOK
  /\ InfosAsAsked /\ CallbacksAsAsked /\ EntriesKept /\ ShownOK
  /\ FetchOK /\ QueryComplete

-----------------------------------------------------------------------------
(* Arrays.                                                                 *)

(* A function from 1 .. n is an array.                                     *)
LEMMA FunctionIsArray ==
  ASSUME NEW n \in Nat, NEW f, f = [i \in 1..n |-> f[i]]
  PROVE  IsArray(f) /\ Len(f) = n /\ DOMAIN f = 1..n
<1>1. f \in [1..n -> Range(f)]
  BY DEF Range
<1>2. f \in Seq(Range(f))
  BY <1>1, SeqDef
<1> QED
  BY <1>2 DEF IsArray

(* What an array is.                                                       *)
LEMMA ArrayIs ==
  ASSUME NEW a, IsArray(a)
  PROVE  /\ Len(a) \in Nat /\ DOMAIN a = 1..Len(a)
         /\ a = [i \in 1..Len(a) |-> a[i]]
BY DEF IsArray

(* A change of one element leaves the others where they are.               *)
LEMMA ArrayExcept ==
  ASSUME NEW a, IsArray(a), NEW i \in DOMAIN a, NEW x
  PROVE  /\ IsArray([a EXCEPT ![i] = x])
         /\ Len([a EXCEPT ![i] = x]) = Len(a)
         /\ DOMAIN [a EXCEPT ![i] = x] = DOMAIN a
         /\ [a EXCEPT ![i] = x][i] = x
         /\ \A j \in DOMAIN a : j # i => [a EXCEPT ![i] = x][j] = a[j]
<1> DEFINE b == [a EXCEPT ![i] = x]
<1>1. Len(a) \in Nat /\ b = [j \in 1..Len(a) |-> b[j]]
  BY ArrayIs
<1>2. b[i] = x /\ \A j \in DOMAIN a : j # i => b[j] = a[j]
  OBVIOUS
<1>3. DOMAIN b = DOMAIN a
  OBVIOUS
<1> HIDE DEF b
<1>4. IsArray(b) /\ Len(b) = Len(a)
  BY <1>1, FunctionIsArray
<1> QED
  BY <1>2, <1>3, <1>4 DEF b

(* One more element leaves the others where they are.                      *)
LEMMA ArrayAppend ==
  ASSUME NEW a, IsArray(a), NEW x
  PROVE  /\ IsArray(Append(a, x)) /\ Len(Append(a, x)) = Len(a) + 1
         /\ DOMAIN Append(a, x) = 1..(Len(a) + 1)
         /\ Append(a, x)[Len(a) + 1] = x
         /\ \A i \in DOMAIN a : Append(a, x)[i] = a[i]
<1> DEFINE S == Range(a) \cup {x}
<1>0. Len(a) \in Nat /\ DOMAIN a = 1..Len(a)
  BY ArrayIs
<1>1. a \in Seq(Range(a))
  BY DEF IsArray
<1>2. a \in [1..Len(a) -> Range(a)]
  BY <1>1
<1>3. a \in [1..Len(a) -> S]
  BY <1>2
<1>4. a \in Seq(S) /\ x \in S
  BY <1>0, <1>3, SeqDef
<1> HIDE DEF S
<1> DEFINE b == Append(a, x)
<1>5. /\ b \in Seq(S) /\ Len(b) = Len(a) + 1
      /\ b[Len(a) + 1] = x /\ \A i \in DOMAIN a : b[i] = a[i]
      /\ DOMAIN b = 1..(Len(a) + 1)
  BY <1>4
<1> HIDE DEF b
<1>6. b = [i \in 1..(Len(a) + 1) |-> b[i]]
  <2>1. b \in [1..Len(b) -> S]
    BY <1>5
  <2> QED
    BY <1>5, <2>1
<1>7. IsArray(b)
  BY <1>0, <1>6, FunctionIsArray
<1> QED
  BY <1>5, <1>7 DEF b

(* An array without its first element.                                     *)
LEMMA TailOf ==
  ASSUME NEW S, NEW s \in Seq(S), s # <<>>
  PROVE  /\ Tail(s) \in Seq(S) /\ Head(s) \in S
         /\ Range(s) = {Head(s)} \cup Range(Tail(s))
         /\ Tail(s) = <<>> <=> Len(s) = 1
<1>1. /\ Tail(s) \in Seq(S) /\ Head(s) \in S /\ Head(s) = s[1]
      /\ Len(Tail(s)) = Len(s) - 1
      /\ \A i \in 1..(Len(s) - 1) : Tail(s)[i] = s[i + 1]
      /\ Len(s) \in Nat \ {0}
  OBVIOUS
<1>2. ASSUME NEW y \in Range(s) PROVE y \in {Head(s)} \cup Range(Tail(s))
  <2>1. PICK i \in DOMAIN s : y = s[i]
    BY <1>2 DEF Range
  <2>2. CASE i = 1
    BY <1>1, <2>1, <2>2
  <2>3. CASE i # 1
    <3>1. i - 1 \in 1..(Len(s) - 1) /\ (i - 1) + 1 = i
      BY <2>1, <2>3
    <3>2. Tail(s)[i - 1] = s[i] /\ i - 1 \in DOMAIN Tail(s)
      BY <1>1, <3>1
    <3> QED
      BY <2>1, <3>2 DEF Range
  <2> QED
    BY <2>2, <2>3
<1>3. ASSUME NEW y \in {Head(s)} \cup Range(Tail(s)) PROVE y \in Range(s)
  <2>1. CASE y = Head(s)
    BY <1>1, <2>1 DEF Range
  <2>2. CASE y \in Range(Tail(s))
    <3>1. PICK i \in DOMAIN Tail(s) : y = Tail(s)[i]
      BY <2>2 DEF Range
    <3>2. i \in 1..(Len(s) - 1) /\ i + 1 \in DOMAIN s
      BY <1>1, <3>1
    <3> QED
      BY <1>1, <3>1, <3>2 DEF Range
  <2> QED
    BY <1>3, <2>1, <2>2
<1>4. Tail(s) = <<>> <=> Len(s) = 1
  <2> DEFINE t == Tail(s)
  <2>1. t \in Seq(S) /\ Len(t) = Len(s) - 1 /\ Len(s) \in Nat
    BY <1>1
  <2> HIDE DEF t
  <2>2. t = <<>> <=> Len(t) = 0
    BY <2>1, EmptySeq
  <2> QED
    BY <2>1, <2>2 DEF t
<1>5. Range(s) = {Head(s)} \cup Range(Tail(s))
  BY <1>2, <1>3
<1> QED
  BY <1>1, <1>4, <1>5

(* The last element of an array is changed by taking it off and adding.    *)
LEMMA ArrayFront ==
  ASSUME NEW a, IsArray(a), Len(a) > 0
  PROVE  /\ IsArray(Front(a)) /\ Len(Front(a)) = Len(a) - 1
         /\ DOMAIN Front(a) = 1..(Len(a) - 1)
         /\ \A i \in 1..(Len(a) - 1) : Front(a)[i] = a[i]
         /\ Last(a) = a[Len(a)]
<1> DEFINE n == Len(a) - 1
           f == Front(a)
<1>1. Len(a) \in Nat /\ n \in Nat /\ a \in Seq(Range(a))
  BY ArrayIs DEF IsArray
<1>2. /\ f \in Seq(Range(a)) /\ Len(f) = n /\ DOMAIN f = 1..n
      /\ \A i \in 1..n : f[i] = a[i]
  <2>1. f = SubSeq(a, 1, n)
    BY DEF Front
  <2>2. \A i \in 1..n : a[i] \in Range(a)
    BY <1>1, ArrayIs DEF Range
  <2>3. n \in Int /\ 1 \in Int
    BY <1>1
  <2>4. /\ SubSeq(a, 1, n) \in Seq(Range(a))
        /\ Len(SubSeq(a, 1, n)) = IF 1 <= n THEN n - 1 + 1 ELSE 0
        /\ \A i \in 1..(n - 1 + 1) : SubSeq(a, 1, n)[i] = a[1 + i - 1]
    BY <2>2, <2>3, SubSeqProperties
  <2> HIDE DEF f, n
  <2>5. f \in Seq(Range(a)) /\ Len(f) = n /\ \A i \in 1..n : f[i] = a[i]
    <3>1. 1..(n - 1 + 1) = 1..n /\ \A i \in 1..n : 1 + i - 1 = i
      BY <1>1
    <3>2. f \in Seq(Range(a)) /\ Len(f) = IF 1 <= n THEN n - 1 + 1 ELSE 0
      BY <2>1, <2>4
    <3>3. \A i \in 1..n : f[i] = a[1 + i - 1]
      BY <2>1, <2>4, <3>1
    <3>4. \A i \in 1..n : f[i] = a[i]
      BY <3>1, <3>3
    <3>5. n - 1 + 1 = n /\ (~(1 <= n) => n = 0)
      BY <1>1
    <3> QED
      BY <3>2, <3>4, <3>5
  <2> QED
    BY <2>5
<1> HIDE DEF f
<1>3. f = [i \in 1..n |-> f[i]]
  BY <1>2
<1>4. IsArray(f)
  BY <1>1, <1>3, FunctionIsArray
<1> QED
  BY <1>1, <1>2, <1>4 DEF f, Last

(* Adding a sequence of one is appending.                                  *)
LEMMA ArrayOneMore ==
  ASSUME NEW a, IsArray(a), NEW x
  PROVE  a \o <<x>> = Append(a, x)
<1> DEFINE S == Range(a) \cup {x}
<1>1. Len(a) \in Nat /\ DOMAIN a = 1..Len(a)
  BY ArrayIs
<1>2. a \in [1..Len(a) -> Range(a)]
  BY DEF IsArray
<1>3. a \in [1..Len(a) -> S] /\ x \in S
  BY <1>2
<1>4. a \in Seq(S)
  BY <1>1, <1>3, SeqDef
<1> HIDE DEF S
<1> QED
  BY <1>3, <1>4

-----------------------------------------------------------------------------
(* What the steps do to the streams.                                       *)

(* Requests that pass the first checks are for one of the two managers,    *)
(* and their ids are among Id.                                             *)
LEMMA RequestFits ==
  ASSUME Types, NEW r \in DOMAIN Requests, FirstCode(Requests[r]) = OK
  PROVE  LET q == Requests[r]
         IN  /\ q.kind \in Kinds
             /\ q.path # "query" => q.body.id.value \in Id
             /\ q.path = "query" =>
                  /\ IsArray(q.body.id.value)
                  /\ \A v \in Range(q.body.id.value) : v.value \in Id
             /\ q.path = "start" /\ q.kind = "file" =>
                  /\ IsArray(q.body.files.value)
                  /\ Indices(q.body) \subseteq Int
<1> DEFINE q == Requests[r]
<1>1. workload \in DOMAIN Workloads /\ r \in DOMAIN Workloads[workload]
  BY DEF Types, Requests
<1>2. q = Workloads[workload][r]
  BY DEF Requests
<1>3. <<q.kind, q.path>> \in Routes
  BY DEF FirstCode, OK, NotFound
<1>4. q.kind \in Kinds
  BY <1>3 DEF Routes, addHandlers, Kinds
<1> HIDE DEF q
<1>5. FirstCode(q) = OK
  BY DEF q
<1>6. /\ IF q.path = "query"
         THEN /\ IsArray(q.body.id.value)
              /\ \A v \in Range(q.body.id.value) : v.value \in Id
         ELSE q.body.id.value \in Id
      /\ q.path = "start" /\ q.kind = "file" =>
           /\ IsArray(q.body.files.value)
           /\ Indices(q.body) \subseteq Int
  BY <1>1, <1>2, <1>5, InterfaceAssumption, Zenon
<1> QED
  BY <1>4, <1>6 DEF q

(* The same of the request a client handles.                               *)
LEMMA ClientRequest ==
  ASSUME Types, NEW c \in Clients, client[c].pc # "idle"
  PROVE  /\ Request(c).kind \in Kinds
         /\ Request(c).path # "query" => IdOf(c) \in Id
         /\ Request(c).path = "query" =>
              /\ IsArray(Request(c).body.id.value)
              /\ \A v \in Range(Request(c).body.id.value) : v.value \in Id
         /\ Request(c).path = "start" /\ Request(c).kind = "file" =>
              /\ IsArray(Request(c).body.files.value)
              /\ Indices(Request(c).body) \subseteq Int
<1>1. client[c].request \in DOMAIN Requests /\ FirstCode(Request(c)) = OK
  BY DEF Types, ClientsOK, ClientOK
<1> QED
  BY <1>1, RequestFits DEF Request, IdOf

(* What deleting the streams that nobody holds leaves.                     *)
LEMMA DeleteLeaves ==
  ASSUME NEW streams, IsArray(streams), NEW map, NEW handlers
  PROVE  LET d == Delete(streams, map, handlers)
         IN  /\ IsArray(d) /\ Len(d) = Len(streams)
             /\ DOMAIN d = DOMAIN streams
             /\ \A o \in DOMAIN streams :
                  IF \/ map[streams[o].kind][streams[o].id] = o
                     \/ \E c \in Clients : handlers[c].ps = o
                  THEN d[o] = streams[o]
                  ELSE /\ DOMAIN d[o] = StreamFields
                       /\ d[o].kind = streams[o].kind
                       /\ d[o].id = streams[o].id
                       /\ d[o].info = DefaultInfo
                       /\ d[o].worker = "none" /\ d[o].ran = streams[o].ran
<1> DEFINE d == Delete(streams, map, handlers)
<1>1. Len(streams) \in Nat /\ DOMAIN streams = 1..Len(streams)
  BY ArrayIs
<1>2. /\ DOMAIN d = DOMAIN streams
      /\ d = [o \in 1..Len(streams) |-> d[o]]
  BY <1>1 DEF Delete
<1>3. ASSUME NEW o \in DOMAIN streams
      PROVE  IF \/ map[streams[o].kind][streams[o].id] = o
                \/ \E c \in Clients : handlers[c].ps = o
             THEN d[o] = streams[o]
             ELSE d[o] = [NewStream(streams[o].kind, streams[o].id, 0, <<>>)
                            EXCEPT !.ran = streams[o].ran]
  BY <1>3, Zenon DEF Delete
<1> HIDE DEF d
<1>4. IsArray(d) /\ Len(d) = Len(streams)
  BY <1>1, <1>2, FunctionIsArray
<1>5. ASSUME NEW o \in DOMAIN streams
      PROVE  IF \/ map[streams[o].kind][streams[o].id] = o
                \/ \E c \in Clients : handlers[c].ps = o
             THEN d[o] = streams[o]
             ELSE /\ DOMAIN d[o] = StreamFields
                  /\ d[o].kind = streams[o].kind
                  /\ d[o].id = streams[o].id
                  /\ d[o].info = DefaultInfo
                  /\ d[o].worker = "none" /\ d[o].ran = streams[o].ran
  <2>1. CASE \/ map[streams[o].kind][streams[o].id] = o
             \/ \E c \in Clients : handlers[c].ps = o
    BY <1>3, <2>1
  <2>2. CASE ~(\/ map[streams[o].kind][streams[o].id] = o
               \/ \E c \in Clients : handlers[c].ps = o)
    <3>1. d[o] = [NewStream(streams[o].kind, streams[o].id, 0, <<>>)
                    EXCEPT !.ran = streams[o].ran]
      BY <1>3, <2>2
    <3>2. /\ DOMAIN d[o] = StreamFields
          /\ d[o].kind = streams[o].kind
          /\ d[o].id = streams[o].id
          /\ d[o].info = DefaultInfo
          /\ d[o].worker = "none" /\ d[o].ran = streams[o].ran
      BY <3>1 DEF NewStream, StreamFields
    <3> QED
      BY <2>2, <3>2
  <2> QED
    BY <2>1, <2>2
<1> QED
  BY <1>2, <1>4, <1>5 DEF d

(* What a step of a stream's worker, or of the stream itself, changes.     *)
SameGiven(i, j) ==
  \A f \in InfoFields \ {"stopTime", "status", "error"} : i[f] = j[f]
WorkStep(o) ==
  LET s == heap[o]
      t == heap'[o]
  IN  /\ UNCHANGED <<m_json, m_streams, client, now, fault, workload, requests>>
      /\ IsArray(heap') /\ DOMAIN heap' = DOMAIN heap
      /\ \A p \in Streams : p # o => heap'[p] = heap[p]
      /\ DOMAIN t = StreamFields /\ DOMAIN t.info = InfoFields
      /\ t.kind = s.kind /\ t.id = s.id
      /\ t.asked = s.asked /\ t.spoiled = s.spoiled
      /\ SameGiven(t.info, s.info)
      /\ s.worker # "none"
WorkerMoves(s, t) ==
  \/ /\ s.worker \in {"begin", "opening", "running"}
     /\ t.worker \in {"opening", "running", "ending", "failed"}
     /\ t.worker \in {"opening", "failed"} =>
          t.ran = s.ran /\ s.worker \in {"begin", "opening"}
     /\ t.worker = "failed" => t.kind = "realtime"
     /\ t.info.stopTime = s.info.stopTime
     /\ t.info.status = s.info.status \/ t.info.status # "stopped"
  \/ /\ s.worker = "ending" /\ t.worker = "stopping"
     /\ t.ran = s.ran /\ t.info.stopTime = now
     /\ t.info.status = s.info.status
  \/ /\ s.worker \in {"stopping", "failed"} /\ t.worker = "reporting"
     /\ t.ran = s.ran /\ t.info.stopTime = s.info.stopTime
     /\ t.info.status = "stopped"
  \/ /\ s.worker = "reporting" /\ t.worker = "done"
     /\ t.ran = s.ran /\ t.info = s.info

(* A change of worker and info is a change of one stream.                  *)
LEMMA WorkerIs ==
  ASSUME StreamsOK, NEW o \in Streams, NEW from, NEW to, NEW info,
         Worker(o, from, to, info), DOMAIN info = InfoFields,
         SameGiven(info, heap[o].info), from # "none"
  PROVE  /\ WorkStep(o) /\ heap[o].worker = from /\ heap'[o].worker = to
         /\ heap'[o].info = info /\ heap'[o].ran = heap[o].ran
<1> DEFINE t == [heap[o] EXCEPT !.worker = to, !.info = info]
<1>1. heap' = [heap EXCEPT ![o] = t]
  BY DEF Worker, StreamsOK, Streams
<1>2. DOMAIN heap[o] = StreamFields
  BY DEF StreamsOK
<1>3. /\ DOMAIN t = StreamFields /\ t.worker = to /\ t.info = info
      /\ t.kind = heap[o].kind /\ t.id = heap[o].id
      /\ t.asked = heap[o].asked /\ t.spoiled = heap[o].spoiled
      /\ t.ran = heap[o].ran
  BY <1>2 DEF StreamFields
<1> HIDE DEF t
<1>4. /\ IsArray(heap') /\ DOMAIN heap' = DOMAIN heap /\ heap'[o] = t
      /\ \A p \in Streams : p # o => heap'[p] = heap[p]
  BY <1>1, ArrayExcept DEF StreamsOK, Streams
<1> QED
  BY <1>3, <1>4 DEF Worker, WorkStep

(* Every step of a stream is one of the moves of its worker.               *)
LEMMA WorkSteps ==
  ASSUME StreamsOK, NEW o \in Streams, Work(o)
  PROVE  WorkStep(o) /\ WorkerMoves(heap[o], heap'[o])
<1> DEFINE s == heap[o]
           i == heap[o].info
<1>0. DOMAIN i = InfoFields /\ s.kind \in Kinds
  BY DEF StreamsOK
<1>1. DOMAIN i = InfoFields /\ SameGiven(i, i)
  BY <1>0 DEF SameGiven
<1>2. CASE Begins(o)
  <2> DEFINE k == [i EXCEPT !.error = 0, !.status = "running"]
  <2>1. Worker(o, "begin", "opening", k)
    BY <1>2 DEF Begins
  <2>2. /\ DOMAIN k = InfoFields /\ SameGiven(k, i)
        /\ k.stopTime = i.stopTime /\ k.status = "running"
    BY <1>0 DEF SameGiven, InfoFields
  <2> HIDE DEF k
  <2> QED
    BY <2>1, <2>2, WorkerIs DEF WorkerMoves
<1>3. CASE OpenFails(o)
  <2>1. PICK e \in OpenErrors(o) :
          Worker(o, "opening",
                 IF heap[o].kind = "file" THEN "ending" ELSE "failed",
                 [heap[o].info EXCEPT !.error = e])
    BY <1>3 DEF OpenFails
  <2> DEFINE j == [i EXCEPT !.error = e]
             to == IF heap[o].kind = "file" THEN "ending" ELSE "failed"
  <2>2. Worker(o, "opening", to, j)
    BY <2>1
  <2>3. /\ DOMAIN j = InfoFields /\ SameGiven(j, i)
        /\ j.stopTime = i.stopTime /\ j.status = i.status
    BY <1>0 DEF SameGiven, InfoFields
  <2>4. /\ to \in {"ending", "failed"}
        /\ to = "failed" => heap[o].kind = "realtime"
    BY <1>0 DEF Kinds
  <2> HIDE DEF j, to
  <2>5. /\ WorkStep(o) /\ heap[o].worker = "opening" /\ heap'[o].worker = to
        /\ heap'[o].info = j /\ heap'[o].ran = heap[o].ran
    BY <2>2, <2>3, WorkerIs
  <2> QED
    BY <2>3, <2>4, <2>5 DEF WorkerMoves, WorkStep
<1>4. CASE OpensBoth(o)
  <2> DEFINE t == [heap[o] EXCEPT !.worker = "running", !.ran = TRUE]
  <2>1. heap' = [heap EXCEPT ![o] = t]
    BY <1>4 DEF OpensBoth, StreamsOK, Streams
  <2>2. DOMAIN heap[o] = StreamFields
    BY DEF StreamsOK
  <2>3. /\ DOMAIN t = StreamFields /\ t.worker = "running" /\ t.info = i
        /\ t.kind = heap[o].kind /\ t.id = heap[o].id
        /\ t.asked = heap[o].asked /\ t.spoiled = heap[o].spoiled
    BY <2>2 DEF StreamFields
  <2> HIDE DEF t
  <2>4. /\ IsArray(heap') /\ DOMAIN heap' = DOMAIN heap /\ heap'[o] = t
        /\ \A p \in Streams : p # o => heap'[p] = heap[p]
    BY <2>1, ArrayExcept DEF StreamsOK, Streams
  <2> QED
    BY <1>1, <1>4, <2>3, <2>4 DEF OpensBoth, WorkStep, WorkerMoves
<1>5. CASE Pauses(o)
  <2>1. PICK x \in {"paused", "running"} :
          Worker(o, "running", "running", [heap[o].info EXCEPT !.status = x])
    BY <1>5 DEF Pauses
  <2> DEFINE l == [i EXCEPT !.status = x]
  <2>2. Worker(o, "running", "running", l)
    BY <2>1
  <2>3. /\ DOMAIN l = InfoFields /\ SameGiven(l, i)
        /\ l.stopTime = i.stopTime /\ l.status = x
    BY <1>0 DEF SameGiven, InfoFields
  <2> HIDE DEF l
  <2> QED
    BY <2>2, <2>3, WorkerIs DEF WorkerMoves
<1>6. CASE ReportProcess(o) \/ ReportFileStart(o) \/ LoopEnds(o)
  <2>1. \E to \in {"running", "ending"} : Worker(o, "running", to, i)
    BY <1>6 DEF ReportProcess, ReportFileStart, LoopEnds
  <2> QED
    BY <1>1, <2>1, WorkerIs DEF WorkerMoves
<1>7. CASE LoopFails(o)
  <2>1. PICK e \in {SEC_STREAMIN, SEC_STREAMOUT} :
          Worker(o, "running", "ending", [heap[o].info EXCEPT !.error = e])
    BY <1>7 DEF LoopFails
  <2> DEFINE j == [i EXCEPT !.error = e]
  <2>2. Worker(o, "running", "ending", j)
    BY <2>1
  <2>3. /\ DOMAIN j = InfoFields /\ SameGiven(j, i)
        /\ j.stopTime = i.stopTime /\ j.status = i.status
    BY <1>0 DEF SameGiven, InfoFields
  <2> HIDE DEF j
  <2> QED
    BY <2>2, <2>3, WorkerIs DEF WorkerMoves
<1>8. CASE SetStopTime(o)
  <2> DEFINE m == [i EXCEPT !.stopTime = now]
  <2>1. Worker(o, "ending", "stopping", m)
    BY <1>8 DEF SetStopTime
  <2>2. /\ DOMAIN m = InfoFields /\ SameGiven(m, i)
        /\ m.stopTime = now /\ m.status = i.status
    BY <1>0 DEF SameGiven, InfoFields
  <2> HIDE DEF m
  <2> QED
    BY <2>1, <2>2, WorkerIs DEF WorkerMoves
<1>9. CASE SetStopped(o) \/ SetFailed(o)
  <2> DEFINE l == [i EXCEPT !.status = "stopped"]
  <2>1. \E from \in {"stopping", "failed"} : Worker(o, from, "reporting", l)
    BY <1>9 DEF SetStopped, SetFailed
  <2>2. /\ DOMAIN l = InfoFields /\ SameGiven(l, i)
        /\ l.stopTime = i.stopTime /\ l.status = "stopped"
    BY <1>0 DEF SameGiven, InfoFields
  <2> HIDE DEF l
  <2> QED
    BY <2>1, <2>2, WorkerIs DEF WorkerMoves
<1>10. CASE ReportStop(o)
  <2>1. Worker(o, "reporting", "done", i)
    BY <1>10 DEF ReportStop
  <2> QED
    BY <1>1, <2>1, WorkerIs DEF WorkerMoves
<1> QED
  BY <1>2, <1>3, <1>4, <1>5, <1>6, <1>7, <1>8, <1>9, <1>10 DEF Work

(* What a handler that stops a stream or leaves it a command changes of it. *)
Touched(o) ==
  LET s == heap[o]
      t == heap'[o]
  IN  /\ IsArray(heap') /\ DOMAIN heap' = DOMAIN heap
      /\ \A p \in Streams : p # o => heap'[p] = heap[p]
      /\ DOMAIN t = StreamFields /\ DOMAIN t.info = InfoFields
      /\ t.kind = s.kind /\ t.id = s.id /\ t.asked = s.asked
      /\ t.worker = s.worker /\ t.ran = s.ran
      /\ SameGiven(t.info, s.info)
      /\ t.info.stopTime = s.info.stopTime /\ t.info.status = s.info.status
      /\ \/ t.spoiled = TRUE
         \/ t.spoiled = s.spoiled /\ t.info.error = s.info.error

(* A request to start or stop a stream finds none, or stops what it finds. *)
LEMMA FindSteps ==
  ASSUME Types, NEW c \in Clients, FindForStart(c) \/ FindForStop(c)
  PROVE  /\ client[c].pc = "find" /\ Request(c).path \in {"start", "stop"}
         /\ \/ /\ UNCHANGED heap /\ Request(c).path = "start"
               /\ client' = [client EXCEPT ![c].pc = "create"]
            \/ UNCHANGED heap /\ Answer(c)
            \/ \E o \in Streams : \E x \in {"join", "stopped"} :
                 /\ o = m_streams[Request(c).kind][IdOf(c)] /\ Touched(o)
                 /\ client' = [client EXCEPT ![c].pc = x, ![c].ps = o]
<1> DEFINE o == getStream(Request(c).kind, IdOf(c))
<1>1. client[c].pc = "find" /\ Request(c).path \in {"start", "stop"}
  BY DEF FindForStart, FindForStop
<1>2. Request(c).kind \in Kinds /\ IdOf(c) \in Id
  BY <1>1, ClientRequest
<1>3. o # 0 => o \in Streams
  BY <1>2 DEF getStream, Types, MapsOK
<1>4. CASE o = 0
  BY <1>1, <1>4 DEF FindForStart, FindForStop
<1>5. CASE o # 0
  <2>1. PICK r : Stop(c, o, r)
    BY <1>1, <1>5 DEF FindForStart, FindForStop
  <2> DEFINE t == [heap[o] EXCEPT !.report = r, !.m_stop = TRUE]
             x == IF heap[o].m_stop THEN "stopped" ELSE "join"
  <2>2. o \in Streams /\ o = m_streams[Request(c).kind][IdOf(c)]
    BY <1>3, <1>5 DEF getStream
  <2> HIDE DEF o
  <2>3. heap' = [heap EXCEPT ![o] = t]
    BY <2>1, <2>2 DEF Stop, Types, StreamsOK, Streams
  <2>4. /\ DOMAIN heap[o] = StreamFields /\ DOMAIN heap[o].info = InfoFields
        /\ IsArray(heap)
    BY <2>2 DEF Types, StreamsOK
  <2>5. /\ DOMAIN t = StreamFields /\ t.info = heap[o].info
        /\ t.kind = heap[o].kind /\ t.id = heap[o].id
        /\ t.asked = heap[o].asked /\ t.worker = heap[o].worker
        /\ t.ran = heap[o].ran /\ t.spoiled = heap[o].spoiled
    BY <2>4 DEF StreamFields
  <2> HIDE DEF t
  <2>6. /\ IsArray(heap') /\ DOMAIN heap' = DOMAIN heap /\ heap'[o] = t
        /\ \A p \in Streams : p # o => heap'[p] = heap[p]
    BY <2>2, <2>3, <2>4, ArrayExcept DEF Streams
  <2>7. Touched(o)
    BY <2>4, <2>5, <2>6 DEF Touched, SameGiven
  <2>8. /\ client' = [client EXCEPT ![c].pc = x, ![c].ps = o]
        /\ x \in {"join", "stopped"}
    BY <2>1 DEF Stop
  <2> HIDE DEF x
  <2> QED
    BY <1>1, <2>2, <2>7, <2>8
<1> QED
  BY <1>4, <1>5

(* A command leaves the stream that it finds as it is, or an error in it.  *)
LEMMA CommandSteps ==
  ASSUME Types, NEW c \in Clients, Command(c)
  PROVE  /\ client[c].pc = "find" /\ Answer(c)
         /\ UNCHANGED heap \/ \E o \in Streams : Touched(o)
<1> DEFINE o == getStream(Request(c).kind, IdOf(c))
<1>1. /\ client[c].pc = "find" /\ Answer(c)
      /\ Request(c).path \in {"pause", "resume", "jump"}
  BY DEF Command
<1>2. CASE UNCHANGED heap
  BY <1>1, <1>2
<1>3. CASE o # 0 /\ heap' = [heap EXCEPT ![o].info.error = SEC_STREAMIN,
                                        ![o].spoiled = TRUE]
  <2>1. Request(c).kind \in Kinds /\ IdOf(c) \in Id
    BY <1>1, ClientRequest
  <2>2. o \in Streams
    BY <1>3, <2>1 DEF getStream, Types, MapsOK
  <2> HIDE DEF o
  <2> DEFINE i == [heap[o].info EXCEPT !.error = SEC_STREAMIN]
             t == [heap[o] EXCEPT !.info = i, !.spoiled = TRUE]
  <2>3. /\ DOMAIN heap[o] = StreamFields /\ DOMAIN heap[o].info = InfoFields
        /\ IsArray(heap)
    BY <2>2 DEF Types, StreamsOK
  <2>4. heap' = [heap EXCEPT ![o] = t]
    BY <1>3, <2>2, <2>3 DEF StreamFields, Streams
  <2>5. /\ DOMAIN i = InfoFields /\ SameGiven(i, heap[o].info)
        /\ i.stopTime = heap[o].info.stopTime
        /\ i.status = heap[o].info.status
    BY <2>3 DEF SameGiven, InfoFields
  <2> HIDE DEF i
  <2>6. /\ DOMAIN t = StreamFields /\ t.info = i
        /\ t.kind = heap[o].kind /\ t.id = heap[o].id
        /\ t.asked = heap[o].asked /\ t.worker = heap[o].worker
        /\ t.ran = heap[o].ran /\ t.spoiled = TRUE
    BY <2>3 DEF StreamFields
  <2> HIDE DEF t
  <2>7. /\ IsArray(heap') /\ DOMAIN heap' = DOMAIN heap /\ heap'[o] = t
        /\ \A p \in Streams : p # o => heap'[p] = heap[p]
    BY <2>2, <2>3, <2>4, ArrayExcept DEF Streams
  <2> QED
    BY <1>1, <2>2, <2>5, <2>6, <2>7 DEF Touched
<1> QED
  BY <1>2, <1>3 DEF Command

(* What a handler or the collector leaves of the streams when it lets go of *)
(* one: those that somebody still holds, but for m_stop, and of the others  *)
(* what the model keeps.                                                    *)
Kept(p) ==
  LET s == heap[p]
      t == heap'[p]
  IN  /\ DOMAIN t = StreamFields /\ DOMAIN t.info = InfoFields
      /\ t.kind = s.kind /\ t.id = s.id /\ t.ran = s.ran
      /\ IF Live(p)' THEN /\ t.info = s.info /\ t.worker = s.worker
                          /\ t.asked = s.asked /\ t.spoiled = s.spoiled
         ELSE t.info = DefaultInfo /\ t.worker = "none"

(* An info before start() has copied the request has all its fields.       *)
LEMMA DefaultShape ==
  /\ DOMAIN DefaultInfo = InfoFields
  /\ DefaultInfo.stopTime = 0 /\ DefaultInfo.status = "init"
BY DEF DefaultInfo, InfoFields

(* Deleting what nobody holds keeps the rest.                              *)
LEMMA DeleteKeeps ==
  ASSUME StreamsOK, NEW map, NEW handlers, NEW p \in Streams,
         NEW streams, IsArray(streams), DOMAIN streams = DOMAIN heap,
         DOMAIN streams[p] = StreamFields,
         /\ streams[p].kind = heap[p].kind /\ streams[p].id = heap[p].id
         /\ streams[p].ran = heap[p].ran /\ streams[p].info = heap[p].info
         /\ streams[p].worker = heap[p].worker
         /\ streams[p].asked = heap[p].asked
         /\ streams[p].spoiled = heap[p].spoiled,
         heap'[p] = Delete(streams, map, handlers)[p],
         m_streams' = map,
         (\E c \in Clients : client'[c].ps = p)
           <=> \E c \in Clients : handlers[c].ps = p
  PROVE  Kept(p)
<1> DEFINE d == Delete(streams, map, handlers)
<1>1. p \in DOMAIN streams /\ DOMAIN heap[p].info = InfoFields
  BY DEF Streams, StreamsOK
<1>2. IF \/ map[streams[p].kind][streams[p].id] = p
         \/ \E c \in Clients : handlers[c].ps = p
      THEN d[p] = streams[p]
      ELSE /\ DOMAIN d[p] = StreamFields
           /\ d[p].kind = streams[p].kind /\ d[p].id = streams[p].id
           /\ d[p].info = DefaultInfo
           /\ d[p].worker = "none" /\ d[p].ran = streams[p].ran
  BY <1>1, DeleteLeaves
<1> HIDE DEF d
<1>3. heap'[p] = d[p]
  BY DEF d
<1>4. CASE \/ map[streams[p].kind][streams[p].id] = p
           \/ \E c \in Clients : handlers[c].ps = p
  <2>1. heap'[p] = streams[p]
    BY <1>2, <1>3, <1>4
  <2>2. Live(p)'
    BY <1>4, <2>1 DEF Live, InMap
  <2> QED
    BY <1>1, <2>1, <2>2 DEF Kept
<1>5. CASE ~(\/ map[streams[p].kind][streams[p].id] = p
             \/ \E c \in Clients : handlers[c].ps = p)
  <2>1. /\ DOMAIN d[p] = StreamFields
        /\ d[p].kind = streams[p].kind /\ d[p].id = streams[p].id
        /\ d[p].info = DefaultInfo
        /\ d[p].worker = "none" /\ d[p].ran = streams[p].ran
    BY <1>2, <1>5
  <2>2. ~Live(p)'
    BY <1>3, <1>5, <2>1 DEF Live, InMap
  <2> QED
    BY <1>3, <2>1, <2>2, DefaultShape DEF Kept
<1> QED
  BY <1>4, <1>5

(* A handler that has stopped a stream.                                    *)
LEMMA StoppedSteps ==
  ASSUME Types, NEW c \in Clients, Stopped(c)
  PROVE  /\ client[c].pc = "stopped"
         /\ \/ Answer(c)
            \/ /\ client' = [client EXCEPT ![c].pc = "create", ![c].ps = 0]
               /\ Request(c).path # "stop"
         /\ IsArray(heap') /\ DOMAIN heap' = DOMAIN heap
         /\ \A p \in Streams : Kept(p)
<1>1. /\ client[c].pc = "stopped" /\ heap' = Delete(heap, m_streams, client')
      /\ \/ Answer(c)
         \/ /\ client' = [client EXCEPT ![c].pc = "create", ![c].ps = 0]
            /\ Request(c).path # "stop"
      /\ m_streams' = m_streams
  BY DEF Stopped
<1>2. IsArray(heap) /\ \A p \in Streams : DOMAIN heap[p] = StreamFields
  BY DEF Types, StreamsOK
<1>3. IsArray(heap') /\ DOMAIN heap' = DOMAIN heap
  BY <1>1, <1>2, DeleteLeaves
<1>4. ASSUME NEW p \in Streams PROVE Kept(p)
  <2>1. heap'[p] = Delete(heap, m_streams', client')[p]
    BY <1>1
  <2> QED
    BY <1>2, <2>1, DeleteKeeps, Zenon DEF Types
<1> QED
  BY <1>1, <1>3, <1>4

(* The collector lets go of a stream that is due.                          *)
LEMMA CollectSteps ==
  ASSUME Types, NEW o \in Streams, Collect(o)
  PROVE  /\ InMap(o) /\ Due(o) /\ heap[o].worker = "done"
         /\ m_streams' =
              [m_streams EXCEPT ![heap[o].kind][heap[o].id] = 0]
         /\ client' = Goes(client, heap[o].kind, heap[o].id)
         /\ IsArray(heap') /\ DOMAIN heap' = DOMAIN heap
         /\ \A p \in Streams : Kept(p)
<1> DEFINE t == [heap[o] EXCEPT !.m_stop = TRUE]
           h == [heap EXCEPT ![o].m_stop = TRUE]
<1>1. /\ InMap(o) /\ Due(o) /\ heap[o].worker = "done"
      /\ m_streams' = [m_streams EXCEPT ![heap[o].kind][heap[o].id] = 0]
      /\ client' = Goes(client, heap[o].kind, heap[o].id)
      /\ heap' = Delete(h, m_streams', client)
  BY DEF Collect
<1>2. IsArray(heap) /\ \A p \in Streams : DOMAIN heap[p] = StreamFields
  BY DEF Types, StreamsOK
<1>3. h = [heap EXCEPT ![o] = t]
  BY DEF Streams
<1>4. /\ DOMAIN t = StreamFields /\ t.info = heap[o].info
      /\ t.kind = heap[o].kind /\ t.id = heap[o].id
      /\ t.asked = heap[o].asked /\ t.worker = heap[o].worker
      /\ t.ran = heap[o].ran /\ t.spoiled = heap[o].spoiled
  BY <1>2 DEF StreamFields
<1> HIDE DEF t, h
<1>5. /\ IsArray(h) /\ DOMAIN h = DOMAIN heap /\ h[o] = t
      /\ \A p \in Streams : p # o => h[p] = heap[p]
  BY <1>2, <1>3, ArrayExcept DEF Streams
<1>6. IsArray(heap') /\ DOMAIN heap' = DOMAIN heap
  BY <1>1, <1>5, DeleteLeaves
<1>7. \A c \in Clients : client'[c].ps = client[c].ps
  BY <1>1 DEF Goes, Types, ClientsOK, ClientOK, ClientFields
<1>8. ASSUME NEW p \in Streams PROVE Kept(p)
  <2>1. heap'[p] = Delete(h, m_streams', client)[p]
    BY <1>1
  <2>2. /\ DOMAIN h[p] = StreamFields /\ h[p].info = heap[p].info
        /\ h[p].kind = heap[p].kind /\ h[p].id = heap[p].id
        /\ h[p].asked = heap[p].asked /\ h[p].worker = heap[p].worker
        /\ h[p].ran = heap[p].ran /\ h[p].spoiled = heap[p].spoiled
    BY <1>2, <1>4, <1>5
  <2>3. (\E c \in Clients : client'[c].ps = p)
          <=> \E c \in Clients : client[c].ps = p
    BY <1>7
  <2> QED
    BY <1>5, <2>1, <2>2, <2>3, DeleteKeeps, Zenon DEF Types
<1> QED
  BY <1>1, <1>6, <1>8

(* The info that start() makes has all fields, and has not ended.          *)
LEMMA InfoShape ==
  ASSUME NEW json, NEW body
  PROVE  /\ DOMAIN FileInfo(json, body) = InfoFields
         /\ FileInfo(json, body).stopTime = 0
         /\ FileInfo(json, body).status = "init"
         /\ DOMAIN RealtimeInfo(json, body) = InfoFields
         /\ RealtimeInfo(json, body).stopTime = 0
         /\ RealtimeInfo(json, body).status = "init"
<1> DEFINE f == FileInfo(json, body)
           r == RealtimeInfo(json, body)
<1>1. DOMAIN f = InfoFields
  BY DefaultShape, Zenon DEF FileInfo
<1>2. DOMAIN r = InfoFields
  BY DefaultShape, Zenon DEF RealtimeInfo
<1>3. f.stopTime = 0 /\ f.status = "init"
  BY DefaultShape DEF FileInfo, InfoFields
<1>4. r.stopTime = 0 /\ r.status = "init"
  BY DefaultShape DEF RealtimeInfo, InfoFields
<1> QED
  BY <1>1, <1>2, <1>3, <1>4

(* A handler that creates a stream.                                        *)
Creates(c) ==
  LET q == Request(c)
      n == Len(heap) + 1
  IN  /\ m_streams' = [m_streams EXCEPT ![q.kind][IdOf(c)] = n]
      /\ IsArray(heap') /\ DOMAIN heap' = 1..n
      /\ heap'[n] = NewStream(q.kind, IdOf(c), client[c].request,
                              client[c].json)
      /\ \A p \in Streams : Kept(p)
LEMMA CreateSteps ==
  ASSUME Types, NEW c \in Clients, CreateStream(c)
  PROVE  /\ client[c].pc = "create" /\ Creates(c)
         /\ Request(c).kind \in Kinds /\ IdOf(c) \in Id
         /\ Len(heap) + 1 \in Nat \ {0} /\ Streams = 1..Len(heap)
         /\ Len(heap) + 1 \notin Streams
         /\ client' = Comes([client EXCEPT ![c].pc = "copy",
                                          ![c].ps = Len(heap) + 1],
                            Request(c).kind, IdOf(c))
<1> DEFINE q == Request(c)
           n == Len(heap) + 1
           d == Delete(heap, m_streams', client)
           new == NewStream(q.kind, IdOf(c), client[c].request,
                            client[c].json)
<1>1. /\ client[c].pc = "create"
      /\ m_streams' = [m_streams EXCEPT ![q.kind][IdOf(c)] = n]
      /\ heap' = Append(d, new)
      /\ client' = Comes([client EXCEPT ![c].pc = "copy", ![c].ps = n],
                         q.kind, IdOf(c))
  BY DEF CreateStream
<1>2. q.kind \in Kinds /\ IdOf(c) \in Id
  <2>1. Request(c).path # "query"
    BY <1>1 DEF Types, ClientsOK, ClientOK
  <2> QED
    BY <1>1, <2>1, ClientRequest
<1>3. IsArray(heap) /\ \A p \in Streams : DOMAIN heap[p] = StreamFields
  BY DEF Types, StreamsOK
<1>4. /\ IsArray(d) /\ Len(d) = Len(heap) /\ DOMAIN d = DOMAIN heap
  BY <1>3, DeleteLeaves
<1>5. /\ n \in Nat \ {0} /\ Streams = 1..Len(heap) /\ n \notin Streams
  BY <1>3, ArrayIs DEF Streams
<1> HIDE DEF d, new
<1>6. /\ IsArray(heap') /\ DOMAIN heap' = 1..n /\ heap'[n] = new
      /\ \A p \in Streams : heap'[p] = d[p]
  BY <1>1, <1>4, ArrayAppend DEF Streams
<1>7. ASSUME NEW p \in Streams PROVE Kept(p)
  <2>1. heap'[p] = Delete(heap, m_streams', client)[p]
    BY <1>6 DEF d
  <2>2. /\ client[c].ps = 0 /\ p # 0 /\ p # n
    BY <1>1, <1>5 DEF Types, ClientsOK, ClientOK, Holding
  <2>3. /\ client'[c].ps = n
        /\ \A e \in Clients \ {c} : client'[e].ps = client[e].ps
    <3> DEFINE cl == [client EXCEPT ![c].pc = "copy", ![c].ps = n]
    <3>1. /\ DOMAIN client = Clients
          /\ \A e \in Clients : DOMAIN client[e] = ClientFields
      BY DEF Types, ClientsOK, ClientOK
    <3>2. /\ \A e \in Clients : DOMAIN cl[e] = ClientFields
          /\ cl[c].ps = n /\ \A e \in Clients \ {c} : cl[e].ps = client[e].ps
      BY <3>1 DEF ClientFields
    <3> HIDE DEF cl
    <3>3. \A e \in Clients : Comes(cl, q.kind, IdOf(c))[e].ps = cl[e].ps
      BY <3>2 DEF Comes, ClientFields
    <3> QED
      BY <1>1, <3>2, <3>3 DEF cl
  <2>4. (\E e \in Clients : client'[e].ps = p)
          <=> \E e \in Clients : client[e].ps = p
    BY <2>2, <2>3
  <2> QED
    BY <1>3, <2>1, <2>4, DeleteKeeps, Zenon DEF Types
<1> QED
  BY <1>1, <1>2, <1>5, <1>6, <1>7 DEF new, Creates

(* start() copies the request into the info and, unless there is nothing to *)
(* play, begins.                                                            *)
InfoFor(c) ==
  IF Request(c).kind = "file"
  THEN FileInfo(client[c].json, Request(c).body)
  ELSE RealtimeInfo(client[c].json, Request(c).body)
Started(o, info) ==
  LET s == heap[o]
      t == heap'[o]
  IN  /\ IsArray(heap') /\ DOMAIN heap' = DOMAIN heap
      /\ \A p \in Streams : p # o => heap'[p] = heap[p]
      /\ DOMAIN t = StreamFields /\ DOMAIN t.info = InfoFields
      /\ t.kind = s.kind /\ t.id = s.id /\ t.asked = s.asked
      /\ t.ran = s.ran /\ t.spoiled = s.spoiled
      /\ t.worker = "begin" \/ t.worker = s.worker
      /\ t.info = info
LEMMA StartSteps ==
  ASSUME Types, NEW c \in Clients, StartFile(c) \/ StartRealtime(c)
  PROVE  /\ client[c].pc = "copy" /\ client[c].ps \in Streams /\ Answer(c)
         /\ Started(client[c].ps, InfoFor(c))
<1> DEFINE o == client[c].ps
           info == InfoFor(c)
<1>1. client[c].pc = "copy" /\ Answer(c)
  BY DEF StartFile, StartRealtime
<1>2. o \in Streams
  BY <1>1 DEF Types, ClientsOK, ClientOK, Holding
<1>3. DOMAIN info = InfoFields
  BY InfoShape DEF InfoFor
<1>4. /\ DOMAIN heap[o] = StreamFields /\ IsArray(heap)
  BY <1>2 DEF Types, StreamsOK
<1> DEFINE t == [heap[o] EXCEPT !.info = info]
           u == [heap[o] EXCEPT !.info = info, !.m_stop = FALSE,
                                !.worker = "begin"]
<1>5. heap' = [heap EXCEPT ![o] = t] \/ heap' = [heap EXCEPT ![o] = u]
  <2>1. CASE StartFile(c)
    <3>1. info = FileInfo(client[c].json, Request(c).body)
      BY <2>1 DEF StartFile, InfoFor
    <3> QED
      BY <2>1, <3>1 DEF StartFile
  <2>2. CASE StartRealtime(c)
    <3>1. info = RealtimeInfo(client[c].json, Request(c).body)
      BY <2>2 DEF StartRealtime, InfoFor
    <3> QED
      BY <2>2, <3>1 DEF StartRealtime
  <2> QED
    BY <2>1, <2>2
<1> HIDE DEF info
<1>6. /\ DOMAIN t = StreamFields /\ t.info = info /\ t.asked = heap[o].asked
      /\ t.kind = heap[o].kind /\ t.id = heap[o].id
      /\ t.ran = heap[o].ran /\ t.spoiled = heap[o].spoiled
      /\ t.worker = heap[o].worker
  BY <1>4 DEF StreamFields
<1>7. /\ DOMAIN u = StreamFields /\ u.info = info /\ u.asked = heap[o].asked
      /\ u.kind = heap[o].kind /\ u.id = heap[o].id
      /\ u.ran = heap[o].ran /\ u.spoiled = heap[o].spoiled
      /\ u.worker = "begin"
  BY <1>4 DEF StreamFields
<1> HIDE DEF t, u
<1>8. /\ IsArray(heap') /\ DOMAIN heap' = DOMAIN heap
      /\ heap'[o] \in {t, u}
      /\ \A p \in Streams : p # o => heap'[p] = heap[p]
  BY <1>2, <1>4, <1>5, ArrayExcept DEF Streams
<1>9. Started(o, info)
  BY <1>3, <1>6, <1>7, <1>8 DEF Started
<1> QED
  BY <1>1, <1>2, <1>9 DEF info

(* The ways a step can change the streams and the maps.                    *)
LetsGo ==
  IsArray(heap') /\ DOMAIN heap' = DOMAIN heap /\ \A p \in Streams : Kept(p)
LEMMA HeapSteps ==
  ASSUME Types, [Next]_vars
  PROVE  /\ workload' = workload /\ now' \in {now, now + 1}
         /\ now' = now \/ Tick
         /\ \/ UNCHANGED <<heap, m_streams>>
            \/ \E o \in Streams :
                 WorkStep(o) /\ WorkerMoves(heap[o], heap'[o])
            \/ \E o \in Streams : Touched(o) /\ UNCHANGED m_streams
            \/ LetsGo /\ UNCHANGED m_streams
            \/ \E o \in Streams :
                 /\ LetsGo /\ InMap(o) /\ Due(o) /\ heap[o].worker = "done"
                 /\ m_streams' =
                      [m_streams EXCEPT ![heap[o].kind][heap[o].id] = 0]
            \/ \E c \in Clients : client[c].pc = "create" /\ Creates(c)
            \/ \E c \in Clients :
                 /\ client[c].pc = "copy" /\ UNCHANGED m_streams
                 /\ Started(client[c].ps, InfoFor(c)) /\ client'[c] = Idle
<1>1. CASE UNCHANGED vars \/ Reload \/ Tick
  BY <1>1 DEF vars, Reload, Tick
<1>2. ASSUME NEW c \in Clients, Handle(c)
      PROVE  workload' = workload /\ now' = now
  <2>1. Receive(c) => workload' = workload /\ now' = now
    BY DEF Receive
  <2>2. FindForStart(c) \/ FindForStop(c) \/ Command(c)
        => workload' = workload /\ now' = now
    BY DEF FindForStart, FindForStop, Command
  <2>3. Join(c) \/ Stopped(c) \/ CreateStream(c)
        => workload' = workload /\ now' = now
    BY DEF Join, Stopped, CreateStream
  <2>4. StartFile(c) \/ StartRealtime(c) \/ GetAllStream(c) \/ GetNext(c)
        => workload' = workload /\ now' = now
    BY DEF StartFile, StartRealtime, GetAllStream, GetNext
  <2>5. Undefined(c) \/ Answered(c) => workload' = workload /\ now' = now
    BY DEF Undefined, Answered
  <2>6. Read(c) => workload' = workload /\ now' = now
    BY Zenon DEF Read
  <2> QED
    BY <1>2, <2>1, <2>2, <2>3, <2>4, <2>5, <2>6 DEF Handle
<1>3. ASSUME NEW c \in Clients, Receive(c) \/ Join(c) \/ GetAllStream(c)
                \/ GetNext(c) \/ Read(c) \/ Undefined(c) \/ Answered(c)
      PROVE  UNCHANGED <<heap, m_streams>>
  <2>1. Receive(c) => UNCHANGED <<heap, m_streams>>
    BY DEF Receive
  <2>2. Join(c) \/ GetAllStream(c) \/ GetNext(c)
        => UNCHANGED <<heap, m_streams>>
    BY DEF Join, GetAllStream, GetNext
  <2>3. Undefined(c) \/ Answered(c) => UNCHANGED <<heap, m_streams>>
    BY DEF Undefined, Answered
  <2>4. Read(c) => UNCHANGED <<heap, m_streams>>
    BY Zenon DEF Read
  <2> QED
    BY <1>3, <2>1, <2>2, <2>3, <2>4
<1>4. ASSUME NEW c \in Clients, FindForStart(c) \/ FindForStop(c)
      PROVE  /\ UNCHANGED m_streams
             /\ UNCHANGED heap \/ \E o \in Streams : Touched(o)
  BY <1>4, FindSteps DEF FindForStart, FindForStop
<1>5. ASSUME NEW c \in Clients, Command(c)
      PROVE  /\ UNCHANGED m_streams
             /\ UNCHANGED heap \/ \E o \in Streams : Touched(o)
  BY <1>5, CommandSteps DEF Command
<1>6. ASSUME NEW c \in Clients, Stopped(c)
      PROVE  LetsGo /\ UNCHANGED m_streams
  BY <1>6, StoppedSteps DEF Stopped, LetsGo
<1>7. ASSUME NEW c \in Clients, CreateStream(c)
      PROVE  client[c].pc = "create" /\ Creates(c)
  BY <1>7, CreateSteps
<1>8. ASSUME NEW c \in Clients, StartFile(c) \/ StartRealtime(c)
      PROVE  /\ client[c].pc = "copy" /\ UNCHANGED m_streams
             /\ Started(client[c].ps, InfoFor(c)) /\ client'[c] = Idle
  <2>1. UNCHANGED m_streams
    BY <1>8 DEF StartFile, StartRealtime
  <2>2. DOMAIN client = Clients /\ Answer(c)
    BY <1>8, StartSteps DEF Types, ClientsOK
  <2> QED
    BY <1>8, <2>1, <2>2, StartSteps DEF Answer
<1>9. ASSUME NEW o \in Streams, Work(o)
      PROVE  WorkStep(o) /\ WorkerMoves(heap[o], heap'[o])
  BY <1>9, WorkSteps DEF Types
<1>10. ASSUME NEW o \in Streams, Collect(o)
       PROVE  /\ LetsGo /\ InMap(o) /\ Due(o) /\ heap[o].worker = "done"
              /\ m_streams' =
                   [m_streams EXCEPT ![heap[o].kind][heap[o].id] = 0]
              /\ workload' = workload /\ now' = now
  BY <1>10, CollectSteps DEF Collect, LetsGo
<1>11. CASE \E c \in Clients : Handle(c)
  <2> PICK c \in Clients : Handle(c)
    BY <1>11
  <2>1. workload' = workload /\ now' = now
    BY <1>2
  <2> QED
    BY <2>1, <1>3, <1>4, <1>5, <1>6, <1>7, <1>8 DEF Handle
<1>12. CASE \E o \in Streams : Work(o)
  BY <1>9, <1>12 DEF WorkStep
<1>13. CASE \E o \in Streams : Collect(o)
  BY <1>10, <1>13
<1> QED
  BY <1>1, <1>11, <1>12, <1>13 DEF Next

(* Streams stay, with their kind and id.                                   *)
SameStreams ==
  \A o \in Streams : /\ o \in Streams' /\ heap'[o].kind = heap[o].kind
                     /\ heap'[o].id = heap[o].id
LEMMA StreamsStep ==
  ASSUME Types, [Next]_vars
  PROVE  StreamsOK' /\ MapsOK' /\ SameStreams
<1> USE DEF Streams
<1>0. /\ IsArray(heap) /\ now \in Nat
      /\ \A o \in Streams :
           /\ DOMAIN heap[o] = StreamFields
           /\ DOMAIN heap[o].info = InfoFields
           /\ heap[o].kind \in Kinds /\ heap[o].id \in Id
           /\ heap[o].worker \in Workers
           /\ heap[o].info.stopTime \in Nat
      /\ m_streams \in [Kinds -> [Id -> Nat]]
      /\ \A k \in Kinds : \A id \in Id :
           m_streams[k][id] # 0 =>
             /\ m_streams[k][id] \in Streams
             /\ heap[m_streams[k][id]].kind = k
             /\ heap[m_streams[k][id]].id = id
  BY DEF Types, StreamsOK, MapsOK
<1>1. CASE UNCHANGED <<heap, m_streams>>
  BY <1>0, <1>1 DEF StreamsOK, MapsOK, SameStreams
<1>2. ASSUME NEW o \in Streams, WorkStep(o), WorkerMoves(heap[o], heap'[o])
      PROVE  StreamsOK' /\ MapsOK' /\ SameStreams
  <2>1. heap'[o].worker \in Workers /\ heap'[o].info.stopTime \in Nat
    BY <1>0, <1>2 DEF WorkerMoves, Workers
  <2>2. StreamsOK' /\ SameStreams
    BY <1>0, <1>2, <2>1 DEF WorkStep, StreamsOK, SameStreams
  <2>3. MapsOK'
    BY <1>0, <1>2 DEF WorkStep, MapsOK
  <2> QED
    BY <2>2, <2>3
<1>3. ASSUME NEW o \in Streams, Touched(o), UNCHANGED m_streams
      PROVE  StreamsOK' /\ MapsOK' /\ SameStreams
  <2>1. StreamsOK' /\ SameStreams
    BY <1>0, <1>3 DEF Touched, StreamsOK, SameStreams
  <2>2. MapsOK'
    BY <1>0, <1>3 DEF Touched, MapsOK
  <2> QED
    BY <2>1, <2>2
<1>4. ASSUME \A p \in Streams : Kept(p)
      PROVE  \A p \in Streams :
               /\ DOMAIN heap'[p] = StreamFields
               /\ DOMAIN heap'[p].info = InfoFields
               /\ heap'[p].kind = heap[p].kind /\ heap'[p].id = heap[p].id
               /\ heap'[p].worker \in Workers
               /\ heap'[p].info.stopTime \in Nat
  BY <1>0, <1>4, DefaultShape DEF Kept, Workers
<1>5. ASSUME LetsGo,
             \/ UNCHANGED m_streams
             \/ \E o \in Streams :
                  m_streams' =
                    [m_streams EXCEPT ![heap[o].kind][heap[o].id] = 0]
      PROVE  StreamsOK' /\ MapsOK' /\ SameStreams
  <2>1. StreamsOK' /\ SameStreams
    BY <1>0, <1>4, <1>5 DEF LetsGo, StreamsOK, SameStreams
  <2>2. CASE UNCHANGED m_streams
    BY <1>0, <2>1, <2>2 DEF SameStreams, MapsOK
  <2>3. ASSUME NEW o \in Streams,
               m_streams' =
                 [m_streams EXCEPT ![heap[o].kind][heap[o].id] = 0]
        PROVE  MapsOK'
    <3>1. m_streams' \in [Kinds -> [Id -> Nat]]
      BY <1>0, <2>3
    <3>2. \A k \in Kinds : \A id \in Id :
            m_streams'[k][id] \in {0, m_streams[k][id]}
      BY <1>0, <2>3
    <3> QED
      BY <1>0, <2>1, <3>1, <3>2 DEF SameStreams, MapsOK
  <2> QED
    BY <1>5, <2>1, <2>2, <2>3
<1>6. ASSUME NEW c \in Clients, client[c].pc = "create", Creates(c)
      PROVE  StreamsOK' /\ MapsOK' /\ SameStreams
  <2> DEFINE q == Request(c)
             n == Len(heap) + 1
             new == NewStream(q.kind, IdOf(c), client[c].request,
                              client[c].json)
  <2>1. n \in Nat \ {0} /\ Streams = 1..(n - 1)
    BY <1>0, ArrayIs
  <2>2. q.kind \in Kinds /\ IdOf(c) \in Id
    <3>1. Request(c).path # "query"
      BY <1>6 DEF Types, ClientsOK, ClientOK
    <3> QED
      BY <1>6, <3>1, ClientRequest
  <2>3. /\ DOMAIN new = StreamFields /\ DOMAIN new.info = InfoFields
        /\ new.kind = q.kind /\ new.id = IdOf(c) /\ new.worker \in Workers
        /\ new.info.stopTime = 0
    BY DefaultShape DEF NewStream, StreamFields, Workers
  <2> HIDE DEF new
  <2>4. /\ m_streams' = [m_streams EXCEPT ![q.kind][IdOf(c)] = n]
        /\ IsArray(heap') /\ DOMAIN heap' = 1..n
        /\ heap'[n] = new
        /\ \A p \in Streams : Kept(p)
    BY <1>6 DEF Creates, new
  <2> HIDE DEF n, q
  <2>5. SameStreams
    BY <1>4, <2>1, <2>4 DEF SameStreams
  <2>6. StreamsOK'
    <3>1. ASSUME NEW p \in 1..n
          PROVE  /\ DOMAIN heap'[p] = StreamFields
                 /\ DOMAIN heap'[p].info = InfoFields
                 /\ heap'[p].kind \in Kinds /\ heap'[p].id \in Id
                 /\ heap'[p].worker \in Workers
                 /\ heap'[p].info.stopTime \in Nat
      <4>1. CASE p = n
        BY <2>2, <2>3, <2>4, <4>1
      <4>2. CASE p # n
        <5>1. p \in Streams
          BY <2>1, <4>2
        <5> QED
          BY <1>0, <1>4, <2>4, <5>1
      <4> QED
        BY <4>1, <4>2
    <3> QED
      BY <2>4, <3>1 DEF StreamsOK
  <2>7. MapsOK'
    <3>1. m_streams' \in [Kinds -> [Id -> Nat]]
      BY <1>0, <2>1, <2>2, <2>4
    <3>2. ASSUME NEW k \in Kinds, NEW id \in Id, m_streams'[k][id] # 0
          PROVE  /\ m_streams'[k][id] \in Streams'
                 /\ heap'[m_streams'[k][id]].kind = k
                 /\ heap'[m_streams'[k][id]].id = id
      <4>1. CASE k = q.kind /\ id = IdOf(c)
        <5>1. m_streams'[k][id] = n
          BY <1>0, <2>2, <2>4, <4>1
        <5> QED
          BY <2>1, <2>3, <2>4, <4>1, <5>1
      <4>2. CASE ~(k = q.kind /\ id = IdOf(c))
        <5>1. m_streams'[k][id] = m_streams[k][id]
          BY <1>0, <2>2, <2>4, <4>2
        <5> QED
          BY <1>0, <2>5, <3>2, <5>1 DEF SameStreams
      <4> QED
        BY <4>1, <4>2
    <3> QED
      BY <3>1, <3>2 DEF MapsOK
  <2> QED
    BY <2>5, <2>6, <2>7
<1>7. ASSUME NEW c \in Clients, client[c].pc = "copy", UNCHANGED m_streams,
             Started(client[c].ps, InfoFor(c))
      PROVE  StreamsOK' /\ MapsOK' /\ SameStreams
  <2> DEFINE o == client[c].ps
             i == InfoFor(c)
  <2>1. o \in Streams
    BY <1>7 DEF Types, ClientsOK, ClientOK, Holding
  <2>2. i.stopTime = 0
    BY InfoShape DEF InfoFor
  <2> HIDE DEF o, i
  <2>3. Started(o, i)
    BY <1>7 DEF o, i
  <2>4. heap'[o].worker \in Workers /\ heap'[o].info.stopTime \in Nat
    BY <1>0, <2>1, <2>2, <2>3 DEF Started, Workers
  <2>5. StreamsOK' /\ SameStreams
    BY <1>0, <2>1, <2>3, <2>4 DEF Started, StreamsOK, SameStreams
  <2>6. MapsOK'
    BY <1>0, <1>7, <2>5 DEF SameStreams, MapsOK
  <2> QED
    BY <2>5, <2>6
<1> QED
  BY <1>1, <1>2, <1>3, <1>5, <1>6, <1>7, HeapSteps

(* The ways a step can change a client: it does not move, or it is idle     *)
(* again, or has got a request, or goes on with one.                        *)
SameClient(c) ==
  /\ DOMAIN client'[c] = ClientFields
  /\ \A f \in ClientFields \ {"before", "ever"} : client'[c][f] = client[c][f]
Receives(c, r) ==
  LET q == Requests[r]
      t == client'[c]
  IN  /\ client[c].pc = "idle" /\ r \in DOMAIN Requests
      /\ FirstCode(q) = OK /\ Alone(q)
      /\ DOMAIN t = ClientFields
      /\ t.request = r /\ t.ps = 0 /\ t.k = 1 /\ t.field = 1
      /\ t.entries = <<>> /\ t.shown = <<>>
      /\ IF q.path = "query"
         THEN /\ t.pc = "fetch"
              /\ t.left = [i \in DOMAIN q.body.id.value |->
                             q.body.id.value[i].value]
              /\ t.before = Present(q.kind) /\ t.ever = Present(q.kind)
         ELSE t.pc = "find" /\ t.left = <<>>
Writing(c) ==
  LET s == client[c]
      t == client'[c]
  IN  /\ DOMAIN t = ClientFields
      /\ \A f \in ClientFields \ {"pc", "ps"} : t[f] = s[f]
      /\ \/ /\ s.pc = "find" /\ t.pc = "create" /\ t.ps = 0
            /\ Request(c).path = "start"
         \/ /\ s.pc = "find" /\ t.pc \in {"join", "stopped"}
            /\ t.ps \in Streams
            /\ t.ps = m_streams[Request(c).kind][IdOf(c)]
            /\ Request(c).path \in {"start", "stop"}
         \/ s.pc = "join" /\ t.pc = "stopped" /\ t.ps = s.ps
         \/ /\ s.pc = "stopped" /\ t.pc = "create" /\ t.ps = 0
            /\ Request(c).path # "stop" /\ LetsGo
         \/ /\ s.pc = "create" /\ t.pc = "copy" /\ t.ps = Len(heap) + 1
            /\ Creates(c)
Fetching(c) ==
  LET s == client[c]
      t == client'[c]
      o == m_streams[Request(c).kind][Head(s.left)]
      here == Present(Request(c).kind)
  IN  /\ s.pc = "fetch" /\ DOMAIN t = ClientFields
      /\ \A f \in ClientFields \ {"pc", "left", "entries"} : t[f] = s[f]
      /\ UNCHANGED <<heap, m_streams, now>>
      /\ \/ /\ Request(c).body.id.value = <<>> /\ t.pc = "read"
            /\ t.left = s.left
            /\ \E ids \in Bijection(1..Cardinality(here), here) :
                 t.entries = [k \in DOMAIN ids |->
                                Entry(m_streams[Request(c).kind][ids[k]])]
         \/ /\ s.left # <<>> /\ t.left = Tail(s.left)
            /\ t.pc = IF Len(s.left) = 1 THEN "read" ELSE "fetch"
            /\ t.entries = IF o = 0 THEN s.entries
                           ELSE Append(s.entries, Entry(o))
Shows(c) ==
  LET s == client[c]
      t == client'[c]
      o == s.entries[s.k].stream
      last == s.field = Len(Fields)
      sofar == IF s.field = 1 THEN <<>> ELSE Last(s.shown)
  IN  /\ Reading(c) /\ Live(o) /\ DOMAIN t = ClientFields
      /\ \A f \in ClientFields \ {"k", "field", "shown"} : t[f] = s[f]
      /\ UNCHANGED <<heap, m_streams, now>>
      /\ t.k = IF last THEN s.k + 1 ELSE s.k
      /\ t.field = IF last THEN 1 ELSE s.field + 1
      /\ t.shown = (IF s.field = 1 THEN s.shown ELSE Front(s.shown))
                     \o <<WithField(sofar, Fields[s.field], heap[o].info)>>
Leaves(c) ==
  /\ client'[c] = Idle /\ client[c].pc # "join"
  /\ client[c].pc = "stopped" => LetsGo
  /\ client[c].pc = "copy" =>
       UNCHANGED m_streams /\ Started(client[c].ps, InfoFor(c))
ClientMoves(c) ==
  \/ Leaves(c)
  \/ \E r \in DOMAIN Requests : Receives(c, r)
  \/ Writing(c) \/ Fetching(c) \/ Shows(c)

(* What one client does leaves the others where they are.                  *)
LEMMA OnlyOne ==
  ASSUME ClientsOK, NEW c \in Clients, NEW t,
         client' = [client EXCEPT ![c] = t]
  PROVE  /\ DOMAIN client' = Clients /\ client'[c] = t
         /\ \A d \in Clients \ {c} : SameClient(d)
<1>1. /\ DOMAIN client = Clients
      /\ \A d \in Clients : DOMAIN client[d] = ClientFields
  BY DEF ClientsOK, ClientOK
<1> QED
  BY <1>1 DEF SameClient

(* Where a handler that writes may go on, and with which stream.           *)
MayGo(c, x, p) ==
  \/ /\ client[c].pc = "find" /\ x = "create" /\ p = 0
     /\ Request(c).path = "start"
  \/ /\ client[c].pc = "find" /\ x \in {"join", "stopped"}
     /\ p \in Streams /\ p = m_streams[Request(c).kind][IdOf(c)]
     /\ Request(c).path \in {"start", "stop"}
  \/ client[c].pc = "join" /\ x = "stopped" /\ p = client[c].ps
  \/ /\ client[c].pc = "stopped" /\ x = "create" /\ p = 0
     /\ Request(c).path # "stop" /\ LetsGo

(* A request is refused, or a client has got it.                           *)
LEMMA ReceiveSteps ==
  ASSUME ClientsOK, NEW c \in Clients, Receive(c)
  PROVE  /\ \E t : client' = [client EXCEPT ![c] = t] /\ client'[c] = t
         /\ \/ client'[c] = Idle
            \/ \E r \in DOMAIN Requests : Receives(c, r)
<1>0. DOMAIN client = Clients /\ client[c].pc = "idle"
  BY DEF ClientsOK, Receive
<1>1. PICK r \in DOMAIN Requests :
        LET q == Requests[r]
        IN  IF FirstCode(q) # OK THEN Answer(c)
            ELSE /\ Alone(q)
                 /\ client' = [client EXCEPT ![c] =
                      [Idle EXCEPT
                         !.pc = IF q.path = "query" THEN "fetch" ELSE "find",
                         !.request = r,
                         !.json = IF q.path = "start" THEN m_json ELSE <<>>,
                         !.left = IF q.path = "query"
                                  THEN [i \in DOMAIN q.body.id.value |->
                                          q.body.id.value[i].value]
                                  ELSE <<>>,
                         !.before = IF q.path = "query"
                                    THEN Present(q.kind) ELSE {},
                         !.ever = IF q.path = "query"
                                  THEN Present(q.kind) ELSE {}]]
  BY Zenon DEF Receive
<1>2. CASE FirstCode(Requests[r]) # OK
  <2>1. client' = [client EXCEPT ![c] = Idle]
    BY <1>1, <1>2 DEF Answer
  <2>2. client'[c] = Idle
    BY <1>0, <2>1
  <2> QED
    BY <2>1, <2>2
<1>3. CASE FirstCode(Requests[r]) = OK
  <2> DEFINE q == Requests[r]
             query == q.path = "query"
             json == IF q.path = "start" THEN m_json ELSE <<>>
             left == IF query THEN [i \in DOMAIN q.body.id.value |->
                                      q.body.id.value[i].value]
                     ELSE <<>>
             here == IF query THEN Present(q.kind) ELSE {}
             t == [Idle EXCEPT !.pc = IF query THEN "fetch" ELSE "find",
                               !.request = r, !.json = json, !.left = left,
                               !.before = here, !.ever = here]
  <2>1. client' = [client EXCEPT ![c] = t] /\ Alone(q)
    BY <1>1, <1>3
  <2> HIDE DEF left, json, here
  <2>2. /\ DOMAIN t = ClientFields
        /\ t.pc = (IF query THEN "fetch" ELSE "find") /\ t.request = r
        /\ t.ps = 0 /\ t.k = 1 /\ t.field = 1 /\ t.entries = <<>>
        /\ t.shown = <<>> /\ t.left = left /\ t.before = here
        /\ t.ever = here
    BY DEF Idle, ClientFields
  <2> HIDE DEF t
  <2>3. client'[c] = t
    BY <1>0, <2>1
  <2>4. Receives(c, r)
    BY <1>0, <1>3, <2>1, <2>2, <2>3 DEF Receives, left, here
  <2> QED
    BY <2>1, <2>3, <2>4
<1> QED
  BY <1>2, <1>3

(* A query that looks for streams goes on to the next, or has them all.    *)
LEMMA FetchSteps ==
  ASSUME ClientsOK, NEW c \in Clients, GetAllStream(c) \/ GetNext(c)
  PROVE  /\ \E t : client' = [client EXCEPT ![c] = t] /\ client'[c] = t
         /\ Fetching(c)
<1>0. DOMAIN client = Clients /\ DOMAIN client[c] = ClientFields
  BY DEF ClientsOK, ClientOK
<1>1. CASE GetAllStream(c)
  <2> DEFINE kind == Request(c).kind
             here == Present(kind)
  <2>1. PICK ids \in Bijection(1..Cardinality(here), here) :
          client' = [client EXCEPT ![c].pc = "read",
                       ![c].entries = [k \in DOMAIN ids |->
                                         Entry(m_streams[kind][ids[k]])]]
    BY <1>1 DEF GetAllStream
  <2> DEFINE e == [k \in DOMAIN ids |-> Entry(m_streams[kind][ids[k]])]
             t == [client[c] EXCEPT !.pc = "read", !.entries = e]
  <2>2. /\ client[c].pc = "fetch" /\ Request(c).body.id.value = <<>>
        /\ UNCHANGED <<heap, m_streams, now>>
    BY <1>1 DEF GetAllStream
  <2>3. client' = [client EXCEPT ![c] = t]
    BY <1>0, <2>1
  <2> HIDE DEF e
  <2>4. /\ DOMAIN t = ClientFields /\ t.pc = "read" /\ t.entries = e
        /\ \A f \in ClientFields \ {"pc", "entries"} : t[f] = client[c][f]
    BY <1>0 DEF ClientFields
  <2> HIDE DEF t
  <2>5. client'[c] = t
    BY <1>0, <2>3
  <2>6. Fetching(c)
    BY <2>2, <2>4, <2>5 DEF Fetching, e, ClientFields
  <2> QED
    BY <2>3, <2>5, <2>6
<1>2. CASE GetNext(c)
  <2> DEFINE o == getStream(Request(c).kind, Head(client[c].left))
             x == IF Len(client[c].left) = 1 THEN "read" ELSE "fetch"
             l == Tail(client[c].left)
             e == IF o = 0 THEN client[c].entries
                  ELSE Append(client[c].entries, Entry(o))
             t == [client[c] EXCEPT !.pc = x, !.left = l, !.entries = e]
  <2>1. /\ client[c].pc = "fetch" /\ client[c].left # <<>>
        /\ client' = [client EXCEPT ![c].pc = x, ![c].left = l,
                                    ![c].entries = e]
        /\ UNCHANGED <<heap, m_streams, now>>
    BY <1>2, <1>0 DEF GetNext, ClientFields
  <2> HIDE DEF e, l, x
  <2>2. client' = [client EXCEPT ![c] = t]
    BY <1>0, <2>1
  <2>3. /\ DOMAIN t = ClientFields /\ t.pc = x /\ t.left = l /\ t.entries = e
        /\ \A f \in ClientFields \ {"pc", "left", "entries"} :
             t[f] = client[c][f]
    BY <1>0 DEF ClientFields
  <2> HIDE DEF t
  <2>4. client'[c] = t
    BY <1>0, <2>2
  <2>5. Fetching(c)
    BY <2>1, <2>3, <2>4 DEF Fetching, e, l, x, getStream
  <2> QED
    BY <2>2, <2>4, <2>5
<1> QED
  BY <1>1, <1>2

(* A query that shows streams goes on to the next field.                   *)
LEMMA ReadSteps ==
  ASSUME ClientsOK, NEW c \in Clients, Read(c)
  PROVE  /\ \E t : client' = [client EXCEPT ![c] = t] /\ client'[c] = t
         /\ Shows(c)
<1>0. DOMAIN client = Clients /\ DOMAIN client[c] = ClientFields
  BY DEF ClientsOK, ClientOK
<1> DEFINE s == client[c]
           o == s.entries[s.k].stream
           last == s.field = Len(Fields)
           sofar == IF s.field = 1 THEN <<>> ELSE Last(s.shown)
           k == IF last THEN s.k + 1 ELSE s.k
           field == IF last THEN 1 ELSE s.field + 1
           shown == (IF s.field = 1 THEN s.shown ELSE Front(s.shown))
                      \o <<WithField(sofar, Fields[s.field], heap[o].info)>>
           t == [s EXCEPT !.k = k, !.field = field, !.shown = shown]
<1>1. Reading(c) /\ Live(o) /\ UNCHANGED <<heap, m_streams, now>>
  BY Zenon DEF Read
<1>2. client' = [client EXCEPT ![c].k = k, ![c].field = field,
                               ![c].shown = shown]
  BY <1>0 DEF Read, ClientFields
<1> HIDE DEF k, field, shown
<1>3. client' = [client EXCEPT ![c] = t]
  BY <1>0, <1>2
<1>4. /\ DOMAIN t = ClientFields /\ t.k = k /\ t.field = field
      /\ t.shown = shown
      /\ \A f \in ClientFields \ {"k", "field", "shown"} :
           t[f] = client[c][f]
  BY <1>0 DEF ClientFields
<1> HIDE DEF t
<1>5. client'[c] = t
  BY <1>0, <1>3
<1>6. Shows(c)
  BY <1>1, <1>4, <1>5, Zenon DEF Shows, k, field, shown
<1> QED
  BY <1>3, <1>5, <1>6

(* Every step moves one client, or none.                                   *)
LEMMA ClientSteps ==
  ASSUME Types, [Next]_vars
  PROVE  /\ DOMAIN client' = Clients
         /\ \/ \A d \in Clients : SameClient(d)
            \/ \E c \in Clients :
                 /\ ClientMoves(c)
                 /\ \A d \in Clients \ {c} : SameClient(d)
<1>0. /\ DOMAIN client = Clients /\ ClientsOK
      /\ \A d \in Clients : DOMAIN client[d] = ClientFields
  BY DEF Types, ClientsOK, ClientOK
<1> DEFINE Goal == /\ DOMAIN client' = Clients
                   /\ \/ \A d \in Clients : SameClient(d)
                      \/ \E c \in Clients :
                           /\ ClientMoves(c)
                           /\ \A d \in Clients \ {c} : SameClient(d)
<1>1. ASSUME UNCHANGED client PROVE Goal
  BY <1>0, <1>1 DEF SameClient
<1>2. ASSUME NEW c \in Clients, NEW t, client' = [client EXCEPT ![c] = t],
             client'[c] = t => ClientMoves(c)
      PROVE  Goal
  BY <1>0, <1>2, OnlyOne
<1>3. ASSUME NEW c \in Clients, Answer(c), client[c].pc # "join",
             client[c].pc = "stopped" => LetsGo,
             client[c].pc = "copy" =>
               UNCHANGED m_streams /\ Started(client[c].ps, InfoFor(c))
      PROVE  Goal
  <2>1. client' = [client EXCEPT ![c] = Idle]
    BY <1>3 DEF Answer
  <2>2. client'[c] = Idle => ClientMoves(c)
    BY <1>3 DEF ClientMoves, Leaves
  <2> HIDE DEF Goal
  <2> QED
    BY <1>2, <2>1, <2>2
<1>4. UNCHANGED vars \/ Reload \/ Tick \/ (\E o \in Streams : Work(o))
      => UNCHANGED client
  BY WorkSteps DEF vars, Reload, Tick, WorkStep, Types
<1>5. ASSUME NEW o \in Streams, Collect(o) PROVE Goal
  <2>1. client' = Goes(client, heap[o].kind, heap[o].id)
    BY <1>5, CollectSteps
  <2>2. \A d \in Clients : SameClient(d)
    BY <1>0, <2>1 DEF Goes, SameClient, ClientFields
  <2> QED
    BY <2>1, <2>2 DEF Goes
<1> HIDE DEF Goal
<1>6. ASSUME NEW c \in Clients, Receive(c) PROVE Goal
  <2>1. client[c].pc = "idle"
    BY <1>6 DEF Receive
  <2>2. client'[c] = Idle => Leaves(c)
    BY <2>1 DEF Leaves
  <2>3. ClientMoves(c)
    BY <1>0, <1>6, <2>2, ReceiveSteps DEF ClientMoves
  <2>4. PICK t : client' = [client EXCEPT ![c] = t]
    BY <1>0, <1>6, ReceiveSteps
  <2> QED
    BY <1>2, <2>3, <2>4
<1>7. ASSUME NEW c \in Clients, NEW x, NEW p,
             client' = [client EXCEPT ![c].pc = x, ![c].ps = p],
             MayGo(c, x, p)
      PROVE  Goal
  <2> DEFINE t == [client[c] EXCEPT !.pc = x, !.ps = p]
  <2>1. client' = [client EXCEPT ![c] = t]
    BY <1>0, <1>7
  <2>2. /\ DOMAIN t = ClientFields /\ t.pc = x /\ t.ps = p
        /\ \A f \in ClientFields \ {"pc", "ps"} : t[f] = client[c][f]
    BY <1>0 DEF ClientFields
  <2> HIDE DEF t
  <2>3. client'[c] = t => Writing(c)
    BY <1>7, <2>2 DEF Writing, MayGo
  <2> QED
    BY <1>2, <2>1, <2>3 DEF ClientMoves
<1>8. ASSUME NEW c \in Clients, FindForStart(c) \/ FindForStop(c) PROVE Goal
  <2>1. CASE Answer(c)
    BY <1>3, <1>8, <2>1, FindSteps
  <2>2. CASE client' = [client EXCEPT ![c].pc = "create"]
             /\ Request(c).path = "start"
    <3>1. client[c].ps = 0 /\ client[c].pc = "find"
      BY <1>8, FindSteps DEF Types, ClientsOK, ClientOK, Holding
    <3>2. client' = [client EXCEPT ![c].pc = "create", ![c].ps = 0]
      BY <1>0, <2>2, <3>1 DEF ClientFields
    <3> QED
      <4>1. MayGo(c, "create", 0)
        BY <2>2, <3>1 DEF MayGo
      <4> QED
        BY <1>7, <3>2, <4>1
  <2>3. ASSUME NEW o \in Streams, NEW x \in {"join", "stopped"},
               o = m_streams[Request(c).kind][IdOf(c)],
               client' = [client EXCEPT ![c].pc = x, ![c].ps = o]
        PROVE  Goal
    <3>1. client[c].pc = "find" /\ Request(c).path \in {"start", "stop"}
      BY <1>8, FindSteps
    <3>2. MayGo(c, x, o)
      BY <2>3, <3>1 DEF MayGo
    <3> QED
      BY <1>7, <2>3, <3>2
  <2> QED
    BY <1>8, <2>1, <2>2, <2>3, FindSteps
<1>9. ASSUME NEW c \in Clients, Command(c) \/ StartFile(c) \/ StartRealtime(c)
                                  \/ Answered(c)
      PROVE  Goal
  <2>1. CASE Command(c)
    BY <1>3, <2>1, CommandSteps
  <2>2. CASE StartFile(c) \/ StartRealtime(c)
    <3>1. UNCHANGED m_streams
      BY <2>2 DEF StartFile, StartRealtime
    <3> QED
      BY <1>3, <2>2, <3>1, StartSteps
  <2>3. CASE Answered(c)
    BY <1>3, <2>3 DEF Answered
  <2> QED
    BY <1>9, <2>1, <2>2, <2>3
<1>10. ASSUME NEW c \in Clients, Join(c) PROVE Goal
  <2>1. client[c].pc = "join" /\ client' = [client EXCEPT ![c].pc = "stopped"]
    BY <1>10 DEF Join
  <2>2. client' = [client EXCEPT ![c].pc = "stopped", ![c].ps = client[c].ps]
    BY <1>0, <2>1 DEF ClientFields
  <2>3. MayGo(c, "stopped", client[c].ps)
    BY <2>1 DEF MayGo
  <2> QED
    BY <1>7, <2>2, <2>3
<1>11. ASSUME NEW c \in Clients, Stopped(c) PROVE Goal
  <2>1. /\ client[c].pc = "stopped"
        /\ \/ Answer(c)
           \/ /\ client' = [client EXCEPT ![c].pc = "create", ![c].ps = 0]
              /\ Request(c).path # "stop"
        /\ LetsGo
    BY <1>11, StoppedSteps DEF LetsGo
  <2>2. CASE /\ client' = [client EXCEPT ![c].pc = "create", ![c].ps = 0]
             /\ Request(c).path # "stop"
    <3>1. MayGo(c, "create", 0)
      BY <2>1, <2>2 DEF MayGo
    <3> QED
      BY <1>7, <2>2, <3>1
  <2> QED
    BY <1>3, <2>1, <2>2
<1>12. ASSUME NEW c \in Clients, CreateStream(c) PROVE Goal
  <2> DEFINE n == Len(heap) + 1
             q == Request(c)
             cl == [client EXCEPT ![c].pc = "copy", ![c].ps = n]
  <2>1. /\ client[c].pc = "create" /\ Creates(c)
        /\ client' = Comes(cl, q.kind, IdOf(c))
    BY <1>12, CreateSteps
  <2>2. /\ \A d \in Clients : DOMAIN cl[d] = ClientFields
        /\ \A d \in Clients \ {c} : cl[d] = client[d]
        /\ cl[c].pc = "copy" /\ cl[c].ps = n
        /\ \A f \in ClientFields \ {"pc", "ps"} : cl[c][f] = client[c][f]
    BY <1>0 DEF ClientFields
  <2> HIDE DEF cl, n
  <2>3. DOMAIN client' = Clients /\ client'[c] = cl[c]
    BY <2>1, <2>2 DEF Comes
  <2>4. \A d \in Clients \ {c} : SameClient(d)
    BY <2>1, <2>2 DEF Comes, SameClient, ClientFields
  <2>5. Writing(c)
    BY <2>1, <2>2, <2>3 DEF Writing, n
  <2> QED
    BY <2>3, <2>4, <2>5 DEF Goal, ClientMoves
<1>13. ASSUME NEW c \in Clients, GetAllStream(c) \/ GetNext(c) PROVE Goal
  <2>1. ClientMoves(c)
    BY <1>0, <1>13, FetchSteps DEF ClientMoves
  <2>2. PICK t : client' = [client EXCEPT ![c] = t]
    BY <1>0, <1>13, FetchSteps
  <2> QED
    BY <1>2, <2>1, <2>2
<1>14. ASSUME NEW c \in Clients, Read(c) PROVE Goal
  <2>1. ClientMoves(c)
    BY <1>0, <1>14, ReadSteps DEF ClientMoves
  <2>2. PICK t : client' = [client EXCEPT ![c] = t]
    BY <1>0, <1>14, ReadSteps
  <2> QED
    BY <1>2, <2>1, <2>2
<1>15. ASSUME NEW c \in Clients, Undefined(c) PROVE UNCHANGED client
  BY <1>15 DEF Undefined
<1>16. ASSUME \E c \in Clients : Handle(c) PROVE Goal
  <2> PICK c \in Clients : Handle(c)
    BY <1>16
  <2>1. Undefined(c) => Goal
    BY <1>1, <1>15 DEF Goal
  <2>2. Receive(c) \/ FindForStart(c) \/ FindForStop(c) => Goal
    BY <1>6, <1>8
  <2>3. Command(c) \/ StartFile(c) \/ StartRealtime(c) \/ Answered(c) => Goal
    BY <1>9
  <2>4. Join(c) \/ Stopped(c) \/ CreateStream(c) => Goal
    BY <1>10, <1>11, <1>12
  <2>5. GetAllStream(c) \/ GetNext(c) \/ Read(c) => Goal
    BY <1>13, <1>14
  <2> QED
    BY <2>1, <2>2, <2>3, <2>4, <2>5 DEF Handle
<1>17. ASSUME UNCHANGED client PROVE Goal
  BY <1>1, <1>17 DEF Goal
<1>18. Goal
  <2>1. CASE UNCHANGED vars
    BY <1>4, <1>17, <2>1
  <2>2. CASE Reload \/ Tick \/ \E o \in Streams : Work(o)
    BY <1>4, <1>17, <2>2
  <2>3. CASE \E o \in Streams : Collect(o)
    BY <1>5, <2>3
  <2> QED
    BY <1>16, <2>1, <2>2, <2>3 DEF Next
<1> QED
  BY <1>18 DEF Goal

-----------------------------------------------------------------------------
(* Types.                                                                  *)

(* Fields are read in their order, from the first to the last.             *)
LEMMA FieldsAre ==
  /\ Len(Fields) = 5 /\ DOMAIN Fields = 1..5
  /\ Fields[1] = "given" /\ Fields[2] = "running" /\ Fields[3] = "paused"
  /\ Fields[4] = "stopped" /\ Fields[5] = "error"
BY DEF Fields

(* No more streams are in a map than have been created.                    *)
LEMMA PresentIsFinite ==
  ASSUME Types, NEW kind \in Kinds
  PROVE  /\ IsFiniteSet(Present(kind)) /\ Cardinality(Present(kind)) \in Nat
         /\ Present(kind) \subseteq Id
<1> DEFINE here == Present(kind)
           f == [id \in here |-> m_streams[kind][id]]
<1>1. /\ here \subseteq Id /\ \A id \in here : m_streams[kind][id] # 0
  BY DEF Present, Ids, Types, MapsOK
<1>2. \A id \in here : /\ m_streams[kind][id] \in 1..Len(heap)
                       /\ heap[m_streams[kind][id]].id = id
  BY <1>1, ArrayIs DEF Types, MapsOK, StreamsOK, Streams
<1> HIDE DEF here
<1>3. f \in Injection(here, 1..Len(heap))
  BY <1>2 DEF Injection, IsInjective
<1>4. Len(heap) \in Nat /\ IsFiniteSet(1..Len(heap))
  BY ArrayIs, FS_Interval DEF Types, StreamsOK
<1>5. IsFiniteSet(here)
  BY <1>3, <1>4, FS_Injection
<1> QED
  BY <1>1, <1>5, FS_CardinalityType DEF here

(* A client that does not move stays right.                                *)
LEMMA SameClientOK ==
  ASSUME Types, SameStreams, Requests' = Requests,
         NEW c \in Clients, SameClient(c)
  PROVE  ClientOK(c)' /\ QueryOK(c)'
<1>1. ClientOK(c) /\ QueryOK(c)
  BY DEF Types, ClientsOK, QueriesOK
<1>2. /\ \A f \in ClientFields \ {"before", "ever"} :
           client'[c][f] = client[c][f]
      /\ DOMAIN client'[c] = ClientFields
  BY DEF SameClient
<1>3. /\ client'[c].pc = client[c].pc /\ client'[c].ps = client[c].ps
      /\ client'[c].request = client[c].request
      /\ client'[c].left = client[c].left
      /\ client'[c].entries = client[c].entries
      /\ client'[c].k = client[c].k /\ client'[c].field = client[c].field
      /\ client'[c].shown = client[c].shown
  BY <1>2 DEF ClientFields
<1>4. Request(c)' = Request(c)
  BY <1>3 DEF Request
<1>5. \A o \in Streams : o \in Streams'
  BY DEF SameStreams
<1>6. ClientOK(c)'
  BY <1>1, <1>2, <1>3, <1>4, <1>5 DEF ClientOK, Writes
<1>7. QueryOK(c)'
  BY <1>1, <1>3, <1>5 DEF QueryOK
<1> QED
  BY <1>6, <1>7

(* A client that moves stays right.                                        *)
LEMMA MovedClientOK ==
  ASSUME Types, SameStreams, Requests' = Requests,
         NEW c \in Clients, ClientMoves(c)
  PROVE  ClientOK(c)' /\ QueryOK(c)'
<1> DEFINE s == client[c]
           t == client'[c]
<1>0. /\ ClientOK(c) /\ QueryOK(c) /\ \A o \in Streams : o \in Streams'
  BY DEF Types, ClientsOK, QueriesOK, SameStreams
<1>1. CASE Leaves(c)
  <2>1. /\ DOMAIN t = ClientFields /\ t.pc = "idle" /\ t.ps = 0 /\ t.k = 1
        /\ t.field = 1 /\ t.entries = <<>> /\ t.shown = <<>> /\ t.left = <<>>
    BY <1>1 DEF Leaves, Idle, ClientFields
  <2>2. ClientOK(c)'
    BY <2>1 DEF ClientOK, Pcs, Holding
  <2>3. QueryOK(c)'
    BY <2>1, FieldsAre DEF QueryOK, IsArray, Range, Querying
  <2> QED
    BY <2>2, <2>3
<1>2. ASSUME NEW r \in DOMAIN Requests, Receives(c, r)
      PROVE  ClientOK(c)' /\ QueryOK(c)'
  <2> DEFINE q == Requests[r]
  <2>1. /\ DOMAIN t = ClientFields /\ t.request = r /\ t.ps = 0 /\ t.k = 1
        /\ t.field = 1 /\ t.entries = <<>> /\ t.shown = <<>>
        /\ FirstCode(q) = OK
        /\ q.path = "query" =>
             /\ t.pc = "fetch"
             /\ t.left = [i \in DOMAIN q.body.id.value |->
                            q.body.id.value[i].value]
        /\ q.path # "query" => t.pc = "find" /\ t.left = <<>>
    BY <1>2 DEF Receives
  <2>2. Request(c)' = q
    BY <2>1 DEF Request
  <2>3. ClientOK(c)'
    BY <2>1, <2>2 DEF ClientOK, Pcs, Holding, Querying, Writes
  <2>4. t.left \in Seq(Id)
    <3>1. CASE q.path = "query"
      <4> DEFINE a == q.body.id.value
      <4>1. IsArray(a) /\ \A v \in Range(a) : v.value \in Id
        BY <2>1, <3>1, RequestFits
      <4>2. Len(a) \in Nat /\ DOMAIN a = 1..Len(a)
        BY <4>1, ArrayIs
      <4>3. \A i \in DOMAIN a : a[i].value \in Id
        BY <4>1 DEF Range
      <4> HIDE DEF a
      <4>4. [i \in DOMAIN a |-> a[i].value] \in [1..Len(a) -> Id]
        BY <4>2, <4>3
      <4>5. [i \in DOMAIN a |-> a[i].value] \in Seq(Id)
        BY <4>2, <4>4, SeqDef
      <4> QED
        BY <2>1, <3>1, <4>5 DEF a
    <3> QED
      BY <2>1, <3>1, EmptySeq
  <2>5. QueryOK(c)'
    BY <2>1, <2>4, FieldsAre DEF QueryOK, IsArray, Range, Querying
  <2> QED
    BY <2>3, <2>5
<1>3. CASE Writing(c)
  <2>1. /\ DOMAIN t = ClientFields
        /\ t.request = s.request /\ t.left = s.left
        /\ t.entries = s.entries /\ t.k = s.k /\ t.field = s.field
        /\ t.shown = s.shown
    BY <1>3 DEF Writing, ClientFields
  <2>2. Request(c)' = Request(c)
    BY <2>1 DEF Request
  <2>3. /\ s.pc \in {"find", "join", "stopped", "create"}
        /\ t.pc \in {"create", "join", "stopped", "copy"}
    BY <1>3 DEF Writing
  <2>4. Creates(c) => Len(heap) + 1 \in Streams'
    <3>1. Len(heap) \in Nat
      BY ArrayIs DEF Types, StreamsOK
    <3> QED
      BY <3>1 DEF Creates, Streams
  <2>5. ClientOK(c)'
    BY <1>0, <1>3, <2>1, <2>2, <2>3, <2>4
       DEF Writing, ClientOK, Pcs, Holding, Querying, Writes
  <2>6. QueryOK(c)'
    BY <1>0, <2>1, <2>3 DEF QueryOK, Querying
  <2> QED
    BY <2>5, <2>6
<1>4. CASE Fetching(c)
  <2>1. /\ DOMAIN t = ClientFields /\ t.request = s.request /\ t.ps = s.ps
        /\ t.k = s.k /\ t.field = s.field /\ t.shown = s.shown
        /\ s.pc = "fetch" /\ t.pc \in {"fetch", "read"}
    BY <1>4 DEF Fetching, ClientFields
  <2>2. Request(c)' = Request(c)
    BY <2>1 DEF Request
  <2>3. ClientOK(c)'
    BY <1>0, <2>1, <2>2 DEF ClientOK, Pcs, Holding, Querying, Writes
  <2> DEFINE kind == Request(c).kind
             here == Present(kind)
  <2>4. kind \in Kinds
    BY <2>1, ClientRequest
  <2>5. s.k = 1 /\ s.field = 1 /\ Len(s.shown) = 0
    BY <1>0, <2>1 DEF QueryOK
  <2>6. /\ t.left \in Seq(Id) /\ IsArray(t.entries)
        /\ \A k \in DOMAIN t.entries : t.entries[k].stream \in Streams
    <3>1. \A id \in Id : m_streams[kind][id] # 0 =>
            /\ m_streams[kind][id] \in Streams
            /\ Entry(m_streams[kind][id]).stream = m_streams[kind][id]
      BY <2>4 DEF Types, MapsOK, Entry
    <3>2. ASSUME NEW ids \in Bijection(1..Cardinality(here), here),
                 t.left = s.left,
                 t.entries = [k \in DOMAIN ids |->
                                Entry(m_streams[kind][ids[k]])]
          PROVE  /\ t.left \in Seq(Id) /\ IsArray(t.entries)
                 /\ \A k \in DOMAIN t.entries : t.entries[k].stream \in Streams
      <4>1. Cardinality(here) \in Nat /\ here \subseteq Id
        BY <2>4, PresentIsFinite
      <4>2. ids \in [1..Cardinality(here) -> here]
        BY <3>2 DEF Bijection, Injection
      <4>3. IsArray(t.entries)
        BY <3>2, <4>1, <4>2, FunctionIsArray
      <4>4. ASSUME NEW k \in DOMAIN t.entries
            PROVE  t.entries[k].stream \in Streams
        <5>1. k \in 1..Cardinality(here) /\ ids[k] \in here
          BY <3>2, <4>2
        <5>2. m_streams[kind][ids[k]] # 0 /\ ids[k] \in Id
          BY <4>1, <5>1 DEF Present
        <5> QED
          BY <3>1, <3>2, <4>2, <5>1, <5>2
      <4> QED
        BY <1>0, <3>2, <4>3, <4>4 DEF QueryOK
    <3>3. ASSUME s.left # <<>>, t.left = Tail(s.left),
                 NEW o, o = m_streams[kind][Head(s.left)],
                 t.entries = IF o = 0 THEN s.entries
                             ELSE Append(s.entries, Entry(o))
          PROVE  /\ t.left \in Seq(Id) /\ IsArray(t.entries)
                 /\ \A k \in DOMAIN t.entries : t.entries[k].stream \in Streams
      <4>1. Tail(s.left) \in Seq(Id) /\ Head(s.left) \in Id
        BY <1>0, <3>3, TailOf DEF QueryOK
      <4>2. CASE o = 0
        BY <1>0, <3>3, <4>1, <4>2 DEF QueryOK
      <4>3. CASE o # 0
        <5>1. Entry(o).stream \in Streams
          BY <3>1, <3>3, <4>1, <4>3
        <5> DEFINE e == Entry(o)
        <5> HIDE DEF e
        <5>2. IsArray(s.entries) /\ t.entries = Append(s.entries, e)
          BY <1>0, <3>3, <4>3 DEF QueryOK, e
        <5>3. Len(s.entries) \in Nat /\ DOMAIN s.entries = 1..Len(s.entries)
          BY <5>2, ArrayIs
        <5>4. /\ IsArray(t.entries)
              /\ DOMAIN t.entries = 1..(Len(s.entries) + 1)
              /\ t.entries[Len(s.entries) + 1] = e
              /\ \A i \in DOMAIN s.entries : t.entries[i] = s.entries[i]
          BY <5>2, ArrayAppend
        <5>5. ASSUME NEW k \in DOMAIN t.entries
              PROVE  t.entries[k].stream \in Streams
          <6>1. k = Len(s.entries) + 1 \/ k \in DOMAIN s.entries
            BY <5>3, <5>4
          <6> QED
            BY <1>0, <5>1, <5>4, <6>1 DEF QueryOK, e
        <5>6. t.left \in Seq(Id)
          BY <3>3, <4>1
        <5> QED
          BY <5>4, <5>5, <5>6
      <4> QED
        BY <4>2, <4>3
    <3> QED
      BY <1>4, <3>2, <3>3 DEF Fetching
  <2>7. Len(t.entries) \in Nat
    BY <2>6, ArrayIs
  <2>8. QueryOK(c)'
    BY <1>0, <2>1, <2>5, <2>6, <2>7 DEF QueryOK, Querying
  <2> QED
    BY <2>3, <2>8
<1>5. CASE Shows(c)
  <2> DEFINE o == s.entries[s.k].stream
             last == s.field = Len(Fields)
             sofar == IF s.field = 1 THEN <<>> ELSE Last(s.shown)
             w == WithField(sofar, Fields[s.field], heap[o].info)
             base == IF s.field = 1 THEN s.shown ELSE Front(s.shown)
  <2> HIDE DEF w
  <2>1. /\ DOMAIN t = ClientFields /\ t.request = s.request /\ t.ps = s.ps
        /\ t.left = s.left /\ t.entries = s.entries
        /\ s.pc = "read" /\ t.pc = s.pc /\ s.k <= Len(s.entries)
    <3>1. /\ DOMAIN t = ClientFields /\ Reading(c)
          /\ \A f \in ClientFields \ {"k", "field", "shown"} : t[f] = s[f]
      BY <1>5, Zenon DEF Shows
    <3> QED
      BY <3>1 DEF Reading, ClientFields
  <2>2. Request(c)' = Request(c)
    BY <2>1 DEF Request
  <2>3. ClientOK(c)'
    BY <1>0, <2>1, <2>2 DEF ClientOK, Pcs, Holding, Querying, Writes
  <2>4. /\ IsArray(s.shown) /\ Len(s.shown) \in Nat /\ s.k \in Nat \ {0}
        /\ s.field \in 1..5 /\ IsArray(s.entries) /\ Len(s.entries) \in Nat
        /\ Len(s.shown) = IF s.field = 1 THEN s.k - 1 ELSE s.k
    BY <1>0, ArrayIs, FieldsAre DEF QueryOK
  <2>5. IsArray(base) /\ Len(base) = s.k - 1
    BY <2>4, ArrayFront
  <2> HIDE DEF base
  <2>6. IsArray(t.shown) /\ Len(t.shown) = s.k
    <3>1. t.shown = base \o <<w>>
      BY <1>5, Zenon DEF Shows, base, w
    <3>2. t.shown = Append(base, w)
      BY <2>5, <3>1, ArrayOneMore
    <3>3. IsArray(t.shown) /\ Len(t.shown) = Len(base) + 1
      BY <2>5, <3>2, ArrayAppend
    <3> QED
      BY <2>4, <2>5, <3>3
  <2>7. /\ t.k \in Nat \ {0} /\ t.field \in 1..5
        /\ Len(t.shown) = IF t.field = 1 THEN t.k - 1 ELSE t.k
    <3>1. /\ t.k = IF s.field = 5 THEN s.k + 1 ELSE s.k
          /\ t.field = IF s.field = 5 THEN 1 ELSE s.field + 1
      <4>1. /\ t.k = IF s.field = Len(Fields) THEN s.k + 1 ELSE s.k
            /\ t.field = IF s.field = Len(Fields) THEN 1 ELSE s.field + 1
        BY <1>5, Zenon DEF Shows
      <4> QED
        BY <4>1, FieldsAre
    <3> QED
      BY <2>4, <2>6, <3>1
  <2>8. QueryOK(c)'
    BY <1>0, <2>1, <2>4, <2>6, <2>7, FieldsAre DEF QueryOK, Querying
  <2> QED
    BY <2>3, <2>8
<1> QED
  BY <1>1, <1>2, <1>3, <1>4, <1>5 DEF ClientMoves

(* Every step keeps the types.                                             *)
LEMMA TypesStep ==
  ASSUME Types, [Next]_vars
  PROVE  Types' /\ SameStreams /\ Requests' = Requests
<1>1. StreamsOK' /\ MapsOK' /\ SameStreams
  BY StreamsStep
<1>2. workload' = workload /\ now' \in {now, now + 1}
  BY HeapSteps
<1>3. Requests' = Requests
  BY <1>2 DEF Requests
<1>4. /\ DOMAIN client' = Clients
      /\ \A c \in Clients : SameClient(c) \/ ClientMoves(c)
  BY ClientSteps
<1>5. \A c \in Clients : ClientOK(c)' /\ QueryOK(c)'
  BY <1>1, <1>3, <1>4, SameClientOK, MovedClientOK
<1>6. ClientsOK' /\ QueriesOK'
  BY <1>4, <1>5 DEF ClientsOK, QueriesOK
<1> QED
  BY <1>1, <1>2, <1>3, <1>6 DEF Types

-----------------------------------------------------------------------------
(* Who holds which stream.                                                 *)

(* What of a client decides which stream it holds, after a step.           *)
LEMMA ClientParts ==
  ASSUME NEW c \in Clients, SameClient(c)
  PROVE  /\ client'[c].pc = client[c].pc /\ client'[c].ps = client[c].ps
         /\ client'[c].request = client[c].request
         /\ client'[c].json = client[c].json
         /\ client'[c].left = client[c].left
         /\ client'[c].entries = client[c].entries
         /\ client'[c].k = client[c].k /\ client'[c].field = client[c].field
         /\ client'[c].shown = client[c].shown
BY DEF SameClient, ClientFields

(* Requests that write stay apart.                                         *)
LEMMA WritersStep ==
  ASSUME Types, WritersApart, [Next]_vars
  PROVE  WritersApart'
<1>1. /\ Requests' = Requests /\ Types'
  BY TypesStep
<1> DEFINE Apart(c, d) ==
             /\ c # d /\ client[c].pc # "idle" /\ client[d].pc # "idle"
             /\ Writes(Request(c)) /\ Writes(Request(d))
             => Request(c).kind # Request(d).kind \/ IdOf(c) # IdOf(d)
<1>2. \A c, d \in Clients : Apart(c, d)
  BY DEF WritersApart
<1> DEFINE Still(c) == /\ client'[c].request = client[c].request
                       /\ client[c].pc # "idle" \/ client'[c].pc = "idle"
<1>3. ASSUME NEW c \in Clients, SameClient(c) PROVE Still(c)
  BY <1>3, ClientParts
<1>4. ASSUME NEW c \in Clients, ClientMoves(c)
      PROVE  \/ client'[c].pc = "idle" \/ Still(c)
             \/ \E r \in DOMAIN Requests : Receives(c, r)
  <2>1. Leaves(c) => client'[c].pc = "idle"
    BY DEF Leaves, Idle
  <2>2. Writing(c) => Still(c)
    BY DEF Writing, ClientFields
  <2>3. Fetching(c) => Still(c)
    BY DEF Fetching, ClientFields
  <2>4. Shows(c) => Still(c)
    <3>1. Shows(c) => /\ \A f \in ClientFields \ {"k", "field", "shown"} :
                           client'[c][f] = client[c][f]
                      /\ Reading(c)
      BY Zenon DEF Shows
    <3> QED
      BY <3>1 DEF Reading, ClientFields
  <2> QED
    BY <1>4, <2>1, <2>2, <2>3, <2>4 DEF ClientMoves
<1>5. ASSUME NEW c \in Clients, NEW d \in Clients, Still(c), Still(d)
      PROVE  Apart(c, d)'
  <2>1. Request(c)' = Request(c) /\ Request(d)' = Request(d)
    BY <1>1, <1>5 DEF Request
  <2>2. IdOf(c)' = IdOf(c) /\ IdOf(d)' = IdOf(d)
    BY <2>1 DEF IdOf
  <2> QED
    BY <1>2, <1>5, <2>1, <2>2
<1>6. ASSUME NEW c \in Clients, NEW d \in Clients, c # d,
             NEW r \in DOMAIN Requests, Receives(c, r), Still(d)
      PROVE  Apart(c, d)' /\ Apart(d, c)'
  <2>1. Request(c)' = Requests[r] /\ Request(d)' = Request(d)
    BY <1>1, <1>6 DEF Request, Receives
  <2>2. IdOf(c)' = Requests[r].body.id.value /\ IdOf(d)' = IdOf(d)
    BY <2>1 DEF IdOf
  <2>3. Alone(Requests[r])
    BY <1>6 DEF Receives
  <2>4. /\ client[d].pc # "idle" /\ Writes(Request(d)) /\ Writes(Requests[r])
        => \/ Request(d).kind # Requests[r].kind
           \/ IdOf(d) # Requests[r].body.id.value
    BY <2>3 DEF Alone
  <2> QED
    BY <1>6, <2>1, <2>2, <2>4
<1>7. ASSUME NEW c \in Clients, NEW d \in Clients, c # d PROVE Apart(c, d)'
  <2>1. CASE client'[c].pc = "idle" \/ client'[d].pc = "idle"
    BY <2>1
  <2>2. CASE SameClient(c) /\ SameClient(d)
    BY <1>3, <1>5, <2>2
  <2>3. CASE ClientMoves(c) /\ SameClient(d)
    BY <1>3, <1>4, <1>5, <1>6, <1>7, <2>1, <2>3
  <2>4. CASE SameClient(c) /\ ClientMoves(d)
    BY <1>3, <1>4, <1>5, <1>6, <1>7, <2>1, <2>4
  <2> QED
    BY <1>7, <2>2, <2>3, <2>4, ClientSteps
<1> QED
  BY <1>7 DEF WritersApart

(* Nobody gets hold again of a stream that nobody held, and a stream that   *)
(* is still held stands for the same request.                               *)
LEMMA LiveBack ==
  ASSUME Types, [Next]_vars, NEW o \in Streams, Live(o)'
  PROVE  Live(o) /\ heap'[o].asked = heap[o].asked
<1>1. /\ StreamsOK /\ MapsOK /\ ClientsOK /\ SameStreams
      /\ heap[o].kind \in Kinds /\ heap[o].id \in Id /\ o # 0
      /\ m_streams \in [Kinds -> [Id -> Nat]]
  <2>1. o # 0
    BY ArrayIs DEF Types, StreamsOK, Streams
  <2> QED
    BY <2>1, TypesStep DEF Types, StreamsOK, MapsOK
<1>2. /\ heap'[o].kind = heap[o].kind /\ heap'[o].id = heap[o].id
  BY <1>1 DEF SameStreams
<1>3. ASSUME NEW c \in Clients, Creates(c), client[c].pc = "create"
      PROVE  /\ Len(heap) + 1 # o /\ Request(c).kind \in Kinds
             /\ IdOf(c) \in Id
  <2>1. Request(c).path # "query"
    BY <1>3 DEF Types, ClientsOK, ClientOK
  <2>2. Request(c).kind \in Kinds /\ IdOf(c) \in Id
    BY <1>3, <2>1, ClientRequest
  <2>3. Len(heap) + 1 # o
    BY <1>1, ArrayIs DEF StreamsOK, Streams
  <2> QED
    BY <2>2, <2>3
<1>4. ASSUME InMap(o)' PROVE InMap(o)
  <2>1. m_streams'[heap[o].kind][heap[o].id] = o
    BY <1>2, <1>4 DEF InMap
  <2>2. CASE UNCHANGED m_streams
    BY <2>1, <2>2 DEF InMap
  <2>3. ASSUME NEW p \in Streams,
               m_streams' =
                 [m_streams EXCEPT ![heap[p].kind][heap[p].id] = 0]
        PROVE  InMap(o)
    BY <1>1, <2>1, <2>3 DEF InMap
  <2>4. ASSUME NEW c \in Clients, Creates(c), client[c].pc = "create"
        PROVE  InMap(o)
    <3>1. m_streams' = [m_streams EXCEPT
            ![Request(c).kind][IdOf(c)] = Len(heap) + 1]
      BY <2>4 DEF Creates
    <3> QED
      BY <1>1, <1>3, <2>1, <2>4, <3>1 DEF InMap
  <2> QED
    BY <2>2, <2>3, <2>4, HeapSteps DEF WorkStep
<1>5. ASSUME NEW c \in Clients, client'[c].ps = o PROVE Live(o)
  <2>1. CASE SameClient(c)
    BY <1>5, <2>1, ClientParts DEF Live
  <2>2. CASE ClientMoves(c)
    <3>1. Leaves(c) => client'[c].ps = 0
      BY DEF Leaves, Idle
    <3>2. ASSUME NEW r \in DOMAIN Requests, Receives(c, r)
          PROVE  client'[c].ps = 0
      BY <3>2 DEF Receives
    <3>3. Writing(c) =>
            \/ client'[c].ps = 0 \/ client'[c].ps = client[c].ps
            \/ /\ client'[c].ps = m_streams[Request(c).kind][IdOf(c)]
               /\ client[c].pc = "find"
               /\ Request(c).path \in {"start", "stop"}
            \/ /\ client'[c].ps = Len(heap) + 1 /\ Creates(c)
               /\ client[c].pc = "create"
      BY DEF Writing
    <3>4. Fetching(c) => client'[c].ps = client[c].ps
      BY DEF Fetching, ClientFields
    <3>5. Shows(c) => client'[c].ps = client[c].ps
      <4>1. Shows(c) => \A f \in ClientFields \ {"k", "field", "shown"} :
                          client'[c][f] = client[c][f]
        BY Zenon DEF Shows
      <4> QED
        BY <4>1 DEF ClientFields
    <3>6. CASE client'[c].ps = client[c].ps
      BY <1>5, <3>6 DEF Live
    <3>7. CASE /\ client'[c].ps = m_streams[Request(c).kind][IdOf(c)]
               /\ client[c].pc = "find"
               /\ Request(c).path \in {"start", "stop"}
      <4>1. Request(c).kind \in Kinds /\ IdOf(c) \in Id
        BY <3>7, ClientRequest
      <4>2. heap[o].kind = Request(c).kind /\ heap[o].id = IdOf(c)
        BY <1>1, <1>5, <3>7, <4>1 DEF MapsOK
      <4> QED
        BY <1>5, <3>7, <4>2 DEF Live, InMap
    <3> QED
      BY <1>1, <1>3, <1>5, <2>2, <3>1, <3>2, <3>3, <3>4, <3>5, <3>6, <3>7
         DEF ClientMoves
  <2> QED
    BY <2>1, <2>2, ClientSteps
<1>6. Live(o)
  BY <1>4, <1>5 DEF Live
<1>7. heap'[o].asked = heap[o].asked
  <2>1. Kept(o) => heap'[o].asked = heap[o].asked
    BY DEF Kept
  <2>2. LetsGo => heap'[o].asked = heap[o].asked
    BY <2>1 DEF LetsGo
  <2>3. \A c \in Clients : Creates(c) => heap'[o].asked = heap[o].asked
    BY <2>1 DEF Creates
  <2>4. \A p \in Streams : WorkStep(p) => heap'[o].asked = heap[o].asked
    BY DEF WorkStep
  <2>5. \A p \in Streams : Touched(p) => heap'[o].asked = heap[o].asked
    BY DEF Touched
  <2>6. ASSUME NEW c \in Clients, Started(client[c].ps, InfoFor(c))
        PROVE  heap'[o].asked = heap[o].asked
    BY <2>6 DEF Started
  <2> QED
    BY <2>2, <2>3, <2>4, <2>5, <2>6, HeapSteps
<1> QED
  BY <1>6, <1>7

(* The stream that a handler is copying a request into is its own.         *)
LEMMA OwnCopy ==
  ASSUME Types, WritersApart, CopiesOwn, NEW c \in Clients,
         client[c].pc = "copy"
  PROVE  /\ client[c].ps \in Streams /\ InMap(client[c].ps)
         /\ Request(c).path = "start"
         /\ Request(c).kind \in Kinds /\ IdOf(c) \in Id
         /\ heap[client[c].ps].kind = Request(c).kind
         /\ heap[client[c].ps].id = IdOf(c)
         /\ \A d \in Clients \ {c} :
              /\ client[d].pc = "copy" => client[d].ps # client[c].ps
              /\ client[d].pc = "create" =>
                   Request(d).kind # Request(c).kind \/ IdOf(d) # IdOf(c)
<1>1. client[c].ps \in Streams /\ Request(c).path = "start"
  BY DEF Types, ClientsOK, ClientOK, Holding
<1>2. Request(c).kind \in Kinds /\ IdOf(c) \in Id
  BY <1>1, ClientRequest
<1>3. ASSUME NEW d \in Clients, client[d].pc \in {"create", "copy"}
      PROVE  Request(d).path = "start"
  BY <1>3 DEF Types, ClientsOK, ClientOK
<1>4. ASSUME NEW d \in Clients, client[d].pc = "copy"
      PROVE  /\ m_streams[Request(d).kind][IdOf(d)] = client[d].ps
             /\ heap[client[d].ps].kind = Request(d).kind
             /\ heap[client[d].ps].id = IdOf(d)
  <2>1. Request(d).kind \in Kinds /\ IdOf(d) \in Id
    BY <1>3, <1>4, ClientRequest
  <2>2. client[d].ps \in Streams /\ client[d].ps # 0
    BY <1>4, ArrayIs DEF Types, ClientsOK, ClientOK, Holding, StreamsOK, Streams
  <2>3. m_streams[Request(d).kind][IdOf(d)] = client[d].ps
    BY <1>4 DEF CopiesOwn
  <2> QED
    BY <2>1, <2>2, <2>3 DEF Types, MapsOK
<1>5. InMap(client[c].ps)
  BY <1>4 DEF InMap
<1>6. ASSUME NEW d \in Clients \ {c}, client[d].pc \in {"create", "copy"}
      PROVE  Request(d).kind # Request(c).kind \/ IdOf(d) # IdOf(c)
  BY <1>1, <1>3, <1>6 DEF WritersApart, Writes
<1> QED
  BY <1>1, <1>2, <1>4, <1>5, <1>6

(* The stream a request is being copied into keeps its place in the map.   *)
LEMMA CopiesStep ==
  ASSUME Types, WritersApart, CopiesOwn, [Next]_vars
  PROVE  CopiesOwn'
<1>0. Requests' = Requests /\ Types' /\ SameStreams
  BY TypesStep
<1> SUFFICES ASSUME NEW c \in Clients, client'[c].pc = "copy"
             PROVE  /\ m_streams'[Request(c)'.kind][IdOf(c)'] = client'[c].ps
                    /\ heap'[client'[c].ps].worker = "none"
                    /\ ~heap'[client'[c].ps].ran
                    /\ heap'[client'[c].ps].asked =
                         [request |-> client'[c].request,
                          json |-> client'[c].json]
  BY DEF CopiesOwn
<1>1. CASE SameClient(c)
  <2>0. PICK o, k, i :
          o = client[c].ps /\ k = Request(c).kind /\ i = IdOf(c)
    OBVIOUS
  <2> DEFINE Stays == /\ m_streams'[k][i] = o
                      /\ heap'[o].worker = "none" /\ ~heap'[o].ran
  <2>1. /\ client[c].pc = "copy" /\ client'[c].ps = o
        /\ client'[c].request = client[c].request
        /\ client'[c].json = client[c].json
        /\ Request(c)' = Request(c) /\ IdOf(c)' = i
    BY <1>0, <1>1, <2>0, ClientParts DEF Request, IdOf
  <2>2. /\ o \in Streams /\ InMap(o) /\ k \in Kinds /\ i \in Id
        /\ heap[o].kind = k /\ heap[o].id = i
        /\ m_streams[k][i] = o /\ heap[o].worker = "none" /\ ~heap[o].ran
        /\ heap[o].asked = [request |-> client[c].request,
                            json |-> client[c].json]
        /\ \A d \in Clients \ {c} :
             /\ client[d].pc = "copy" => client[d].ps # o
             /\ client[d].pc = "create" => Request(d).kind # k \/ IdOf(d) # i
    BY <2>0, <2>1, OwnCopy DEF CopiesOwn
  <2>3. ASSUME Live(o)', Kept(o)
        PROVE  heap'[o].worker = "none" /\ ~heap'[o].ran
    BY <2>2, <2>3 DEF Kept
  <2>4. m_streams'[k][i] = o => Live(o)'
    BY <1>0, <2>2 DEF Live, InMap, SameStreams
  <2>5. Stays
    <3>1. CASE UNCHANGED <<heap, m_streams>>
      BY <2>2, <3>1
    <3>2. ASSUME NEW p \in Streams, WorkStep(p) PROVE Stays
      <4>1. p # o
        BY <2>2, <3>2 DEF WorkStep
      <4> QED
        BY <2>2, <3>2, <4>1 DEF WorkStep
    <3>3. ASSUME NEW p \in Streams, Touched(p), UNCHANGED m_streams
          PROVE  Stays
      BY <2>2, <3>3 DEF Touched
    <3>4. CASE LetsGo /\ UNCHANGED m_streams
      BY <2>2, <2>3, <2>4, <3>4 DEF LetsGo
    <3>5. ASSUME NEW p \in Streams, LetsGo, InMap(p), heap[p].worker = "done",
                 m_streams' =
                   [m_streams EXCEPT ![heap[p].kind][heap[p].id] = 0]
          PROVE  Stays
      <4>1. heap[p].kind # k \/ heap[p].id # i
        BY <2>2, <3>5 DEF InMap
      <4>2. m_streams'[k][i] = o
        BY <2>2, <3>5, <4>1 DEF Types, MapsOK
      <4> QED
        BY <2>2, <2>3, <2>4, <3>5, <4>2 DEF LetsGo
    <3>6. ASSUME NEW d \in Clients, client[d].pc = "create", Creates(d)
          PROVE  Stays
      <4>1. d # c
        BY <2>1, <3>6
      <4>2. Request(d).kind # k \/ IdOf(d) # i
        BY <2>2, <3>6, <4>1
      <4>3. m_streams'[k][i] = o
        BY <2>2, <3>6, <4>2 DEF Creates, Types, MapsOK
      <4> QED
        BY <2>2, <2>3, <2>4, <3>6, <4>3 DEF Creates
    <3>7. ASSUME NEW d \in Clients, client[d].pc = "copy", UNCHANGED m_streams,
                 Started(client[d].ps, InfoFor(d)), client'[d] = Idle
          PROVE  Stays
      <4>1. d # c
        BY <2>1, <3>7, <1>1, ClientParts DEF Idle
      <4>2. client[d].ps # o
        BY <2>2, <3>7, <4>1
      <4> QED
        BY <2>2, <3>7, <4>2 DEF Started
    <3> QED
      BY <3>1, <3>2, <3>3, <3>4, <3>5, <3>6, <3>7, HeapSteps
  <2>6. heap'[o].asked = heap[o].asked
    BY <2>2, <2>4, <2>5, LiveBack
  <2> QED
    BY <2>0, <2>1, <2>2, <2>5, <2>6
<1>2. CASE ClientMoves(c)
  <2>1. ~Leaves(c)
    BY DEF Leaves, Idle
  <2>2. \A r \in DOMAIN Requests : ~Receives(c, r)
    BY DEF Receives
  <2>3. ~Fetching(c)
    BY DEF Fetching
  <2>4. ~Shows(c)
    <3>1. Shows(c) => /\ \A f \in ClientFields \ {"k", "field", "shown"} :
                           client'[c][f] = client[c][f]
                      /\ Reading(c)
      BY Zenon DEF Shows
    <3> QED
      BY <3>1 DEF Reading, ClientFields
  <2>5. Writing(c)
    BY <1>2, <2>1, <2>2, <2>3, <2>4 DEF ClientMoves
  <2>6. /\ client[c].pc = "create" /\ client'[c].ps = Len(heap) + 1
        /\ Creates(c) /\ client'[c].request = client[c].request
        /\ client'[c].json = client[c].json
    BY <2>5 DEF Writing, ClientFields
  <2>7. Request(c)' = Request(c) /\ IdOf(c)' = IdOf(c)
    BY <1>0, <2>6 DEF Request, IdOf
  <2>8. Request(c).kind \in Kinds /\ IdOf(c) \in Id
    <3>1. Request(c).path # "query"
      BY <2>6 DEF Types, ClientsOK, ClientOK
    <3> QED
      BY <2>6, <3>1, ClientRequest
  <2> DEFINE n == Len(heap) + 1
             new == NewStream(Request(c).kind, IdOf(c), client[c].request,
                              client[c].json)
  <2>9. /\ new.worker = "none" /\ ~new.ran
        /\ new.asked = [request |-> client[c].request,
                        json |-> client[c].json]
    BY DEF NewStream
  <2>10. heap'[n] = new
    BY <2>6 DEF Creates
  <2>11. m_streams'[Request(c).kind][IdOf(c)] = n
    BY <2>6, <2>8 DEF Creates, Types, MapsOK
  <2> HIDE DEF new, n
  <2> QED
    BY <2>6, <2>7, <2>9, <2>10, <2>11 DEF n
<1> QED
  BY <1>1, <1>2, ClientSteps

-----------------------------------------------------------------------------
(* Workers.                                                                *)

(* Whoever lets go of a stream that nobody else holds deletes it.          *)
LEMMA LiveAhead ==
  ASSUME Types, WritersApart, CopiesOwn, [Next]_vars, NEW o \in Streams,
         Live(o), ~Live(o)'
  PROVE  Kept(o)
<1>1. /\ SameStreams /\ o # 0 /\ heap[o].kind \in Kinds /\ heap[o].id \in Id
      /\ m_streams \in [Kinds -> [Id -> Nat]]
  <2>1. o # 0
    BY ArrayIs DEF Types, StreamsOK, Streams
  <2> QED
    BY <2>1, TypesStep DEF Types, StreamsOK, MapsOK
<1>2. /\ m_streams'[heap[o].kind][heap[o].id] # o
      /\ \A c \in Clients : client'[c].ps # o
  BY <1>1 DEF SameStreams, Live, InMap
<1>3. CASE LetsGo
  BY <1>3 DEF LetsGo
<1>4. CASE InMap(o)
  <2>1. ~UNCHANGED m_streams
    BY <1>2, <1>4 DEF InMap
  <2>2. CASE LetsGo
    BY <1>3, <2>2
  <2>3. CASE \E c \in Clients : Creates(c)
    BY <2>3 DEF Creates
  <2> QED
    BY <2>1, <2>2, <2>3, HeapSteps DEF WorkStep
<1>5. ASSUME NEW c \in Clients, client[c].ps = o PROVE Kept(o)
  <2>1. client[c].pc \in Holding
    BY <1>1, <1>5 DEF Types, ClientsOK, ClientOK
  <2>2. client'[c].ps # client[c].ps
    BY <1>2, <1>5
  <2>3. ClientMoves(c)
    BY <2>2, ClientSteps, ClientParts
  <2>4. CASE Leaves(c)
    <3>1. CASE client[c].pc = "stopped"
      BY <1>3, <2>4, <3>1 DEF Leaves
    <3>2. CASE client[c].pc = "copy"
      <4>1. UNCHANGED m_streams
        BY <2>4, <3>2 DEF Leaves
      <4>2. InMap(o)
        BY <1>5, <3>2, OwnCopy
      <4> QED
        BY <1>2, <4>1, <4>2 DEF InMap
    <3> QED
      BY <2>1, <2>4, <3>1, <3>2 DEF Leaves, Holding
  <2>5. \A r \in DOMAIN Requests : ~Receives(c, r)
    BY <2>1 DEF Receives, Holding
  <2>6. CASE Writing(c)
    <3>1. client[c].pc = "stopped" /\ LetsGo
      BY <2>1, <2>2, <2>6 DEF Writing, Holding
    <3> QED
      BY <1>3, <3>1
  <2>7. ~Fetching(c)
    BY <2>1 DEF Fetching, Holding
  <2>8. ~Shows(c)
    <3>1. Shows(c) => Reading(c)
      BY Zenon DEF Shows
    <3> QED
      BY <2>1, <3>1 DEF Reading, Holding
  <2> QED
    BY <2>3, <2>4, <2>5, <2>6, <2>7, <2>8 DEF ClientMoves
<1> QED
  BY <1>4, <1>5 DEF Live

(* What is true of one stream's worker.                                    *)
WorkerOK(o) ==
  /\ heap[o].worker \in {"begin", "opening", "failed"} => ~heap[o].ran
  /\ heap[o].worker = "failed" => heap[o].kind = "realtime"
  /\ heap[o].info.stopTime <= now
  /\ heap[o].worker = "stopping" => heap[o].info.stopTime # 0
  /\ heap[o].info.status = "stopped" =>
       /\ heap[o].worker \in {"reporting", "done"}
       /\ \/ heap[o].info.stopTime # 0
          \/ heap[o].kind = "realtime" /\ ~heap[o].ran
  /\ ~Live(o) => heap[o].worker = "none"

(* Workers and their infos go together.                                    *)
LEMMA WorkersStep ==
  ASSUME Types, WritersApart, CopiesOwn, WorkersOK, [Next]_vars
  PROVE  WorkersOK'
<1>0. SameStreams /\ Types' /\ Requests' = Requests
  BY TypesStep
<1> SUFFICES ASSUME NEW o \in Streams' PROVE WorkerOK(o)'
  BY DEF WorkersOK, WorkerOK
<1>1. ASSUME NEW c \in Clients, Creates(c), client[c].pc = "create",
             o \notin Streams
      PROVE  WorkerOK(o)'
  <2> DEFINE n == Len(heap) + 1
             new == NewStream(Request(c).kind, IdOf(c), client[c].request,
                              client[c].json)
  <2>1. o = n
    <3>1. Len(heap) \in Nat /\ Streams = 1..Len(heap)
      BY ArrayIs DEF Types, StreamsOK, Streams
    <3>2. o \in 1..n
      BY <1>1 DEF Creates, Streams
    <3> QED
      BY <1>1, <3>1, <3>2
  <2>2. new.worker = "none" /\ new.info = DefaultInfo
    BY DEF NewStream
  <2>3. heap'[o] = new
    BY <1>1, <2>1 DEF Creates
  <2> HIDE DEF new
  <2>4. /\ heap'[o].worker = "none" /\ heap'[o].info.status = "init"
        /\ heap'[o].info.stopTime = 0
    BY <2>2, <2>3, DefaultShape
  <2> QED
    BY <1>0, <2>4 DEF WorkerOK, Types
<1>2. CASE o \in Streams
  <2>1. WorkerOK(o) /\ heap'[o].kind = heap[o].kind
    BY <1>0, <1>2 DEF WorkersOK, WorkerOK, SameStreams
  <2>2. ~Live(o)' => heap'[o].worker = "none" \/ Live(o)
    <3>1. ASSUME ~Live(o)', ~Live(o) PROVE heap'[o].worker = "none"
      <4>1. heap[o].worker = "none"
        BY <2>1, <3>1 DEF WorkerOK
      <4>2. Kept(o) => heap'[o].worker = "none"
        BY <3>1 DEF Kept
      <4>3. \A p \in Streams : WorkStep(p) => heap'[o].worker = "none"
        BY <1>2, <4>1 DEF WorkStep
      <4>4. \A p \in Streams : Touched(p) => heap'[o].worker = "none"
        BY <1>2, <4>1 DEF Touched
      <4>5. ASSUME NEW c \in Clients, client[c].pc = "copy",
                   Started(client[c].ps, InfoFor(c))
            PROVE  heap'[o].worker = "none"
        <5>1. client[c].ps # o
          BY <3>1, <4>5 DEF Live
        <5> QED
          BY <1>2, <4>1, <4>5, <5>1 DEF Started
      <4> QED
        BY <1>2, <4>1, <4>2, <4>3, <4>4, <4>5, HeapSteps DEF LetsGo, Creates
    <3> QED
      BY <3>1
  <2>3. ~Live(o)' => heap'[o].worker = "none"
    BY <1>2, <2>2, LiveAhead DEF Kept
  <2>4. CASE now' # now
    <3>1. Tick
      BY <2>4, HeapSteps
    <3>2. heap' = heap /\ now' = now + 1 /\ heap[o].info.stopTime \in Nat
      BY <1>2, <3>1 DEF Tick, Types, StreamsOK
    <3> QED
      BY <2>1, <2>3, <3>2 DEF WorkerOK, Types
  <2>5. CASE now' = now
    <3> DEFINE Rest == /\ heap'[o].worker \in {"begin", "opening", "failed"} =>
                            ~heap'[o].ran
                       /\ heap'[o].worker = "failed" =>
                            heap[o].kind = "realtime"
                       /\ heap'[o].info.stopTime <= now
                       /\ heap'[o].worker = "stopping" =>
                            heap'[o].info.stopTime # 0
                       /\ heap'[o].info.status = "stopped" =>
                            /\ heap'[o].worker \in {"reporting", "done"}
                            /\ \/ heap'[o].info.stopTime # 0
                               \/ heap[o].kind = "realtime" /\ ~heap'[o].ran
    <3>1. CASE heap'[o] = heap[o]
      BY <2>1, <2>3, <2>5, <3>1 DEF WorkerOK
    <3>2. ASSUME WorkStep(o), WorkerMoves(heap[o], heap'[o]) PROVE Rest
      BY <2>1, <3>2 DEF WorkerOK, WorkerMoves, WorkStep, Types
    <3>3. ASSUME Touched(o) PROVE Rest
      BY <2>1, <3>3 DEF WorkerOK, Touched
    <3>4. ASSUME Kept(o) PROVE Rest
      BY <2>1, <3>4, DefaultShape DEF WorkerOK, Kept, Types
    <3>5. ASSUME NEW c \in Clients, client[c].pc = "copy",
                 Started(client[c].ps, InfoFor(c)), client[c].ps = o
          PROVE  Rest
      <4>1. heap[o].worker = "none" /\ ~heap[o].ran
        BY <3>5 DEF CopiesOwn
      <4>2. InfoFor(c).status = "init" /\ InfoFor(c).stopTime = 0
        BY InfoShape DEF InfoFor
      <4>3. /\ heap'[o].worker = "begin" \/ heap'[o].worker = heap[o].worker
            /\ heap'[o].ran = heap[o].ran /\ heap'[o].info = InfoFor(c)
        BY <3>5 DEF Started
      <4> QED
        BY <4>1, <4>2, <4>3 DEF Types
    <3> HIDE DEF Rest
    <3>6. heap'[o] = heap[o] \/ Rest
      <4>1. \A p \in Streams : WorkStep(p) /\ p # o => heap'[o] = heap[o]
        BY <1>2 DEF WorkStep
      <4>2. \A p \in Streams : Touched(p) /\ p # o => heap'[o] = heap[o]
        BY <1>2 DEF Touched
      <4>3. ASSUME NEW c \in Clients, Started(client[c].ps, InfoFor(c)),
                   client[c].ps # o
            PROVE  heap'[o] = heap[o]
        BY <1>2, <4>3 DEF Started
      <4> QED
        BY <1>2, <3>2, <3>3, <3>4, <3>5, <4>1, <4>2, <4>3, HeapSteps
           DEF LetsGo, Creates
    <3> QED
      BY <2>1, <2>3, <2>5, <3>1, <3>6 DEF WorkerOK, Rest
  <2> QED
    BY <2>4, <2>5
<1>3. CASE o \notin Streams
  <2>1. ~(DOMAIN heap' = DOMAIN heap)
    BY <1>3 DEF Streams
  <2>2. \E c \in Clients : client[c].pc = "create" /\ Creates(c)
    BY <2>1, HeapSteps DEF WorkStep, Touched, LetsGo, Started
  <2> QED
    BY <1>1, <1>3, <2>2
<1> QED
  BY <1>2, <1>3

-----------------------------------------------------------------------------
(* Infos.                                                                  *)

(* Numbers have a least one.                                               *)
LEMMA LeastOf ==
  ASSUME NEW T, T \subseteq Nat, T # {}
  PROVE  \E x \in T : \A y \in T : x <= y
<1> DEFINE R == {ss \in Nat \X Nat : ss[1] < ss[2]}
<1>1. IsWellFoundedOn(R, Nat)
  BY NatLessThanWellFounded DEF OpToRel
<1>2. PICK x \in T : \A y \in T : ~(<<y, x>> \in R)
  <2> HIDE DEF R
  <2> QED
    BY <1>1, WFMin
<1>3. ASSUME NEW y \in T PROVE x <= y
  <2>1. x \in Nat /\ y \in Nat
    OBVIOUS
  <2>2. y < x => <<y, x>> \in R
    BY <2>1
  <2> QED
    BY <1>2, <2>1, <2>2
<1> QED
  BY <1>3

(* Of the integers of an array one is as great as any.                     *)
LEMMA GreatestOf ==
  ASSUME NEW n \in Nat \ {0}, NEW v \in [1..n -> Int]
  PROVE  \E k \in 1..n : \A j \in 1..n : v[j] <= v[k]
<1> DEFINE D == 1..n
           B == [k \in D |-> {j \in D : v[j] > v[k]}]
           W == {B[k] : k \in D}
<1>1. IsFiniteSet(D)
  BY FS_Interval
<1>2. W \subseteq SUBSET D /\ W # {}
  <2>1. 1 \in D
    OBVIOUS
  <2>2. \A k \in D : B[k] \subseteq D
    OBVIOUS
  <2> HIDE DEF B, D
  <2> QED
    BY <2>1, <2>2
<1>3. W \subseteq FiniteSubsetsOf(D)
  BY <1>1, <1>2, FS_FiniteSubsetsOfFinite
<1>4. PICK T \in W : \A U \in W : ~(<<U, T>> \in StrictSubsetOrdering(D))
  <2> HIDE DEF W, D
  <2> QED
    BY <1>2, <1>3, FS_StrictSubsetOrderingWellFounded, WFMin
<1>5. PICK k \in D : T = B[k]
  OBVIOUS
<1>6. ASSUME NEW j \in D, v[j] > v[k] PROVE FALSE
  <2>1. B[j] \subseteq B[k] /\ j \in B[k] /\ j \notin B[j]
    <3>1. \A i \in D : v[i] \in Int
      OBVIOUS
    <3> HIDE DEF D
    <3> QED
      BY <1>6, <3>1
  <2>2. B[j] \in W /\ B[j] \in SUBSET D /\ B[k] \in SUBSET D
    OBVIOUS
  <2> HIDE DEF B, W, D
  <2>3. <<B[j], T>> \in StrictSubsetOrdering(D)
    BY <1>5, <2>1, <2>2 DEF StrictSubsetOrdering
  <2> QED
    BY <1>4, <2>2, <2>3
<1>7. \A j \in D : v[j] <= v[k]
  <2>1. \A i \in D : v[i] \in Int
    OBVIOUS
  <2> HIDE DEF D
  <2> QED
    BY <1>6, <2>1
<1> QED
  BY <1>7

(* Of the files in the list the last is shown, which of the files asked for *)
(* is the first of those with the highest index.                           *)
LEMMA LastIsShown ==
  ASSUME NEW b, IsArray(b.files.value), Indices(b) \subseteq Int
  PROVE  ShownFile(FileList(b)) = AskedFile(b)
<1> DEFINE given == b.files.value
           n == Len(given)
           v == [k \in 1..n |-> given[k].index.value]
<1>1. n \in Nat /\ DOMAIN given = 1..n
  BY ArrayIs
<1>2. v \in [1..n -> Int] /\ Indices(b) = {v[k] : k \in 1..n}
  <2>1. Indices(b) = {f.index.value : f \in {given[k] : k \in 1..n}}
    BY <1>1 DEF Indices, Range
  <2>2. \A i \in Indices(b) : \E k \in 1..n : i = given[k].index.value
    BY <2>1
  <2>3. \A k \in 1..n : given[k].index.value \in Indices(b)
    BY <2>1
  <2> QED
    BY <2>2, <2>3
<1>3. DOMAIN FileList(b) = Indices(b)
  BY DEF FileList
<1>4. CASE n = 0
  <2>1. given = <<>> /\ DOMAIN FileList(b) = {}
    BY <1>1, <1>2, <1>3, <1>4, EmptySeq DEF IsArray
  <2> QED
    BY <2>1 DEF ShownFile, AskedFile
<1>5. CASE n # 0
  <2>1. given # <<>> /\ n \in Nat \ {0}
    BY <1>1, <1>5
  <2>2. PICK h \in 1..n : \A j \in 1..n : v[j] <= v[h]
    <3> HIDE DEF n, v
    <3> QED
      BY <1>2, <2>1, GreatestOf
  <2> DEFINE m == v[h]
             E == {k \in 1..n : v[k] = m}
  <2>3. PICK l \in E : \A k \in E : l <= k
    <3>1. E \subseteq Nat /\ h \in E
      OBVIOUS
    <3> HIDE DEF E
    <3> QED
      BY <3>1, LeastOf
  <2>4. Max(DOMAIN FileList(b)) = m
    <3> HIDE DEF v
    <3>1. m \in Indices(b) /\ Indices(b) \subseteq Int
      BY <1>2
    <3>2. \A i \in Indices(b) : m >= i
      BY <1>2, <2>2
    <3>3. \A x \in Indices(b) : (\A i \in Indices(b) : x >= i) => x = m
      BY <3>1, <3>2
    <3> HIDE DEF m
    <3>4. Max(Indices(b)) \in Indices(b)
            /\ \A i \in Indices(b) : Max(Indices(b)) >= i
      BY <3>1, <3>2 DEF Max
    <3> QED
      BY <1>3, <3>3, <3>4
  <2> DEFINE First(k) == /\ given[k].index.value = m
                         /\ \A j \in DOMAIN given :
                              given[j].index.value = m => k <= j
             Top(i) == \A j \in DOMAIN given :
                         \/ given[j].index.value < given[i].index.value
                         \/ /\ given[j].index.value = given[i].index.value
                            /\ i <= j
  <2>5. /\ l \in DOMAIN given /\ First(l)
        /\ \A k \in DOMAIN given : First(k) => k = l
    <3>1. /\ \A j \in 1..n : v[j] = given[j].index.value
          /\ l \in 1..n /\ v[l] = m
          /\ \A k \in 1..n : v[k] = m => l <= k
      BY <2>3
    <3> HIDE DEF v, m
    <3> QED
      BY <1>1, <3>1
  <2>6. Top(l) /\ \A i \in DOMAIN given : Top(i) => i = l
    <3>1. /\ \A j \in 1..n : v[j] = given[j].index.value /\ v[j] \in Int
          /\ v[l] = m
      BY <1>2, <2>3
    <3>2. \A j \in 1..n : v[j] < m \/ (v[j] = m /\ l <= j)
      <4>1. \A k \in 1..n : v[k] = m => l <= k
        BY <2>3
      <4> HIDE DEF v
      <4> QED
        BY <2>2, <3>1, <4>1
    <3> HIDE DEF v
    <3>3. Top(l)
      BY <1>1, <2>5, <3>1, <3>2
    <3>4. ASSUME NEW i \in DOMAIN given, Top(i) PROVE i = l
      <4>1. v[l] < v[i] \/ (v[l] = v[i] /\ i <= l)
        BY <1>1, <2>5, <3>1, <3>4
      <4>2. v[i] < m \/ (v[i] = m /\ l <= i)
        BY <1>1, <3>2, <3>4
      <4> QED
        BY <1>1, <2>5, <3>1, <3>4, <4>1, <4>2
    <3> QED
      BY <3>3, <3>4
  <2>7. (CHOOSE k \in DOMAIN given : First(k)) = l
    <3> HIDE DEF First
    <3> QED
      BY <2>5
  <2>8. (CHOOSE i \in DOMAIN given : Top(i)) = l
    <3> HIDE DEF Top
    <3> QED
      BY <2>5, <2>6
  <2>9. FileList(b)[m] = FileOf(given[l])
    <3>1. m \in Indices(b)
      BY <1>2
    <3>2. FileList(b)[m] = FileOf(given[CHOOSE k \in DOMAIN given : First(k)])
      <4> HIDE DEF m
      <4> QED
        BY <3>1 DEF FileList
    <3> QED
      BY <2>7, <3>2
  <2>10. DOMAIN FileList(b) # {}
    BY <1>2, <1>3
  <2>11. ShownFile(FileList(b)) = <<FileOf(given[l])>>
    BY <2>4, <2>9, <2>10 DEF ShownFile
  <2>12. AskedFile(b) = <<FileOf(given[CHOOSE i \in DOMAIN given : Top(i)])>>
    BY <2>1 DEF AskedFile, FileOf
  <2> QED
    BY <2>8, <2>11, <2>12
<1> QED
  BY <1>4, <1>5

(* What start() makes of a request shows what the request asks for.        *)
LEMMA InfoShowsAsked ==
  ASSUME Types, WritersApart, CopiesOwn, NEW c \in Clients,
         client[c].pc = "copy"
  PROVE  /\ Shown(InfoFor(c)) = Asked(client[c].ps)
         /\ AskedOf(client[c].ps) = Request(c).body
         /\ heap[client[c].ps].asked.json = client[c].json
<1> DEFINE b == Request(c).body
           j == client[c].json
<1>0. PICK o : o = client[c].ps
  OBVIOUS
<1>1. /\ heap[o].kind = Request(c).kind /\ Request(c).kind \in Kinds
      /\ Request(c).path = "start"
  BY <1>0, OwnCopy
<1>2. heap[o].asked = [request |-> client[c].request, json |-> j]
  BY <1>0 DEF CopiesOwn
<1>3. AskedOf(o) = b /\ heap[o].asked.json = j
  BY <1>2 DEF AskedOf, Request
<1>4. CASE Request(c).kind = "file"
  <2> DEFINE f == FileInfo(j, b)
  <2>1. IsArray(b.files.value) /\ Indices(b) \subseteq Int
    BY <1>1, <1>4, ClientRequest
  <2>2. ShownFile(FileList(b)) = AskedFile(b)
    BY <2>1, LastIsShown
  <2>3. /\ f.id = b.id.value /\ f.url = b.url.value
        /\ f.source = DefaultInfo.source
        /\ f.files = FileList(b) /\ f.duration = Get(b, "duration", "int", 0)
        /\ f.cycle = Get(b, "cycle", "int", 0)
        /\ f.mode = Get(b, "mode", "int", 1)
    BY DefaultShape DEF FileInfo, InfoFields
  <2>4. InfoFor(c) = f
    BY <1>4 DEF InfoFor
  <2> HIDE DEF f
  <2>5. Shown(InfoFor(c)) = Asked(o)
    BY <1>1, <1>3, <1>4, <2>2, <2>3, <2>4 DEF Shown, Asked
  <2> QED
    BY <1>0, <1>3, <2>5
<1>5. CASE Request(c).kind # "file"
  <2> DEFINE r == RealtimeInfo(j, b)
  <2>1. /\ r.id = b.id.value /\ r.url = b.url.value
        /\ r.source = b.source.value /\ r.files = <<>>
        /\ r.duration = Get(b, "duration", "int", 0)
        /\ r.cycle = 0 /\ r.mode = 1
    BY DEF RealtimeInfo, DefaultInfo
  <2>2. InfoFor(c) = r
    BY <1>5 DEF InfoFor
  <2> HIDE DEF r
  <2>3. ShownFile(<<>>) = <<>>
    BY DEF ShownFile
  <2>4. Shown(InfoFor(c)) = Asked(o)
    BY <1>1, <1>3, <1>5, <2>1, <2>2, <2>3 DEF Shown, Asked
  <2> QED
    BY <1>0, <1>3, <2>4
<1> QED
  BY <1>4, <1>5

(* A stream that is still there stands for what it stood for.              *)
LEMMA AskedSame ==
  ASSUME Types, [Next]_vars, NEW o \in Streams, Live(o)'
  PROVE  /\ Live(o) /\ AskedOf(o)' = AskedOf(o) /\ Asked(o)' = Asked(o)
         /\ heap'[o].asked = heap[o].asked
<1>1. /\ Live(o) /\ heap'[o].asked = heap[o].asked /\ Requests' = Requests
      /\ heap'[o].kind = heap[o].kind
  BY LiveBack, TypesStep DEF SameStreams
<1>2. AskedOf(o)' = AskedOf(o)
  BY <1>1 DEF AskedOf
<1> QED
  BY <1>1, <1>2 DEF Asked

(* A stream that was not there before is as it is created.                 *)
LEMMA NewStreamIs ==
  ASSUME Types, [Next]_vars, NEW o \in Streams', o \notin Streams
  PROVE  /\ \E c \in Clients :
              /\ Creates(c) /\ client[c].pc = "create"
              /\ o = Len(heap) + 1
              /\ heap'[o].kind = Request(c).kind /\ heap'[o].id = IdOf(c)
         /\ heap'[o].info = DefaultInfo /\ heap'[o].worker = "none"
         /\ Streams = 1..(o - 1) /\ o \in Nat
<1>1. ~(DOMAIN heap' = DOMAIN heap)
  BY DEF Streams
<1>2. PICK c \in Clients : client[c].pc = "create" /\ Creates(c)
  BY <1>1, HeapSteps DEF WorkStep, Touched, LetsGo, Started
<1> DEFINE n == Len(heap) + 1
           new == NewStream(Request(c).kind, IdOf(c), client[c].request,
                            client[c].json)
<1>3. o = n /\ Streams = 1..(n - 1) /\ n \in Nat
  <2>1. Len(heap) \in Nat /\ Streams = 1..Len(heap)
    BY ArrayIs DEF Types, StreamsOK, Streams
  <2>2. o \in 1..n
    BY <1>2 DEF Creates, Streams
  <2> QED
    BY <2>1, <2>2
<1>4. /\ new.worker = "none" /\ new.info = DefaultInfo
      /\ new.kind = Request(c).kind /\ new.id = IdOf(c)
  BY DEF NewStream
<1>5. heap'[o] = new
  BY <1>2, <1>3 DEF Creates
<1> HIDE DEF new
<1> QED
  BY <1>2, <1>3, <1>4, <1>5

(* Infos show what was asked for.                                          *)
LEMMA InfosStep ==
  ASSUME Types, WritersApart, CopiesOwn, InfosAsAsked, [Next]_vars
  PROVE  InfosAsAsked'
<1> DEFINE Right(o) ==
      Shown(heap[o].info) \in {Asked(o), Shown(DefaultInfo)}
<1> SUFFICES ASSUME NEW o \in Streams', Live(o)'
             PROVE  Shown(heap'[o].info) \in {Asked(o)', Shown(DefaultInfo)}
  BY DEF InfosAsAsked
<1>1. CASE o \notin Streams
  BY <1>1, NewStreamIs
<1>2. CASE o \in Streams
  <2>1. Live(o) /\ Asked(o)' = Asked(o)
    BY <1>2, AskedSame
  <2>2. Right(o)
    BY <1>2, <2>1 DEF InfosAsAsked
  <2> DEFINE Still == Shown(heap'[o].info) = Shown(heap[o].info)
  <2>3. ASSUME NEW i, NEW k, SameGiven(i, k) PROVE Shown(i) = Shown(k)
    BY <2>3 DEF SameGiven, Shown, InfoFields
  <2>4. ASSUME NEW p \in Streams, WorkStep(p) \/ Touched(p)
        PROVE  Still
    <3>1. p # o => heap'[o] = heap[o]
      BY <1>2, <2>4 DEF WorkStep, Touched
    <3>2. p = o => SameGiven(heap'[o].info, heap[o].info)
      BY <2>4 DEF WorkStep, Touched
    <3> QED
      BY <2>3, <3>1, <3>2
  <2>5. Kept(o) => Still
    BY DEF Kept
  <2>6. ASSUME NEW c \in Clients, Started(client[c].ps, InfoFor(c)),
               client[c].pc = "copy"
        PROVE  Still \/ Shown(heap'[o].info) = Asked(o)
    <3>1. client[c].ps # o => heap'[o] = heap[o]
      BY <1>2, <2>6 DEF Started
    <3>2. client[c].ps = o => heap'[o].info = InfoFor(c)
      BY <2>6 DEF Started
    <3> QED
      BY <2>6, <3>1, <3>2, InfoShowsAsked
  <2>7. Still \/ Shown(heap'[o].info) = Asked(o)
    <3>1. UNCHANGED heap => Still
      OBVIOUS
    <3> HIDE DEF Still
    <3> QED
      BY <1>2, <2>4, <2>5, <2>6, <3>1, HeapSteps DEF LetsGo, Creates
  <2> QED
    BY <2>1, <2>2, <2>7
<1> QED
  BY <1>1, <1>2

(* The callbacks of an info that start() makes are those asked for.        *)
LEMMA InfoCallsAsked ==
  ASSUME Types, WritersApart, CopiesOwn, NEW c \in Clients,
         client[c].pc = "copy", NEW k \in Callbacks, InfoFor(c).enable[k]
  PROVE  CallbackAsAsked(client[c].ps, k, InfoFor(c).callback[k])
<1> DEFINE b == Request(c).body
           j == client[c].json
           f == FileInfo(j, b)
           r == RealtimeInfo(j, b)
<1>0. PICK o : o = client[c].ps
  OBVIOUS
<1>1. AskedOf(o) = b /\ heap[o].asked.json = j
  BY <1>0, InfoShowsAsked
<1>2. k \in {"process", "filestart", "stop"}
  BY DEF Callbacks
<1>3. CASE Request(c).kind = "file"
  <2>1. InfoFor(c) = f
    BY <1>3 DEF InfoFor
  <2>2. /\ f.callback = CallbackUrls(j, b, Callbacks)
        /\ f.enable = FileCallbacks(b)
    BY DefaultShape DEF FileInfo, InfoFields
  <2>3. f.callback[k] =
          Get(b, UrlMember[k], "string", getStringParam(j, k, ""))
    BY <2>2, Zenon DEF CallbackUrls
  <2>4. FileCallbacks(b)[k]
    BY <2>1, <2>2
  <2>5. /\ FileCallbacks(b)["process"] =
             Get(b, "enableProcessCb", "bool", FALSE)
        /\ FileCallbacks(b)["filestart"] =
             Get(b, "enableFileStartCb", "bool", FALSE)
        /\ FileCallbacks(b)["stop"] = Get(b, "enableStopCb", "bool", TRUE)
    BY DEF FileCallbacks
  <2> HIDE DEF f
  <2>6. CallbackAsAsked(o, k, InfoFor(c).callback[k])
    BY <1>1, <2>1, <2>3, <2>4, <2>5, Zenon DEF CallbackAsAsked
  <2> QED
    BY <1>0, <2>6
<1>4. CASE Request(c).kind # "file"
  <2>1. InfoFor(c) = r
    BY <1>4 DEF InfoFor
  <2> DEFINE stop == Get(b, "enableStopCb", "bool", TRUE)
  <2>2. /\ r.callback = CallbackUrls(j, b, {"process", "stop"})
        /\ ~r.enable["process"] /\ ~r.enable["filestart"]
        /\ r.enable["stop"] = stop
    <3> DEFINE e == DefaultInfo.enable
    <3>1. e = [process |-> FALSE, filestart |-> FALSE, stop |-> TRUE]
      BY Zenon DEF DefaultInfo
    <3>2. /\ DOMAIN e = {"process", "filestart", "stop"}
          /\ ~e["process"] /\ ~e["filestart"]
      BY <3>1
    <3> HIDE DEF stop, e
    <3>3. /\ r.callback = CallbackUrls(j, b, {"process", "stop"})
          /\ r.enable = [e EXCEPT !["stop"] = stop]
      BY DefaultShape DEF RealtimeInfo, InfoFields, stop, e
    <3> HIDE DEF r
    <3>4. /\ ~[e EXCEPT !["stop"] = stop]["process"]
          /\ ~[e EXCEPT !["stop"] = stop]["filestart"]
          /\ [e EXCEPT !["stop"] = stop]["stop"] = stop
      BY <3>2, Zenon
    <3> QED
      BY <3>3, <3>4, Zenon
  <2> HIDE DEF stop
  <2>3. k = "stop" /\ stop
    BY <1>2, <2>1, <2>2, Zenon
  <2>4. r.callback[k] =
          Get(b, UrlMember[k], "string", getStringParam(j, k, ""))
    BY <2>2, <2>3, Zenon DEF CallbackUrls
  <2> HIDE DEF r
  <2>5. CallbackAsAsked(o, k, InfoFor(c).callback[k])
    <3>1. k # "process" /\ k # "filestart"
      BY <2>3
    <3> QED
      BY <1>1, <2>1, <2>3, <2>4, <3>1, Zenon DEF CallbackAsAsked, stop
  <2> QED
    BY <1>0, <2>5
<1> QED
  BY <1>3, <1>4

(* What a stream sends, and when.                                          *)
LEMMA SentSteps ==
  ASSUME Types, [Next]_vars
  PROVE  \/ sent' = sent \/ sent' = {}
         \/ \E o \in Streams : \E k \in Callbacks :
              Send(o, k) /\ heap[o].worker # "none"
<1>1. CASE UNCHANGED vars \/ Reload \/ Tick
  BY <1>1 DEF vars, Reload, Tick
<1>2. ASSUME NEW c \in Clients, Handle(c) PROVE sent' = sent
  <2>1. FindForStart(c) \/ FindForStop(c) \/ Command(c) => sent' = sent
    BY DEF FindForStart, FindForStop, Command
  <2>2. Join(c) \/ Stopped(c) \/ CreateStream(c) => sent' = sent
    BY DEF Join, Stopped, CreateStream
  <2>3. StartFile(c) \/ StartRealtime(c) \/ GetAllStream(c) \/ GetNext(c)
        => sent' = sent
    BY DEF StartFile, StartRealtime, GetAllStream, GetNext
  <2>4. Undefined(c) \/ Answered(c) => sent' = sent
    BY DEF Undefined, Answered
  <2>5. Read(c) => sent' = sent
    BY Zenon DEF Read
  <2>6. Receive(c) => sent' = sent
    BY DEF Receive
  <2> QED
    BY <1>2, <2>1, <2>2, <2>3, <2>4, <2>5, <2>6 DEF Handle
<1>3. ASSUME NEW o \in Streams, Work(o)
      PROVE  \/ sent' = {}
             \/ \E k \in Callbacks : Send(o, k) /\ heap[o].worker # "none"
  <2>1. Begins(o) \/ OpenFails(o) \/ OpensBoth(o) \/ Pauses(o) => sent' = {}
    BY DEF Begins, OpenFails, OpensBoth, Pauses
  <2>2. LoopEnds(o) \/ LoopFails(o) \/ SetStopTime(o) => sent' = {}
    BY DEF LoopEnds, LoopFails, SetStopTime
  <2>3. SetStopped(o) \/ SetFailed(o) => sent' = {}
    BY DEF SetStopped, SetFailed
  <2>4. ReportProcess(o) => Send(o, "process")
    BY DEF ReportProcess
  <2>5. ReportFileStart(o) => Send(o, "filestart")
    BY DEF ReportFileStart
  <2>6. ReportStop(o) => Send(o, "stop") \/ sent' = {}
    BY DEF ReportStop
  <2>7. heap[o].worker # "none"
    BY <1>3, WorkSteps DEF Types, WorkStep
  <2> QED
    BY <1>3, <2>1, <2>2, <2>3, <2>4, <2>5, <2>6, <2>7 DEF Work, Callbacks
<1>4. ASSUME NEW o \in Streams, Collect(o) PROVE sent' = sent
  BY <1>4 DEF Collect
<1> QED
  BY <1>1, <1>2, <1>3, <1>4 DEF Next

(* Callbacks go where they were asked for.                                 *)
LEMMA CallbacksStep ==
  ASSUME Types, WritersApart, CopiesOwn, WorkersOK, CallbacksAsAsked,
         [Next]_vars
  PROVE  CallbacksAsAsked'
<1>1. WorkersOK' /\ SameStreams
  BY WorkersStep, TypesStep
<1>2. ASSUME NEW o \in Streams, Live(o)', NEW k, NEW u,
             CallbackAsAsked(o, k, u)
      PROVE  CallbackAsAsked(o, k, u)'
  <2>1. AskedOf(o)' = AskedOf(o) /\ heap'[o].asked = heap[o].asked
    BY <1>2, AskedSame
  <2> QED
    BY <1>2, <2>1, Zenon DEF CallbackAsAsked
<1>3. ASSUME NEW o \in Streams', heap'[o].worker # "none",
             NEW k \in Callbacks, heap'[o].info.enable[k]
      PROVE  CallbackAsAsked(o, k, heap[o].info.callback[k])'
  <2>1. o \in Streams
    BY <1>3, NewStreamIs
  <2>2. Live(o)'
    BY <1>1, <1>3 DEF WorkersOK
  <2> DEFINE Given(i) == i.enable[k] =>
                           CallbackAsAsked(o, k, i.callback[k])
  <2>3. heap[o].worker # "none" => Given(heap[o].info)
    BY <2>1 DEF CallbacksAsAsked
  <2>4. ASSUME NEW i, SameGiven(i, heap[o].info), heap[o].worker # "none"
        PROVE  Given(i)
    <3>1. i.enable = heap[o].info.enable /\ i.callback = heap[o].info.callback
      BY <2>4 DEF SameGiven, InfoFields
    <3> QED
      BY <2>3, <2>4, <3>1
  <2>5. ASSUME NEW p \in Streams, WorkStep(p) \/ Touched(p)
        PROVE  Given(heap'[o].info)
    <3>1. p # o => heap'[o] = heap[o]
      BY <2>1, <2>5 DEF WorkStep, Touched
    <3>2. p = o => /\ SameGiven(heap'[o].info, heap[o].info)
                   /\ heap[o].worker # "none"
      BY <1>3, <2>5 DEF WorkStep, Touched
    <3> HIDE DEF Given
    <3> QED
      BY <1>3, <2>3, <2>4, <3>1, <3>2
  <2>6. Kept(o) => Given(heap'[o].info)
    <3>1. Kept(o) => /\ heap'[o].info = heap[o].info
                     /\ heap'[o].worker = heap[o].worker
      BY <2>2 DEF Kept
    <3> HIDE DEF Given
    <3> QED
      BY <1>3, <2>3, <3>1
  <2>7. ASSUME NEW c \in Clients, Started(client[c].ps, InfoFor(c)),
               client[c].pc = "copy"
        PROVE  Given(heap'[o].info)
    <3>1. client[c].ps # o => heap'[o] = heap[o]
      BY <2>1, <2>7 DEF Started
    <3>2. client[c].ps = o => heap'[o].info = InfoFor(c)
      BY <2>7 DEF Started
    <3>3. client[c].ps = o => Given(InfoFor(c))
      BY <2>7, InfoCallsAsked
    <3> HIDE DEF Given
    <3> QED
      BY <1>3, <2>3, <3>1, <3>2, <3>3
  <2>8. Given(heap'[o].info)
    <3>1. UNCHANGED heap => Given(heap'[o].info)
      BY <1>3, <2>3
    <3> HIDE DEF Given
    <3> QED
      BY <2>1, <2>5, <2>6, <2>7, <3>1, HeapSteps DEF LetsGo, Creates
  <2>9. CallbackAsAsked(o, k, heap'[o].info.callback[k])
    BY <1>3, <2>8
  <2> PICK u : u = heap'[o].info.callback[k]
    OBVIOUS
  <2>10. CallbackAsAsked(o, k, u)'
    BY <1>2, <2>1, <2>2, <2>9
  <2> QED
    BY <2>10
<1>4. ASSUME NEW m \in sent'
      PROVE  /\ m.stream \in Streams /\ m.callback \in Callbacks
             /\ Live(m.stream)' =>
                  CallbackAsAsked(m.stream, m.callback, m.url)
  <2>1. CASE sent' = sent
    <3>1. /\ m.stream \in Streams /\ m.callback \in Callbacks
          /\ Live(m.stream) => CallbackAsAsked(m.stream, m.callback, m.url)
      BY <1>4, <2>1 DEF CallbacksAsAsked
    <3> QED
      BY <3>1, LiveBack
  <2>2. ASSUME NEW o \in Streams, NEW k \in Callbacks, Send(o, k),
               heap[o].worker # "none"
        PROVE  /\ m.stream \in Streams /\ m.callback \in Callbacks
               /\ CallbackAsAsked(m.stream, m.callback, m.url)
    <3>1. /\ m.stream = o /\ m.callback = k
          /\ m.url = heap[o].info.callback[k] /\ heap[o].info.enable[k]
      BY <1>4, <2>2 DEF Send
    <3> QED
      BY <2>2, <3>1 DEF CallbacksAsAsked
  <2> QED
    BY <1>4, <2>1, <2>2, SentSteps
<1>5. ASSUME NEW m \in sent'
      PROVE  /\ m.stream \in Streams' /\ m.callback \in Callbacks
             /\ Live(m.stream)' =>
                  CallbackAsAsked(m.stream, m.callback, m.url)'
  BY <1>1, <1>2, <1>4, <1>5 DEF SameStreams
<1> QED
  BY <1>3, <1>5 DEF CallbacksAsAsked

-----------------------------------------------------------------------------
(* What queries have found.                                                *)

(* What a query has found stays what it was, and what it finds is in a map. *)
LEMMA EntriesSteps ==
  ASSUME Types, [Next]_vars, NEW c \in Clients,
         NEW k \in DOMAIN client'[c].entries
  PROVE  \/ /\ k \in DOMAIN client[c].entries
            /\ client'[c].entries[k] = client[c].entries[k]
         \/ /\ UNCHANGED <<heap, m_streams, now>>
            /\ \E o \in Streams :
                 InMap(o) /\ client'[c].entries[k] = Entry(o)
<1> DEFINE s == client[c]
           t == client'[c]
<1>0. IsArray(s.entries) /\ s.left \in Seq(Id)
  BY DEF Types, QueriesOK, QueryOK
<1>1. CASE t.entries = s.entries
  BY <1>1
<1>2. CASE t.entries = <<>>
  BY <1>2
<1>3. CASE Fetching(c)
  <2> DEFINE kind == Request(c).kind
             here == Present(kind)
  <2>1. kind \in Kinds /\ UNCHANGED <<heap, m_streams, now>>
    BY <1>3, ClientRequest DEF Fetching
  <2>2. ASSUME NEW id \in Id, m_streams[kind][id] # 0
        PROVE  \E o \in Streams : o = m_streams[kind][id] /\ InMap(o)
    <3>1. /\ m_streams[kind][id] \in Streams
          /\ heap[m_streams[kind][id]].kind = kind
          /\ heap[m_streams[kind][id]].id = id
      BY <2>1, <2>2 DEF Types, MapsOK
    <3> QED
      BY <3>1 DEF InMap
  <2>3. ASSUME NEW ids \in Bijection(1..Cardinality(here), here),
               t.entries = [j \in DOMAIN ids |->
                              Entry(m_streams[kind][ids[j]])]
        PROVE  \E o \in Streams : InMap(o) /\ t.entries[k] = Entry(o)
    <3>1. ids \in [1..Cardinality(here) -> here]
      BY <2>3 DEF Bijection, Injection
    <3>2. k \in DOMAIN ids /\ t.entries[k] = Entry(m_streams[kind][ids[k]])
      BY <2>3
    <3>3. ids[k] \in Id /\ m_streams[kind][ids[k]] # 0
      BY <2>1, <3>1, <3>2, PresentIsFinite DEF Present
    <3> QED
      BY <2>2, <3>2, <3>3
  <2>4. ASSUME s.left # <<>>, NEW o, o = m_streams[kind][Head(s.left)],
               o # 0, t.entries = Append(s.entries, Entry(o))
        PROVE  \/ /\ k \in DOMAIN s.entries
                  /\ t.entries[k] = s.entries[k]
               \/ o \in Streams /\ InMap(o) /\ t.entries[k] = Entry(o)
    <3> PICK e : e = Entry(o)
      OBVIOUS
    <3>1. /\ DOMAIN t.entries = 1..(Len(s.entries) + 1)
          /\ t.entries[Len(s.entries) + 1] = e
          /\ \A i \in DOMAIN s.entries : t.entries[i] = s.entries[i]
          /\ DOMAIN s.entries = 1..Len(s.entries) /\ Len(s.entries) \in Nat
      BY <1>0, <2>4, ArrayAppend, ArrayIs
    <3>2. k \in DOMAIN s.entries \/ k = Len(s.entries) + 1
      BY <3>1
    <3>3. Head(s.left) \in Id
      BY <1>0, <2>4, TailOf
    <3> QED
      BY <2>2, <2>4, <3>1, <3>2, <3>3
  <2> QED
    BY <1>1, <1>3, <2>1, <2>3, <2>4 DEF Fetching
<1>4. Leaves(c) => t.entries = <<>>
  BY DEF Leaves, Idle
<1>5. \A r \in DOMAIN Requests : Receives(c, r) => t.entries = <<>>
  BY DEF Receives
<1>6. Writing(c) => t.entries = s.entries
  BY DEF Writing, ClientFields
<1>7. Shows(c) => t.entries = s.entries
  <2>1. Shows(c) => \A f \in ClientFields \ {"k", "field", "shown"} :
                      t[f] = s[f]
    BY Zenon DEF Shows
  <2> QED
    BY <2>1 DEF ClientFields
<1>8. SameClient(c) => t.entries = s.entries
  BY ClientParts
<1> QED
  BY <1>1, <1>2, <1>3, <1>4, <1>5, <1>6, <1>7, <1>8, ClientSteps
     DEF ClientMoves

(* A stream that was found and is kept is kept on until its time is over.   *)
LEMMA StaysOn ==
  ASSUME Types, WritersApart, CopiesOwn, WorkersOK, [Next]_vars,
         NEW o \in Streams, NEW u \in Nat, Lasts(o, u)
  PROVE  Lasts(o, u)'
<1> DEFINE s == heap[o]
           t == heap'[o]
<1>0. /\ SameStreams /\ o \in Streams' /\ t.kind = s.kind /\ t.id = s.id
      /\ s.kind \in Kinds /\ s.id \in Id /\ o # 0 /\ o \in Nat
      /\ Streams = 1..Len(heap) /\ Len(heap) \in Nat
      /\ m_streams \in [Kinds -> [Id -> Nat]] /\ now \in Nat \ {0}
      /\ s.info.stopTime \in Nat /\ s.info.stopTime <= now
      /\ now' \in {now, now + 1} /\ streamReleaseTime \in Nat
  <2>1. o # 0 /\ o \in Nat /\ Streams = 1..Len(heap) /\ Len(heap) \in Nat
    BY ArrayIs DEF Types, StreamsOK, Streams
  <2> QED
    BY <2>1, TypesStep, HeapSteps, InterfaceAssumption
       DEF Types, StreamsOK, MapsOK, SameStreams, WorkersOK
<1>1. CASE Renewed(o)
  <2>1. PICK p \in Streams :
          p > o /\ heap[p].kind = s.kind /\ heap[p].id = s.id
    BY <1>1 DEF Renewed
  <2>2. /\ p \in Streams' /\ heap'[p].kind = t.kind /\ heap'[p].id = t.id
    BY <1>0, <2>1 DEF SameStreams
  <2> QED
    BY <2>1, <2>2 DEF Renewed, Lasts
<1>2. WorkerOK(o)
  BY DEF WorkersOK, WorkerOK
<1>3. CASE Unbegun(o)
  <2>1. s.kind = "realtime" /\ ~s.ran
    BY <1>3 DEF Unbegun
  <2>2. s.worker \in {"none", "reporting", "done"}
    BY <1>2, <1>3 DEF Unbegun, WorkerOK
  <2>3. Live(o)' => s.worker \in {"reporting", "done"}
    BY <1>3, LiveBack DEF Unbegun
  <2> DEFINE Good == ~t.ran /\ (Live(o)' => t.worker \in {"reporting", "done"})
  <2>4. ASSUME NEW p \in Streams, WorkStep(p), WorkerMoves(heap[p], heap'[p])
        PROVE  Good
    <3>1. p # o => t = s
      BY <2>4 DEF WorkStep
    <3>2. p = o => t.ran = s.ran /\ t.worker = "done"
      BY <2>2, <2>4 DEF WorkStep, WorkerMoves
    <3> QED
      BY <2>1, <2>3, <3>1, <3>2
  <2>5. ASSUME NEW p \in Streams, Touched(p) PROVE Good
    <3>1. t.ran = s.ran /\ t.worker = s.worker
      BY <2>5 DEF Touched
    <3> QED
      BY <2>1, <2>3, <3>1
  <2>6. ASSUME Kept(o) PROVE Good
    BY <2>1, <2>3, <2>6 DEF Kept
  <2>7. ASSUME NEW c \in Clients, Started(client[c].ps, InfoFor(c)),
               client[c].pc = "copy"
        PROVE  Good
    <3>1. client[c].ps # o
      BY <1>3, <2>7 DEF Unbegun, CopiesOwn, Live
    <3>2. t = s
      BY <2>7, <3>1 DEF Started
    <3> QED
      BY <2>1, <2>3, <3>2
  <2>8. Good
    <3>1. UNCHANGED heap => Good
      BY <2>1, <2>3
    <3> HIDE DEF Good
    <3> QED
      BY <2>4, <2>5, <2>6, <2>7, <3>1, HeapSteps DEF LetsGo, Creates
  <2> QED
    BY <1>0, <2>1, <2>8 DEF Lasts, Unbegun
<1>4. CASE now > u
  BY <1>0, <1>4 DEF Lasts
<1>5. CASE KeptFor(o, u)
  <2> DEFINE There == m_streams'[s.kind][s.id] = o
             Long == u <= KeptUntil(o)'
  <2>0. /\ InMap(o) /\ u <= KeptUntil(o)
        /\ s.info.stopTime # 0 \/ s.info.status # "stopped"
    BY <1>5 DEF KeptFor
  <2>1. There <=> InMap(o)'
    BY <1>0 DEF InMap
  <2>2. There => Live(o)'
    BY <2>1 DEF Live
  <2>3. There /\ t.info.stopTime \in {s.info.stopTime, now, 0}
          /\ (t.info.stopTime # 0 \/ t.info.status # "stopped")
        => Lasts(o, u)'
    <3>1. u <= now + streamReleaseTime
      BY <1>0, <2>0 DEF KeptUntil
    <3>2. ASSUME t.info.stopTime = s.info.stopTime PROVE Long
      <4>1. CASE s.info.stopTime # 0
        <5>1. KeptUntil(o)' = KeptUntil(o)
          BY <3>2, <4>1 DEF KeptUntil
        <5> QED
          BY <2>0, <5>1
      <4>2. CASE s.info.stopTime = 0
        <5>1. KeptUntil(o)' = now' + streamReleaseTime
          BY <3>2, <4>2 DEF KeptUntil
        <5>2. now \in Nat /\ streamReleaseTime \in Nat
          BY <1>0
        <5>3. now' = now \/ now' = now + 1
          BY <1>0
        <5>4. u <= now' + streamReleaseTime
          BY ONLY <3>1, <5>2, <5>3, u \in Nat
        <5> QED
          BY <5>1, <5>4
      <4> QED
        BY <4>1, <4>2
    <3>3. t.info.stopTime = now => Long
      BY <1>0, <3>1 DEF KeptUntil
    <3>4. ASSUME t.info.stopTime = 0 PROVE Long
      <4>1. KeptUntil(o)' = now' + streamReleaseTime
        BY <3>4 DEF KeptUntil
      <4>2. now \in Nat /\ streamReleaseTime \in Nat
        BY <1>0
      <4>3. now' = now \/ now' = now + 1
        BY <1>0
      <4>4. u <= now' + streamReleaseTime
        BY ONLY <3>1, <4>2, <4>3, u \in Nat
      <4> QED
        BY <4>1, <4>4
    <3> QED
      BY <2>1, <3>2, <3>3, <3>4 DEF Lasts, KeptFor
  <2>4. There /\ t.info.status = s.info.status
          /\ t.info.stopTime = s.info.stopTime
        => Lasts(o, u)'
    BY <2>0, <2>3
  <2>5. There /\ Kept(o) => Lasts(o, u)'
    BY <2>2, <2>4 DEF Kept
  <2>6. UNCHANGED m_streams => There
    BY <2>0 DEF InMap
  <2>8. ASSUME NEW p \in Streams, WorkStep(p), WorkerMoves(heap[p], heap'[p])
        PROVE  Lasts(o, u)'
    <3>1. There
      BY <2>6, <2>8 DEF WorkStep
    <3>2. CASE p # o
      BY <2>4, <2>8, <3>1, <3>2 DEF WorkStep
    <3>3. CASE s.worker = "failed" /\ p = o
      <4>1. /\ t.ran = s.ran /\ t.worker = "reporting" /\ ~s.ran
            /\ s.kind = "realtime"
        BY <1>2, <2>8, <3>3 DEF WorkerMoves, WorkerOK
      <4> QED
        BY <1>0, <4>1 DEF Lasts, Unbegun
    <3>4. CASE s.worker # "failed" /\ p = o
      <4>1. t.info.stopTime \in {s.info.stopTime, now}
        BY <2>8, <3>4 DEF WorkerMoves
      <4>2. t.info.stopTime # 0 \/ t.info.status # "stopped"
        BY <1>0, <1>2, <2>0, <2>8, <3>4 DEF WorkerMoves, WorkerOK
      <4> QED
        BY <2>3, <3>1, <4>1, <4>2
    <3> QED
      BY <3>2, <3>3, <3>4
  <2>9. ASSUME NEW p \in Streams, Touched(p), UNCHANGED m_streams
        PROVE  Lasts(o, u)'
    BY <2>4, <2>6, <2>9 DEF Touched
  <2>10. ASSUME NEW p \in Streams, Kept(o), Due(p), InMap(p),
                m_streams' =
                  [m_streams EXCEPT ![heap[p].kind][heap[p].id] = 0]
         PROVE  Lasts(o, u)'
    <3>1. CASE p = o
      <4>1. now > u
        BY <1>0, <2>0, <2>10, <3>1 DEF Due, KeptUntil
      <4> QED
        BY <1>0, <4>1 DEF Lasts
    <3>2. CASE p # o
      <4>1. heap[p].kind # s.kind \/ heap[p].id # s.id
        BY <2>0, <2>10, <3>2 DEF InMap
      <4>2. There
        BY <1>0, <2>0, <2>10, <4>1 DEF InMap
      <4> QED
        BY <2>5, <2>10, <4>2
    <3> QED
      BY <3>1, <3>2
  <2>11. ASSUME NEW c \in Clients, client[c].pc = "create", Creates(c)
         PROVE  Lasts(o, u)'
    <3> DEFINE n == Len(heap) + 1
    <3>1. CASE Request(c).kind = s.kind /\ IdOf(c) = s.id
      <4> DEFINE new == NewStream(Request(c).kind, IdOf(c),
                                  client[c].request, client[c].json)
      <4>1. new.kind = s.kind /\ new.id = s.id
        BY <3>1 DEF NewStream
      <4>2. heap'[n] = new /\ n \in Streams' /\ n > o
        BY <1>0, <2>11 DEF Creates, Streams
      <4> HIDE DEF new
      <4>3. Renewed(o)'
        BY <1>0, <4>1, <4>2 DEF Renewed
      <4> QED
        BY <4>3 DEF Lasts
    <3>2. CASE ~(Request(c).kind = s.kind /\ IdOf(c) = s.id)
      <4>1. There
        BY <1>0, <2>0, <2>11, <3>2 DEF Creates, InMap
      <4> QED
        BY <2>5, <2>11, <4>1 DEF Creates
    <3> QED
      BY <3>1, <3>2
  <2>12. ASSUME NEW c \in Clients, UNCHANGED m_streams,
                Started(client[c].ps, InfoFor(c))
         PROVE  Lasts(o, u)'
    <3>1. CASE client[c].ps = o
      <4>1. /\ t.info = InfoFor(c) /\ InfoFor(c).status = "init"
            /\ InfoFor(c).stopTime = 0
        BY <2>12, <3>1, InfoShape DEF Started, InfoFor
      <4> QED
        BY <2>3, <2>6, <2>12, <4>1
    <3>2. CASE client[c].ps # o
      BY <2>4, <2>6, <2>12, <3>2 DEF Started
    <3> QED
      BY <3>1, <3>2
  <2>13. UNCHANGED <<heap, m_streams>> => Lasts(o, u)'
    BY <2>4, <2>6
  <2>14. Kept(o) /\ UNCHANGED m_streams => Lasts(o, u)'
    BY <2>5, <2>6
  <2> QED
    BY <2>8, <2>9, <2>10, <2>11, <2>12, <2>13, <2>14, HeapSteps DEF LetsGo
<1> QED
  BY <1>1, <1>3, <1>4, <1>5 DEF Lasts

(* What a query has found is there until its time is over, unless it was    *)
(* started anew or could not begin.                                         *)
LEMMA EntriesStep ==
  ASSUME Types, WritersApart, CopiesOwn, WorkersOK, EntriesKept, [Next]_vars
  PROVE  EntriesKept'
<1> SUFFICES ASSUME NEW c \in Clients, NEW k \in DOMAIN client'[c].entries,
                    NEW o, o = client'[c].entries[k].stream,
                    NEW u, u = client'[c].entries[k].until
             PROVE  u \in Nat /\ Lasts(o, u)'
  BY DEF EntriesKept
<1>1. CASE /\ k \in DOMAIN client[c].entries
           /\ client'[c].entries[k] = client[c].entries[k]
  <2>1. o \in Streams
    BY <1>1 DEF Types, QueriesOK, QueryOK
  <2>2. u \in Nat /\ Lasts(o, u)
    BY <1>1 DEF EntriesKept
  <2> QED
    BY <2>1, <2>2, StaysOn
<1>2. ASSUME UNCHANGED <<heap, m_streams, now>>, NEW p \in Streams,
             InMap(p), client'[c].entries[k] = Entry(p)
      PROVE  u \in Nat /\ Lasts(o, u)'
  <2>1. o = p /\ u = KeptUntil(p)
    BY <1>2 DEF Entry
  <2>2. /\ now \in Nat /\ streamReleaseTime \in Nat
        /\ heap[p].info.stopTime \in Nat
    BY <1>2, InterfaceAssumption DEF Types, StreamsOK
  <2>3. u \in Nat
    BY <2>1, <2>2 DEF KeptUntil
  <2>4. KeptUntil(p)' = u /\ InMap(p)'
    BY <1>2, <2>1 DEF KeptUntil, InMap
  <2>5. CASE heap[p].info.stopTime # 0 \/ heap[p].info.status # "stopped"
    BY <1>2, <2>1, <2>3, <2>4, <2>5 DEF Lasts, KeptFor
  <2>6. CASE heap[p].info.stopTime = 0 /\ heap[p].info.status = "stopped"
    <3>1. Unbegun(p)
      BY <2>6 DEF Unbegun, WorkersOK
    <3>2. Unbegun(p)'
      BY <1>2, <2>6, <3>1 DEF Unbegun, WorkersOK
    <3> QED
      BY <2>1, <2>3, <3>2 DEF Lasts
  <2> QED
    BY <2>3, <2>5, <2>6
<1> QED
  BY <1>1, <1>2, EntriesSteps

-----------------------------------------------------------------------------
(* What queries show.                                                      *)

(* What reading each field makes of what has been read.                    *)
LEMMA FieldShown ==
  ASSUME NEW e, NEW i, NEW field
  PROVE  /\ field = "given" =>
              LET f == WithField(e, field, i)
              IN  /\ DOMAIN f = {"given", "status", "error"}
                  /\ f.given = Shown(i) /\ f.status # "stopped"
         /\ field \in {"running", "paused", "stopped"} =>
              WithField(e, field, i) =
                IF i.status = field THEN [e EXCEPT !.status = field] ELSE e
         /\ field = "error" =>
              WithField(e, field, i) = [e EXCEPT !.error = i.error]
<1>1. ASSUME field = "given"
      PROVE  LET f == WithField(e, field, i)
             IN  /\ DOMAIN f = {"given", "status", "error"}
                 /\ f.given = Shown(i) /\ f.status # "stopped"
  <2>1. WithField(e, field, i) =
          [given |-> Shown(i), status |-> "", error |-> 0]
    BY <1>1, Zenon DEF WithField
  <2>2. \E n : /\ n # "stopped"
               /\ WithField(e, field, i) =
                    [given |-> Shown(i), status |-> n, error |-> 0]
    <3>1. "" # "stopped"
      BY Zenon
    <3> QED
      BY <2>1, <3>1, Zenon
  <2> QED
    BY <2>2
<1>2. ASSUME field \in {"running", "paused", "stopped"}
      PROVE  WithField(e, field, i) =
               IF i.status = field THEN [e EXCEPT !.status = field] ELSE e
  <2>1. field # "given"
    BY <1>2
  <2> QED
    BY <1>2, <2>1, Zenon DEF WithField
<1>3. ASSUME field = "error"
      PROVE  WithField(e, field, i) = [e EXCEPT !.error = i.error]
  <2>1. field # "given" /\ field \notin {"running", "paused", "stopped"}
    BY <1>3
  <2> QED
    BY <1>3, <2>1, Zenon DEF WithField
<1> QED
  BY <1>1, <1>2, <1>3

(* A stream that has ended stays so, with its error unless a jump spoils    *)
(* it, as long as anybody holds it.                                        *)
LEMMA EndedStays ==
  ASSUME Types, WritersApart, CopiesOwn, [Next]_vars,
         NEW o \in Streams, Live(o)', heap[o].worker \in {"reporting", "done"}
  PROVE  /\ heap'[o].worker \in {"reporting", "done"}
         /\ ~heap'[o].spoiled =>
              /\ ~heap[o].spoiled
              /\ heap'[o].info.error = heap[o].info.error
<1> DEFINE s == heap[o]
           t == heap'[o]
           Good == /\ t.worker \in {"reporting", "done"}
                   /\ ~t.spoiled => ~s.spoiled /\ t.info.error = s.info.error
<1>1. t = s => Good
  OBVIOUS
<1>2. ASSUME NEW p \in Streams, WorkStep(p), WorkerMoves(heap[p], heap'[p])
      PROVE  Good
  <2>1. CASE p = o
    <3>1. t.worker = "done" /\ t.info = s.info /\ t.spoiled = s.spoiled
      BY <1>2, <2>1 DEF WorkStep, WorkerMoves
    <3> QED
      BY <3>1
  <2>2. CASE p # o
    BY <1>1, <1>2, <2>2 DEF WorkStep
  <2> QED
    BY <2>1, <2>2
<1>3. ASSUME NEW p \in Streams, Touched(p) PROVE Good
  <2>1. CASE p = o
    BY <1>3, <2>1 DEF Touched
  <2>2. CASE p # o
    BY <1>1, <1>3, <2>2 DEF Touched
  <2> QED
    BY <2>1, <2>2
<1>4. ASSUME Kept(o) PROVE Good
  BY <1>4 DEF Kept
<1>5. ASSUME NEW c \in Clients, Started(client[c].ps, InfoFor(c)),
             client[c].pc = "copy"
      PROVE  Good
  <2>1. client[c].ps # o
    BY <1>5 DEF CopiesOwn
  <2> QED
    BY <1>1, <1>5, <2>1 DEF Started
<1>6. Good
  <2>1. UNCHANGED heap => Good
    BY <1>1
  <2> HIDE DEF Good
  <2> QED
    BY <1>2, <1>3, <1>4, <1>5, <2>1, HeapSteps DEF LetsGo, Creates
<1> QED
  BY <1>6

(* What has been shown, e, of the stream o by a client that reads its       *)
(* streams up to the one at n, the one at k being o.                       *)
ShownRight(o, e, n, k) ==
  /\ DOMAIN e = {"given", "status", "error"}
  /\ e.given \in {Asked(o), Shown(DefaultInfo)}
  /\ e.status = "stopped" =>
       /\ heap[o].worker \in {"reporting", "done"}
       /\ n > k /\ ~heap[o].spoiled => e.error = heap[o].info.error

(* What has been shown stays right while its stream is there.              *)
LEMMA RightStays ==
  ASSUME Types, WritersApart, CopiesOwn, [Next]_vars,
         NEW o \in Streams, Live(o)', NEW e, NEW n, NEW k,
         ShownRight(o, e, n, k)
  PROVE  ShownRight(o, e, n, k)'
<1>1. Asked(o)' = Asked(o)
  BY AskedSame
<1>2. heap[o].worker \in {"reporting", "done"} =>
        /\ heap'[o].worker \in {"reporting", "done"}
        /\ ~heap'[o].spoiled =>
             /\ ~heap[o].spoiled
             /\ heap'[o].info.error = heap[o].info.error
  BY EndedStays
<1> QED
  BY <1>1, <1>2 DEF ShownRight

(* What a query shows is right.                                            *)
LEMMA ShownStep ==
  ASSUME Types, WritersApart, CopiesOwn, WorkersOK, InfosAsAsked, ShownOK,
         [Next]_vars
  PROVE  ShownOK'
<1>0. Types' /\ SameStreams
  BY TypesStep
<1> SUFFICES ASSUME NEW c \in Clients, NEW k \in DOMAIN client'[c].shown,
                    NEW o, o = client'[c].entries[k].stream, Live(o)',
                    NEW e, e = client'[c].shown[k],
                    NEW n, n = client'[c].k
             PROVE  ShownRight(o, e, n, k)'
  BY DEF ShownOK, ShownRight
<1> DEFINE s == client[c]
           t == client'[c]
<1>1. /\ \A j \in DOMAIN s.entries : s.entries[j].stream \in Streams
      /\ IsArray(s.shown) /\ IsArray(s.entries)
      /\ Len(s.shown) \in Nat /\ DOMAIN s.shown = 1..Len(s.shown)
      /\ Len(s.entries) \in Nat /\ DOMAIN s.entries = 1..Len(s.entries)
      /\ Len(s.shown) <= Len(s.entries) /\ s.k \in Nat \ {0}
      /\ s.field \in 1..5
      /\ Len(s.shown) = IF s.field = 1 THEN s.k - 1 ELSE s.k
      /\ s.pc # "read" => Len(s.shown) = 0
  <2>1. QueryOK(c)
    BY DEF Types, QueriesOK
  <2>2. IsArray(s.shown) /\ IsArray(s.entries)
    BY <2>1 DEF QueryOK
  <2> QED
    BY <2>1, <2>2, ArrayIs, FieldsAre DEF QueryOK
<1>2. ASSUME NEW j \in DOMAIN s.shown, NEW x \in Streams,
             x = s.entries[j].stream, Live(x)
      PROVE  ShownRight(x, s.shown[j], s.k, j)
  BY <1>2 DEF ShownOK, ShownRight
<1>3. CASE t.shown = s.shown /\ t.entries = s.entries /\ t.k = s.k
  <2>1. k \in DOMAIN s.shown /\ o \in Streams
    BY <1>1, <1>3
  <2>2. Live(o)
    BY <2>1, LiveBack
  <2>3. ShownRight(o, e, n, k)
    BY <1>2, <1>3, <2>1, <2>2
  <2> QED
    BY <2>1, <2>3, RightStays
<1>4. CASE t.shown = <<>>
  BY <1>4
<1>5. CASE Shows(c)
  <2> DEFINE p == s.entries[s.k].stream
             i == heap[p].info
             sofar == IF s.field = 1 THEN <<>> ELSE Last(s.shown)
             w == WithField(sofar, Fields[s.field], i)
             base == IF s.field = 1 THEN s.shown ELSE Front(s.shown)
  <2>1. /\ t.shown = base \o <<w>> /\ Live(p) /\ s.k <= Len(s.entries)
        /\ t.k = (IF s.field = Len(Fields) THEN s.k + 1 ELSE s.k)
        /\ UNCHANGED <<heap, m_streams>>
    BY <1>5, Zenon DEF Shows, Reading
  <2>2. t.entries = s.entries
    <3>1. Shows(c) => \A f \in ClientFields \ {"k", "field", "shown"} :
                        t[f] = s[f]
      BY Zenon DEF Shows
    <3> QED
      BY <1>5, <3>1 DEF ClientFields
  <2> HIDE DEF w, base
  <2>3. p \in Streams
    <3>1. s.k \in DOMAIN s.entries
      BY <1>1, <2>1
    <3> QED
      BY <1>1, <3>1
  <2>4. /\ IsArray(base) /\ Len(base) = s.k - 1
        /\ \A j \in 1..(s.k - 1) : base[j] = s.shown[j]
    BY <1>1, ArrayFront, ArrayIs DEF base
  <2>5. /\ DOMAIN t.shown = 1..s.k /\ t.shown[s.k] = w
        /\ \A j \in 1..(s.k - 1) : t.shown[j] = s.shown[j]
    <3>1. t.shown = Append(base, w)
      BY <2>1, <2>4, ArrayOneMore
    <3>2. /\ DOMAIN t.shown = 1..(Len(base) + 1)
          /\ t.shown[Len(base) + 1] = w
          /\ \A j \in DOMAIN base : t.shown[j] = base[j]
      <4> HIDE DEF t
      <4> QED
        BY <2>4, <3>1, ArrayAppend
    <3>4. DOMAIN base = 1..Len(base)
      BY <2>4, ArrayIs
    <3>3. Len(base) + 1 = s.k
      BY <1>1, <2>4
    <3> QED
      BY <2>4, <3>2, <3>3, <3>4
  <2>6. CASE k # s.k
    <3>0. k \in 1..(s.k - 1) /\ s.k \in Nat
      BY <1>1, <2>5, <2>6
    <3>1. k \in DOMAIN s.shown /\ e = s.shown[k] /\ k < s.k /\ k < n
      <4>1. e = s.shown[k]
        BY <2>5, <3>0
      <4>2. k < s.k /\ n \in {s.k, s.k + 1}
        BY <2>1, <3>0
      <4>3. k \in DOMAIN s.shown
        BY <1>1, <3>0
      <4> QED
        BY <3>0, <4>1, <4>2, <4>3
    <3>2. o \in Streams /\ o = s.entries[k].stream
      BY <1>1, <2>2, <3>1
    <3>3. ShownRight(o, e, s.k, k)
      BY <1>2, <3>1, <3>2, LiveBack
    <3>4. ShownRight(o, e, n, k)
      BY <3>1, <3>3 DEF ShownRight
    <3> QED
      BY <3>2, <3>4, RightStays
  <2>7. CASE k = s.k
    <3>1. o = p /\ e = w /\ o \in Streams /\ Live(o)
      BY <2>1, <2>2, <2>3, <2>5, <2>7
    <3>2. n = IF s.field = 5 THEN k + 1 ELSE k
      BY <2>1, <2>7, FieldsAre
    <3>3. Shown(i) \in {Asked(o), Shown(DefaultInfo)}
      BY <3>1 DEF InfosAsAsked
    <3>4. i.status = "stopped" => heap[o].worker \in {"reporting", "done"}
      BY <3>1 DEF WorkersOK
    <3>5. s.field # 1 => ShownRight(o, sofar, k, k)
      <4>1. ASSUME s.field # 1
            PROVE  sofar = s.shown[k] /\ k \in DOMAIN s.shown
        <5>1. Last(s.shown) = s.shown[Len(s.shown)] /\ Len(s.shown) = k
          BY <1>1, <2>7, <4>1, ArrayFront
        <5> QED
          BY <1>1, <2>7, <4>1, <5>1
      <4> HIDE DEF sofar
      <4> QED
        BY <1>2, <2>7, <3>1, <4>1
    <3>6. k \in Nat
      BY <1>1, <2>7
    <3>7. ShownRight(o, w, n, k)
      <4> HIDE DEF sofar, i
      <4>1. CASE s.field = 1
        <5>1. /\ DOMAIN w = {"given", "status", "error"}
              /\ w.given = Shown(i) /\ w.status # "stopped"
          BY <4>1, FieldShown, FieldsAre DEF w
        <5> QED
          BY <3>3, <5>1 DEF ShownRight
      <4>2. CASE s.field \in {2, 3, 4}
        <5>1. w = IF i.status = Fields[s.field]
                  THEN [sofar EXCEPT !.status = Fields[s.field]] ELSE sofar
          BY <4>2, FieldShown, FieldsAre DEF w
        <5>2. n = k /\ ShownRight(o, sofar, k, k)
          BY <3>2, <3>5, <4>2
        <5> QED
          BY <3>4, <3>6, <5>1, <5>2 DEF ShownRight
      <4>3. CASE s.field = 5
        <5>1. w = [sofar EXCEPT !.error = i.error]
          BY <4>3, FieldShown, FieldsAre DEF w
        <5>2. ShownRight(o, sofar, k, k)
          BY <3>5, <4>3
        <5>3. i.error = heap[o].info.error
          BY <3>1 DEF i
        <5> QED
          BY <5>1, <5>2, <5>3 DEF ShownRight
      <4> QED
        BY <1>1, <4>1, <4>2, <4>3
    <3> QED
      BY <3>1, <3>7, RightStays
  <2> QED
    BY <2>6, <2>7
<1>6. Leaves(c) => t.shown = <<>>
  BY DEF Leaves, Idle
<1>7. \A r \in DOMAIN Requests : Receives(c, r) => t.shown = <<>>
  BY DEF Receives
<1>8. Writing(c) => t.shown = s.shown /\ t.entries = s.entries /\ t.k = s.k
  BY DEF Writing, ClientFields
<1>9. Fetching(c) => t.shown = <<>>
  <2>1. Fetching(c) => t.shown = s.shown /\ s.pc = "fetch"
    BY DEF Fetching, ClientFields
  <2>2. s.pc = "fetch" => s.shown = <<>>
    <3>1. s.pc = "fetch" => Len(s.shown) = 0
      BY <1>1
    <3>2. s.shown \in Seq(Range(s.shown))
      BY <1>1 DEF IsArray
    <3> QED
      BY <3>1, <3>2, EmptySeq
  <2> QED
    BY <2>1, <2>2
<1>10. SameClient(c) =>
         t.shown = s.shown /\ t.entries = s.entries /\ t.k = s.k
  BY ClientParts
<1> QED
  BY <1>3, <1>4, <1>5, <1>6, <1>7, <1>8, <1>9, <1>10, ClientSteps
     DEF ClientMoves

-----------------------------------------------------------------------------
(* What queries find.                                                      *)

(* A query that looks for streams sees which ids come and go meanwhile.    *)
StillLooks(c) ==
  LET s == client[c]
      t == client'[c]
      here == Present(Request(c).kind)
      then == Present(Request(c).kind)'
  IN  /\ SameClient(c) /\ s.pc = "fetch" /\ Request(c)' = Request(c)
      /\ \/ t.before = s.before /\ t.ever = s.ever /\ then = here
         \/ \E id \in Id : /\ t.before = s.before
                           /\ t.ever = s.ever \cup {id}
                           /\ then = here \cup {id}
         \/ \E id \in Id : /\ t.before = s.before \ {id}
                           /\ t.ever = s.ever /\ then = here \ {id}
StillShows(c) ==
  /\ client[c].pc = "read" /\ client'[c].pc = "read"
  /\ \A f \in {"request", "before", "ever", "entries"} :
       client'[c][f] = client[c][f]

(* Only who creates a stream lets others know.                             *)
LEMMA OthersStay ==
  ASSUME Types, NEW c \in Clients, NEW d \in Clients \ {c},
         Handle(d), ~CreateStream(d)
  PROVE  client'[c] = client[c] /\ m_streams' = m_streams
<1>0. DOMAIN client = Clients /\ ClientsOK
  BY DEF Types, ClientsOK
<1>1. ASSUME NEW t, client' = [client EXCEPT ![d] = t]
      PROVE  client'[c] = client[c]
  BY <1>0, <1>1
<1>2. Receive(d) => client'[c] = client[c] /\ m_streams' = m_streams
  <2>1. Receive(d) => m_streams' = m_streams
    BY DEF Receive
  <2> QED
    BY <1>0, <1>1, <2>1, ReceiveSteps
<1>3. GetAllStream(d) \/ GetNext(d)
      => client'[c] = client[c] /\ m_streams' = m_streams
  <2>1. GetAllStream(d) \/ GetNext(d) => m_streams' = m_streams
    BY DEF GetAllStream, GetNext
  <2> QED
    BY <1>0, <1>1, <2>1, FetchSteps
<1>4. Read(d) => client'[c] = client[c] /\ m_streams' = m_streams
  <2>1. Read(d) => m_streams' = m_streams
    BY Zenon DEF Read
  <2> QED
    BY <1>0, <1>1, <2>1, ReadSteps
<1>5. FindForStart(d) \/ FindForStop(d)
      => client'[c] = client[c] /\ m_streams' = m_streams
  BY <1>0 DEF FindForStart, FindForStop, Stop, Answer
<1>6. Command(d) \/ StartFile(d) \/ StartRealtime(d)
      => client'[c] = client[c] /\ m_streams' = m_streams
  <2>1. Command(d) \/ StartFile(d) \/ StartRealtime(d)
        => Answer(d) /\ m_streams' = m_streams
    BY DEF Command, StartFile, StartRealtime
  <2> QED
    BY <1>0, <2>1 DEF Answer
<1>7. Join(d) \/ Stopped(d)
      => client'[c] = client[c] /\ m_streams' = m_streams
  BY <1>0 DEF Join, Stopped, Answer
<1>8. Undefined(d) \/ Answered(d)
      => client'[c] = client[c] /\ m_streams' = m_streams
  BY <1>0 DEF Undefined, Answered, Answer
<1> QED
  BY <1>2, <1>3, <1>4, <1>5, <1>6, <1>7, <1>8 DEF Handle

(* The steps of a query: it is over or has not begun, or is received, or    *)
(* goes on to look, or shows what it has found, or has to wait.            *)
LEMMA SeenSteps ==
  ASSUME Types, [Next]_vars, NEW c \in Clients
  PROVE  \/ client'[c].pc \notin Querying
         \/ \E r \in DOMAIN Requests :
              Receives(c, r) /\ UNCHANGED <<heap, m_streams>>
         \/ StillShows(c) \/ Fetching(c) \/ StillLooks(c)
<1> DEFINE Goal == \/ client'[c].pc \notin Querying
                   \/ \E r \in DOMAIN Requests :
                        Receives(c, r) /\ UNCHANGED <<heap, m_streams>>
                   \/ StillShows(c) \/ Fetching(c) \/ StillLooks(c)
<1>0. /\ DOMAIN client = Clients /\ ClientsOK /\ Requests' = Requests
      /\ \A d \in Clients : DOMAIN client[d] = ClientFields
      /\ m_streams \in [Kinds -> [Id -> Nat]]
      /\ \A o \in Streams : heap[o].kind \in Kinds /\ heap[o].id \in Id
  BY TypesStep DEF Types, ClientsOK, ClientOK, MapsOK, StreamsOK
<1>1. ASSUME client'[c] = client[c], m_streams' = m_streams PROVE Goal
  <2>1. CASE client[c].pc \notin Querying
    BY <1>1, <2>1
  <2>2. CASE client[c].pc = "read"
    BY <1>1, <2>2 DEF StillShows
  <2>3. CASE client[c].pc = "fetch"
    <3>1. SameClient(c) /\ Request(c)' = Request(c)
      BY <1>0, <1>1 DEF SameClient, Request
    <3>2. Present(Request(c).kind)' = Present(Request(c).kind)
      BY <1>1, <3>1 DEF Present, Ids
    <3> QED
      BY <1>1, <2>3, <3>1, <3>2 DEF StillLooks
  <2> QED
    BY <2>1, <2>2, <2>3 DEF Querying
<1>2. ASSUME NEW d \in Clients, CreateStream(d) PROVE Goal
  <2> DEFINE n == Len(heap) + 1
             q == Request(d)
             cl == [client EXCEPT ![d].pc = "copy", ![d].ps = n]
  <2>1. /\ client[d].pc = "create" /\ Creates(d)
        /\ q.kind \in Kinds /\ IdOf(d) \in Id /\ n \in Nat \ {0}
        /\ client' = Comes(cl, q.kind, IdOf(d))
    BY <1>2, CreateSteps
  <2>2. cl[d].pc = "copy" /\ \A e \in Clients \ {d} : cl[e] = client[e]
    BY <1>0
  <2> HIDE DEF cl
  <2>3. CASE c = d
    <3>1. client'[c] = cl[d]
      BY <2>1, <2>2, <2>3 DEF Comes
    <3> QED
      BY <2>2, <3>1 DEF Querying
  <2>4. CASE c # d /\ client[c].pc = "fetch" /\ Request(c).kind = q.kind
    <3>1. client'[c] = [client[c] EXCEPT !.ever = @ \cup {IdOf(d)}]
      BY <2>1, <2>2, <2>4 DEF Comes, Request
    <3>2. /\ SameClient(c) /\ client'[c].before = client[c].before
          /\ client'[c].ever = client[c].ever \cup {IdOf(d)}
      BY <1>0, <3>1 DEF SameClient, ClientFields
    <3>3. Request(c)' = Request(c)
      BY <1>0, <3>2, ClientParts DEF Request
    <3>4. m_streams' = [m_streams EXCEPT ![q.kind][IdOf(d)] = n]
      BY <2>1 DEF Creates
    <3>5. Present(Request(c).kind)' = Present(Request(c).kind) \cup {IdOf(d)}
      <4> PICK k, i : k = q.kind /\ i = IdOf(d)
        OBVIOUS
      <4> HIDE DEF n
      <4>1. {j \in DOMAIN m_streams'[k] : m_streams'[k][j] # 0}
              = {j \in DOMAIN m_streams[k] : m_streams[k][j] # 0} \cup {i}
        BY <1>0, <2>1, <3>4
      <4> QED
        BY <2>4, <3>3, <4>1 DEF Present, Ids
    <3> QED
      BY <2>1, <2>4, <3>2, <3>3, <3>5 DEF StillLooks
  <2>5. CASE /\ c # d
             /\ ~(client[c].pc = "fetch" /\ Request(c).kind = q.kind)
    <3>1. client'[c] = client[c]
      BY <2>1, <2>2, <2>5 DEF Comes, Request
    <3>2. CASE client[c].pc = "fetch"
      <4>1. SameClient(c) /\ Request(c)' = Request(c)
        BY <1>0, <3>1 DEF SameClient, Request
      <4>2. Request(c).kind \in Kinds /\ Request(c).kind # q.kind
        BY <2>5, <3>2, ClientRequest
      <4>3. m_streams' = [m_streams EXCEPT ![q.kind][IdOf(d)] = n]
        BY <2>1 DEF Creates
      <4>4. m_streams'[Request(c).kind] = m_streams[Request(c).kind]
        BY <1>0, <4>2, <4>3
      <4>5. Present(Request(c).kind)' = Present(Request(c).kind)
        BY <4>1, <4>4 DEF Present, Ids
      <4> QED
        BY <3>1, <3>2, <4>1, <4>5 DEF StillLooks
    <3>3. CASE client[c].pc = "read"
      BY <3>1, <3>3 DEF StillShows
    <3> QED
      BY <3>1, <3>2, <3>3 DEF Querying
  <2> QED
    BY <2>3, <2>4, <2>5
<1>3. ASSUME NEW o \in Streams, Collect(o) PROVE Goal
  <2> PICK k, i : k = heap[o].kind /\ i = heap[o].id
    OBVIOUS
  <2>1. /\ m_streams' = [m_streams EXCEPT ![k][i] = 0]
        /\ client' = Goes(client, k, i) /\ k \in Kinds /\ i \in Id
    BY <1>0, <1>3, CollectSteps
  <2>2. CASE client[c].pc = "fetch" /\ Request(c).kind = k
    <3>1. client'[c] = [client[c] EXCEPT !.before = @ \ {i}]
      BY <2>1, <2>2 DEF Goes, Request
    <3>2. /\ SameClient(c) /\ client'[c].ever = client[c].ever
          /\ client'[c].before = client[c].before \ {i}
      BY <1>0, <3>1 DEF SameClient, ClientFields
    <3>3. Request(c)' = Request(c)
      BY <1>0, <3>2, ClientParts DEF Request
    <3>4. Present(Request(c).kind)' = Present(Request(c).kind) \ {i}
      <4>1. {j \in DOMAIN m_streams'[k] : m_streams'[k][j] # 0}
              = {j \in DOMAIN m_streams[k] : m_streams[k][j] # 0} \ {i}
        BY <1>0, <2>1
      <4> QED
        BY <2>2, <3>3, <4>1 DEF Present, Ids
    <3> QED
      BY <2>1, <2>2, <3>2, <3>3, <3>4 DEF StillLooks
  <2>3. CASE ~(client[c].pc = "fetch" /\ Request(c).kind = k)
    <3>1. client'[c] = client[c]
      BY <2>1, <2>3 DEF Goes, Request
    <3>2. CASE client[c].pc = "fetch"
      <4>1. SameClient(c) /\ Request(c)' = Request(c)
        BY <1>0, <3>1 DEF SameClient, Request
      <4>2. Request(c).kind \in Kinds /\ Request(c).kind # k
        BY <2>3, <3>2, ClientRequest
      <4>3. m_streams'[Request(c).kind] = m_streams[Request(c).kind]
        BY <1>0, <2>1, <4>2
      <4>4. Present(Request(c).kind)' = Present(Request(c).kind)
        BY <4>1, <4>3 DEF Present, Ids
      <4> QED
        BY <3>1, <3>2, <4>1, <4>4 DEF StillLooks
    <3>3. CASE client[c].pc = "read"
      BY <3>1, <3>3 DEF StillShows
    <3> QED
      BY <3>1, <3>2, <3>3 DEF Querying
  <2> QED
    BY <2>2, <2>3
<1>4. ASSUME Handle(c) PROVE Goal
  <2>1. Answer(c) => client'[c].pc \notin Querying
    BY <1>0 DEF Answer, Idle, Querying
  <2>2. ASSUME Receive(c) PROVE Goal
    <3>1. UNCHANGED <<heap, m_streams>>
      BY <2>2 DEF Receive
    <3>2. client'[c] = Idle => client'[c].pc \notin Querying
      BY DEF Idle, Querying
    <3> QED
      BY <1>0, <2>2, <3>1, <3>2, ReceiveSteps
  <2>3. ASSUME FindForStart(c) \/ FindForStop(c) PROVE Goal
    <3>1. ASSUME NEW x \in {"join", "stopped"}, NEW o,
                 client' = [client EXCEPT ![c].pc = x, ![c].ps = o]
          PROVE  client'[c].pc \notin Querying
      BY <1>0, <3>1 DEF Querying, ClientFields
    <3>2. client' = [client EXCEPT ![c].pc = "create"]
          => client'[c].pc \notin Querying
      BY <1>0 DEF Querying, ClientFields
    <3> QED
      BY <2>1, <2>3, <3>1, <3>2, FindSteps
  <2>4. ASSUME Command(c) \/ StartFile(c) \/ StartRealtime(c) \/ Answered(c)
        PROVE  Goal
    BY <2>1, <2>4 DEF Command, StartFile, StartRealtime, Answered
  <2>5. ASSUME Join(c) \/ Stopped(c) PROVE Goal
    <3>1. \/ Answer(c)
          \/ \E x \in {"stopped", "create"} : client'[c].pc = x
      BY <1>0, <2>5 DEF Join, Stopped, ClientFields
    <3> QED
      BY <2>1, <3>1 DEF Querying
  <2>6. ASSUME GetAllStream(c) \/ GetNext(c) PROVE Goal
    BY <1>0, <2>6, FetchSteps
  <2>7. ASSUME Read(c) PROVE Goal
    <3>1. Shows(c)
      BY <1>0, <2>7, ReadSteps
    <3>2. /\ Reading(c)
          /\ \A f \in ClientFields \ {"k", "field", "shown"} :
               client'[c][f] = client[c][f]
      BY <3>1, Zenon DEF Shows
    <3> QED
      BY <3>2 DEF Reading, StillShows, ClientFields
  <2>8. ASSUME Undefined(c) PROVE Goal
    BY <1>1, <2>8 DEF Undefined
  <2> HIDE DEF Goal
  <2> QED
    BY <1>2, <1>4, <2>2, <2>3, <2>4, <2>5, <2>6, <2>7, <2>8 DEF Handle
<1>5. ASSUME NEW o \in Streams, Work(o) PROVE Goal
  <2>1. client'[c] = client[c] /\ m_streams' = m_streams
    BY <1>5, WorkSteps DEF Types, WorkStep
  <2> QED
    BY <1>1, <2>1
<1>6. ASSUME UNCHANGED vars \/ Reload \/ Tick PROVE Goal
  <2>1. client'[c] = client[c] /\ m_streams' = m_streams
    BY <1>6 DEF vars, Reload, Tick
  <2> QED
    BY <1>1, <2>1
<1>7. ASSUME NEW d \in Clients \ {c}, Handle(d) PROVE Goal
  <2> HIDE DEF Goal
  <2> QED
    BY <1>1, <1>2, <1>7, OthersStay
<1> HIDE DEF Goal
<1>8. ASSUME NEW d \in Clients, Handle(d) PROVE Goal
  <2>1. CASE d = c
    BY <1>4, <1>8, <2>1
  <2>2. CASE d # c
    BY <1>7, <1>8, <2>2
  <2> QED
    BY <2>1, <2>2
<1>9. \/ UNCHANGED vars \/ Reload \/ Tick
      \/ \E d \in Clients : Handle(d)
      \/ \E o \in Streams : Work(o) \/ Collect(o)
  BY DEF Next
<1>10. (\E d \in Clients : Handle(d)) => Goal
  BY <1>8
<1>11. (\E o \in Streams : Work(o) \/ Collect(o)) => Goal
  BY <1>3, <1>5
<1>12. Goal
  BY <1>6, <1>9, <1>10, <1>11
<1> QED
  BY <1>12 DEF Goal

(* What a query that shows streams has found.                              *)
Complete(c) ==
  /\ client[c].before \cap Wanted(c) \subseteq Found(c)
  /\ Found(c) \subseteq client[c].ever \cap Wanted(c)
LEMMA CompleteIs ==
  QueryComplete <=>
    \A c \in Clients : client[c].pc = "read" => Complete(c)
BY DEF QueryComplete, Complete, Wanted, Found

(* An array has no elements only if it is empty.                           *)
LEMMA NoElements ==
  ASSUME NEW a, IsArray(a)
  PROVE  Range(a) = {} <=> a = <<>>
<1>1. a = <<>> => Range(a) = {}
  BY DEF Range
<1>2. ASSUME Range(a) = {} PROVE a = <<>>
  <2>1. a \in Seq({})
    BY <1>2 DEF IsArray
  <2>2. Len(a) \in Nat /\ \A i \in 1..Len(a) : a[i] \in {}
    BY <2>1
  <2>3. Len(a) = 0
    BY <2>2
  <2> QED
    BY <2>1, <2>3, EmptySeq
<1> QED
  BY <1>1, <1>2

(* What has been found keeps its ids, and what is wanted stays.            *)
LEMMA FoundStays ==
  ASSUME Types, SameStreams, NEW c \in Clients,
         client'[c].entries = client[c].entries
  PROVE  Found(c)' = Found(c)
<1>1. \A e \in Range(client[c].entries) : heap'[e.stream].id = heap[e.stream].id
  BY DEF Types, QueriesOK, QueryOK, SameStreams, Range
<1>2. {heap'[e.stream].id : e \in Range(client[c].entries)}
        = {heap[e.stream].id : e \in Range(client[c].entries)}
  BY <1>1
<1> QED
  BY <1>2 DEF Found

LEMMA WantedStays ==
  ASSUME Types, Types', NEW c \in Clients, client[c].pc # "idle",
         Request(c)' = Request(c)
  PROVE  Wanted(c)' = Wanted(c)
<1>1. Ids(Request(c).kind)' = Ids(Request(c).kind)
  BY ClientRequest DEF Types, MapsOK, Ids
<1> QED
  BY <1>1 DEF Wanted

(* A query that is received has found nothing, and has all to look for.    *)
LEMMA ReceivedRight ==
  ASSUME Types, Types', Requests' = Requests, NEW c \in Clients,
         NEW r \in DOMAIN Requests, Receives(c, r),
         UNCHANGED <<heap, m_streams>>, client'[c].pc = "fetch"
  PROVE  FetchRight(c)'
<1> DEFINE q == Requests[r]
           t == client'[c]
           given == q.body.id.value
           here == Present(q.kind)
<1>1. /\ t.entries = <<>> /\ t.request = r /\ t.before = here
      /\ t.ever = here /\ t.left = [i \in DOMAIN given |-> given[i].value]
      /\ FirstCode(q) = OK /\ q.path = "query"
  BY DEF Receives
<1>2. Request(c)' = q /\ Present(Request(c).kind)' = here
  BY <1>1 DEF Request, Present, Ids
<1>3. IsArray(given) /\ q.kind \in Kinds
  BY <1>1, RequestFits DEF Types
<1>4. given \in Seq(Range(given)) /\ DOMAIN given = 1..Len(given)
      /\ Len(given) \in Nat
  BY <1>3, ArrayIs DEF IsArray
<1>5. Range(t.left) = {v.value : v \in Range(given)}
  BY <1>1 DEF Range
<1>6. t.left = <<>> <=> given = <<>>
  <2>1. given = <<>> => t.left = <<>>
    BY <1>1
  <2>2. t.left = <<>> => given = <<>>
    <3>1. t.left = <<>> => Range(t.left) = {}
      BY DEF Range
    <3>2. Range(t.left) = {} => Range(given) = {}
      BY <1>5
    <3> QED
      BY <1>3, <3>1, <3>2, NoElements
  <2> QED
    BY <2>1, <2>2
<1>7. Wanted(c)' = IF Range(given) = {} THEN Ids(q.kind)' ELSE Range(t.left)
  BY <1>2, <1>5 DEF Wanted
<1>8. Found(c)' = {}
  BY <1>1 DEF Found, Range
<1>9. Range(t.left) \subseteq Wanted(c)'
  BY <1>5, <1>7
<1>10. t.left # <<>> => Wanted(c)' = Range(t.left)
  BY <1>3, <1>6, <1>7, NoElements
<1> HIDE DEF q, given, here
<1> QED
  BY <1>1, <1>2, <1>6, <1>8, <1>9, <1>10, Zenon DEF FetchRight, given, q, t

(* A query that still looks has passed by nothing that was there.          *)
LEMMA LooksRight ==
  ASSUME Types, Types', SameStreams, NEW c \in Clients,
         StillLooks(c), FetchRight(c)
  PROVE  FetchRight(c)'
<1> DEFINE s == client[c]
           t == client'[c]
           here == Present(Request(c).kind)
           then == Present(Request(c).kind)'
<1>1. /\ t.left = s.left /\ t.entries = s.entries /\ s.pc = "fetch"
      /\ Request(c)' = Request(c)
  BY ClientParts DEF StillLooks
<1>2. Found(c)' = Found(c) /\ Wanted(c)' = Wanted(c)
  BY <1>1, FoundStays, WantedStays
<1>3. /\ t.before \subseteq then /\ then \subseteq t.ever
      /\ t.before \subseteq s.before /\ s.ever \subseteq t.ever
  <2>1. s.before \subseteq here /\ here \subseteq s.ever
    BY DEF FetchRight
  <2> HIDE DEF s, t, here, then
  <2>2. \/ t.before = s.before /\ t.ever = s.ever /\ then = here
        \/ \E id \in Id : /\ t.before = s.before
                          /\ t.ever = s.ever \cup {id}
                          /\ then = here \cup {id}
        \/ \E id \in Id : /\ t.before = s.before \ {id}
                          /\ t.ever = s.ever /\ then = here \ {id}
    BY Zenon DEF StillLooks, s, t, here, then
  <2> QED
    BY <2>1, <2>2
<1>4. /\ s.left = <<>> <=> Request(c).body.id.value = <<>>
      /\ Range(s.left) \subseteq Wanted(c)
      /\ s.left # <<>> =>
           s.before \cap Wanted(c) \subseteq Found(c) \cup Range(s.left)
      /\ Found(c) \subseteq s.ever \cap Wanted(c)
  BY DEF FetchRight
<1> HIDE DEF s, t, then
<1>5. /\ t.left = <<>> <=> Request(c)'.body.id.value = <<>>
      /\ Range(t.left) \subseteq Wanted(c)'
      /\ t.left # <<>> =>
           t.before \cap Wanted(c)' \subseteq Found(c)' \cup Range(t.left)
      /\ Found(c)' \subseteq t.ever \cap Wanted(c)'
  BY <1>1, <1>2, <1>3, <1>4
<1> QED
  BY <1>3, <1>5, Zenon DEF FetchRight, t, then

(* A query for all streams finds those that are there.                     *)
LEMMA AllFound ==
  ASSUME Types, Types', NEW c \in Clients, client[c].pc = "fetch",
         Request(c)' = Request(c), UNCHANGED <<heap, m_streams>>,
         Request(c).body.id.value = <<>>,
         NEW ids \in Bijection(1..Cardinality(Present(Request(c).kind)),
                               Present(Request(c).kind)),
         client'[c].entries =
           [k \in DOMAIN ids |-> Entry(m_streams[Request(c).kind][ids[k]])]
  PROVE  Found(c)' = Present(Request(c).kind) /\ Wanted(c) = Id
<1> DEFINE kind == Request(c).kind
           here == Present(kind)
           es == client'[c].entries
<1>1. /\ kind \in Kinds /\ Ids(kind) = Id /\ here \subseteq Id
      /\ \A id \in here : heap[m_streams[kind][id]].id = id
  BY ClientRequest DEF Present, Ids, Types, MapsOK
<1>2. ids \in [DOMAIN ids -> here]
      /\ \A id \in here : \E k \in DOMAIN ids : ids[k] = id
  <2> HIDE DEF here
  <2> QED
    BY DEF Bijection, Injection, Surjection, IsInjective, here
<1>3. /\ DOMAIN es = DOMAIN ids
      /\ \A k \in DOMAIN ids : es[k].stream = m_streams[kind][ids[k]]
  BY DEF Entry
<1>4. Found(c)' = {heap[e.stream].id : e \in Range(es)}
  BY DEF Found
<1> HIDE DEF kind, here, es
<1>5. \A k \in DOMAIN ids : heap[es[k].stream].id = ids[k]
  BY <1>1, <1>2, <1>3
<1>6. {heap[e.stream].id : e \in Range(es)} = {ids[k] : k \in DOMAIN ids}
  BY <1>3, <1>5 DEF Range
<1>7. {ids[k] : k \in DOMAIN ids} = here
  BY <1>2
<1>8. Wanted(c) = Id
  BY <1>1 DEF Wanted, Range, kind
<1> QED
  BY <1>4, <1>6, <1>7, <1>8 DEF kind, here

(* A query for some passes by one of them that is not there.               *)
LEMMA NextFound ==
  ASSUME Types, Types', NEW c \in Clients, FetchRight(c),
         client[c].pc = "fetch", UNCHANGED <<heap, m_streams>>,
         client[c].left # <<>>,
         client'[c].entries =
           LET o == m_streams[Request(c).kind][Head(client[c].left)]
           IN  IF o = 0 THEN client[c].entries
               ELSE Append(client[c].entries, Entry(o))
  PROVE  /\ Found(c) \subseteq Found(c)'
         /\ Found(c)' \subseteq
              Found(c) \cup (Present(Request(c).kind)
                               \cap {Head(client[c].left)})
         /\ Head(client[c].left) \in Present(Request(c).kind)
              => Head(client[c].left) \in Found(c)'
<1> DEFINE kind == Request(c).kind
           id == Head(client[c].left)
           o == m_streams[kind][id]
           es == client[c].entries
           new == client'[c].entries
<1>1. /\ kind \in Kinds /\ Ids(kind) = Id /\ id \in Id
      /\ o # 0 => heap[o].id = id
      /\ IsArray(es)
  <2>1. client[c].left \in Seq(Id)
    BY DEF Types, QueriesOK, QueryOK
  <2>2. id \in Id
    BY <2>1, TailOf
  <2> QED
    BY <2>2, ClientRequest DEF Ids, Types, MapsOK, QueriesOK, QueryOK
<1>2. /\ Found(c) = {heap[e.stream].id : e \in Range(es)}
      /\ Found(c)' = {heap[e.stream].id : e \in Range(new)}
  BY DEF Found
<1>3. id \in Present(kind) <=> o # 0
  BY <1>1 DEF Present
<1>4. CASE o = 0
  <2>1. new = es
    BY <1>4
  <2> HIDE DEF kind, id, o, es, new
  <2>2. Found(c)' = Found(c) /\ id \notin Present(kind)
    BY <1>2, <1>3, <1>4, <2>1
  <2> QED
    BY <2>2 DEF kind, id
<1>5. CASE o # 0
  <2>1. new = Append(es, Entry(o))
    BY <1>5
  <2>2. Entry(o).stream = o
    BY DEF Entry
  <2> HIDE DEF kind, id, o, es, new
  <2>3. Range(new) = Range(es) \cup {Entry(o)}
    <3>1. /\ IsArray(new) /\ DOMAIN es = 1..Len(es) /\ Len(es) \in Nat
          /\ DOMAIN new = 1..(Len(es) + 1) /\ new[Len(es) + 1] = Entry(o)
          /\ \A i \in DOMAIN es : new[i] = es[i]
      BY <1>1, <2>1, ArrayAppend, ArrayIs
    <3> DEFINE n == Len(es) + 1
    <3>2. /\ DOMAIN new = DOMAIN es \cup {n} /\ new[n] = Entry(o)
      BY <3>1
    <3> HIDE DEF n
    <3> QED
      BY <3>1, <3>2 DEF Range
  <2>4. Found(c)' = Found(c) \cup {id} /\ id \in Present(kind)
    BY <1>1, <1>2, <1>3, <1>5, <2>2, <2>3
  <2> QED
    BY <2>4 DEF kind, id
<1> QED
  BY <1>4, <1>5

(* A query that goes on has passed by nothing that was there.              *)
LEMMA FetchedRight ==
  ASSUME Types, Types', Requests' = Requests, NEW c \in Clients,
         Fetching(c), FetchRight(c)
  PROVE  /\ client'[c].pc = "fetch" => FetchRight(c)'
         /\ client'[c].pc = "read" => Complete(c)'
<1> DEFINE s == client[c]
           t == client'[c]
           here == Present(Request(c).kind)
<1>1. /\ s.pc = "fetch" /\ UNCHANGED <<heap, m_streams>>
      /\ t.request = s.request /\ t.before = s.before /\ t.ever = s.ever
  BY DEF Fetching, ClientFields
<1>2. Request(c)' = Request(c) /\ here' = here
  BY <1>1 DEF Request, Present, Ids
<1>3. Wanted(c)' = Wanted(c)
  BY <1>1, <1>2, WantedStays
<1>4. /\ s.before \subseteq here /\ here \subseteq s.ever
      /\ s.left = <<>> <=> Request(c).body.id.value = <<>>
      /\ Range(s.left) \subseteq Wanted(c)
      /\ s.left # <<>> =>
           s.before \cap Wanted(c) \subseteq Found(c) \cup Range(s.left)
      /\ Found(c) \subseteq s.ever \cap Wanted(c)
  BY DEF FetchRight
<1>5. CASE Request(c).body.id.value = <<>>
  <2>1. /\ t.pc = "read"
        /\ \E ids \in Bijection(1..Cardinality(here), here) :
             t.entries = [k \in DOMAIN ids |->
                            Entry(m_streams[Request(c).kind][ids[k]])]
    BY <1>4, <1>5, Zenon DEF Fetching
  <2>2. Found(c)' = here /\ Wanted(c) = Id
    BY <1>1, <1>2, <1>5, <2>1, AllFound
  <2>3. here \subseteq Id
    BY <1>1, ClientRequest DEF Types, MapsOK, Present, Ids
  <2> HIDE DEF s, t, here
  <2>4. /\ t.before \cap Wanted(c)' \subseteq Found(c)'
        /\ Found(c)' \subseteq t.ever \cap Wanted(c)'
    BY <1>1, <1>3, <1>4, <2>2, <2>3 DEF s, t
  <2>5. t.pc # "fetch"
    BY <2>1
  <2> QED
    BY <2>4, <2>5, Zenon DEF Complete, t
<1>6. CASE Request(c).body.id.value # <<>>
  <2> DEFINE id == Head(s.left)
  <2>1. /\ s.left # <<>> /\ t.left = Tail(s.left)
        /\ t.pc = (IF Len(s.left) = 1 THEN "read" ELSE "fetch")
        /\ t.entries = LET o == m_streams[Request(c).kind][id]
                       IN  IF o = 0 THEN s.entries
                           ELSE Append(s.entries, Entry(o))
    BY <1>4, <1>6, Zenon DEF Fetching
  <2>2. /\ Found(c) \subseteq Found(c)'
        /\ Found(c)' \subseteq Found(c) \cup (here \cap {id})
        /\ id \in here => id \in Found(c)'
    BY <1>1, <2>1, NextFound
  <2>3. /\ Range(s.left) = {id} \cup Range(t.left)
        /\ t.left = <<>> <=> Len(s.left) = 1
    BY <2>1, TailOf DEF Types, QueriesOK, QueryOK
  <2> HIDE DEF s, t, here, id
  <2>4. /\ t.before \cap Wanted(c)' \subseteq Found(c)' \cup Range(t.left)
        /\ Found(c)' \subseteq t.ever \cap Wanted(c)'
        /\ Range(t.left) \subseteq Wanted(c)'
    BY <1>1, <1>3, <1>4, <2>1, <2>2, <2>3 DEF s, t
  <2>5. ASSUME t.pc = "fetch" PROVE FetchRight(c)'
    <3>1. t.left # <<>> /\ t.before \subseteq here /\ here \subseteq t.ever
      BY <1>1, <1>4, <2>1, <2>3, <2>5 DEF s, t
    <3> QED
      BY <1>2, <1>6, <2>4, <3>1, Zenon DEF FetchRight, t, here
  <2>6. ASSUME t.pc = "read" PROVE Complete(c)'
    <3>1. t.left = <<>>
      BY <2>1, <2>3, <2>6
    <3>2. Range(t.left) = {}
      BY <3>1 DEF Range
    <3>3. t.before \cap Wanted(c)' \subseteq Found(c)'
      BY <2>4, <3>2
    <3> QED
      BY <2>4, <3>3, Zenon DEF Complete, t
  <2> QED
    BY <2>5, <2>6 DEF t
<1> QED
  BY <1>5, <1>6

(* A query finds what is there all the time, and only what was there.      *)
LEMMA FetchStep ==
  ASSUME Types, FetchOK, QueryComplete, [Next]_vars
  PROVE  FetchOK' /\ QueryComplete'
<1>1. Types' /\ SameStreams /\ Requests' = Requests
  BY TypesStep
<1>2. ASSUME NEW c \in Clients
      PROVE  /\ client'[c].pc = "fetch" => FetchRight(c)'
             /\ client'[c].pc = "read" => Complete(c)'
  <2>1. /\ client[c].pc = "fetch" => FetchRight(c)
        /\ client[c].pc = "read" => Complete(c)
    BY CompleteIs DEF FetchOK
  <2>2. CASE client'[c].pc \notin Querying
    BY <2>2 DEF Querying
  <2>3. ASSUME NEW r \in DOMAIN Requests, Receives(c, r),
               UNCHANGED <<heap, m_streams>>
        PROVE  /\ client'[c].pc = "fetch" => FetchRight(c)'
               /\ client'[c].pc = "read" => Complete(c)'
    <3>1. client'[c].pc # "read"
      BY <2>3 DEF Receives
    <3> QED
      BY <1>1, <2>3, <3>1, ReceivedRight
  <2>4. CASE StillShows(c)
    <3>1. /\ client[c].pc = "read" /\ client'[c].pc = "read"
          /\ client'[c].request = client[c].request
          /\ client'[c].before = client[c].before
          /\ client'[c].ever = client[c].ever
          /\ client'[c].entries = client[c].entries
      BY <2>4 DEF StillShows
    <3>2. Request(c)' = Request(c)
      BY <1>1, <3>1 DEF Request
    <3>3. Found(c)' = Found(c) /\ Wanted(c)' = Wanted(c)
      BY <1>1, <3>1, <3>2, FoundStays, WantedStays
    <3> QED
      BY <2>1, <3>1, <3>3 DEF Complete
  <2>5. CASE Fetching(c)
    <3>1. client[c].pc = "fetch"
      BY <2>5 DEF Fetching
    <3> QED
      BY <1>1, <2>1, <2>5, <3>1, FetchedRight
  <2>6. CASE StillLooks(c)
    <3>1. client[c].pc = "fetch" /\ client'[c].pc = "fetch"
      BY <2>6, ClientParts DEF StillLooks
    <3> QED
      BY <1>1, <2>1, <2>6, <3>1, LooksRight
  <2> QED
    BY <2>2, <2>3, <2>4, <2>5, <2>6, SeenSteps
<1>3. FetchOK'
  BY <1>2 DEF FetchOK
<1>4. \A c \in Clients : client'[c].pc = "read" => Complete(c)'
  BY <1>2
<1>5. QueryComplete'
  BY <1>4, Zenon DEF QueryComplete, Complete, Wanted, Found
<1> QED
  BY <1>3, <1>5

-----------------------------------------------------------------------------
(* The theorems.                                                           *)

(* At first nobody does anything, and there are no streams.                *)
LEMMA InitInv ==
  ASSUME Init
  PROVE  Inv
<1>1. /\ heap = <<>> /\ Streams = {} /\ sent = {} /\ DOMAIN client = Clients
      /\ \A c \in Clients : client[c] = Idle
      /\ m_streams = [k \in Kinds |-> [id \in Id |-> 0]]
      /\ workload \in DOMAIN Workloads /\ now = streamReleaseTime + 1
  BY DEF Init, Streams
<1>2. \A c \in Clients :
        /\ DOMAIN client[c] = ClientFields /\ client[c].pc = "idle"
        /\ client[c].ps = 0 /\ client[c].k = 1 /\ client[c].field = 1
        /\ client[c].left = <<>> /\ client[c].entries = <<>>
        /\ client[c].shown = <<>>
  BY <1>1 DEF Idle, ClientFields
<1>3. IsArray(<<>>)
  BY DEF IsArray
<1>4. StreamsOK /\ MapsOK
  BY <1>1, <1>3 DEF StreamsOK, MapsOK
<1>5. ClientsOK
  BY <1>1, <1>2 DEF ClientsOK, ClientOK, Pcs, Holding
<1>6. QueriesOK
  <2>1. ASSUME NEW c \in Clients PROVE QueryOK(c)
    <3>1. <<>> \in Seq(Id) /\ Len(<<>>) = 0 /\ DOMAIN <<>> = {}
      OBVIOUS
    <3>2. IsArray(client[c].entries) /\ IsArray(client[c].shown)
      BY <1>2, <1>3
    <3>3. client[c].left \in Seq(Id) /\ DOMAIN client[c].entries = {}
      BY <1>2, <3>1
    <3>4. 1 \in DOMAIN Fields
      BY FieldsAre
    <3>5. Len(client[c].shown) = 0 /\ Len(client[c].entries) = 0
      BY <1>2, <3>1
    <3> QED
      BY <1>2, <3>2, <3>3, <3>4, <3>5 DEF QueryOK
  <2> QED
    BY <2>1 DEF QueriesOK
<1>7. now \in Nat \ {0}
  BY <1>1, InterfaceAssumption
<1>8. WritersApart /\ CopiesOwn /\ FetchOK
  BY <1>2 DEF WritersApart, CopiesOwn, FetchOK
<1>9. WorkersOK /\ InfosAsAsked
  BY <1>1 DEF WorkersOK, InfosAsAsked
<1>10. CallbacksAsAsked
  BY <1>1, Zenon DEF CallbacksAsAsked
<1>11. EntriesKept /\ ShownOK
  <2>1. \A c \in Clients : /\ DOMAIN client[c].entries = {}
                            /\ DOMAIN client[c].shown = {}
    BY <1>2
  <2> QED
    BY <2>1, Zenon DEF EntriesKept, ShownOK
<1>12. QueryComplete
  BY <1>2 DEF QueryComplete
<1> QED
  BY <1>1, <1>4, <1>5, <1>6, <1>7, <1>8, <1>9, <1>10, <1>11, <1>12
     DEF Inv, Types

(* The invariant: every step keeps each of its parts.                      *)
THEOREM InvHolds == Spec => []Inv
<1>1. Init => Inv
  BY InitInv
<1>2. Inv /\ [Next]_vars => Inv'
  <2> SUFFICES ASSUME Inv, [Next]_vars PROVE Inv'
    OBVIOUS
  <2>1. /\ Types /\ WritersApart /\ CopiesOwn /\ WorkersOK
        /\ InfosAsAsked /\ CallbacksAsAsked /\ EntriesKept /\ ShownOK
        /\ FetchOK /\ QueryComplete
    BY DEF Inv
  <2>2. Types' /\ WritersApart' /\ CopiesOwn' /\ WorkersOK'
    BY <2>1, TypesStep, WritersStep, CopiesStep, WorkersStep
  <2>3. InfosAsAsked' /\ CallbacksAsAsked'
    BY <2>1, InfosStep, CallbacksStep
  <2>4. EntriesKept' /\ ShownOK' /\ FetchOK' /\ QueryComplete'
    BY <2>1, EntriesStep, ShownStep, FetchStep
  <2> QED
    BY <2>2, <2>3, <2>4 DEF Inv
<1> QED
  BY <1>1, <1>2, PTL DEF Spec

(* Every client is where its request can have taken it, every stream a map *)
(* has is of its kind and id, and no index a query uses is out of range.   *)
THEOREM TypesCorrect == Spec => []Types
<1>1. Inv => Types
  BY DEF Inv
<1> QED
  BY <1>1, InvHolds, PTL

(* What a query shows of a stream that is still there is what the stream   *)
(* was asked for, or an info nothing has been copied to yet.               *)
THEOREM QueriesShowWhatWasAsked == Spec => []ShownAsAsked
<1>1. Inv => ShownAsAsked
  <2> SUFFICES ASSUME Inv, NEW r \in Reads, Live(StreamOf(r))
               PROVE  ShownBy(r).given
                        \in {Asked(StreamOf(r)), Shown(DefaultInfo)}
    BY DEF ShownAsAsked
  <2>1. r[1] \in Clients /\ r[2] \in DOMAIN client[r[1]].shown /\ ShownOK
    BY DEF Reads, Inv
  <2> QED
    BY <2>1 DEF ShownOK, StreamOf, ShownBy
<1> QED
  BY <1>1, InvHolds, PTL

(* A query that shows a stream as stopped shows the error it stopped with, *)
(* unless a jump that failed has left its own.                             *)
THEOREM StoppedIsExplained == Spec => []StoppedTellsWhy
<1>1. Inv => StoppedTellsWhy
  <2> SUFFICES ASSUME Inv, NEW r \in Reads, Live(StreamOf(r)),
                      client[r[1]].k > r[2], ~heap[StreamOf(r)].spoiled,
                      ShownBy(r).status = "stopped"
               PROVE  ShownBy(r).error = heap[StreamOf(r)].info.error
    BY DEF StoppedTellsWhy
  <2>1. r[1] \in Clients /\ r[2] \in DOMAIN client[r[1]].shown /\ ShownOK
    BY DEF Reads, Inv
  <2> QED
    BY <2>1 DEF ShownOK, StreamOf, ShownBy
<1> QED
  BY <1>1, InvHolds, PTL

(* A callback goes where the request says, else where the configuration    *)
(* said when the request was handled, and only if it is wanted.            *)
THEOREM CallbacksGoWhereAsked == Spec => []ReportsAsAsked
<1>1. Inv => ReportsAsAsked
  <2> SUFFICES ASSUME CallbacksAsAsked
               PROVE  ReportsAsAsked
    BY DEF Inv
  <2>1. ASSUME NEW m \in {x \in sent : Live(x.stream)}
        PROVE  /\ m.callback \in Callbacks
               /\ CallbackAsAsked(m.stream, m.callback, m.url)
    BY <2>1 DEF CallbacksAsAsked
  <2>2. \A m : m.callback \in Callbacks =>
          \/ m.callback = "process"
          \/ m.callback = "filestart" /\ m.callback # "process"
          \/ /\ m.callback = "stop"
             /\ m.callback # "process" /\ m.callback # "filestart"
    BY DEF Callbacks
  <2> QED
    BY <2>1, <2>2, Zenon DEF ReportsAsAsked, CallbackAsAsked
<1> QED
  BY <1>1, InvHolds, PTL

(* What a query's raw pointers refer to is there until streamReleaseTime   *)
(* has passed since the stream ended, or since it was found if that comes  *)
(* first, unless it was started anew or never began.                       *)
THEOREM OnlyDueStreamsAreFreed == Spec => []FreedOnlyWhenDue
<1>1. Inv => FreedOnlyWhenDue
  <2> SUFFICES ASSUME EntriesKept, NEW c \in Clients,
                      NEW k \in DOMAIN client[c].entries
               PROVE  LET e == client[c].entries[k]
                          s == heap[e.stream]
                      IN  \/ Live(e.stream) \/ now > e.until
                          \/ \E o \in Streams : /\ o > e.stream
                                                /\ heap[o].kind = s.kind
                                                /\ heap[o].id = s.id
                          \/ s.kind = "realtime" /\ ~s.ran
    BY DEF Inv, FreedOnlyWhenDue
  <2> QED
    BY DEF EntriesKept, Lasts, KeptFor, Live, Renewed, Unbegun
<1> QED
  BY <1>1, InvHolds, PTL

(* A query for all streams finds every one that is there all the time, and *)
(* none that never was; a query for some finds of these what it asks.      *)
THEOREM QueriesFindAll == Spec => []QueryComplete
<1>1. Inv => QueryComplete
  BY DEF Inv
<1> QED
  BY <1>1, InvHolds, PTL
=============================================================================
