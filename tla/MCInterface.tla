---------------------------- MODULE MCInterface ----------------------------
(* Requests of every kind for one file stream, one realtime stream and a    *)
(* second file stream, right and wrong.                                     *)
EXTENDS Interface, TLC

Str(s) == [type |-> "string", value |-> s]
Num(n) == [type |-> "int", value |-> n]
Bool(b) == [type |-> "bool", value |-> b]
Array(s) == [type |-> "array", value |-> s]
Object(f) == [type |-> "object", value |-> f]

Post(kind, path, body) ==
  [kind |-> kind, path |-> path, method |-> "POST", parses |-> TRUE,
   body |-> body]
File(path, index, id) ==
  [path |-> Str(path), index |-> Num(index), id |-> Str(id)]

TwoFiles == Array(<<File("b.mp3", 1, "b"), File("a.mp3", 0, "a"),
                    File("c.mp3", 1, "c")>>)
Start1 ==
  Post("file", "start",
       [id |-> Str("i1"), url |-> Str("rtmp:1"), files |-> TwoFiles,
        enableProcessCb |-> Bool(TRUE), stopCbUrl |-> Str("mine"),
        duration |-> Num(5)])
Start2 ==
  Post("file", "start",
       [id |-> Str("i1"), url |-> Str("rtmp:2"),
        files |-> Array(<<File("a.mp3", 0, "a"), File("a.aac", 1, "b")>>),
        enableFileStartCb |-> Bool(TRUE), enableStopCb |-> Bool(FALSE),
        cycle |-> Num(2), mode |-> Num(2), duration |-> Str("5")])
StartEmpty ==
  Post("file", "start", [id |-> Str("i2"), url |-> Str("rtmp:3"),
                         files |-> Array(<<>>)])
StartReal ==
  Post("realtime", "start",
       [id |-> Str("i1"), url |-> Str("rtmp:4"), source |-> Str("src"),
        enableProcessCb |-> Bool(TRUE),
        audioConvert |-> Object([enable |-> Bool(TRUE), codec |-> Str("aac"),
                                 ar |-> Num(44100), ab |-> Num(64),
                                 ac |-> Num(2)])])
Wrong ==
  <<[Start1 EXCEPT !.method = "PUT"], [Start1 EXCEPT !.parses = FALSE],
    Post("realtime", "jump", [id |-> Str("i1"), pos |-> Num(0)]),
    Post("file", "start", [id |-> Num(1), url |-> Str("rtmp:1")]),
    Post("file", "query", [id |-> Str("i1")]),
    [StartReal EXCEPT !.body.audioConvert.value.ac = Num(3)],
    Post("file", "start", [id |-> Str("i1"), url |-> Str("rtmp:1"),
                           files |-> Array(<<[path |-> Str("a.mp3")]>>)])>>

StopIt(kind) == Post(kind, "stop", [id |-> Str("i1")])
Jump == Post("file", "jump", [id |-> Str("i1"), pos |-> Num(0)])
Query(kind, ids) ==
  Post(kind, "query", [id |-> Array([k \in DOMAIN ids |-> Str(ids[k])])])

FileAndRealtime ==
  <<<<Start1, Start2, StartEmpty, StopIt("file"), Jump, Query("file", <<>>)>> \o Wrong,
    <<StartReal, StopIt("realtime"), Query("realtime", <<"i2", "i1">>)>>>>

Mp3(total, rate) ==
  [opens |-> TRUE, total |-> total, codec |-> "mp3", channel |-> 2,
   rate |-> rate]
TestMedia ==
  ("a.mp3" :> Mp3(9, 44100)) @@ ("b.mp3" :> Mp3(9, 48000))
    @@ ("c.mp3" :> [Mp3(9, 44100) EXCEPT !.opens = FALSE])
    @@ ("a.aac" :> [Mp3(9, 44100) EXCEPT !.codec = "aac"])
TestConfigs ==
  <<[process |-> Str("p"), filestart |-> Str("f"), stop |-> Str("s")],
    [process |-> Str("p2"), stop |-> Num(0)]>>
Symmetry == Permutations(Clients)
TestIds == {"i1", "i2"}
Urls == {"rtmp:1", "rtmp:2", "rtmp:3", "rtmp:4"}
=============================================================================
