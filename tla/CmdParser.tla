------------------------------- MODULE CmdParser -----------------------------
(* The command parsers of star_protocol (cmdParser.cpp): j2b turns the msg  *)
(* object of a command into the body of a terminal message, b2j turns the   *)
(* body back.  Each of the thirty classes writes out the same two loops     *)
(* over its own parameters; here a class is a table of its parameters, and  *)
(* the loops are j2b and b2j at the end of the module.                      *)
EXTENDS ProductModel, FiniteSets

Failed == <<-1>>     \* j2b returned a negative length

AnyLength  == 0..16383
Exactly(w) == {w}
AtMost(w)  == 0..w
FromFour   == 4..16383
EvenLength == {w \in 0..16383 : w % 2 = 0}

-----------------------------------------------------------------------------
(* A parameter: its member name, its T, how its value is coded, the lengths *)
(* L b2j accepts (another one ends the reading), and whether j2b gives up   *)
(* without it (wants: the text lengths it then accepts).                    *)
Param(name, t, kind) ==
  [name |-> name, t |-> t, kind |-> kind, width |-> 0, max |-> 16383,
   lengths |-> AnyLength, required |-> FALSE, wants |-> AnyLength, steps |-> 1]

u8(name, t)  == [Param(name, t, "uint") EXCEPT !.width = 1, !.lengths = {1}]
u16(name, t) == [Param(name, t, "uint") EXCEPT !.width = 2, !.lengths = {2}]
u32(name, t) == [Param(name, t, "uint") EXCEPT !.width = 4, !.lengths = {4}]
utcms(name, t) == [Param(name, t, "utcms") EXCEPT !.lengths = {8}]
text(name, t, max) == [Param(name, t, "text") EXCEPT !.max = max]
ip(name, t)  == [Param(name, t, "ip") EXCEPT !.lengths = {4}]
hex(name, t, lengths) == [Param(name, t, "hex") EXCEPT !.lengths = lengths]

Unchecked(param) == [param EXCEPT !.lengths = AnyLength]
Required(param)  == [param EXCEPT !.required = TRUE]
(* A hex text that must have 32 digits, or an even number of them.          *)
Digits32(param)  == [Required(param) EXCEPT !.wants = {32}]
Even(param)      == [Required(param) EXCEPT !.wants = EvenLength]

(* A class: the parameters of a request and of its answer; the members j2b  *)
(* counts before it looks at isAck; whether a T it does not know is passed  *)
(* over with its value; whether it writes nothing rather than give up.      *)
Class(params) ==
  [request |-> params, answer |-> <<>>, members |-> {}, present |-> 0,
   skips |-> TRUE, blank |-> FALSE]
WithAnswer(class, params) == [class EXCEPT !.answer = params]
NoSkip(class) == [class EXCEPT !.skips = FALSE]
Counting(class, members, n) == [class EXCEPT !.members = members, !.present = n]

-----------------------------------------------------------------------------
syncHeartbeatReq == Class(<<u32("timestamp", 1), u16("delay", 2),
                            u8("hbinterval", 3), u8("devtype", 4)>>)
syncHeartbeatResp ==
  Class(<<u32("timestamp", 1), utcms("utc-ms", 2),
          [Param("modulever", 3, "modulever") EXCEPT !.lengths = {4}]>>)

moduledata(kind) ==
  <<[Required(Param("moduledata", 1, kind)) EXCEPT !.lengths = FromFour]>>
syncSetData == Class(moduledata("moduledata"))
syncGetData ==
  WithAnswer(
    Class(<<[Required(Param("moduleid", 1, "moduleid"))
               EXCEPT !.lengths = {2}]>>),
    moduledata("strict moduledata"))

multicastTestReq  == Class(<<utcms("utc-ms", 1)>>)
multicastTestResp == Class(<<utcms("utc-ms", 1)>>)
startStream == WithAnswer(Class(<<text("url", 1, 256), u32("prestreamid", 2)>>),
                          <<u32("streamid", 1), u8("transfermode", 2),
                            ip("multicastaddr", 3), u16("mutilcastport", 4)>>)
stopStream    == Class(<<Unchecked(u32("streamid", 1))>>)
streamError   == Class(<<u32("streamid", 1), u8("status", 2),
                         text("desc", 3, 32)>>)
resendData    == Class(<<u32("streamid", 1), u16("sequencenubmer", 2)>>)
setStreamData == Class(<<u32("streamid", 1), u8("pt", 2),
                         text("url", 3, 256)>>)
getStreamData == Class(<<Unchecked(u32("streamid", 1))>>)
pullStreamHeartReq == Class(<<text("url", 1, 256), u32("streamDataTime", 2)>>)
examHeartbeatReq   == Class(<<>>)
examHeartbeatResp  == Class(<<>>)

serverDiscoverReq  == Class(<<text("service", 1, 16383)>>)
(* Without an ipv6 of 32 digits the body is empty, and it is sent.          *)
serverDiscoverResp ==
  [Class(<<text("service", 1, 16383), text("id", 2, 16383), ip("ipv4", 3),
           u16("port", 4), Digits32(hex("ipv6", 5, {16}))>>)
     EXCEPT !.blank = TRUE]

reqid(t) == Even(hex("reqid", t, AtMost(16)))
getTermConfigReq ==
  Counting(Class(<<u8("type", 1), reqid(2),
                   Param("getModuleId", 3, "all modules"),
                   Param("getModuleData", 4, "property ids")>>),
           {"getModuleId", "getModuleData"}, 2)
getTermConfigResp ==
  Counting(Class(<<reqid(1),
                   [Param("getModuleId", 3, "module ids")
                      EXCEPT !.lengths = EvenLength, !.steps = 2],
                   Param("getModuleData", 4, "get config")>>),
           {"getModuleId", "getModuleData"}, 1)
setTermConfigReq ==
  Counting(Class(<<u8("type", 1), reqid(2),
                   Param("setModuleData", 5, "set config")>>),
           {"setModuleData"}, 1)
setTermConfigResp ==
  Class(<<reqid(1), u8("errorcode", 2),
          [text("errormsg", 3, 16383) EXCEPT !.lengths = AtMost(64)]>>)

taskid == Digits32(hex("taskid", 1, {16}))
result(t) == <<Required(Unchecked(u8("errorcode", t))),
               Required(text("errormsg", t + 1, 64))>>
firmware(t) ==
  [Required(Param("firmware", t, "firmware")) EXCEPT !.lengths = FromFour]
readFirmwareRequest  == Class(<<>>)
encoderHeartbeat     == Class(<<>>)
readFirmwareResponse == NoSkip(Class(<<firmware(1)>>))
startUpgradeRequest ==
  NoSkip(Class(<<taskid, Required(text("url", 2, 256)),
                 Required(Unchecked(u32("size", 3))),
                 Digits32(hex("md5", 4, {16})), firmware(5)>>))
startUpgradeResponse == NoSkip(Class(<<taskid>> \o result(2)))
stopUpgradeRequest   == NoSkip(Class(<<taskid>>))
stopUpgradeResponse  == NoSkip(Class(<<taskid>> \o result(2)))
queryUpgradeRequest  == Class(<<>>)
queryUpgradeResponse ==
  NoSkip(Class(<<taskid, Required(Unchecked(u8("progress", 2))),
                 Required(text("stage", 3, 32))>> \o result(4)))

-----------------------------------------------------------------------------
(* cmdParserRepo: the class of a topic (below 50) and a command.            *)
Repo ==
  (<<1, 1>> :> syncHeartbeatReq)     @@ (<<1, 2>> :> syncHeartbeatResp) @@
  (<<1, 3>> :> syncSetData)          @@ (<<1, 4>> :> syncGetData) @@
  (<<2, 1>> :> multicastTestReq)     @@ (<<2, 2>> :> multicastTestResp) @@
  (<<2, 3>> :> startStream)          @@ (<<2, 4>> :> stopStream) @@
  (<<2, 5>> :> streamError)          @@ (<<2, 6>> :> resendData) @@
  (<<2, 7>> :> setStreamData)        @@ (<<2, 8>> :> getStreamData) @@
  (<<2, 9>> :> examHeartbeatReq)     @@ (<<2, 10>> :> examHeartbeatResp) @@
  (<<2, 11>> :> pullStreamHeartReq)  @@ (<<3, 1>> :> serverDiscoverReq) @@
  (<<3, 2>> :> serverDiscoverResp)   @@ (<<4, 1>> :> getTermConfigReq) @@
  (<<4, 2>> :> getTermConfigResp)    @@ (<<4, 3>> :> setTermConfigReq) @@
  (<<4, 4>> :> setTermConfigResp)    @@ (<<5, 1>> :> readFirmwareRequest) @@
  (<<5, 2>> :> readFirmwareResponse) @@ (<<5, 3>> :> startUpgradeRequest) @@
  (<<5, 4>> :> startUpgradeResponse) @@ (<<5, 5>> :> stopUpgradeRequest) @@
  (<<5, 6>> :> stopUpgradeResponse)  @@ (<<5, 7>> :> queryUpgradeRequest) @@
  (<<5, 8>> :> queryUpgradeResponse) @@ (<<7, 1>> :> encoderHeartbeat)

IsPenetrate(topic) == topic >= 50
-----------------------------------------------------------------------------
(* A module's data with its index and version, for syncSetData and          *)
(* syncGetData.  Items of unknown modules are left out.                     *)
ModuleDataJ2B(t, items) ==
  LET known == SelectSeq(items, LAMBDA item : HasName(Modules, item["module"]))
      Value(item) ==
        LET md == OfName(Modules, item["module"])
        IN  NumberToBytes(md.index, 2) \o NumberToBytes(item["v"], 2)
              \o dataJ2B(md.properties, item)
  IN  FlattenSeq([i \in 1..Len(known) |-> Tlv(t, Value(known[i]))])

(* dataB2J is given L, not the L - 4 bytes that are left of the value: it   *)
(* reads four bytes further than it should.                                 *)
ModuleDataB2J(mem, at, L) ==
  LET md == OfIndex(Modules, BytesToNumber(mem, at, 2))
  IN  ("module" :> md.name) @@ ("v" :> BytesToNumber(mem, at + 2, 2))
        @@ dataB2J(md.properties, mem, at + 4, L)

ModuleVersionsJ2B(t, items) ==
  FlattenSeq([i \in 1..Len(items) |->
    Tlv(t, NumberToBytes(OfName(Modules, items[i]["module"]).index, 2)
             \o NumberToBytes(items[i]["v"], 2))])

(* Firmware items, for readFirmwareResponse and startUpgradeRequest.        *)
FirmwareParams == <<text("hwcode", 1, 32), Unchecked(ip("version", 2))>>

-----------------------------------------------------------------------------
(* The configuration commands nest one TLV per module, its T the low byte   *)
(* of the module's index.                                                   *)
NamedModules(json) == SelectSeq(Modules, LAMBDA md : md.name \in DOMAIN json)

ModulesJ2B(json, Data(_)) ==
  LET named == NamedModules(json)
  IN  FlattenSeq([i \in 1..Len(named) |->
                    Tlv(named[i].index % 256, Data(named[i]))])

PropertyIdsJ2B(json) ==
  LET Ids(md) == FlattenSeq([i \in 1..Len(json[md.name]) |->
                   <<OfName(md.properties, json[md.name][i]).index, 0>>])
  IN  ModulesJ2B(json, Ids)

ConfigJ2B(json) ==
  LET Data(md) == dataJ2B(md.properties, json[md.name])
  IN  ModulesJ2B(json, Data)

(* getTermConfigResp makes room for the second byte of the length but does  *)
(* not count it: the last byte of the data is not sent.                     *)
GetConfigJ2B(t, json) ==
  LET data == ConfigJ2B(json)
  IN  IF Len(data) > 127 THEN Front(Tlv(t, data)) ELSE Tlv(t, data)

(* The modules in the L bytes at offset at, each as Read(module, offset,    *)
(* length) gives it; unknown ones are passed over.                          *)
ModulesB2J(mem, at, L, Read(_, _, _)) ==
  LET RECURSIVE from(_, _)
      from(offset, json) ==
        IF offset >= L THEN json
        ELSE LET index == mem[at + offset + 1]
                 field == getTlvLength(mem, at + offset + 1)
                 data == offset + 1 + field.bytes
                 md == OfIndex(Modules, index)
             IN  from(data + field.length,
                      IF ~HasIndex(Modules, index) THEN json
                      ELSE (md.name :> Read(md, at + data, field.length))
                             @@ json)
  IN  from(0, NoMembers)

PropertyIdsB2J(mem, at, L) ==
  LET Names(md, o, w) ==
        [i \in 1..((w + 1) \div 2) |->
           OfIndex(md.properties, mem[o + 2 * i - 1]).name]
  IN  ModulesB2J(mem, at, L, Names)

ConfigB2J(mem, at, L) ==
  LET Data(md, o, w) == dataB2J(md.properties, mem, o, w)
  IN  ModulesB2J(mem, at, L, Data)

(* setTermConfigReq takes the 0 that dataB2J returns for a failure, and so  *)
(* never keeps a module.                                                    *)
SetConfigB2J(mem, at, L) == NoMembers
-----------------------------------------------------------------------------
RECURSIVE ParamsJ2B(_, _), ParamsB2J(_, _, _, _, _)

(* cmdParser::paramJ2B_u8 .. paramJ2B_bytes, and what the classes write out *)
(* themselves.                                                              *)
ValueOf(param, v) ==
  CASE param.kind = "uint"  -> NumberToBytes(v, param.width)
    [] param.kind = "utcms" -> NumberToBytes(v \div 1000, 4)
                                 \o NumberToBytes(v % 1000, 4)
    [] param.kind = "text"  -> Cut(v, param.max)
    [] param.kind = "ip"    -> IF Len(v) = 4 THEN v ELSE <<255, 255, 255, 255>>
    [] param.kind = "hex"   -> hexStringToBytes(v)

ParamJ2B(param, json) ==
  LET v == json[param.name]
      t == param.t
  IN  IF param.name \notin DOMAIN json THEN <<>>
      ELSE CASE param.kind = "modulever" -> ModuleVersionsJ2B(t, v)
             [] param.kind \in {"moduledata", "strict moduledata"} ->
                  ModuleDataJ2B(t, v)
             [] param.kind = "moduleid" ->
                  FlattenSeq([i \in 1..Len(v) |->
                    IF HasName(Modules, v[i])
                    THEN Tlv(t, NumberToBytes(OfName(Modules, v[i]).index, 2))
                    ELSE <<>>])
             [] param.kind = "firmware" ->
                  FlattenSeq([i \in 1..Len(v) |->
                                Tlv(t, ParamsJ2B(FirmwareParams, v[i]))])
             [] param.kind = "all modules" -> IF v THEN Tlv(t, <<>>) ELSE <<>>
             [] param.kind = "property ids" ->
                  IF json["getModuleId"] THEN <<>>
                  ELSE Tlv(t, PropertyIdsJ2B(v))
             [] param.kind = "module ids" ->
                  Tlv(t, FlattenSeq([i \in 1..Len(v) |->
                           <<OfName(Modules, v[i]).index % 256, 0>>]))
             [] param.kind = "get config" -> GetConfigJ2B(t, v)
             [] param.kind = "set config" -> Tlv(t, ConfigJ2B(v))
             [] OTHER -> Tlv(t, ValueOf(param, v))

ParamsJ2B(params, json) ==
  FlattenSeq([i \in 1..Len(params) |-> ParamJ2B(params[i], json)])

(* What makes j2b give up: a member it must have, a hex text of a wrong     *)
(* length, a list item without its members, or a module it does not know.   *)
ItemMembers(kind) ==
  CASE kind \in {"moduledata", "strict moduledata"} -> {"module", "v"}
    [] kind = "firmware" -> {"hwcode", "version"}
    [] OTHER -> {}

NamesUnknown(param, json) ==
  LET v == json[param.name]
      Known(names) == \A name \in names : HasName(Modules, name)
  IN  CASE param.kind = "modulever" -> ~Known({v[i]["module"] : i \in DOMAIN v})
        [] param.kind = "module ids" -> ~Known({v[i] : i \in DOMAIN v})
        [] param.kind = "property ids" ->
             ~json["getModuleId"] /\ ~Known(DOMAIN v)
        [] param.kind \in {"get config", "set config"} -> ~Known(DOMAIN v)
        [] OTHER -> FALSE

Lacks(param, json) ==
  IF param.name \notin DOMAIN json THEN param.required
  ELSE \/ param.kind = "hex" /\ Len(json[param.name]) \notin param.wants
       \/ /\ ItemMembers(param.kind) # {}
          /\ \E i \in DOMAIN json[param.name] :
               ~(ItemMembers(param.kind) \subseteq DOMAIN json[param.name][i])
       \/ NamesUnknown(param, json)

-----------------------------------------------------------------------------
(* What makes b2j stop at a TLV with an acceptable length: a module it does *)
(* not know, or firmware TLVs that do not fit.                              *)
Refuses(param, mem, at, L) ==
  \/ /\ param.kind \in {"modulever", "strict moduledata"}
     /\ ~HasIndex(Modules, BytesToNumber(mem, at, 2))
  \/ /\ param.kind = "firmware"
     /\ ~ParamsB2J(FirmwareParams, TRUE, mem, at, at + L).whole

(* json with the value of a TLV.                                            *)
ParamB2J(param, json, mem, at, L) ==
  LET old == IF param.name \in DOMAIN json THEN json[param.name] ELSE <<>>
      Put(v) == (param.name :> v) @@ json
      ModuleAt(w) == BytesToNumber(mem, at, w)
  IN  CASE param.kind = "uint"  -> Put(BytesToNumber(mem, at, param.width))
        [] param.kind = "utcms" -> Put(1000 * BytesToNumber(mem, at, 4)
                                         + BytesToNumber(mem, at + 4, 4))
        [] param.kind = "text"  -> Put(Text(mem, at, L))
        [] param.kind = "ip"    -> Put(Text(mem, at, 4))
        [] param.kind = "hex"   -> Put(BytesToHex(mem, at, L))
        [] param.kind = "modulever" ->
             Put(Append(old, ("module" :> OfIndex(Modules, ModuleAt(2)).name) @@
                             ("v" :> BytesToNumber(mem, at + 2, 2))))
        [] param.kind \in {"moduledata", "strict moduledata"} ->
             IF ~HasIndex(Modules, ModuleAt(2)) THEN json
             ELSE Put(Append(old, ModuleDataB2J(mem, at, L)))
        [] param.kind = "moduleid" ->
             IF ~HasIndex(Modules, ModuleAt(2)) THEN json
             ELSE Put(Append(old, OfIndex(Modules, ModuleAt(2)).name))
        [] param.kind = "firmware" ->
             Put(Append(old,
               ParamsB2J(FirmwareParams, TRUE, mem, at, at + L).json
                 @@ ("hwcode" :> <<>>) @@ ("version" :> <<>>)))
        [] param.kind = "all modules" ->
             ("getModuleId" :> TRUE) @@ ("getModuleData" :> NoMembers) @@ json
        [] param.kind = "property ids" ->
             ("getModuleId" :> FALSE)
               @@ ("getModuleData" :> PropertyIdsB2J(mem, at, L)) @@ json
        [] param.kind = "module ids" ->
             LET ids == [i \in 1..(L \div 2) |-> mem[at + 2 * i - 1]]
                 known == SelectSeq(ids, LAMBDA id : HasIndex(Modules, id))
             IN  IF known = <<>> THEN json
                 ELSE Put(old \o [i \in 1..Len(known) |->
                                    OfIndex(Modules, known[i]).name])
        [] param.kind = "get config" -> Put(ConfigB2J(mem, at, L))
        [] param.kind = "set config" -> Put(SetConfigB2J(mem, at, L))

(* Where the loop goes on after a TLV with a T the class does not know.     *)

AfterUnknown(skips, at, L) == IF skips THEN at + L ELSE at

(* The loop of b2j from offset to end.  It stops at the first TLV that does *)
(* not fit or is not accepted, with what it has read so far; getJsonMsg     *)
(* does not look at the code b2j returns.                                   *)
ParamsB2J(params, skips, mem, offset, end) ==
  LET RECURSIVE from(_, _)
      from(o, json) ==
        IF o >= end THEN [json |-> json, whole |-> TRUE]
        ELSE LET t == mem[o + 1]
                 field == getTlvLength(mem, o + 1)
                 at == o + 1 + field.bytes
                 L == field.length
                 match == SelectSeq(params, LAMBDA p : p.t = t)
                 p == match[1]
             IN  IF at + L > end THEN [json |-> json, whole |-> FALSE]
                 ELSE IF match = <<>>
                      THEN from(AfterUnknown(skips, at, L), json)
                 ELSE IF L \notin p.lengths \/ Refuses(p, mem, at, L)
                      THEN [json |-> json, whole |-> FALSE]
                 ELSE from(at + p.steps * L, ParamB2J(p, json, mem, at, L))
  IN  from(offset, NoMembers)

-----------------------------------------------------------------------------
(* j2b of a class: the body of a message with the JSON object msg.          *)
j2b(class, isAck, msg) ==
  LET params == IF isAck THEN class.answer ELSE class.request
  IN  IF Cardinality(class.members \cap DOMAIN msg) # class.present THEN Failed
      ELSE IF \E i \in 1..Len(params) : Lacks(params[i], msg)
           THEN IF class.blank THEN <<>> ELSE Failed
      ELSE ParamsJ2B(params, msg)

(* b2j of a class on the first length bytes of mem.                         *)
b2j(class, isAck, mem, length) ==
  ParamsB2J(IF isAck THEN class.answer ELSE class.request, class.skips,
            mem, 0, length).json

(* commandPenetrate: the body is the data of the command's model; the data  *)
(* of an answer are written but not read.                                   *)
CommandsOf(topic, cmd) ==
  SelectSeq(Commands, LAMBDA c : c.topic = topic /\ c.cmd = cmd)
penetrateJ2B(topic, cmd, msg) ==
  LET found == CommandsOf(topic, cmd)
  IN  IF found = <<>> THEN Failed
      ELSE commandJ2B(found[Len(found)], msg)
penetrateB2J(topic, cmd, isAck, mem, length) ==
  LET found == CommandsOf(topic, cmd)
  IN  IF isAck \/ found = <<>> THEN NoMembers
      ELSE commandB2J(found[Len(found)], mem, length)
=============================================================================
