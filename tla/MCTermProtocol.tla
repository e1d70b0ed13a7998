---------------------------- MODULE MCTermProtocol ---------------------------
(* The product models and the messages of star_protocol's own test          *)
(* (test/product_v0.2.json, configModel_v0.2.json, message.json), and some  *)
(* at the limits.  Texts are shorter, most numbers are the test's.          *)
EXTENDS TermProtocol

Chars(n) == [i \in 1..n |-> 96 + (i % 26)]
Hex32 == [i \in 1..32 |-> (i - 1) % 16]
Addr(n) == <<192, 168, 1, n>>

Prop(name, index, type) == Property(name, index, type)
Module(name, index, properties) ==
  [name |-> name, index |-> index, properties |-> properties]

Coordinate == StructType(<<Prop("longitude", 1, StringType(10)),
                           Prop("latitude", 2, StringType(10))>>)
Broadcast == <<Prop("url", 1, StringType(255)),
               Prop("volume", 2, NumberType(1)),
               Prop("id", 3, StringType(32)),
               Prop("title", 4, StringType(255)),
               Prop("privilege", 5, NumberType(1))>>

TestModules ==
  <<Module("status", 1, <<Prop("status", 1, EnumType),
                          Prop("description", 2, StringType(255))>>),
    Module("config", 2, <<Prop("volume", 1, NumberType(1)),
                          Prop("heartbeatInterval", 2, NumberType(1)),
                          Prop("multicast", 3, BoolType),
                          Prop("privilege", 4, NumberType(1)),
                          Prop("coordinate", 5, Coordinate),
                          Prop("tags", 6, ArrayType(StringType(128)))>>),
    Module("attribute", 3, <<Prop("version", 1, StringType(32)),
                             Prop("address", 2, StringType(32)),
                             Prop("product", 3, StringType(64))>>),
    Module("broadcast", 4, Broadcast),
    Module("DEV_IP_CFG_INFO", 16, <<Prop("ip", 1, BytesType(4)),
                                    Prop("ipSubnet", 2, BytesType(4)),
                                    Prop("ipGw", 3, BytesType(4)),
                                    Prop("ipMDNS", 4, BytesType(4)),
                                    Prop("ipSDNS", 5, BytesType(4)),
                                    Prop("signDHCP", 6, BoolType)>>),
    Module("CMD_SRV_IP_CFG_INFO", 33,
           <<Prop("ip", 1, BytesType(4)), Prop("port", 2, NumberType(2)),
             Prop("hostName", 3, StringType(65))>>)>>
TestModelCommands ==
  <<[topic |-> 50, cmd |-> 1, properties |-> Broadcast],
    [topic |-> 50, cmd |-> 2,
     properties |-> <<Prop("place", 1, Coordinate),
                      Prop("tags", 2, ArrayType(NumberType(4)))>>]>>

(* The documents the models are in.                                         *)
NumberSpecs == Object([unit |-> Text_("s"), min |-> Int_(0),
                       max |-> Json("uint64", "2^32 - 1"), step |-> Int_(1)])
IntOf == <<"int8", "int16", "int16", "int32">>
BoolSpecs == Object(("1" :> Text_("on")) @@ ("0" :> Text_("off")))
EnumSpecs == Object(("0" :> Text_("idle")) @@ ("1" :> Text_("working")))

RECURSIVE TypeDocument(_)
PropDocument(p) ==
  Object([identifier |-> Text_(p.name), index |-> Int_(p.index),
          dataType |-> TypeDocument(p.type), name |-> Text_(p.name)])
PropDocuments(properties) ==
  Array([i \in 1..Len(properties) |-> PropDocument(properties[i])])
TypeDocument(t) ==
  LET DataType(type, specs) == Object([type |-> Text_(type), specs |-> specs])
  IN  CASE t.kind = "number" -> DataType(IntOf[t.length], NumberSpecs)
        [] t.kind = "string" ->
             DataType("string", Object([length |-> Int_(t.length)]))
        [] t.kind = "bytes" ->
             DataType("bytes", Object([length |-> Int_(t.length),
                                       codec |-> Text_("hexstring")]))
        [] t.kind = "bool" -> DataType("bool", BoolSpecs)
        [] t.kind = "enum" -> DataType("enum", EnumSpecs)
        [] t.kind = "array" ->
             DataType("array",
                      Object([item |-> PropDocument(Prop("item", 1, t.item)),
                              size |-> Int_(10)]))
        [] t.kind = "struct" -> DataType("struct", PropDocuments(t.properties))

ModuleDocument(m) ==
  Object([module |-> Text_(m.name), index |-> Int_(m.index),
          source |-> Text_("term"),
          properties |-> PropDocuments(m.properties)])
CmdDocument(c) ==
  Object([topic |-> Int_(c.topic), cmd |-> Int_(c.cmd),
          message |-> PropDocuments(c.properties)])
TestProduct ==
  Object([product |-> Text_("bffa9c91"), name |-> Text_("terminal"),
          modules |-> Array([i \in 1..Len(TestModules) |->
                               ModuleDocument(TestModules[i])])])
TestCommands ==
  Object([commands |-> Array([i \in 1..Len(TestModelCommands) |->
                                CmdDocument(TestModelCommands[i])])])

-----------------------------------------------------------------------------
BroadcastData(n) ==
  [url |-> Chars(n), volume |-> 60, id |-> Chars(32), title |-> Chars(6),
   privilege |-> 100]
ConfigData(tags) ==
  [volume |-> 80, heartbeatInterval |-> 8, multicast |-> TRUE,
   privilege |-> 30,
   coordinate |-> [longitude |-> Chars(8), latitude |-> Chars(7)],
   tags |-> tags]
Item(name, v, data) == ("module" :> name) @@ ("v" :> v) @@ data

ModuleDataMsg ==
  [moduledata |->
     <<Item("broadcast", 4, BroadcastData(12)),
       Item("attribute", 4, [version |-> Chars(7), address |-> Chars(13),
                             product |-> Chars(6)]),
       Item("config", 5, ConfigData(<<Chars(1), Chars(2), Chars(3)>>)),
       Item("status", 5, [status |-> 0, description |-> Chars(12)])>>]

IpCfg == [ip |-> <<12, 0, 10, 8, 0, 1, 6, 9>>,
          ipSubnet |-> <<15, 15, 15, 15, 15, 15, 0, 0>>,
          ipGw |-> <<12, 0, 10, 8, 0, 1, 0, 1>>,
          ipMDNS |-> <<12, 0, 10, 8, 0, 1, 0, 1>>,
          ipSDNS |-> <<7, 2, 7, 2, 7, 2, 7, 2>>, signDHCP |-> FALSE]
SrvCfg == [ip |-> <<12, 0, 10, 8, 0, 1, 0, 6>>, port |-> 7900]
Firmware(n) == [hwcode |-> Chars(n), version |-> <<1, 2, 3, 4>>]

Msg(t, c, msg) == [topic |-> t, cmd |-> c, ack |-> FALSE, msg |-> msg]
Ack(t, c, msg) == [topic |-> t, cmd |-> c, ack |-> TRUE, msg |-> msg]

TestMessages ==
  <<Msg(3, 2, [service |-> Chars(13), id |-> Chars(3),
               ipv4 |-> <<192, 168, 112, 221>>,
               ipv6 |-> [i \in 1..32 |-> 0], port |-> 7900]),
    Msg(1, 1, [timestamp |-> 1624516019, delay |-> 100, hbinterval |-> 5]),
    Msg(1, 2, ("timestamp" :> 1624516019) @@ ("utc-ms" :> 1624516) @@
              ("modulever" :>
                 <<[module |-> "status", v |-> 2],
                   [module |-> "config", v |-> 3],
                   [module |-> "attribute", v |-> 4],
                   [module |-> "broadcast", v |-> 5]>>)),
    Msg(1, 3, ModuleDataMsg),
    Ack(1, 3, NoMembers),
    Msg(1, 4, [moduleid |-> <<"status", "config", "attribute", "broadcast">>]),
    Ack(1, 4, ModuleDataMsg),
    Msg(2, 1, ("utc-ms" :> 1624516)),
    Msg(2, 2, ("utc-ms" :> 1624516)),
    Msg(2, 3, [url |-> Chars(29)]),
    Ack(2, 3, [streamid |-> 60, transfermode |-> 2,
               multicastaddr |-> Addr(222), mutilcastport |-> 3232]),
    Msg(2, 4, [streamid |-> 60]),
    Ack(2, 4, NoMembers),
    Msg(2, 5, [streamid |-> 60, status |-> 1, desc |-> Chars(17)]),
    Ack(2, 5, NoMembers),
    Msg(2, 6, [streamid |-> 60, sequencenubmer |-> 1009]),
    Msg(5, 1, NoMembers),
    Msg(5, 2, [firmware |-> <<Firmware(6), Firmware(8)>>]),
    Msg(5, 3, [taskid |-> Hex32, url |-> Chars(5), size |-> 223, md5 |-> Hex32,
               firmware |-> <<Firmware(6)>>]),
    Msg(5, 4, [taskid |-> Hex32, errorcode |-> 0, errormsg |-> Chars(5)]),
    Msg(5, 5, [taskid |-> Hex32]),
    Msg(5, 6, [taskid |-> Hex32, errorcode |-> 0, errormsg |-> Chars(5)]),
    Msg(5, 7, NoMembers),
    Msg(5, 8, [taskid |-> Hex32, progress |-> 30, stage |-> Chars(11),
               errorcode |-> 0, errormsg |-> Chars(5)]),
    Msg(4, 3, [type |-> 0, reqid |-> Hex32,
               setModuleData |-> ("DEV_IP_CFG_INFO" :> IpCfg)
                                   @@ ("CMD_SRV_IP_CFG_INFO" :> SrvCfg)])>>

(* Commands the test leaves out, and lengths around those that need one     *)
(* more byte, one more package, or more than the length field holds.        *)
LimitMessages ==
  <<Msg(2, 7, [streamid |-> 1, pt |-> 255, url |-> Chars(127)]),
    Msg(2, 7, [streamid |-> 1, pt |-> 255, url |-> Chars(128)]),
    Msg(2, 11, [url |-> Chars(256), streamDataTime |-> 65536]),
    Msg(2, 3, [url |-> Chars(128 - 3 - 6), prestreamid |-> 255]),
    Msg(2, 8, [streamid |-> 256]),
    Msg(3, 1, [service |-> Chars(130)]),
    Msg(3, 2, [service |-> Chars(3), port |-> 1]),
    Msg(4, 1, [type |-> 1, reqid |-> Hex32, getModuleId |-> TRUE,
               getModuleData |-> NoMembers]),
    Msg(4, 1, [type |-> 1, reqid |-> Hex32, getModuleId |-> FALSE,
               getModuleData |-> [status |-> <<"status", "description">>,
                                  config |-> <<"tags">>]]),
    Msg(4, 2, [reqid |-> Hex32, getModuleId |-> <<"status", "broadcast">>]),
    Msg(4, 2, [reqid |-> Hex32,
               getModuleData |-> ("CMD_SRV_IP_CFG_INFO" :> SrvCfg)]),
    Msg(4, 2, [reqid |-> Hex32,
               getModuleData |-> [broadcast |-> BroadcastData(80)]]),
    Msg(4, 4, [reqid |-> Hex32, errorcode |-> 0, errormsg |-> Chars(64)]),
    Msg(1, 3, [moduledata |-> <<Item("config", 65535,
                                  ConfigData(<<Chars(128), Chars(0)>>))>>]),
    Msg(1, 3, [moduledata |-> <<Item("status", 1, [status |-> 1]),
                                Item("broadcast", 1, BroadcastData(250)),
                                Item("attribute", 1,
                                     [product |-> Chars(64)])>>]),
    Msg(50, 1, BroadcastData(128)),
    Ack(50, 1, BroadcastData(1)),
    Msg(50, 2, [place |-> [longitude |-> Chars(10), latitude |-> Chars(0)],
                tags |-> <<1, 65536>>]),
    Msg(2, 9, NoMembers)>>

Id(type, customer, day, no) ==
  [type |-> type, customer_type |-> 1, customer |-> customer, day |-> day,
   no |-> no]
TestIds == {Id(3, 6000, 6003, 1), Id(255, 65535, 65535, 65535),
            Id(256, 256, 200, 256), NoText}
AllMessages == TestMessages \o LimitMessages
=============================================================================
