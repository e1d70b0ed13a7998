------------------------------ MODULE TermProtocol ----------------------------
(* A command from its JSON text at one peer to the JSON text at the other:  *)
(* initFromJson picks the parser and makes the packages, TermMessage        *)
(* carries them, getJsonMsg reads what was put together.                    *)
EXTENDS TermHeader, CmdParser, ModelJson

CONSTANTS LengthLimit,  \* 2^16: the message's length field wraps there
          Beyond        \* values of the heap's bytes behind the received data

HasParser(m) == IsPenetrate(m.topic) \/ <<m.topic, m.cmd>> \in DOMAIN Repo

(* initFromJson: the message data, or Failed when nothing is sent.  A       *)
(* message without a msg object has no data.  m_msgDataLength has 16 bits,  *)
(* what lies beyond is not sent.                                            *)
Encoded(m) ==
  IF m.msg = NoMembers THEN <<>>
  ELSE IF ~HasParser(m) THEN Failed
  ELSE IF IsPenetrate(m.topic) THEN penetrateJ2B(m.topic, m.cmd, m.msg)
  ELSE j2b(Repo[<<m.topic, m.cmd>>], m.ack, m.msg)

initFromJson(m) ==
  LET data == Encoded(m)
  IN  IF data = Failed THEN Failed
      ELSE SubSeq(data, 1, Len(data) % LengthLimit)

(* getJsonMsg on data; the parsers may look past their end.                 *)
getJsonMsg(m, data, byte) ==
  LET mem == data \o [i \in 1..8 |-> byte]
  IN  IF ~HasParser(m) THEN NoMembers
      ELSE IF IsPenetrate(m.topic)
           THEN penetrateB2J(m.topic, m.cmd, m.ack, mem, Len(data))
      ELSE b2j(Repo[<<m.topic, m.cmd>>], m.ack, mem, Len(data))

Sendable == {i \in 1..Len(Messages) : initFromJson(Messages[i]) # Failed}
SentBodies == {initFromJson(Messages[i]) : i \in Sendable}

ProtocolInit ==
  /\ header \in Sendable
  /\ body = initFromJson(Messages[header])
  /\ Init

ProtocolSpec == ProtocolInit /\ [][Next]_vars /\ Fairness
-----------------------------------------------------------------------------
IsWhole(t) == message[t].rc = 1
WasRead(t, byte) == getJsonMsg(Message, message[t].data, byte)

(* What is known to lose something: data that wrap the length field; module *)
(* data of more than 127 bytes in getTermConfigResp; setTermConfigReq,      *)
(* whose modules are read but not kept; serverDiscoverResp without an ipv6, *)
(* which is sent empty; answers that are passed through, which are not      *)
(* read; and module data before bytes that happen to look like a property.  *)
Arrives(m, byte) ==
  /\ Len(Encoded(m)) < LengthLimit
  /\ <<m.topic, m.cmd>> = <<4, 2>> /\ "getModuleData" \in DOMAIN m.msg
       => Len(ConfigJ2B(m.msg["getModuleData"])) < 128
  /\ <<m.topic, m.cmd>> # <<4, 3>>
  /\ <<m.topic, m.cmd>> = <<3, 2>> => "ipv6" \in DOMAIN m.msg
  /\ ~(IsPenetrate(m.topic) /\ m.ack)
  /\ "moduledata" \in DOMAIN m.msg => byte = 0

(* What was sent is what is read, whatever lies in the heap behind the data.*)
ArrivesAsSent ==
  \A t \in Threads : \A byte \in Beyond :
    IsWhole(t) /\ Arrives(Message, byte) => WasRead(t, byte) = Message.msg

(* What does not arrive whole is missing: a member that is read (but for    *)
(* the modules of setTermConfigReq, which never arrive) holds the value     *)
(* that was sent, or the first items of a list that was cut.                *)
NothingInvented ==
  \A t \in Threads : IsWhole(t) =>
    LET read == WasRead(t, 0)
    IN  \A name \in DOMAIN read :
          /\ name \in DOMAIN Message.msg
          /\ \/ name = "setModuleData"
             \/ read[name] = Message.msg[name]
             \/ /\ name = "moduledata"
                /\ IsPrefix(read[name], Message.msg[name])

(* A peer of a later version may add parameters: one with a T the reader    *)
(* does not know, of any length, in front of the body changes nothing of    *)
(* what is read, in every class that passes over unknown parameters.        *)
UnknownT == 99
Skips(m) == IsPenetrate(m.topic) \/ Repo[<<m.topic, m.cmd>>].skips
Unknown(n) == Tlv(UnknownT, [i \in 1..n |-> 1])
SkipsUnknown ==
  \A t \in Threads : \A n \in {0, 3, 200} :
    IsWhole(t) /\ Skips(Message) =>
      getJsonMsg(Message, Unknown(n) \o message[t].data, 0) = WasRead(t, 0)

(* Every command the parsers know reaches the peer's JSON as it was sent,   *)
(* over all numbers of packages, orders and repetitions of them, but for    *)
(* the known losses; those only leave out, and what a later version adds is *)
(* passed over (j2b, makePackages, initFromTermPackage and b2j together).   *)
ReadsBack == ArrivesAsSent /\ NothingInvented /\ SkipsUnknown

(* The models messages are read with come whole out of their documents: of  *)
(* a document without a fault they are what the parsers need, and one with  *)
(* a fault anywhere in it never leaves a model or a command that lacks a    *)
(* part of what it says (addProductModel, addCommandModel).                 *)
LoadsWhole ==
  \A t \in Threads : IsWhole(t) => ProductLoadsWhole /\ CommandsLoadWhole
=============================================================================
