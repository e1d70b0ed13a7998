------------------------------ MODULE TermHeader ------------------------------
(* The packages of a message under way, octet by octet: what makePackages   *)
(* writes into the packages TermMessage moves, and what their receiver and  *)
(* the one it acknowledges a slice to find in them.                         *)
EXTENDS TermMessage, TermPackage

CONSTANTS Messages,     \* a sequence of records [topic, cmd, ack, msg]
          DeviceIds     \* the senders' device ids

(* The header of TermMessage is the index of the message under way.         *)
Message == Messages[header]

(* initFromJson takes topic and cmd as one octet each.                      *)
ASSUME MessagesAssumption ==
  \A h \in Headers : /\ Messages[h].topic \in Octet /\ Messages[h].cmd \in Octet
                     /\ Messages[h].ack \in BOOLEAN

(* m_msgDataLength and the sizes in a header have 16 bits, the number of    *)
(* slices 8: with 1024 bytes in a package no body has more than 64.         *)
ASSUME WidthAssumption ==
  /\ STARTP_BODY_MAX_SIZE < 65536 - 32
  /\ \A b \in Bodies : Len(b) < 65536 /\ SliceCount(b) < 256

DeviceId ==
  [type : Nat, customer_type : Nat, customer : Nat, day : Nat, no : Nat]
ASSUME DeviceIdsAssumption ==
  \A id \in DeviceIds : id = NoText \/ id \in DeviceId

(* Package i of the message as makePackages writes it, for any header.      *)
Clock == <<98, 1, 2, 3>>
PackageOf(id, withSn, customerNo, i) ==
  MakePackage([sn |-> str2devid(id), withSn |-> withSn, qos |-> withSn,
               ack |-> Message.ack, topic |-> Message.topic,
               cmd |-> Message.cmd, msgId |-> 258],
              SliceCount(body), i, SliceOffset(i),
              SubSeq(body, SliceOffset(i) + 1, SliceEnd(body, i)),
              Len(body), Clock, customerNo)

(* The number both sides are given, or NULL.                                *)
CustomerNos == {<<>>, <<77>>}

(* An id that is not cut by the widths of its numbers, nor dated in summer. *)
IsCanonical(id) ==
  /\ id # NoText
  /\ id.type < 256 /\ id.customer_type < 256
  /\ id.customer < 65536 /\ id.day < 65536 /\ id.no < 65536
  /\ id.day \notin SummerTime

(* What TermMessage takes a package for is what its octets say: with or     *)
(* without sn and slice, the receiver verifies it and finds every field and *)
(* its part of the body, and the id of the sender.  A package without sn    *)
(* whose customer is given to neither side cannot be verified.              *)
HeadersTell ==
  \A t \in Threads : At(t, "enter") =>
    \A id \in DeviceIds, withSn \in BOOLEAN, customerNo \in CustomerNos :
      LET p == PackageOf(id, withSn, customerNo, pkg[t])
      IN  /\ withSn \/ customerNo # <<>> => verify(p, customerNo)
          /\ hasSn(p) = withSn /\ qos(p) = withSn /\ isAck(p) = Message.ack
          /\ <<topic(p), cmd(p)>> = <<Message.topic, Message.cmd>>
          /\ msgId(p) = 258 /\ length(p) = size(p)
          /\ isSlicePkg(p) = IsSlicePkg(body)
          /\ sliceTotal(p) = SliceCount(body) /\ sliceIndex(p) = pkg[t]
          /\ sliceOffset(p) = SliceOffset(pkg[t])
          /\ msgLength(p) = Len(body)
          /\ Body(p) = SubSeq(body, SliceOffset(pkg[t]) + 1,
                              SliceEnd(body, pkg[t]))
          /\ withSn /\ IsCanonical(id) => devid2str(sn(p)) = id

(* The acknowledgement of a slice names the slice and its sender, and is    *)
(* taken for no other kind of package (makeSliceAck and the accessors).     *)
(* Its length and its signature are not among this: makeSliceAck writes the *)
(* length behind the signature and in the wrong order, and both are wrong.  *)
AcksTell ==
  \A t \in Threads : At(t, "enter") /\ IsSlicePkg(body) =>
    \A id \in DeviceIds, withSn \in BOOLEAN :
      LET p == PackageOf(id, withSn, <<77>>, pkg[t])
          ack == makeSliceAck(p, Clock, <<77>>)
      IN  /\ isSliceAckPkg(ack) /\ ~isSlicePkg(ack) /\ ~isAck(ack)
          /\ sn(ack) = sn(p) /\ msgId(ack) = msgId(p)
          /\ <<topic(ack), cmd(ack)>> = <<topic(p), cmd(p)>>
          /\ sliceIndex(ack) = pkg[t] /\ sliceTotal(ack) = SliceCount(body)
          /\ sliceOffset(ack) = SliceOffset(pkg[t])
          /\ bodyLength(ack) = 0

(* A package that is received is verified and is what its octets say; an    *)
(* acknowledgement made of it names the same message, sender and slice,     *)
(* whether or not it can be verified (makePackages, makeSliceAck and the    *)
(* accessors of termPackageImp.cpp).                                        *)
PackagesTell == HeadersTell /\ AcksTell
=============================================================================
