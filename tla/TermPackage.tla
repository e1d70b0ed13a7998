------------------------------ MODULE TermPackage ----------------------------
(* The packages of star_protocol octet by octet: how makePackages writes    *)
(* one (termMessageImp.cpp), how the accessors of termPackageImp read it,   *)
(* the acknowledgement of a slice, and the device ids in the header         *)
(* (utils.cpp, timeutils.cpp).                                              *)
(*                                                                          *)
(* A package is its octets up to the signature, and the signature: a CRC    *)
(* that goes on over the customer's number.  Two CRCs are taken to be equal *)
(* only when they were made of the same octets.                             *)
EXTENDS Tlv

CONSTANT SummerTime     \* days, counted from 2000-01-01, that begin an hour
                        \* before a whole number of 24 hours has passed
ASSUME SummerTimeAssumption == SummerTime \subseteq Nat \ {0}

STARTP_STAG1_VALUE == 245
STARTP_STAG2_VALUE == 170
STARTP_VERSION == 0
STARTP_BASE_HEADER_SIZE == 12
STARTP_MIN_PACKAGE_SIZE == 20
STARTP_SN_LENGTH == 8
STARTP_SLICE_INFO_LENGTH == 4
STARTP_SIGN_DATA_LENGTH == 8
STARTP_SLICE_ACK_LENGTH == 24

(* htons and ntohs.                                                         *)
U16(n) == <<(n \div 256) % 256, n % 256>>
At16(octets, o) == 256 * octets[o + 1] + octets[o + 2]

-----------------------------------------------------------------------------
(* A device id as text has five numbers, "003-001-06000-20160608-00001":    *)
(* those of three digits go into one octet, those of five into two, and the *)
(* date becomes a number of days.  Every other text is NoText, and 0.       *)
NoText == [type |-> -1, customer_type |-> 0, customer |-> 0, day |-> 0, no |-> 0]
NoSn == <<0, 0, 0, 0, 0, 0, 0, 0>>

(* dateDec and dateAdd count 24 hours for a day, in local time.             *)
dateDec(day) ==
  IF day < 0 THEN 0 ELSE IF day \in SummerTime THEN day - 1 ELSE day
dateAdd(days) == days

str2devid(text) ==
  IF text = NoText THEN NoSn
  ELSE <<text.type % 256, text.customer_type % 256>> \o U16(text.customer)
         \o U16(dateDec(text.day)) \o U16(text.no)

devid2str(sn) ==
  [type |-> sn[1], customer_type |-> sn[2], customer |-> At16(sn, 2),
   day |-> dateAdd(At16(sn, 4)), no |-> At16(sn, 6)]

(* customerId2Str of CUSTOM_ID_FROM_DEVID: again a date.                    *)
customerId2Str(sn) == <<dateAdd(At16(sn, 2))>>

-----------------------------------------------------------------------------
(* A header h: [sn, withSn, qos, ack, topic, cmd, msgId].                   *)
Flag(bit, on) == IF on THEN bit ELSE 0

Flags(h, slices) ==
  STARTP_VERSION + Flag(4, h.withSn) + Flag(8, h.qos) + Flag(16, h.ack)
    + Flag(32, slices > 1)

Base(h, slices, pkgSize, msgLength) ==
  <<STARTP_STAG1_VALUE, STARTP_STAG2_VALUE, Flags(h, slices),
    0, h.topic, h.cmd>>
  \o U16(h.msgId) \o U16(pkgSize) \o U16(msgLength)

Sn(h) == IF h.withSn THEN h.sn ELSE <<>>

SliceInfo(slices, i, offset) ==
  IF slices > 1 THEN <<i, slices>> \o U16(offset) ELSE <<>>

(* crc32 with the customer's number behind the octets.                      *)
Signed(octets, customerNo) ==
  [octets |-> octets, signature |-> octets \o customerNo]

(* makePackages: package i of so many slices, with its part of the body     *)
(* from offset on, of a message of msgLength bytes.  An empty customerNo is *)
(* NULL: the number is then that of the sn.                                 *)
CustomerNo(customerNo, sn) ==
  IF customerNo = <<>> THEN customerId2Str(sn) ELSE customerNo

headerSize(h, slices) ==
  STARTP_BASE_HEADER_SIZE + (IF h.withSn THEN STARTP_SN_LENGTH ELSE 0)
    + (IF slices > 1 THEN STARTP_SLICE_INFO_LENGTH ELSE 0)

MakePackage_SnLast(h, slices, i, offset, part, msgLength, time, customerNo) ==
  LET pkgSize == headerSize(h, slices) + Len(part) + STARTP_SIGN_DATA_LENGTH
  IN  Signed(Base(h, slices, pkgSize, msgLength)
               \o SliceInfo(slices, i, offset) \o Sn(h) \o part \o time,
             CustomerNo(customerNo, h.sn))

MakePackage(h, slices, i, offset, part, msgLength, time, customerNo) ==
  LET pkgSize == headerSize(h, slices) + Len(part) + STARTP_SIGN_DATA_LENGTH
  IN  Signed(Base(h, slices, pkgSize, msgLength) \o Sn(h)
               \o SliceInfo(slices, i, offset) \o part \o time,
             CustomerNo(customerNo, h.sn))

-----------------------------------------------------------------------------
(* The accessors.  Below STARTP_MIN_PACKAGE_SIZE they throw.                *)
size(p) == Len(p.octets) + 4
IsSet(p, bit) == (p.octets[3] \div bit) % 2 = 1
ver(p) == p.octets[3] % 4
hasSn(p) == IsSet(p, 4)
qos(p) == IsSet(p, 8)
isAck(p) == IsSet(p, 16)
isSlicePkg(p) == IsSet(p, 32)
isSliceAckPkg(p) == IsSet(p, 64)
hasExtData(p) == IsSet(p, 128)
topic(p) == p.octets[5]
cmd(p) == p.octets[6]
msgId(p) == At16(p.octets, 6)
length(p) == At16(p.octets, 8)
msgLength(p) == At16(p.octets, 10)

sn(p) == IF hasSn(p) THEN SubSeq(p.octets, STARTP_BASE_HEADER_SIZE + 1,
                                 STARTP_BASE_HEADER_SIZE + STARTP_SN_LENGTH)
         ELSE NoSn

HasSlice(p) == isSlicePkg(p) \/ isSliceAckPkg(p)
AfterSn(p) ==
  STARTP_BASE_HEADER_SIZE + (IF hasSn(p) THEN STARTP_SN_LENGTH ELSE 0)
AfterSlice(p) ==
  AfterSn(p) + (IF HasSlice(p) THEN STARTP_SLICE_INFO_LENGTH ELSE 0)

sliceIndex(p) == IF HasSlice(p) THEN p.octets[AfterSn(p) + 1] ELSE 0
sliceTotal(p) == IF HasSlice(p) THEN p.octets[AfterSn(p) + 2] ELSE 1
sliceOffset(p) == IF HasSlice(p) THEN At16(p.octets, AfterSn(p) + 2) ELSE 0

extDataLength(p) == IF hasExtData(p) THEN p.octets[AfterSlice(p) + 1] ELSE 0
BodyOffset(p) ==
  AfterSlice(p) + (IF hasExtData(p) THEN extDataLength(p) + 1 ELSE 0)
bodyLength(p) == size(p) - BodyOffset(p) - STARTP_SIGN_DATA_LENGTH
Body(p) == SubSeq(p.octets, BodyOffset(p) + 1, BodyOffset(p) + bodyLength(p))

(* verify, with an empty customerNo for NULL.                               *)
verify(p, customerNo) ==
  /\ p.octets[1] = STARTP_STAG1_VALUE /\ p.octets[2] = STARTP_STAG2_VALUE
  /\ ver(p) = STARTP_VERSION
  /\ size(p) >= STARTP_MIN_PACKAGE_SIZE
  /\ p.signature = p.octets \o CustomerNo(customerNo, sn(p))

-----------------------------------------------------------------------------
(* makeSliceAck: the base header with other flags, the sn and the slice.    *)
(* The length is put in after the signature, in host order (low byte        *)
(* first).                                                                  *)
AckFlags(p) == 64 + (p.octets[3] % 8)

makeSliceAck(p, time, customerNo) ==
  LET unsigned == SubSeq([p.octets EXCEPT ![3] = AckFlags(p)], 1,
                         AfterSn(p) + STARTP_SLICE_INFO_LENGTH) \o time
      ack == Signed(unsigned, customerNo)
  IN  [ack EXCEPT !.octets[9] = Len(unsigned) + 4, !.octets[10] = 0]
=============================================================================
