------------------------- MODULE TermProtocol_proofs -------------------------
(* Proofs about the coding and the reassembly of the terminal protocol: a   *)
(* length is read back as it was written (Tlv); what makePackages writes    *)
(* into a package the accessors read from it, for every header, slice and   *)
(* body (TermPackage), and so every package on its way to a receiver, and   *)
(* the acknowledgement of it, tell what they are (TermHeader); a receiver   *)
(* thread whose initFromTermPackage returns 1 has the body that was sent,   *)
(* for any number of threads, any package size and any body (TermMessage).  *)
EXTENDS TermHeader, TLAPS

-----------------------------------------------------------------------------
(* The length field of a TLV.                                               *)

(* Whatever follows it in memory, the length the writer puts in front of a  *)
(* value of up to 16383 bytes is the one the reader takes from there, and   *)
(* the reader goes on at the first byte of the value.                       *)
THEOREM LengthReadBack ==
  ASSUME NEW n \in 0..16383, NEW rest \in Seq(Byte)
  PROVE  getTlvLength(setTlvLength(n) \o rest, 0)
           = [length |-> n, bytes |-> Len(setTlvLength(n))]
<1>1. CASE n < 128
  <2>1. setTlvLength(n) = <<n>>
    BY <1>1 DEF setTlvLength
  <2>2. Len(<<n>>) = 1 /\ (<<n>> \o rest)[1] = n
    BY DEF Byte
  <2>3. getTlvLength(<<n>> \o rest, 0) = [length |-> n, bytes |-> 1]
    BY <1>1, <2>2 DEF getTlvLength
  <2> QED BY <2>1, <2>2, <2>3
<1>2. CASE ~(n < 128)
  <2> DEFINE low == 128 + (n % 128)
             high == n \div 128
             field == <<low, high>>
  <2>1. setTlvLength(n) = field
    BY <1>2 DEF setTlvLength
  <2>2. /\ high \in 1..127
        /\ low \in 128..255
        /\ (low - 128) + 128 * high = n
        /\ high % 128 = high
    BY <1>2
  <2> HIDE DEF low, high
  <2>3. /\ Len(field) = 2
        /\ (field \o rest)[1] = low
        /\ (field \o rest)[2] = high
    BY <2>2 DEF Byte
  <2>4. getTlvLength(field \o rest, 0) = [length |-> n, bytes |-> 2]
    BY <2>2, <2>3 DEF getTlvLength
  <2> QED BY <2>1, <2>3, <2>4
<1> QED BY <1>1, <1>2

-----------------------------------------------------------------------------
(* The octets of a package.                                                 *)

Word == 0..65535
Header == [sn : Seq(Octet), withSn : BOOLEAN, qos : BOOLEAN, ack : BOOLEAN,
           topic : Octet, cmd : Octet, msgId : Word]

(* htons and ntohs undo each other.                                         *)
LEMMA U16At ==
  ASSUME NEW n \in Word
  PROVE  /\ U16(n) \in Seq(Octet) /\ Len(U16(n)) = 2
         /\ 256 * U16(n)[1] + U16(n)[2] = n
<1> DEFINE q == n \div 256
           r == n % 256
<1>1. n \in Int /\ 0 <= n /\ n < 65536
  BY DEF Word
<1>2. q \in Int /\ r \in Int /\ n = (256 * q) + r /\ 0 <= r /\ r < 256
  BY <1>1
<1>3. 0 <= q /\ q < 256
  BY <1>1, <1>2
<1>4. U16(n) = <<q % 256, r>>
  BY DEF U16
<1> HIDE DEF q, r
<1>5. q % 256 = q
  BY <1>2, <1>3
<1>6. q \in Octet /\ r \in Octet
  BY <1>2, <1>3 DEF Octet
<1>7. <<q, r>> \in Seq(Octet) /\ Len(<<q, r>>) = 2
  BY <1>6
<1>8. <<q, r>>[1] = q /\ <<q, r>>[2] = r
  OBVIOUS
<1>9. U16(n) = <<q, r>>
  BY <1>4, <1>5
<1> HIDE DEF q, r
<1> QED
  BY <1>2, <1>7, <1>8, <1>9

(* Octets behind others.                                                    *)
LEMMA Behind ==
  ASSUME NEW a \in Seq(Octet), NEW b \in Seq(Octet)
  PROVE  /\ a \o b \in Seq(Octet) /\ Len(a \o b) = Len(a) + Len(b)
         /\ \A k \in 1..Len(a) : (a \o b)[k] = a[k]
         /\ \A k \in 1..Len(b) : (a \o b)[Len(a) + k] = b[k]
OBVIOUS

LEMMA WordBehind ==
  ASSUME NEW n \in Nat, NEW a \in Seq(Octet), NEW b \in Seq(Octet),
         Len(a) = n, Len(b) = 2
  PROVE  /\ a \o b \in Seq(Octet) /\ Len(a \o b) = n + 2
         /\ \A k \in 1..n : (a \o b)[k] = a[k]
         /\ (a \o b)[n + 1] = b[1] /\ (a \o b)[n + 2] = b[2]
<1>1. /\ a \o b \in Seq(Octet) /\ Len(a \o b) = Len(a) + Len(b)
      /\ \A k \in 1..Len(a) : (a \o b)[k] = a[k]
      /\ \A k \in 1..Len(b) : (a \o b)[Len(a) + k] = b[k]
  BY Behind
<1>2. 1 \in 1..2 /\ 2 \in 1..2
  OBVIOUS
<1> QED
  BY <1>1, <1>2

(* The flags are in bits of their own.                                      *)
LEMMA FlagsApart ==
  ASSUME NEW h \in Header, NEW slices \in Nat
  PROVE  /\ Flags(h, slices) \in Octet /\ Flags(h, slices) % 4 = 0
         /\ ((Flags(h, slices) \div 4) % 2 = 1) <=> h.withSn
         /\ ((Flags(h, slices) \div 8) % 2 = 1) <=> h.qos
         /\ ((Flags(h, slices) \div 16) % 2 = 1) <=> h.ack
         /\ ((Flags(h, slices) \div 32) % 2 = 1) <=> (slices > 1)
         /\ (Flags(h, slices) \div 64) % 2 = 0
         /\ (Flags(h, slices) \div 128) % 2 = 0
<1> DEFINE f == Flags(h, slices)
           a == Flag(4, h.withSn)
           b == Flag(8, h.qos)
           c == Flag(16, h.ack)
           d == Flag(32, slices > 1)
<1>1. (a = 4 /\ h.withSn) \/ (a = 0 /\ ~h.withSn)
  BY DEF Flag, Header
<1>2. (b = 8 /\ h.qos) \/ (b = 0 /\ ~h.qos)
  BY DEF Flag, Header
<1>3. (c = 16 /\ h.ack) \/ (c = 0 /\ ~h.ack)
  BY DEF Flag, Header
<1>4. (d = 32 /\ (slices > 1)) \/ (d = 0 /\ ~(slices > 1))
  BY DEF Flag
<1>5. f = a + b + c + d
  BY <1>1, <1>2, <1>3, <1>4 DEF Flags, STARTP_VERSION
<1> HIDE DEF a, b, c, d, f
<1>6. a \in {0, 4} /\ b \in {0, 8} /\ c \in {0, 16} /\ d \in {0, 32}
  BY <1>1, <1>2, <1>3, <1>4
<1>7. /\ f \in Octet /\ f % 4 = 0
      /\ (f \div 64) % 2 = 0 /\ (f \div 128) % 2 = 0
  BY <1>5, <1>6 DEF Octet
<1>8. /\ (f \div 4) % 2 = (IF a = 4 THEN 1 ELSE 0)
      /\ (f \div 8) % 2 = (IF b = 8 THEN 1 ELSE 0)
  BY <1>5, <1>6
<1>9. /\ (f \div 16) % 2 = (IF c = 16 THEN 1 ELSE 0)
      /\ (f \div 32) % 2 = (IF d = 32 THEN 1 ELSE 0)
  BY <1>5, <1>6
<1>10. ((f \div 4) % 2 = 1) <=> h.withSn
  BY <1>1, <1>8
<1>11. ((f \div 8) % 2 = 1) <=> h.qos
  BY <1>2, <1>8
<1>12. ((f \div 16) % 2 = 1) <=> h.ack
  BY <1>3, <1>9
<1>13. ((f \div 32) % 2 = 1) <=> (slices > 1)
  BY <1>4, <1>9
<1> QED
  BY <1>7, <1>10, <1>11, <1>12, <1>13 DEF f

(* The base header, octet by octet.                                         *)
BaseTells(base, h, slices, pkgSize, msgLen) ==
  /\ base \in Seq(Octet) /\ Len(base) = STARTP_BASE_HEADER_SIZE
  /\ base[1] = STARTP_STAG1_VALUE /\ base[2] = STARTP_STAG2_VALUE
  /\ base[3] = Flags(h, slices)
  /\ base[5] = h.topic /\ base[6] = h.cmd
  /\ At16(base, 6) = h.msgId
  /\ At16(base, 8) = pkgSize
  /\ At16(base, 10) = msgLen

LEMMA BaseOctets ==
  ASSUME NEW h \in Header, NEW slices \in Nat,
         NEW pkgSize \in Word, NEW msgLen \in Word
  PROVE  BaseTells(Base(h, slices, pkgSize, msgLen), h, slices, pkgSize, msgLen)
<1> DEFINE f == Flags(h, slices)
           a == <<STARTP_STAG1_VALUE, STARTP_STAG2_VALUE, f, 0, h.topic, h.cmd>>
           b == U16(h.msgId)
           c == U16(pkgSize)
           d == U16(msgLen)
<1>1. f \in Octet
  BY FlagsApart
<1>2. h.topic \in Octet /\ h.cmd \in Octet /\ h.msgId \in Word
  BY DEF Header
<1>3. Base(h, slices, pkgSize, msgLen) = ((a \o b) \o c) \o d
  BY DEF Base
<1> HIDE DEF f
<1>4. /\ a \in Seq(Octet) /\ Len(a) = 6
      /\ a[1] = STARTP_STAG1_VALUE /\ a[2] = STARTP_STAG2_VALUE /\ a[3] = f
      /\ a[5] = h.topic /\ a[6] = h.cmd
  BY <1>1, <1>2 DEF Octet, STARTP_STAG1_VALUE, STARTP_STAG2_VALUE
<1>5. b \in Seq(Octet) /\ Len(b) = 2 /\ 256 * b[1] + b[2] = h.msgId
  BY <1>2, U16At
<1>6. c \in Seq(Octet) /\ Len(c) = 2 /\ 256 * c[1] + c[2] = pkgSize
  BY U16At
<1>7. d \in Seq(Octet) /\ Len(d) = 2 /\ 256 * d[1] + d[2] = msgLen
  BY U16At
<1> HIDE DEF a, b, c, d
<1>8. /\ a \o b \in Seq(Octet) /\ Len(a \o b) = 8
      /\ \A k \in 1..6 : (a \o b)[k] = a[k]
      /\ (a \o b)[7] = b[1] /\ (a \o b)[8] = b[2]
  <2>1. 6 \in Nat
    OBVIOUS
  <2>2. /\ a \o b \in Seq(Octet) /\ Len(a \o b) = 6 + 2
        /\ \A k \in 1..6 : (a \o b)[k] = a[k]
        /\ (a \o b)[6 + 1] = b[1] /\ (a \o b)[6 + 2] = b[2]
    BY <2>1, <1>4, <1>5, WordBehind
  <2> QED BY <2>2
<1> DEFINE e == a \o b
<1>9. /\ e \o c \in Seq(Octet) /\ Len(e \o c) = 10
      /\ \A k \in 1..8 : (e \o c)[k] = e[k]
      /\ (e \o c)[9] = c[1] /\ (e \o c)[10] = c[2]
  <2> HIDE DEF e
  <2>1. e \in Seq(Octet) /\ Len(e) = 8
    BY <1>8 DEF e
  <2>2. /\ e \o c \in Seq(Octet) /\ Len(e \o c) = 8 + 2
        /\ \A k \in 1..8 : (e \o c)[k] = e[k]
        /\ (e \o c)[8 + 1] = c[1] /\ (e \o c)[8 + 2] = c[2]
    <3>1. 8 \in Nat
      OBVIOUS
    <3> QED BY <3>1, <2>1, <1>6, WordBehind
  <2> QED BY <2>1, <2>2, <1>6
<1> DEFINE g == e \o c
<1>10. /\ g \o d \in Seq(Octet) /\ Len(g \o d) = 12
       /\ \A k \in 1..10 : (g \o d)[k] = g[k]
       /\ (g \o d)[11] = d[1] /\ (g \o d)[12] = d[2]
  <2> HIDE DEF e, g
  <2>1. g \in Seq(Octet) /\ Len(g) = 10
    BY <1>9 DEF g
  <2>2. /\ g \o d \in Seq(Octet) /\ Len(g \o d) = 10 + 2
        /\ \A k \in 1..10 : (g \o d)[k] = g[k]
        /\ (g \o d)[10 + 1] = d[1] /\ (g \o d)[10 + 2] = d[2]
    <3>1. 10 \in Nat
      OBVIOUS
    <3> QED BY <3>1, <2>1, <1>7, WordBehind
  <2>3. 10 + 1 = 11 /\ 10 + 2 = 12
    OBVIOUS
  <2> QED BY <2>2, <2>3
<1> QED
  BY <1>3, <1>4, <1>5, <1>6, <1>7, <1>8, <1>9, <1>10
  DEF BaseTells, At16, STARTP_BASE_HEADER_SIZE, f

Row(b, s, i, p, t) == (((b \o s) \o i) \o p) \o t

Laid(o, b, s, i, p, t) ==
  /\ o \in Seq(Octet)
  /\ Len(o) = Len(b) + Len(s) + Len(i) + Len(p) + Len(t)
  /\ \A k \in 1..Len(b) : o[k] = b[k]
  /\ \A k \in 1..Len(s) : o[Len(b) + k] = s[k]
  /\ \A k \in 1..Len(i) : o[Len(b) + Len(s) + k] = i[k]
  /\ \A k \in 1..Len(p) : o[Len(b) + Len(s) + Len(i) + k] = p[k]

(* Five pieces of octets in a row, each in its place.                       *)
LEMMA Layout ==
  ASSUME NEW b \in Seq(Octet), NEW s \in Seq(Octet), NEW i \in Seq(Octet),
         NEW p \in Seq(Octet), NEW t \in Seq(Octet)
  PROVE  Laid(Row(b, s, i, p, t), b, s, i, p, t)
<1> DEFINE o == Row(b, s, i, p, t)
           u == b \o s
           v == u \o i
           w == v \o p
<1>0. Len(b) \in Nat /\ Len(s) \in Nat /\ Len(i) \in Nat /\ Len(p) \in Nat
      /\ Len(t) \in Nat
  OBVIOUS
<1>1. /\ u \in Seq(Octet) /\ Len(u) = Len(b) + Len(s)
      /\ \A k \in 1..Len(b) : u[k] = b[k]
      /\ \A k \in 1..Len(s) : u[Len(b) + k] = s[k]
  BY Behind
<1> HIDE DEF u
<1>2. /\ v \in Seq(Octet) /\ Len(v) = Len(u) + Len(i)
      /\ \A k \in 1..Len(u) : v[k] = u[k]
      /\ \A k \in 1..Len(i) : v[Len(u) + k] = i[k]
  BY <1>1, Behind
<1> HIDE DEF v
<1>3. /\ w \in Seq(Octet) /\ Len(w) = Len(v) + Len(p)
      /\ \A k \in 1..Len(v) : w[k] = v[k]
      /\ \A k \in 1..Len(p) : w[Len(v) + k] = p[k]
  BY <1>2, Behind
<1> HIDE DEF w
<1>4. /\ o \in Seq(Octet) /\ Len(o) = Len(w) + Len(t)
      /\ \A k \in 1..Len(w) : o[k] = w[k]
  <2>1. o = w \o t
    BY DEF w, v, u, Row
  <2>2. /\ w \o t \in Seq(Octet) /\ Len(w \o t) = Len(w) + Len(t)
        /\ \A k \in 1..Len(w) : (w \o t)[k] = w[k]
    BY <1>3, Behind
  <2> QED BY <2>1, <2>2
<1> HIDE DEF o
<1>5. \A k \in 1..Len(b) : o[k] = b[k]
  BY <1>0, <1>1, <1>2, <1>3, <1>4
<1>6. \A k \in 1..Len(s) : o[Len(b) + k] = s[k]
  <2> SUFFICES ASSUME NEW k \in 1..Len(s)
               PROVE  o[Len(b) + k] = s[k]
    OBVIOUS
  <2>1. Len(b) + k \in 1..Len(u) /\ Len(b) + k \in 1..Len(v)
        /\ Len(b) + k \in 1..Len(w)
    BY <1>0, <1>1, <1>2, <1>3
  <2> QED
    BY <2>1, <1>1, <1>2, <1>3, <1>4
<1>7. \A k \in 1..Len(i) : o[Len(b) + Len(s) + k] = i[k]
  <2> SUFFICES ASSUME NEW k \in 1..Len(i)
               PROVE  o[Len(b) + Len(s) + k] = i[k]
    OBVIOUS
  <2>1. Len(u) + k \in 1..Len(v) /\ Len(u) + k \in 1..Len(w)
    BY <1>0, <1>1, <1>2, <1>3
  <2>2. o[Len(u) + k] = i[k]
    BY <2>1, <1>2, <1>3, <1>4
  <2> QED
    BY <2>2, <1>1
<1>8. \A k \in 1..Len(p) : o[Len(b) + Len(s) + Len(i) + k] = p[k]
  BY <1>0, <1>1, <1>2, <1>3, <1>4
<1>9. Len(o) = Len(b) + Len(s) + Len(i) + Len(p) + Len(t)
  BY <1>0, <1>1, <1>2, <1>3, <1>4
<1> QED
  BY <1>4, <1>5, <1>6, <1>7, <1>8, <1>9 DEF o, Laid

(* What lies in its place is cut out whole.                                 *)
LEMMA CutOut ==
  ASSUME NEW o \in Seq(Octet), NEW p \in Seq(Octet), NEW m \in Nat,
         m + Len(p) <= Len(o), \A k \in 1..Len(p) : o[m + k] = p[k]
  PROVE  SubSeq(o, m + 1, m + Len(p)) = p
OBVIOUS

(* What verify and the accessors say of package p, made of header h and     *)
(* slice i of so many, which begins at offset of a body of msgLen bytes.    *)
ReadBack(p, h, slices, i, offset, part, msgLen, customerNo) ==
  /\ h.withSn \/ customerNo # <<>> => verify(p, customerNo)
  /\ p.octets \in Seq(Octet) /\ AfterSlice(p) <= Len(p.octets)
  /\ hasSn(p) <=> h.withSn
  /\ qos(p) <=> h.qos
  /\ isAck(p) <=> h.ack
  /\ isSlicePkg(p) <=> slices > 1
  /\ ~isSliceAckPkg(p) /\ ~hasExtData(p)
  /\ topic(p) = h.topic /\ cmd(p) = h.cmd /\ msgId(p) = h.msgId
  /\ msgLength(p) = msgLen /\ length(p) = size(p)
  /\ h.withSn => sn(p) = h.sn
  /\ sliceIndex(p) = i /\ sliceTotal(p) = slices
  /\ sliceOffset(p) = offset
  /\ Body(p) = part

(* Whatever makePackages writes - any header, with or without sn, of any    *)
(* number of slices, any part of any body - verify accepts, if both sides   *)
(* know the customer, and the accessors of termPackageImp give back.        *)
THEOREM PackageReadBack ==
  ASSUME NEW h \in Header, Len(h.sn) = STARTP_SN_LENGTH,
         NEW slices \in 1..255, NEW i \in 0..(slices - 1),
         NEW offset \in Word, slices = 1 => offset = 0,
         NEW part \in Seq(Octet), NEW msgLen \in Word,
         NEW time \in Seq(Octet), Len(time) = 4,
         NEW customerNo,
         headerSize(h, slices) + Len(part) + STARTP_SIGN_DATA_LENGTH \in Word
  PROVE  ReadBack(MakePackage(h, slices, i, offset, part, msgLen, time,
                              customerNo),
                  h, slices, i, offset, part, msgLen, customerNo)
<1> DEFINE pkgSize == headerSize(h, slices) + Len(part)
                        + STARTP_SIGN_DATA_LENGTH
           b == Base(h, slices, pkgSize, msgLen)
           s == Sn(h)
           c == SliceInfo(slices, i, offset)
           o == Row(b, s, c, part, time)
           p == Signed(o, CustomerNo(customerNo, h.sn))
<1>1. p = MakePackage(h, slices, i, offset, part, msgLen, time, customerNo)
  BY DEF MakePackage, Row
<1>2. pkgSize \in Word
  OBVIOUS
<1> HIDE DEF pkgSize
<1>3. /\ b \in Seq(Octet) /\ Len(b) = 12
      /\ b[1] = STARTP_STAG1_VALUE /\ b[2] = STARTP_STAG2_VALUE
      /\ b[3] = Flags(h, slices)
      /\ b[5] = h.topic /\ b[6] = h.cmd
      /\ At16(b, 6) = h.msgId /\ At16(b, 8) = pkgSize /\ At16(b, 10) = msgLen
  <2>1. h \in Header /\ slices \in Nat /\ msgLen \in Word
    OBVIOUS
  <2>2. BaseTells(b, h, slices, pkgSize, msgLen)
    BY <1>2, <2>1, BaseOctets, Zenon
  <2> HIDE DEF b
  <2> QED BY <2>2 DEF BaseTells, STARTP_BASE_HEADER_SIZE
<1> HIDE DEF b
<1>4. /\ s \in Seq(Octet)
      /\ h.withSn => Len(s) = 8 /\ s = h.sn
      /\ ~h.withSn => Len(s) = 0
  BY DEF Sn, Header, STARTP_SN_LENGTH
<1>5. /\ c \in Seq(Octet)
      /\ slices > 1 => Len(c) = 4 /\ c[1] = i /\ c[2] = slices
                       /\ 256 * c[3] + c[4] = offset
      /\ ~(slices > 1) => Len(c) = 0
  <2>1. CASE slices > 1
    <3> DEFINE a == <<i, slices>>
               d == U16(offset)
    <3>1. c = a \o d
      BY <2>1 DEF SliceInfo
    <3>2. a \in Seq(Octet) /\ Len(a) = 2 /\ a[1] = i /\ a[2] = slices
      BY DEF Octet
    <3>3. d \in Seq(Octet) /\ Len(d) = 2 /\ 256 * d[1] + d[2] = offset
      BY U16At
    <3> HIDE DEF a, c, d
    <3>4. /\ a \o d \in Seq(Octet) /\ Len(a \o d) = 2 + 2
          /\ \A k \in 1..2 : (a \o d)[k] = a[k]
          /\ (a \o d)[2 + 1] = d[1] /\ (a \o d)[2 + 2] = d[2]
      BY <3>2, <3>3, 2 \in Nat, WordBehind
    <3>5. 2 + 1 = 3 /\ 2 + 2 = 4 /\ 1 \in 1..2 /\ 2 \in 1..2
      OBVIOUS
    <3> QED
      BY <2>1, <3>1, <3>2, <3>3, <3>4, <3>5
  <2>2. CASE ~(slices > 1)
    BY <2>2 DEF SliceInfo
  <2> QED BY <2>1, <2>2
<1> HIDE DEF s, c
<1>0. Len(s) \in Nat /\ Len(c) \in Nat /\ Len(part) \in Nat
  BY <1>4, <1>5
<1>6. /\ o \in Seq(Octet)
      /\ Len(o) = 12 + Len(s) + Len(c) + Len(part) + 4
      /\ \A k \in 1..12 : o[k] = b[k]
      /\ \A k \in 1..Len(s) : o[12 + k] = s[k]
      /\ \A k \in 1..Len(c) : o[12 + Len(s) + k] = c[k]
      /\ \A k \in 1..Len(part) : o[12 + Len(s) + Len(c) + k] = part[k]
  <2>1. /\ o \in Seq(Octet)
        /\ Len(o) = Len(b) + Len(s) + Len(c) + Len(part) + Len(time)
        /\ \A k \in 1..Len(b) : o[k] = b[k]
        /\ \A k \in 1..Len(s) : o[Len(b) + k] = s[k]
        /\ \A k \in 1..Len(c) : o[Len(b) + Len(s) + k] = c[k]
        /\ \A k \in 1..Len(part) : o[Len(b) + Len(s) + Len(c) + k] = part[k]
    <3>1. /\ b \in Seq(Octet) /\ s \in Seq(Octet) /\ c \in Seq(Octet)
          /\ part \in Seq(Octet) /\ time \in Seq(Octet)
      BY <1>3, <1>4, <1>5
    <3>2. Laid(Row(b, s, c, part, time), b, s, c, part, time)
      BY <3>1, Layout
    <3> QED BY <3>2 DEF Laid
  <2> HIDE DEF o
  <2> QED BY <2>1, <1>3
<1> HIDE DEF o
<1>7. p.octets = o /\ p.signature = o \o CustomerNo(customerNo, h.sn)
  BY DEF Signed
<1> HIDE DEF p
<1>8. /\ o[1] = STARTP_STAG1_VALUE /\ o[2] = STARTP_STAG2_VALUE
      /\ o[3] = b[3] /\ o[5] = h.topic /\ o[6] = h.cmd
      /\ At16(o, 6) = h.msgId /\ At16(o, 8) = pkgSize /\ At16(o, 10) = msgLen
  <2>1. \A k \in {1, 2, 3, 5, 6, 7, 8, 9, 10, 11, 12} : o[k] = b[k]
    BY <1>6
  <2> QED BY <2>1, <1>3 DEF At16
<1>9. /\ ver(p) = STARTP_VERSION
      /\ hasSn(p) <=> h.withSn
      /\ qos(p) <=> h.qos
      /\ isAck(p) <=> h.ack
      /\ isSlicePkg(p) <=> slices > 1
      /\ ~isSliceAckPkg(p) /\ ~hasExtData(p)
  <2> DEFINE f == Flags(h, slices)
  <2>1. /\ f \in Octet /\ f % 4 = 0
        /\ ((f \div 4) % 2 = 1) <=> h.withSn
        /\ ((f \div 8) % 2 = 1) <=> h.qos
        /\ ((f \div 16) % 2 = 1) <=> h.ack
        /\ ((f \div 32) % 2 = 1) <=> (slices > 1)
        /\ (f \div 64) % 2 = 0 /\ (f \div 128) % 2 = 0
    BY slices \in Nat, FlagsApart
  <2> HIDE DEF f
  <2>2. p.octets[3] = f
    BY <1>3, <1>7, <1>8 DEF f
  <2>3. ~((f \div 64) % 2 = 1) /\ ~((f \div 128) % 2 = 1)
    BY <2>1
  <2> QED
    BY <2>1, <2>2, <2>3 DEF ver, hasSn, qos, isAck, isSlicePkg,
       isSliceAckPkg, hasExtData, IsSet, STARTP_VERSION
<1>10. HasSlice(p) <=> slices > 1
  BY <1>9 DEF HasSlice
<1>11. AfterSn(p) = 12 + Len(s)
  BY <1>4, <1>9 DEF AfterSn, STARTP_BASE_HEADER_SIZE, STARTP_SN_LENGTH
<1>12. AfterSlice(p) = 12 + Len(s) + Len(c)
  BY <1>4, <1>5, <1>10, <1>11 DEF AfterSlice, STARTP_SLICE_INFO_LENGTH
<1>13. BodyOffset(p) = 12 + Len(s) + Len(c)
  BY <1>9, <1>12 DEF BodyOffset
<1>14. size(p) = 12 + Len(s) + Len(c) + Len(part) + 8
  <2>1. Len(p.octets) = 12 + Len(s) + Len(c) + Len(part) + 4
    BY <1>6, <1>7
  <2> QED BY <2>1, <1>0 DEF size
<1>15. pkgSize = size(p)
  BY <1>4, <1>5, <1>14 DEF pkgSize, headerSize, STARTP_BASE_HEADER_SIZE,
     STARTP_SN_LENGTH, STARTP_SLICE_INFO_LENGTH, STARTP_SIGN_DATA_LENGTH
<1>16. h.withSn => sn(p) = h.sn
  <2> SUFFICES ASSUME h.withSn PROVE sn(p) = s
    BY <1>4
  <2>1. Len(s) = 8
    BY <1>4
  <2>2. SubSeq(o, 12 + 1, 12 + Len(s)) = s
    <3>1. 12 \in Nat /\ 12 + Len(s) <= Len(o)
      BY <1>0, <1>6
    <3> QED BY <3>1, <1>4, <1>6, CutOut
  <2> QED
    BY <2>1, <2>2, <1>7, <1>9 DEF sn, STARTP_BASE_HEADER_SIZE,
       STARTP_SN_LENGTH
<1>17. Body(p) = part
  <2>1. bodyLength(p) = Len(part)
    BY <1>0, <1>13, <1>14 DEF bodyLength, STARTP_SIGN_DATA_LENGTH
  <2> DEFINE m == 12 + Len(s) + Len(c)
  <2>2. m \in Nat /\ m + Len(part) <= Len(o)
    <3>1. Len(o) = (m + Len(part)) + 4
      BY <1>0, <1>6
    <3>2. m \in Nat /\ m + Len(part) \in Nat
      BY <1>0
    <3> HIDE DEF m
    <3> QED BY <3>1, <3>2
  <2>3. \A k \in 1..Len(part) : o[m + k] = part[k]
    BY <1>6
  <2> HIDE DEF m
  <2>4. SubSeq(o, m + 1, m + Len(part)) = part
    BY <2>2, <2>3, <1>6, CutOut
  <2> QED
    BY <2>1, <2>4, <1>7, <1>13 DEF Body, m
<1>18. sliceIndex(p) = i /\ sliceTotal(p) = slices /\ sliceOffset(p) = offset
  <2>1. CASE slices > 1
    <3>1. \A k \in {1, 2, 3, 4} : o[12 + Len(s) + k] = c[k]
      <4>1. Len(c) = 4
        BY <2>1, <1>5
      <4>2. \A k \in 1..4 : o[12 + Len(s) + k] = c[k]
        BY <4>1, <1>6
      <4> QED BY <4>2
    <3> DEFINE m == 12 + Len(s)
    <3>2. /\ o[m + 1] = i /\ o[m + 2] = slices
          /\ o[m + 3] = c[3] /\ o[m + 4] = c[4]
      BY <2>1, <3>1, <1>5
    <3>3. m \in Nat /\ (m + 2) + 1 = m + 3 /\ (m + 2) + 2 = m + 4
      BY <1>4
    <3>4. AfterSn(p) = m
      BY <1>11
    <3> HIDE DEF m
    <3>5. At16(o, m + 2) = offset
      BY <2>1, <3>2, <3>3, <1>5 DEF At16
    <3> QED
      BY <2>1, <3>2, <3>4, <3>5, <1>7, <1>10
      DEF sliceIndex, sliceTotal, sliceOffset
  <2>2. CASE ~(slices > 1)
    BY <2>2, <1>10 DEF sliceIndex, sliceTotal, sliceOffset
  <2> QED BY <2>1, <2>2
<1>19. h.withSn \/ customerNo # <<>> => verify(p, customerNo)
  <2> SUFFICES ASSUME h.withSn \/ customerNo # <<>>
               PROVE  verify(p, customerNo)
    OBVIOUS
  <2>1. CustomerNo(customerNo, sn(p)) = CustomerNo(customerNo, h.sn)
    BY <1>16 DEF CustomerNo
  <2>2. size(p) >= STARTP_MIN_PACKAGE_SIZE
    BY <1>4, <1>5, <1>14 DEF STARTP_MIN_PACKAGE_SIZE
  <2> QED
    BY <2>1, <2>2, <1>7, <1>8, <1>9 DEF verify
<1>20. /\ topic(p) = h.topic /\ cmd(p) = h.cmd /\ msgId(p) = h.msgId
       /\ msgLength(p) = msgLen /\ length(p) = size(p)
  BY <1>7, <1>8, <1>15 DEF topic, cmd, msgId, msgLength, length
<1>21. p.octets \in Seq(Octet) /\ AfterSlice(p) <= Len(p.octets)
  BY <1>0, <1>6, <1>7, <1>12
<1> QED
  BY <1>1, <1>9, <1>16, <1>17, <1>18, <1>19, <1>20, <1>21
  DEF ReadBack

(* The flags of an acknowledgement: version and sn are those of the package.*)
LEMMA AckFlagsApart ==
  ASSUME NEW f \in Octet
  PROVE  LET g == 64 + (f % 8)
         IN  /\ g \in Octet
             /\ (g \div 4) % 2 = (f \div 4) % 2
             /\ (g \div 16) % 2 = 0 /\ (g \div 32) % 2 = 0
             /\ (g \div 64) % 2 = 1 /\ (g \div 128) % 2 = 0
<1> DEFINE r == f % 8
           q == f \div 8
           g == 64 + r
<1>1. f \in Int /\ 0 <= f /\ f < 256
  BY DEF Octet
<1>2. q \in Int /\ r \in Int /\ f = 8 * q + r /\ 0 <= r /\ r < 8
  BY <1>1
<1> HIDE DEF q, r
<1>3. r \in {0, 1, 2, 3, 4, 5, 6, 7}
  BY <1>2
<1>4. g \in Octet
  BY <1>2 DEF Octet
<1>5. (g \div 16) % 2 = 0 /\ (g \div 32) % 2 = 0
      /\ (g \div 64) % 2 = 1 /\ (g \div 128) % 2 = 0
  BY <1>3
<1>6. (g \div 4) % 2 = (IF r >= 4 THEN 1 ELSE 0)
  BY <1>3
<1>7. (f \div 4) % 2 = (IF r >= 4 THEN 1 ELSE 0)
  <2>1. CASE r >= 4
    <3>1. f \div 4 = 2 * q + 1
      BY <1>2, <2>1
    <3> QED BY <1>2, <2>1, <3>1
  <2>2. CASE ~(r >= 4)
    <3>1. f \div 4 = 2 * q
      BY <1>2, <2>2
    <3> QED BY <1>2, <2>2, <3>1
  <2> QED BY <2>1, <2>2
<1> QED
  BY <1>4, <1>5, <1>6, <1>7 DEF g, r

(* An octet is put in the place of another.                                 *)
LEMMA PutOctet ==
  ASSUME NEW s \in Seq(Octet), NEW k \in 1..Len(s), NEW v \in Octet
  PROVE  /\ [s EXCEPT ![k] = v] \in Seq(Octet)
         /\ Len([s EXCEPT ![k] = v]) = Len(s)
         /\ [s EXCEPT ![k] = v][k] = v
         /\ \A j \in 1..Len(s) : j # k => [s EXCEPT ![k] = v][j] = s[j]
OBVIOUS

(* Whatever slice the receiver acknowledges with makeSliceAck, who gets the *)
(* acknowledgement finds in it the slice, the message and the sender, and   *)
(* takes it for nothing but an acknowledgement.                             *)
THEOREM AckReadBack ==
  ASSUME NEW p, p.octets \in Seq(Octet), isSlicePkg(p),
         AfterSn(p) + STARTP_SLICE_INFO_LENGTH <= Len(p.octets),
         NEW time \in Seq(Octet), Len(time) = 4, NEW customerNo
  PROVE  LET ack == makeSliceAck(p, time, customerNo)
         IN  /\ isSliceAckPkg(ack) /\ ~isSlicePkg(ack) /\ ~isAck(ack)
             /\ hasSn(ack) <=> hasSn(p)
             /\ sn(ack) = sn(p) /\ msgId(ack) = msgId(p)
             /\ topic(ack) = topic(p) /\ cmd(ack) = cmd(p)
             /\ sliceIndex(ack) = sliceIndex(p)
             /\ sliceTotal(ack) = sliceTotal(p)
             /\ sliceOffset(ack) = sliceOffset(p)
             /\ bodyLength(ack) = 0
<1> DEFINE o == p.octets
           g == AckFlags(p)
           e == [o EXCEPT ![3] = g]
           m == AfterSn(p)
           n == m + STARTP_SLICE_INFO_LENGTH
           cut == SubSeq(e, 1, n)
           unsigned == cut \o time
           x == Len(unsigned) + 4
           octets == [[unsigned EXCEPT ![9] = x] EXCEPT ![10] = 0]
           ack == makeSliceAck(p, time, customerNo)
<1>1. ack.octets = octets
  BY DEF makeSliceAck, Signed
<1>2. m \in {12, 20} /\ (m = 20 <=> hasSn(p)) /\ n = m + 4
  BY DEF AfterSn, STARTP_BASE_HEADER_SIZE, STARTP_SN_LENGTH,
         STARTP_SLICE_INFO_LENGTH
<1>3. o \in Seq(Octet) /\ n <= Len(o)
  OBVIOUS
<1> HIDE DEF m, n, o
<1>4. o[3] \in Octet
  BY <1>2, <1>3
<1>5. /\ g \in Octet
      /\ (g \div 4) % 2 = (o[3] \div 4) % 2
      /\ (g \div 16) % 2 = 0 /\ (g \div 32) % 2 = 0
      /\ (g \div 64) % 2 = 1 /\ (g \div 128) % 2 = 0
  BY <1>4, AckFlagsApart DEF AckFlags, o
<1> HIDE DEF g
<1>6. /\ e \in Seq(Octet) /\ Len(e) = Len(o) /\ e[3] = g
      /\ \A k \in 1..Len(o) : k # 3 => e[k] = o[k]
  BY <1>2, <1>3, <1>5
<1> HIDE DEF e
<1>7. /\ cut \in Seq(Octet) /\ Len(cut) = n
      /\ \A k \in 1..n : cut[k] = e[k]
  BY <1>2, <1>3, <1>6
<1> HIDE DEF cut
<1>8. /\ unsigned \in Seq(Octet) /\ Len(unsigned) = n + 4
      /\ \A k \in 1..n : unsigned[k] = cut[k]
  <2>1. n \in Nat
    BY <1>2
  <2>2. /\ cut \o time \in Seq(Octet)
        /\ Len(cut \o time) = Len(cut) + Len(time)
        /\ \A k \in 1..Len(cut) : (cut \o time)[k] = cut[k]
    BY <1>7, Behind
  <2> QED BY <1>7, <2>1, <2>2
<1> HIDE DEF unsigned
<1>9. /\ Len(octets) = n + 4 /\ octets \in Seq(Octet)
      /\ \A k \in 1..n : k # 9 /\ k # 10 => octets[k] = unsigned[k]
  <2>0. x = n + 8 /\ n \in {16, 24}
    BY <1>2, <1>8
  <2>1. unsigned \in Seq(Octet) /\ x \in Octet
    BY <2>0, <1>8 DEF Octet
  <2> HIDE DEF x
  <2> DEFINE first == [unsigned EXCEPT ![9] = x]
  <2>2. /\ first \in Seq(Octet) /\ Len(first) = Len(unsigned)
        /\ \A k \in 1..Len(unsigned) : k # 9 => first[k] = unsigned[k]
    <3>1. 9 \in 1..Len(unsigned)
      BY <1>2, <1>8
    <3> HIDE DEF x
    <3> QED BY <2>1, <3>1, PutOctet
  <2> HIDE DEF first
  <2>3. /\ octets \in Seq(Octet) /\ Len(octets) = Len(first)
        /\ \A k \in 1..Len(first) : k # 10 => octets[k] = first[k]
    <3>1. octets = [first EXCEPT ![10] = 0]
      BY DEF first
    <3>2. 0 \in Octet
      BY DEF Octet
    <3> HIDE DEF octets
    <3>3. 10 \in 1..Len(first)
      BY <1>2, <1>8, <2>2
    <3> QED BY <2>2, <3>1, <3>2, <3>3, PutOctet
  <2> HIDE DEF octets
  <2>4. Len(unsigned) = n + 4 /\ n \in Nat
    BY <1>2, <1>8
  <2> QED BY <2>2, <2>3, <2>4
<1> HIDE DEF octets, ack
<1>10. octets[3] = g
  <2>1. 3 \in 1..n /\ 3 # 9 /\ 3 # 10
    BY <1>2
  <2>2. octets[3] = unsigned[3] /\ unsigned[3] = cut[3] /\ cut[3] = e[3]
    BY <2>1, <1>7, <1>8, <1>9
  <2> QED BY <2>2, <1>6
<1>11. \A k \in 1..n : k \notin {3, 9, 10} => octets[k] = o[k]
  <2> SUFFICES ASSUME NEW k \in 1..n, k \notin {3, 9, 10}
               PROVE  octets[k] = o[k]
    OBVIOUS
  <2>1. octets[k] = unsigned[k]
    BY <1>9
  <2>2. unsigned[k] = cut[k] /\ cut[k] = e[k]
    BY <1>7, <1>8
  <2>3. k \in 1..Len(o)
    BY <1>2, <1>3
  <2>4. e[k] = o[k]
    BY <1>6, <2>3
  <2> QED BY <2>1, <2>2, <2>4
<1>12. /\ isSliceAckPkg(ack) /\ ~isSlicePkg(ack) /\ ~isAck(ack)
       /\ ~hasExtData(ack) /\ (hasSn(ack) <=> hasSn(p))
  BY <1>1, <1>5, <1>10
     DEF isSliceAckPkg, isSlicePkg, isAck, hasExtData, hasSn, IsSet, o
<1>13. AfterSn(ack) = m /\ HasSlice(ack) /\ HasSlice(p) /\ AfterSn(p) = m
  BY <1>12 DEF AfterSn, HasSlice, m
<1>14. /\ msgId(ack) = msgId(p)
       /\ topic(ack) = topic(p) /\ cmd(ack) = cmd(p)
  <2>1. \A k \in {5, 6, 7, 8} : octets[k] = o[k]
    BY <1>2, <1>11
  <2> QED
    BY <1>1, <2>1 DEF msgId, topic, cmd, At16, o
<1>15. /\ sliceIndex(ack) = sliceIndex(p) /\ sliceTotal(ack) = sliceTotal(p)
       /\ sliceOffset(ack) = sliceOffset(p)
  <2>1. \A k \in {1, 2, 3, 4} : octets[m + k] = o[m + k]
    BY <1>2, <1>11
  <2>2. (m + 2) + 1 = m + 3 /\ (m + 2) + 2 = m + 4
    BY <1>2
  <2> QED
    BY <1>1, <1>13, <2>1, <2>2
       DEF sliceIndex, sliceTotal, sliceOffset, At16, o
<1>16. sn(ack) = sn(p)
  <2>1. CASE hasSn(p)
    <3>1. m = 20 /\ n = 24
      BY <1>2, <2>1
    <3>2. \A k \in 13..20 : octets[k] = o[k]
      BY <1>11, <3>1
    <3>3. Len(octets) = 28 /\ Len(o) >= 24
      BY <1>3, <1>9, <3>1
    <3>4. SubSeq(octets, 13, 20) = SubSeq(o, 13, 20)
      BY <1>3, <1>9, <3>2, <3>3
    <3> QED
      BY <1>1, <1>12, <2>1, <3>4
         DEF sn, o, STARTP_BASE_HEADER_SIZE, STARTP_SN_LENGTH
  <2>2. CASE ~hasSn(p)
    BY <1>12, <2>2 DEF sn
  <2> QED BY <2>1, <2>2
<1>17. bodyLength(ack) = 0
  <2>1. BodyOffset(ack) = m + 4
    BY <1>2, <1>12, <1>13
       DEF BodyOffset, AfterSlice, STARTP_SLICE_INFO_LENGTH
  <2>2. size(ack) = m + 12
    BY <1>1, <1>2, <1>9 DEF size
  <2> QED
    BY <1>2, <2>1, <2>2 DEF bodyLength, STARTP_SIGN_DATA_LENGTH
<1> QED
  BY <1>12, <1>14, <1>15, <1>16, <1>17 DEF ack

(* A number of 16 bits.                                                     *)
LEMMA InWord ==
  ASSUME NEW n \in Int, 0 <= n, n < 65536
  PROVE  n \in Word
<1>1. \E k \in Int : k = n /\ k \in Word
  BY DEF Word
<1> QED
  BY <1>1

(* A device id as text: the octets made of it, and the id made of these.    *)
LEMMA U16Octets ==
  ASSUME NEW n \in Nat
  PROVE  U16(n) \in Seq(Octet) /\ Len(U16(n)) = 2
<1>1. (n \div 256) % 256 \in Octet /\ n % 256 \in Octet
  <2> DEFINE q == n \div 256
  <2>1. q \in Int
    OBVIOUS
  <2> HIDE DEF q
  <2>2. q % 256 \in Octet
    BY <2>1 DEF Octet
  <2> QED BY <2>2 DEF q, Octet
<1> QED BY <1>1 DEF U16

LEMMA SnOctets ==
  ASSUME NEW id, id = NoText \/ id \in DeviceId
  PROVE  str2devid(id) \in Seq(Octet) /\ Len(str2devid(id)) = STARTP_SN_LENGTH
<1>1. CASE id = NoText
  BY <1>1 DEF str2devid, NoSn, STARTP_SN_LENGTH, Octet
<1>2. CASE id # NoText
  <2>1. id.type \in Nat /\ id.customer_type \in Nat /\ id.customer \in Nat
        /\ id.day \in Nat /\ id.no \in Nat
    BY <1>2 DEF DeviceId
  <2>2. dateDec(id.day) \in Nat
    BY <2>1, SummerTimeAssumption DEF dateDec
  <2> DEFINE a == <<id.type % 256, id.customer_type % 256>>
             b == U16(id.customer)
             c == U16(dateDec(id.day))
             d == U16(id.no)
  <2>3. str2devid(id) = ((a \o b) \o c) \o d
    BY <1>2 DEF str2devid
  <2>4. a \in Seq(Octet) /\ Len(a) = 2
    BY <2>1 DEF Octet
  <2>5. /\ b \in Seq(Octet) /\ Len(b) = 2
        /\ c \in Seq(Octet) /\ Len(c) = 2
        /\ d \in Seq(Octet) /\ Len(d) = 2
    BY <2>1, <2>2, U16Octets
  <2> HIDE DEF a, b, c, d
  <2>6. a \o b \in Seq(Octet) /\ Len(a \o b) = 2 + 2
    BY <2>4, <2>5, 2 \in Nat, WordBehind
  <2> DEFINE e == a \o b
             g == e \o c
  <2>7. e \in Seq(Octet) /\ Len(e) = 4
    BY <2>6
  <2> HIDE DEF e
  <2>8. g \in Seq(Octet) /\ Len(g) = 4 + 2
    BY <2>5, <2>7, 4 \in Nat, WordBehind
  <2>9. Len(g) = 6
    BY <2>8
  <2> HIDE DEF g
  <2>10. g \o d \in Seq(Octet) /\ Len(g \o d) = 6 + 2
    BY <2>5, <2>8, <2>9, 6 \in Nat, WordBehind
  <2>11. str2devid(id) = g \o d
    BY <2>3 DEF e, g
  <2> QED
    BY <2>10, <2>11 DEF STARTP_SN_LENGTH
<1> QED BY <1>1, <1>2

(* An id whose numbers fit their octets comes back from the header as it    *)
(* was, unless its day began an hour early (str2devid, devid2str).          *)
THEOREM DeviceIdReadBack ==
  ASSUME NEW id \in DeviceId, IsCanonical(id)
  PROVE  devid2str(str2devid(id)) = id
<1>1. /\ id.type \in 0..255 /\ id.customer_type \in 0..255
      /\ id.customer \in Word /\ id.day \in Word /\ id.no \in Word
      /\ id.day \notin SummerTime /\ id # NoText
  <2>1. id.type \in Nat /\ id.customer_type \in Nat /\ id.customer \in Nat
        /\ id.day \in Nat /\ id.no \in Nat
    BY DEF DeviceId
  <2>2. /\ id.type < 256 /\ id.customer_type < 256 /\ id.customer < 65536
        /\ id.no < 65536 /\ id.day < 65536
        /\ id.day \notin SummerTime /\ id # NoText
    BY DEF IsCanonical
  <2> DEFINE type == id.type
             customer_type == id.customer_type
             customer == id.customer
             day == id.day
             no == id.no
  <2>3. /\ type \in Int /\ 0 <= type /\ type < 256
        /\ customer_type \in Int /\ 0 <= customer_type /\ customer_type < 256
        /\ customer \in Int /\ 0 <= customer /\ customer < 65536
        /\ day \in Int /\ 0 <= day /\ day < 65536
        /\ no \in Int /\ 0 <= no /\ no < 65536
    BY <2>1, <2>2
  <2> HIDE DEF type, customer_type, customer, day, no
  <2>4. /\ type \in 0..255 /\ customer_type \in 0..255
        /\ customer \in Word /\ day \in Word /\ no \in Word
    <3>1. type \in 0..255 /\ customer_type \in 0..255
      BY ONLY <2>3
    <3>2. customer \in Word /\ day \in Word /\ no \in Word
      BY <2>3, InWord
    <3> QED BY <3>1, <3>2
  <2> QED
    BY <2>2, <2>4 DEF type, customer_type, customer, day, no
<1>2. dateDec(id.day) = id.day
  <2>1. ~(id.day < 0)
    <3> DEFINE day == id.day
    <3>1. day \in Word
      BY <1>1
    <3> HIDE DEF day
    <3>2. ~(day < 0)
      BY ONLY <3>1 DEF Word
    <3> QED BY <3>2 DEF day
  <2> QED BY <1>1, <2>1 DEF dateDec
<1> DEFINE a == <<id.type, id.customer_type>>
           b == U16(id.customer)
           c == U16(id.day)
           d == U16(id.no)
           o == ((a \o b) \o c) \o d
<1>3. str2devid(id) = o
  <2>1. id.type % 256 = id.type /\ id.customer_type % 256 = id.customer_type
    BY <1>1
  <2> QED BY <1>1, <1>2, <2>1 DEF str2devid
<1>4. /\ a \in Seq(Octet) /\ Len(a) = 2
      /\ a[1] = id.type /\ a[2] = id.customer_type
  BY <1>1 DEF Octet
<1>5. b \in Seq(Octet) /\ Len(b) = 2 /\ 256 * b[1] + b[2] = id.customer
  BY <1>1, U16At
<1>6. c \in Seq(Octet) /\ Len(c) = 2 /\ 256 * c[1] + c[2] = id.day
  BY <1>1, U16At
<1>7. d \in Seq(Octet) /\ Len(d) = 2 /\ 256 * d[1] + d[2] = id.no
  BY <1>1, U16At
<1> HIDE DEF a, b, c, d
<1>8. /\ o[1] = a[1] /\ o[2] = a[2] /\ o[3] = b[1] /\ o[4] = b[2]
      /\ o[5] = c[1] /\ o[6] = c[2] /\ o[7] = d[1] /\ o[8] = d[2]
  <2> DEFINE e == a \o b
             g == e \o c
  <2>1. /\ e \in Seq(Octet) /\ Len(e) = 4 /\ e[1] = a[1] /\ e[2] = a[2]
        /\ e[3] = b[1] /\ e[4] = b[2]
    <3>1. /\ e \in Seq(Octet) /\ Len(e) = 2 + 2
          /\ \A k \in 1..2 : e[k] = a[k]
          /\ e[2 + 1] = b[1] /\ e[2 + 2] = b[2]
      BY <1>4, <1>5, 2 \in Nat, WordBehind
    <3>2. 1 \in 1..2 /\ 2 \in 1..2
      OBVIOUS
    <3> QED BY <3>1, <3>2
  <2> HIDE DEF e
  <2>2. /\ g \in Seq(Octet) /\ Len(g) = 6
        /\ \A k \in 1..4 : g[k] = e[k]
        /\ g[5] = c[1] /\ g[6] = c[2]
    <3>1. /\ g \in Seq(Octet) /\ Len(g) = 4 + 2
          /\ \A k \in 1..4 : g[k] = e[k]
          /\ g[4 + 1] = c[1] /\ g[4 + 2] = c[2]
      BY <2>1, <1>6, 4 \in Nat, WordBehind
    <3> QED BY <3>1
  <2> HIDE DEF g
  <2>3. /\ \A k \in 1..6 : (g \o d)[k] = g[k]
        /\ (g \o d)[7] = d[1] /\ (g \o d)[8] = d[2]
    <3>1. /\ \A k \in 1..6 : (g \o d)[k] = g[k]
          /\ (g \o d)[6 + 1] = d[1] /\ (g \o d)[6 + 2] = d[2]
      BY <2>2, <1>7, 6 \in Nat, WordBehind
    <3>2. 6 + 1 = 7 /\ 6 + 2 = 8
      OBVIOUS
    <3> QED BY <3>1, <3>2
  <2>4. o = g \o d
    BY DEF e, g
  <2>5. \A k \in 1..4 : o[k] = e[k]
    <3> SUFFICES ASSUME NEW k \in 1..4 PROVE o[k] = e[k]
      OBVIOUS
    <3>1. k \in 1..6
      OBVIOUS
    <3>2. g[k] = e[k] /\ (g \o d)[k] = g[k]
      BY <2>2, <2>3, <3>1
    <3> HIDE DEF o
    <3> QED BY <2>4, <3>2
  <2>6. o[5] = g[5] /\ o[6] = g[6] /\ o[7] = d[1] /\ o[8] = d[2]
    <3>1. 5 \in 1..6 /\ 6 \in 1..6
      OBVIOUS
    <3> HIDE DEF o
    <3> QED BY <2>3, <2>4, <3>1
  <2>7. 1 \in 1..4 /\ 2 \in 1..4 /\ 3 \in 1..4 /\ 4 \in 1..4
    OBVIOUS
  <2> HIDE DEF o
  <2> QED BY <2>1, <2>2, <2>5, <2>6, <2>7
<1> HIDE DEF o
<1>9. devid2str(o) = [type |-> id.type, customer_type |-> id.customer_type,
                      customer |-> id.customer, day |-> id.day, no |-> id.no]
  BY <1>4, <1>5, <1>6, <1>7, <1>8 DEF devid2str, At16, dateAdd
<1> QED
  BY <1>3, <1>9 DEF DeviceId

-----------------------------------------------------------------------------
(* Every byte of a body is in one of its slices.                            *)
SliceOf(o) == (o - 1) \div STARTP_BODY_MAX_SIZE

LEMMA SlicesCover ==
  ASSUME NEW b \in Seq(Octet), NEW o \in 1..Len(b)
  PROVE  /\ SliceOf(o) \in Slices(b)
         /\ SliceOffset(SliceOf(o)) < o
         /\ o <= SliceEnd(b, SliceOf(o))
<1> DEFINE S == STARTP_BODY_MAX_SIZE
           q == SliceOf(o)
<1>1. S \in Nat \ {0} /\ Len(b) \in Nat /\ o \in Nat /\ o >= 1 /\ o <= Len(b)
      /\ b # <<>>
  BY SizeAssumption
<1>2. q \in Nat /\ S * q <= o - 1 /\ o - 1 < S * q + S
  BY <1>1 DEF SliceOf
<1>3. q <= (Len(b) - 1) \div S
  BY <1>1 DEF SliceOf
<1>4. (Len(b) - 1) \div S \in Nat
  BY <1>1
<1>5. SliceCount(b) = ((Len(b) - 1) \div S) + 1
  BY <1>1 DEF SliceCount
<1>6. q \in Slices(b)
  BY <1>2, <1>3, <1>4, <1>5 DEF Slices
<1>7. SliceOffset(q) = S * q
  BY <1>1, <1>2 DEF SliceOffset
<1> HIDE DEF q, S
<1>8. SliceOffset(q) < o
  BY <1>1, <1>2, <1>7
<1>9. o <= SliceEnd(b, q)
  BY <1>1, <1>2, <1>7 DEF SliceEnd, S
<1> QED
  BY <1>6, <1>8, <1>9 DEF q

-----------------------------------------------------------------------------
(* The inductive invariant.  The data have the size of the body as soon as  *)
(* they are there; whoever is inside initFromTermPackage holds the mutex;   *)
(* every slice that is no longer missing is written, or the one thread      *)
(* inside is about to write it; and once a call returned 1 nothing is       *)
(* missing or differs from the body.                                        *)
Labels == {"idle", "enter", "returned"} \cup Critical

Types ==
  /\ header \in Headers
  /\ body \in Seq(Octet)
  /\ body \in Bodies
  /\ allocated \in BOOLEAN
  /\ m_msgData \in Seq(Octet \cup {Hole})
  /\ allocated => m_msgData \in [1..Len(body) -> Octet \cup {Hole}]
  /\ m_sliceMap \subseteq Slices(body)
  /\ mutex \in Threads \cup {None}
  /\ pc \in [Threads -> Labels]
  /\ pkg \in [Threads -> Slices(body) \cup {None}]
  /\ rc \in [Threads -> {0, 1}]
  /\ arrived \subseteq Slices(body)
  /\ message \in [Threads -> [rc : {None, 0, 1},
                             data : Seq(Octet \cup {Hole})]]

Inside == \A t \in Threads : pc[t] \in Critical <=> mutex = t

Lifecycle ==
  \A t \in Threads :
    /\ pc[t] = "allocate" => ~allocated
    /\ pc[t] \in {"fill", "find", "copy", "leave"} => allocated
    /\ pc[t] = "fill" => IsSlicePkg(body) /\ \A u \in Threads : rc[u] # 1
    /\ pc[t] # "idle" => pkg[t] \in Slices(body)

Written(i) ==
  \A o \in 1..Len(body) :
    SliceOffset(i) < o /\ o <= SliceEnd(body, i) => m_msgData[o] = body[o]

Pending(i) ==
  \E t \in Threads :
    \/ pc[t] = "fill"
    \/ pc[t] = "copy" /\ pkg[t] = i
    \/ pc[t] = "find" /\ pkg[t] = i /\ ~IsSlicePkg(body)

NothingForgotten ==
  allocated => \A i \in Slices(body) :
                 i \in m_sliceMap \/ Written(i) \/ Pending(i)

OneIsFinal ==
  \A t \in Threads : rc[t] = 1 => isComplete /\ m_msgData = body

IInv == /\ Types /\ Inside /\ Lifecycle /\ NothingForgotten /\ OneIsFinal
        /\ OneMeansWhole

-----------------------------------------------------------------------------
(* When nothing is missing and nobody is about to write, all is written.    *)
LEMMA WholeWhenWritten ==
  ASSUME Types, allocated, \A i \in Slices(body) : Written(i)
  PROVE  m_msgData = body
<1>1. body \in [1..Len(body) -> Octet]
  BY DEF Types
<1>2. ASSUME NEW o \in 1..Len(body) PROVE m_msgData[o] = body[o]
  BY <1>2, SlicesCover DEF Types, Written
<1> QED
  BY <1>1, <1>2 DEF Types

(* The thread inside leaves with isComplete() only when all is written.     *)
LEMMA LeavesWhole ==
  ASSUME IInv, NEW t \in Threads,
         \/ pc[t] = "leave"
         \/ pc[t] = "find" /\ IsSlicePkg(body),
         isComplete
  PROVE  allocated /\ m_msgData = body
<1>1. ASSUME NEW i \in Slices(body) PROVE ~Pending(i)
  BY DEF IInv, Inside, Pending, Critical
<1>2. allocated /\ \A i \in Slices(body) : Written(i)
  BY <1>1 DEF IInv, isComplete, NothingForgotten
<1> QED
  BY <1>2, WholeWhenWritten DEF IInv

(* A body has at least one slice; one that is not sliced has slice 0.       *)
LEMMA SlicesAreNumbers ==
  ASSUME NEW b \in Seq(Octet)
  PROVE  /\ SliceCount(b) \in Nat
         /\ Slices(b) \subseteq Nat
         /\ ~IsSlicePkg(b) => Slices(b) \subseteq {0}
<1> DEFINE S == STARTP_BODY_MAX_SIZE
<1>1. S \in Nat /\ S > 0 /\ (b # <<>> => Len(b) \in Nat /\ Len(b) - 1 >= 0)
  BY SizeAssumption
<1>2. b # <<>> => (Len(b) - 1) \div S \in Nat
  BY <1>1
<1>3. SliceCount(b) \in Nat
  BY <1>2 DEF SliceCount
<1> QED
  BY <1>3 DEF Slices, IsSlicePkg

(* Returning to the caller, from Leave or RepeatedSlice.                    *)
LEMMA ReturnKeeps ==
  ASSUME IInv, NEW t \in Threads, Return(t),
         \/ pc[t] = "leave"
         \/ pc[t] = "find" /\ IsSlicePkg(body)
  PROVE  IInv'
<1> USE DEF Return, GoTo
<1>1. Types'
  BY DEF IInv, Types, Critical, Labels
<1>2. Inside'
  BY ThreadsAssumption DEF IInv, Types, Inside, Critical, Labels, None
<1>3. Lifecycle'
  BY DEF IInv, Types, Inside, Lifecycle, Critical
<1>4. NothingForgotten'
  <2>1. ASSUME NEW i \in Slices(body), Pending(i) PROVE Pending(i)'
    BY <2>1 DEF IInv, Types, Inside, Pending, Critical
  <2>2. ASSUME NEW i \in Slices(body), Written(i) PROVE Written(i)'
    BY <2>2 DEF Written
  <2> QED
    BY <2>1, <2>2 DEF IInv, NothingForgotten
<1>5. OneIsFinal'
  BY LeavesWhole DEF IInv, Types, OneIsFinal, isComplete
<1>6. OneMeansWhole'
  BY DEF IInv, OneMeansWhole
<1> QED
  BY <1>1, <1>2, <1>3, <1>4, <1>5, <1>6 DEF IInv

-----------------------------------------------------------------------------
LEMMA InitIInv == Init => IInv
<1> SUFFICES ASSUME Init PROVE IInv
  OBVIOUS
<1> USE DEF Init
<1>1. Types
  <2>1. <<>> \in Seq(Octet \cup {Hole})
    OBVIOUS
  <2>2. NoMessage \in [rc : {None, 0, 1}, data : Seq(Octet \cup {Hole})]
    BY <2>1 DEF NoMessage
  <2> QED
    BY <2>1, <2>2, BodiesAssumption DEF Types, Labels
<1>2. Inside /\ Lifecycle /\ NothingForgotten /\ OneIsFinal
  BY ThreadsAssumption
     DEF Inside, Lifecycle, NothingForgotten, OneIsFinal, Critical, None,
         isComplete
<1>3. OneMeansWhole
  BY DEF OneMeansWhole, NoMessage, None
<1> QED
  BY <1>1, <1>2, <1>3 DEF IInv

(* A datagram arrives, and a call enters the mutex.                         *)
LEMMA ReceiveKeeps ==
  ASSUME IInv, NEW t \in Threads, NEW i \in Slices(body), Receive(t, i)
  PROVE  IInv'
<1> USE DEF Receive, At, GoTo
<1>1. Types'
  BY DEF IInv, Types, Critical, Labels
<1>2. Inside'
  BY DEF IInv, Types, Inside, Critical, Labels
<1>3. Lifecycle'
  BY DEF IInv, Types, Lifecycle
<1>4. NothingForgotten'
  <2>1. ASSUME NEW k \in Slices(body), Pending(k) PROVE Pending(k)'
    BY <2>1 DEF IInv, Types, Pending
  <2>2. ASSUME NEW k \in Slices(body), Written(k) PROVE Written(k)'
    BY <2>2 DEF Written
  <2> QED
    BY <2>1, <2>2 DEF IInv, NothingForgotten
<1>5. OneIsFinal' /\ OneMeansWhole'
  BY DEF IInv, OneIsFinal, isComplete, OneMeansWhole
<1> QED
  BY <1>1, <1>2, <1>3, <1>4, <1>5 DEF IInv

LEMMA LockKeeps ==
  ASSUME IInv, NEW t \in Threads, Lock(t)
  PROVE  IInv'
<1> USE DEF Lock, At, GoTo
<1>1. Types'
  BY DEF IInv, Types, Critical, Labels
<1>2. Inside'
  BY ThreadsAssumption DEF IInv, Types, Inside, Critical, Labels, None
<1>3. Lifecycle'
  BY DEF IInv, Types, Lifecycle
<1>4. NothingForgotten'
  <2>1. ASSUME NEW k \in Slices(body), Pending(k) PROVE Pending(k)'
    BY <2>1 DEF IInv, Types, Pending
  <2>2. ASSUME NEW k \in Slices(body), Written(k) PROVE Written(k)'
    BY <2>2 DEF Written
  <2> QED
    BY <2>1, <2>2 DEF IInv, NothingForgotten
<1>5. OneIsFinal' /\ OneMeansWhole'
  BY DEF IInv, OneIsFinal, isComplete, OneMeansWhole
<1> QED
  BY <1>1, <1>2, <1>3, <1>4, <1>5 DEF IInv

-----------------------------------------------------------------------------
(* The steps under the mutex.                                               *)
LEMMA AllocateKeeps ==
  ASSUME IInv, NEW t \in Threads, Allocate(t)
  PROVE  IInv'
<1> USE DEF Allocate, At, GoTo
<1>1. ~allocated /\ pkg[t] \in Slices(body) /\ mutex = t
  BY DEF IInv, Lifecycle, Inside, Critical
<1>2. Types'
  <2>1. m_msgData' \in [1..Len(body) -> Octet \cup {Hole}]
    OBVIOUS
  <2>2. m_msgData' \in Seq(Octet \cup {Hole})
    BY <2>1 DEF IInv, Types
  <2> QED
    BY <2>1, <2>2 DEF IInv, Types, Critical, Labels
<1>3. Inside'
  BY DEF IInv, Types, Inside, Critical, Labels
<1>4. Lifecycle'
  BY <1>1 DEF IInv, Types, Inside, Lifecycle, Critical, OneIsFinal, isComplete
<1>5. NothingForgotten'
  <2>1. CASE IsSlicePkg(body)
    <3>1. pc'[t] = "fill"
      BY <2>1 DEF IInv, Types
    <3> QED
      BY <3>1 DEF NothingForgotten, Pending
  <2>2. CASE ~IsSlicePkg(body)
    <3>1. pc'[t] = "find" /\ pkg'[t] = pkg[t] /\ ~IsSlicePkg(body')
      BY <2>2 DEF IInv, Types
    <3>2. \A i \in Slices(body') : i = pkg'[t]
      BY <1>1, <2>2, SlicesAreNumbers DEF IInv, Types
    <3> QED
      BY <3>1, <3>2 DEF NothingForgotten, Pending
  <2> QED
    BY <2>1, <2>2
<1>6. OneIsFinal' /\ OneMeansWhole'
  BY <1>1 DEF IInv, OneIsFinal, isComplete, OneMeansWhole
<1> QED
  BY <1>2, <1>3, <1>4, <1>5, <1>6 DEF IInv

LEMMA FillSliceMapKeeps ==
  ASSUME IInv, NEW t \in Threads, FillSliceMap(t)
  PROVE  IInv'
<1> USE DEF FillSliceMap, At, GoTo
<1>1. Types'
  BY DEF IInv, Types, Critical, Labels
<1>2. Inside'
  BY DEF IInv, Types, Inside, Critical, Labels
<1>3. Lifecycle'
  BY DEF IInv, Types, Lifecycle
<1>4. NothingForgotten'
  BY DEF NothingForgotten
<1>5. OneIsFinal' /\ OneMeansWhole'
  BY DEF IInv, Types, Lifecycle, OneIsFinal, isComplete, OneMeansWhole
<1> QED
  BY <1>1, <1>2, <1>3, <1>4, <1>5 DEF IInv

LEMMA FindSliceKeeps ==
  ASSUME IInv, NEW t \in Threads, FindSlice(t)
  PROVE  IInv'
<1> USE DEF FindSlice, At, GoTo
<1>1. Types'
  BY DEF IInv, Types, Critical, Labels
<1>2. Inside'
  BY DEF IInv, Types, Inside, Critical, Labels
<1>3. Lifecycle'
  BY DEF IInv, Types, Lifecycle
<1>4. NothingForgotten'
  <2>1. pc'[t] = "copy" /\ pkg' = pkg
    BY DEF IInv, Types
  <2>2. Pending(pkg[t])'
    BY <2>1 DEF Pending
  <2>3. ASSUME NEW k \in Slices(body), Pending(k), k # pkg[t]
        PROVE  Pending(k)'
    BY <2>3 DEF IInv, Types, Pending
  <2>4. ASSUME NEW k \in Slices(body), Written(k) PROVE Written(k)'
    BY <2>4 DEF Written
  <2> QED
    BY <2>2, <2>3, <2>4 DEF IInv, NothingForgotten
<1>5. OneIsFinal' /\ OneMeansWhole'
  BY DEF IInv, OneIsFinal, isComplete, OneMeansWhole
<1> QED
  BY <1>1, <1>2, <1>3, <1>4, <1>5 DEF IInv

LEMMA CopyBodyKeeps ==
  ASSUME IInv, NEW t \in Threads, CopyBody(t)
  PROVE  IInv' /\ (m_msgData = body => m_msgData' = body)
<1> USE DEF CopyBody, At, GoTo
<1>1. /\ allocated /\ mutex = t /\ pkg[t] \in Slices(body)
      /\ m_msgData \in [1..Len(body) -> Octet \cup {Hole}]
      /\ body \in [1..Len(body) -> Octet]
      /\ SliceOffset(pkg[t]) \in Int /\ SliceEnd(body, pkg[t]) \in Int
  BY SizeAssumption, SlicesAreNumbers
     DEF IInv, Types, Lifecycle, Inside, Critical, SliceOffset, SliceEnd
<1>2. \A o \in 1..Len(body) :
        m_msgData'[o] =
          IF SliceOffset(pkg[t]) < o /\ o <= SliceEnd(body, pkg[t])
          THEN body[o] ELSE m_msgData[o]
  BY <1>1
<1>3. m_msgData = body => m_msgData' = body
  BY <1>1, <1>2
<1>4. Types'
  <2>1. m_msgData' \in [1..Len(body) -> Octet \cup {Hole}]
    BY <1>1
  <2>2. Len(body) \in Nat
    BY DEF IInv, Types
  <2>3. ASSUME NEW S, NEW n \in Nat PROVE [1..n -> S] \subseteq Seq(S)
    OBVIOUS
  <2>4. m_msgData' \in Seq(Octet \cup {Hole})
    BY <2>1, <2>2, <2>3
  <2> QED
    BY <2>1, <2>4 DEF IInv, Types, Critical, Labels
<1>5. Inside'
  BY DEF IInv, Types, Inside, Critical, Labels
<1>6. Lifecycle'
  BY DEF IInv, Types, Lifecycle
<1>7. NothingForgotten'
  <2>1. Written(pkg[t])'
    BY <1>2 DEF Written
  <2>2. ASSUME NEW k \in Slices(body), k # pkg[t] PROVE ~Pending(k)
    BY <1>1, <2>2 DEF IInv, Inside, Pending, Critical
  <2>3. ASSUME NEW k \in Slices(body), Written(k) PROVE Written(k)'
    BY <1>2, <2>3 DEF Written
  <2> QED
    BY <1>1, <2>1, <2>2, <2>3 DEF IInv, NothingForgotten
<1>8. OneIsFinal' /\ OneMeansWhole'
  BY <1>1, <1>3 DEF IInv, OneIsFinal, isComplete, OneMeansWhole
<1> QED
  BY <1>3, <1>4, <1>5, <1>6, <1>7, <1>8 DEF IInv

(* The caller, outside the mutex.                                           *)
LEMMA CallerKeeps ==
  ASSUME IInv, NEW t \in Threads, TakeMessage(t) \/ AwaitMore(t)
  PROVE  IInv'
<1> USE DEF TakeMessage, AwaitMore, At, GoTo
<1> DEFINE taken == [rc |-> rc[t], data |-> m_msgData]
           Taken == [rc : {None, 0, 1}, data : Seq(Octet \cup {Hole})]
<1>0. /\ taken \in Taken
      /\ message' \in {message, [message EXCEPT ![t] = taken]}
  BY DEF IInv, Types
<1>1. Types'
  <2>1. message' \in [Threads -> Taken]
    <3> HIDE DEF taken, Taken
    <3> QED
      BY <1>0 DEF IInv, Types, Taken
  <2>2. pc' \in [Threads -> Labels]
    BY DEF IInv, Types, Labels
  <2> QED
    BY <2>1, <2>2 DEF IInv, Types
<1>2. Inside'
  BY DEF IInv, Types, Inside, Critical, Labels
<1>3. Lifecycle'
  BY DEF IInv, Types, Lifecycle
<1>4. NothingForgotten'
  <2>1. ASSUME NEW k \in Slices(body), Pending(k) PROVE Pending(k)'
    BY <2>1 DEF IInv, Types, Pending
  <2>2. ASSUME NEW k \in Slices(body), Written(k) PROVE Written(k)'
    BY <2>2 DEF Written
  <2> QED
    BY <2>1, <2>2 DEF IInv, NothingForgotten
<1>5. OneIsFinal'
  BY DEF IInv, OneIsFinal, isComplete
<1>6. OneMeansWhole'
  <2>1. taken.rc = rc[t] /\ taken.data = m_msgData
    OBVIOUS
  <2>2. taken.rc = 1 => taken.data = body
    BY <2>1 DEF IInv, OneIsFinal, isComplete
  <2>3. ASSUME NEW u \in Threads PROVE message'[u] \in {message[u], taken}
    <3> HIDE DEF taken
    <3> QED
      BY <1>0 DEF IInv, Types
  <2> HIDE DEF taken
  <2> QED
    BY <2>2, <2>3 DEF IInv, OneMeansWhole
<1> QED
  BY <1>1, <1>2, <1>3, <1>4, <1>5, <1>6 DEF IInv

-----------------------------------------------------------------------------
LEMMA NextKeeps == IInv /\ [Next]_vars => IInv'
<1> SUFFICES ASSUME IInv, [Next]_vars PROVE IInv'
  OBVIOUS
<1>1. ASSUME NEW t \in Threads, NEW i \in Slices(body), Receive(t, i)
      PROVE  IInv'
  BY <1>1, ReceiveKeeps
<1>2. ASSUME NEW t \in Threads, Lock(t) PROVE IInv'
  BY <1>2, LockKeeps
<1>3. ASSUME NEW t \in Threads, Allocate(t) PROVE IInv'
  BY <1>3, AllocateKeeps
<1>4. ASSUME NEW t \in Threads, FillSliceMap(t) PROVE IInv'
  BY <1>4, FillSliceMapKeeps
<1>5. ASSUME NEW t \in Threads, FindSlice(t) PROVE IInv'
  BY <1>5, FindSliceKeeps
<1>6. ASSUME NEW t \in Threads, RepeatedSlice(t) PROVE IInv'
  BY <1>6, ReturnKeeps DEF RepeatedSlice, At
<1>7. ASSUME NEW t \in Threads, CopyBody(t) PROVE IInv'
  BY <1>7, CopyBodyKeeps
<1>8. ASSUME NEW t \in Threads, Leave(t) PROVE IInv'
  BY <1>8, ReturnKeeps DEF Leave, At
<1>9. ASSUME NEW t \in Threads, TakeMessage(t) \/ AwaitMore(t) PROVE IInv'
  BY <1>9, CallerKeeps
<1>10. CASE UNCHANGED vars
  BY <1>10
     DEF vars, IInv, Types, Inside, Lifecycle, NothingForgotten, Written,
         Pending, OneIsFinal, OneMeansWhole, isComplete
<1> QED
  BY <1>1, <1>2, <1>3, <1>4, <1>5, <1>6, <1>7, <1>8, <1>9, <1>10
     DEF Next, Step

THEOREM IInvHolds == Spec => []IInv
  BY InitIInv, NextKeeps, PTL DEF Spec

(* The variables keep their types (TypeOK).                                 *)
THEOREM TypesCorrect == Spec => []TypeOK
<1>1. IInv => TypeOK
  BY DEF IInv, Types, TypeOK, Labels
<1> QED
  BY <1>1, IInvHolds, PTL

(* initFromTermPackage returns 1 only with the whole body in place: a       *)
(* thread that then reads the message has what was sent, for any number of  *)
(* threads, any slice size and any body.                                    *)
THEOREM OneIsWhole == Spec => []OneMeansWhole
<1>1. IInv => OneMeansWhole
  BY DEF IInv
<1> QED
  BY <1>1, IInvHolds, PTL

-----------------------------------------------------------------------------
(* Once some call has returned 1, so it stays.                              *)
LEMMA OnesStay ==
  ASSUME IInv, [Next]_vars, NEW u \in Threads, rc[u] = 1
  PROVE  rc'[u] = 1
<1>1. isComplete
  BY DEF IInv, OneIsFinal
<1>2. ASSUME NEW t \in Threads, Return(t) PROVE rc'[u] = 1
  BY <1>1, <1>2 DEF Return, IInv, Types
<1>3. CASE \E t \in Threads : RepeatedSlice(t) \/ Leave(t)
  BY <1>2, <1>3 DEF RepeatedSlice, Leave
<1>4. CASE UNCHANGED rc
  BY <1>4
<1> QED
  BY <1>3, <1>4
     DEF Next, Step, vars, Receive, Lock, Allocate, FillSliceMap, FindSlice,
         CopyBody, TakeMessage, AwaitMore

(* The receiver side of the message layer implements Transfer: the body is  *)
(* delivered whole, once, and no later package changes what was delivered.  *)
THEOREM Implements == Spec => ImplementsTransfer
<1>1. Init => Abstract!Init
  BY DEF Init, Abstract!Init, Received
<1>2. ASSUME IInv
      PROVE  Received = IF \E t \in Threads : rc[t] = 1 THEN {body} ELSE {}
  BY <1>2 DEF IInv, OneIsFinal, Received
<1>3. IInv /\ IInv' /\ [Next]_vars => [Abstract!Next]_Abstract!vars
  <2> SUFFICES ASSUME IInv, IInv', [Next]_vars
               PROVE  [Abstract!Next]_Abstract!vars
    OBVIOUS
  <2>1. body' = body
    BY DEF Next, Step, vars, Receive, Lock, Allocate, FillSliceMap, FindSlice,
           RepeatedSlice, CopyBody, Leave, Return, TakeMessage, AwaitMore
  <2>2. Received = IF \E t \in Threads : rc[t] = 1 THEN {body} ELSE {}
    BY <1>2
  <2>3. Received' = IF \E t \in Threads : rc'[t] = 1 THEN {body'} ELSE {}
    BY DEF IInv, OneIsFinal, Received
  <2>4. (\E t \in Threads : rc[t] = 1) => (\E t \in Threads : rc'[t] = 1)
    BY OnesStay
  <2> QED
    BY <2>1, <2>2, <2>3, <2>4
       DEF Abstract!Next, Abstract!Deliver, Abstract!vars
<1> QED
  BY <1>1, <1>3, IInvHolds, PTL DEF Spec, ImplementsTransfer, Abstract!Spec

-----------------------------------------------------------------------------
(* Every package of every message tells what it is.                         *)

(* A slice of a body that fits the length field is a part of it and fits a  *)
(* package.                                                                 *)
LEMMA PartFits ==
  ASSUME NEW b \in Bodies, NEW i \in Slices(b)
  PROVE  /\ SliceCount(b) \in 1..255 /\ i \in 0..(SliceCount(b) - 1)
         /\ SliceOffset(i) \in Word /\ Len(b) \in Word
         /\ SliceCount(b) = 1 => SliceOffset(i) = 0
         /\ LET part == SubSeq(b, SliceOffset(i) + 1, SliceEnd(b, i))
            IN  part \in Seq(Octet) /\ Len(part) <= STARTP_BODY_MAX_SIZE
<1> DEFINE S == STARTP_BODY_MAX_SIZE
           n == Len(b)
           k == SliceCount(b)
           d == (n - 1) \div S
           off == SliceOffset(i)
           end == SliceEnd(b, i)
<1>1. b \in Seq(Octet) /\ n \in Nat /\ n < 65536 /\ k < 256
  BY BodiesAssumption, WidthAssumption
<1>0. n \in Int /\ 0 <= n /\ n < 65536
  BY <1>1
<1>2. S \in Nat /\ S >= 1
  BY SizeAssumption
<1>3. b = <<>> <=> n = 0
  BY <1>1
<1>4. n > 0 => d \in Nat /\ S * d <= n - 1
  BY <1>1, <1>2
<1>5. k = IF n = 0 THEN 1 ELSE d + 1
  BY <1>3 DEF SliceCount
<1> HIDE DEF d
<1>6. k \in Nat /\ k >= 1
  BY <1>4, <1>5
<1>7. i \in Nat /\ i <= k - 1
  BY <1>6 DEF Slices
<1>8. off = i * S
  BY DEF SliceOffset
<1>9. end = IF n - off > S THEN off + S ELSE n
  BY DEF SliceEnd
<1> HIDE DEF S, n, k, off, end
<1>10. off \in Nat /\ (n = 0 => off = 0) /\ (n > 0 => off <= n - 1)
  <2>1. CASE n = 0
    BY <2>1, <1>2, <1>5, <1>7, <1>8
  <2>2. CASE n > 0
    <3>1. i <= d /\ d \in Nat
      BY <2>2, <1>4, <1>5, <1>7
    <3>2. i * S <= S * d
      BY <3>1, <1>2, <1>7
    <3>3. i * S \in Nat /\ S * d \in Nat
      BY <3>1, <1>2, <1>7
    <3> QED BY <2>2, <3>2, <3>3, <1>1, <1>4, <1>8
  <2> QED BY <2>1, <2>2, <1>1
<1>11. k = 1 => off = 0
  BY <1>2, <1>7, <1>8
<1>12. end \in Nat /\ off <= end /\ end <= n /\ end - off <= S
  BY <1>1, <1>2, <1>9, <1>10
<1> DEFINE part == SubSeq(b, off + 1, end)
<1>13. part \in Seq(Octet) /\ Len(part) = end - off
  <2>1. \A j \in off + 1 .. end : j \in 1..Len(b)
    BY <1>10, <1>12 DEF n
  <2> QED BY <1>1, <1>10, <1>12, <2>1 DEF n
<1>14. part \in Seq(Octet) /\ Len(part) <= S
  BY <1>12, <1>13
<1>15. k \in 1..255 /\ i \in 0..(k - 1) /\ off \in Word /\ n \in Word
  <2>1. k \in 1..255
    BY <1>1, <1>6
  <2>2. i \in 0..(k - 1)
    BY <1>6, <1>7
  <2>3. n \in Word
    BY <1>0, InWord
  <2>4. off \in Word
    <3>1. off \in Int /\ 0 <= off /\ off < 65536
      BY <1>0, <1>10
    <3> QED BY <3>1, InWord
  <2> QED BY <2>1, <2>2, <2>3, <2>4
<1> HIDE DEF part
<1> QED
  BY <1>11, <1>14, <1>15 DEF S, n, k, off, end, part

(* The header makePackages is called with.                                  *)
HeaderOf(id, withSn) ==
  [sn |-> str2devid(id), withSn |-> withSn, qos |-> withSn,
   ack |-> Message.ack, topic |-> Message.topic, cmd |-> Message.cmd,
   msgId |-> 258]

LEMMA HeaderFits ==
  ASSUME Types, NEW id \in DeviceIds, NEW withSn \in BOOLEAN
  PROVE  /\ HeaderOf(id, withSn) \in Header
         /\ Len(HeaderOf(id, withSn).sn) = STARTP_SN_LENGTH
<1>1. str2devid(id) \in Seq(Octet) /\ Len(str2devid(id)) = STARTP_SN_LENGTH
  BY DeviceIdsAssumption, SnOctets
<1>2. /\ Message.topic \in Octet /\ Message.cmd \in Octet
      /\ Message.ack \in BOOLEAN
  BY MessagesAssumption DEF Types, Message
<1>3. 258 \in Word
  BY DEF Word
<1> QED
  BY <1>1, <1>2, <1>3 DEF HeaderOf, Header

(* What the package of slice i gives back.                                  *)
Told(p, id, withSn, customerNo, i) ==
  ReadBack(p, HeaderOf(id, withSn), SliceCount(body), i, SliceOffset(i),
           SubSeq(body, SliceOffset(i) + 1, SliceEnd(body, i)), Len(body),
           customerNo)

LEMMA PackageTells ==
  ASSUME Types, NEW i \in Slices(body), NEW id \in DeviceIds,
         NEW withSn \in BOOLEAN, NEW customerNo
  PROVE  Told(PackageOf(id, withSn, customerNo, i), id, withSn, customerNo, i)
<1> DEFINE h == HeaderOf(id, withSn)
           k == SliceCount(body)
           off == SliceOffset(i)
           part == SubSeq(body, SliceOffset(i) + 1, SliceEnd(body, i))
           p == MakePackage(h, k, i, off, part, Len(body), Clock, customerNo)
<1>1. p = PackageOf(id, withSn, customerNo, i)
  BY DEF PackageOf, HeaderOf
<1>3. h \in Header /\ Len(h.sn) = STARTP_SN_LENGTH
  BY HeaderFits
<1> HIDE DEF h
<1>4. /\ k \in 1..255 /\ i \in 0..(k - 1) /\ off \in Word /\ Len(body) \in Word
      /\ k = 1 => off = 0
      /\ part \in Seq(Octet) /\ Len(part) <= STARTP_BODY_MAX_SIZE
  BY PartFits DEF Types
<1> HIDE DEF k, off, part
<1>5. Clock \in Seq(Octet) /\ Len(Clock) = 4
  BY DEF Clock, Octet
<1>6. headerSize(h, k) + Len(part) + STARTP_SIGN_DATA_LENGTH \in Word
  <2>1. headerSize(h, k) \in 12..24
    BY DEF headerSize, STARTP_BASE_HEADER_SIZE, STARTP_SN_LENGTH,
           STARTP_SLICE_INFO_LENGTH
  <2>2. Len(part) \in Nat
    BY <1>4
  <2>3. Len(part) < 65536 - 32
    BY <1>4, <2>2, SizeAssumption, WidthAssumption
  <2> DEFINE x == headerSize(h, k)
             y == Len(part)
  <2>4. x \in Int /\ x >= 12 /\ x <= 24 /\ y \in Int /\ y >= 0 /\ y < 65504
    BY <2>1, <2>2, <2>3
  <2> HIDE DEF x, y
  <2>5. x + y + 8 \in Word
    <3> DEFINE z == x + y + 8
    <3>1. z \in Int /\ 0 <= z /\ z < 65536
      BY <2>4
    <3> HIDE DEF z
    <3>2. z \in Word
      BY <3>1, InWord
    <3> QED BY <3>2 DEF z
  <2> QED
    BY <2>5 DEF x, y, STARTP_SIGN_DATA_LENGTH
<1>7. ReadBack(p, h, k, i, off, part, Len(body), customerNo)
  BY ONLY <1>3, <1>4, <1>5, <1>6, PackageReadBack
<1> QED
  BY <1>1, <1>7 DEF Told, h, k, off, part

(* Who writes and who reads agree on every header (HeadersTell).            *)
LEMMA HeadersHold == IInv => HeadersTell
<1> SUFFICES ASSUME IInv, NEW t \in Threads, At(t, "enter"),
                    NEW id \in DeviceIds, NEW withSn \in BOOLEAN,
                    NEW customerNo \in CustomerNos
             PROVE
      LET p == PackageOf(id, withSn, customerNo, pkg[t])
      IN  /\ withSn \/ customerNo # <<>> => verify(p, customerNo)
          /\ hasSn(p) = withSn /\ qos(p) = withSn /\ isAck(p) = Message.ack
          /\ <<topic(p), cmd(p)>> = <<Message.topic, Message.cmd>>
          /\ msgId(p) = 258 /\ length(p) = size(p)
          /\ isSlicePkg(p) = IsSlicePkg(body)
          /\ sliceTotal(p) = SliceCount(body) /\ sliceIndex(p) = pkg[t]
          /\ sliceOffset(p) = SliceOffset(pkg[t])
          /\ msgLength(p) = Len(body)
          /\ Body(p) = SubSeq(body, SliceOffset(pkg[t]) + 1,
                              SliceEnd(body, pkg[t]))
          /\ withSn /\ IsCanonical(id) => devid2str(sn(p)) = id
  BY DEF HeadersTell
<1> DEFINE p == PackageOf(id, withSn, customerNo, pkg[t])
<1>1. Types /\ pkg[t] \in Slices(body)
  BY DEF IInv, Lifecycle, At
<1>2. /\ withSn \/ customerNo # <<>> => verify(p, customerNo)
      /\ hasSn(p) <=> withSn
      /\ qos(p) <=> withSn
      /\ isAck(p) <=> Message.ack
      /\ isSlicePkg(p) <=> IsSlicePkg(body)
      /\ topic(p) = Message.topic /\ cmd(p) = Message.cmd
      /\ msgId(p) = 258 /\ length(p) = size(p)
      /\ sliceTotal(p) = SliceCount(body) /\ sliceIndex(p) = pkg[t]
      /\ sliceOffset(p) = SliceOffset(pkg[t])
      /\ msgLength(p) = Len(body)
      /\ Body(p) = SubSeq(body, SliceOffset(pkg[t]) + 1,
                          SliceEnd(body, pkg[t]))
      /\ withSn => sn(p) = str2devid(id)
  <2>1. Told(p, id, withSn, customerNo, pkg[t])
    BY <1>1, PackageTells
  <2> HIDE DEF p
  <2> QED BY <2>1 DEF Told, ReadBack, HeaderOf, IsSlicePkg
<1>3. Message.ack \in BOOLEAN
  BY <1>1, MessagesAssumption DEF Types, Message
<1> HIDE DEF p
<1>4. hasSn(p) = withSn /\ qos(p) = withSn /\ isAck(p) = Message.ack
      /\ isSlicePkg(p) = IsSlicePkg(body)
  <2>1. /\ hasSn(p) \in BOOLEAN /\ qos(p) \in BOOLEAN /\ isAck(p) \in BOOLEAN
        /\ isSlicePkg(p) \in BOOLEAN /\ IsSlicePkg(body) \in BOOLEAN
    BY DEF hasSn, qos, isAck, isSlicePkg, IsSet, IsSlicePkg
  <2>2. /\ hasSn(p) <=> withSn
        /\ qos(p) <=> withSn
        /\ isAck(p) <=> Message.ack
        /\ isSlicePkg(p) <=> IsSlicePkg(body)
    BY <1>2
  <2> QED BY <1>3, <2>1, <2>2, Zenon
<1>5. withSn /\ IsCanonical(id) => devid2str(sn(p)) = id
  <2> SUFFICES ASSUME withSn, IsCanonical(id) PROVE devid2str(sn(p)) = id
    OBVIOUS
  <2>1. id \in DeviceId
    <3>1. id # NoText
      BY DEF IsCanonical
    <3> QED BY <3>1, DeviceIdsAssumption, Zenon
  <2>2. sn(p) = str2devid(id)
    BY <1>2
  <2> QED BY <2>1, <2>2, DeviceIdReadBack
<1> QED
  BY <1>2, <1>4, <1>5 DEF p

(* Who acknowledges and who is acknowledged agree on the slice (AcksTell).  *)
LEMMA AcksHold == IInv => AcksTell
<1> SUFFICES ASSUME IInv, NEW t \in Threads, At(t, "enter"),
                    IsSlicePkg(body),
                    NEW id \in DeviceIds, NEW withSn \in BOOLEAN
             PROVE
      LET p == PackageOf(id, withSn, <<77>>, pkg[t])
          ack == makeSliceAck(p, Clock, <<77>>)
      IN  /\ isSliceAckPkg(ack) /\ ~isSlicePkg(ack) /\ ~isAck(ack)
          /\ sn(ack) = sn(p) /\ msgId(ack) = msgId(p)
          /\ <<topic(ack), cmd(ack)>> = <<topic(p), cmd(p)>>
          /\ sliceIndex(ack) = pkg[t] /\ sliceTotal(ack) = SliceCount(body)
          /\ sliceOffset(ack) = SliceOffset(pkg[t])
          /\ bodyLength(ack) = 0
  BY DEF AcksTell
<1> DEFINE p == PackageOf(id, withSn, <<77>>, pkg[t])
           ack == makeSliceAck(p, Clock, <<77>>)
<1>1. Types /\ pkg[t] \in Slices(body)
  BY DEF IInv, Lifecycle, At
<1>2. Told(p, id, withSn, <<77>>, pkg[t])
  BY <1>1, PackageTells
<1> HIDE DEF p
<1>3. /\ p.octets \in Seq(Octet) /\ isSlicePkg(p)
      /\ AfterSlice(p) <= Len(p.octets)
      /\ sliceTotal(p) = SliceCount(body) /\ sliceIndex(p) = pkg[t]
      /\ sliceOffset(p) = SliceOffset(pkg[t])
  BY <1>2 DEF Told, ReadBack, IsSlicePkg
<1>4. AfterSn(p) + STARTP_SLICE_INFO_LENGTH <= Len(p.octets)
  BY <1>3 DEF AfterSlice, HasSlice
<1>5. Clock \in Seq(Octet) /\ Len(Clock) = 4
  BY DEF Clock, Octet
<1>6. /\ isSliceAckPkg(ack) /\ ~isSlicePkg(ack) /\ ~isAck(ack)
      /\ sn(ack) = sn(p) /\ msgId(ack) = msgId(p)
      /\ topic(ack) = topic(p) /\ cmd(ack) = cmd(p)
      /\ sliceIndex(ack) = sliceIndex(p)
      /\ sliceTotal(ack) = sliceTotal(p)
      /\ sliceOffset(ack) = sliceOffset(p)
      /\ bodyLength(ack) = 0
  BY ONLY <1>3, <1>4, <1>5, AckReadBack
<1> HIDE DEF ack
<1> QED
  BY <1>3, <1>6 DEF p, ack

(* Whatever package of whatever message reaches a receiver, from whatever   *)
(* device: it verifies and its octets tell the receiver what it is, and     *)
(* those of an acknowledgement name the slice that arrived.  The length and *)
(* the signature of the acknowledgement are not among what is proved: they  *)
(* are wrong.                                                               *)
THEOREM PackagesAlwaysTell == Spec => []PackagesTell
<1>1. IInv => PackagesTell
  BY HeadersHold, AcksHold DEF PackagesTell
<1> QED
  BY <1>1, IInvHolds, PTL
=============================================================================
