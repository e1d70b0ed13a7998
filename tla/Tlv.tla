--------------------------------- MODULE Tlv ---------------------------------
(* The type-length-value coding of star_protocol (protocolUtils.cpp) and    *)
(* the byte conversions of utils.cpp it is used with.  Memory is a sequence *)
(* of bytes; an offset counts from 0, as the C pointers do.                 *)
EXTENDS Integers, Sequences

Byte == 0..255

-----------------------------------------------------------------------------
(* setTlvLength: seven bits a byte, the low ones first.  MAX_LENGTH_BYTE is *)
(* compared with > after the byte count, so a third byte is written.        *)

setTlvLength(n) ==
  IF n < 128 THEN <<n>>
  ELSE IF n < 16384 THEN <<128 + (n % 128), n \div 128>>
  ELSE <<128 + (n % 128), 128 + ((n \div 128) % 128), n \div 16384>>

(* getTlvLength: the length at offset o and the bytes it takes.  The loop   *)
(* reads two bytes; when both have the high bit a third is passed over      *)
(* without being read.                                                      *)
getTlvLength_OneByte(mem, o) ==
  [length |-> mem[o + 1], bytes |-> 1]

getTlvLength(mem, o) ==
  LET low == mem[o + 1]
      high == mem[o + 2]
  IN  IF low < 128 THEN [length |-> low, bytes |-> 1]
      ELSE [length |-> (low - 128) + 128 * (high % 128),
            bytes |-> IF high < 128 THEN 2 ELSE 3]

(* One TLV: what the writers build, with the length put in afterwards by a  *)
(* memmove when it needs a second byte.                                     *)
Tlv(t, value) == <<t>> \o setTlvLength(Len(value)) \o value

-----------------------------------------------------------------------------
(* u8tobytes .. u64tobytes: the low w bytes of v, the high one first (the   *)
(* values here stay below 2^31).                                            *)
NumberToBytes(v, w) ==
  [i \in 1..w |-> IF w - i > 3 THEN 0 ELSE (v \div 256^(w - i)) % 256]

(* bytes2u8 .. bytes2u64 at offset o.                                       *)
BytesToNumber(mem, o, w) ==
  LET upto[i \in 0..w] == IF i = 0 THEN 0 ELSE 256 * upto[i - 1] + mem[o + i]
  IN  upto[w]

(* hexStringToBytes; hex text is a sequence of digits 0..15, an odd last    *)
(* digit is dropped.                                                        *)
hexStringToBytes(text) ==
  [i \in 1..(Len(text) \div 2) |-> 16 * text[2 * i - 1] + text[2 * i]]

(* The stringstream loops that print w bytes at offset o as hex digits.     *)
BytesToHex(mem, o, w) ==
  [i \in 1..(2 * w) |->
     LET b == mem[o + (i + 1) \div 2]
     IN  IF i % 2 = 1 THEN b \div 16 ELSE b % 16]

(* The text of w bytes at offset o.                                         *)
Text(mem, o, w) == SubSeq(mem, o + 1, o + w)
=============================================================================
