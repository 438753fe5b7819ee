------------------------------- MODULE BitBuffer -------------------------------
(***************************************************************************)
(* BitBuffer: the bytes a report is put together from.  A buffer is the     *)
(* sequence of its bits, the lowest bit of a byte first; the last bits are  *)
(* those of m_currentByte if they do not fill a byte.                       *)
(***************************************************************************)
EXTENDS Naturals, Sequences

Bit(value, i) == (value \div 2^i) % 2

Zeros(n) == [i \in 1..n |-> 0]

NextBit(buffer) == Len(buffer) % 8

AppendBit(buffer, bit) == Append(buffer, bit)

(* The n lowest bits of a value, the lowest first. *)
ValueBits(value, n) == [i \in 1..n |-> Bit(value, i - 1)]

(* The bug of adding the highest bit first. *)
AppendBits_Reversed(buffer, byte, n) ==
  buffer \o [i \in 1..n |-> Bit(byte, n - i)]

(* The loop of updateOutput() over the bits of a byte, the lowest first. *)
AppendBits(buffer, byte, n) == buffer \o ValueBits(byte, n)

(* One appendByte() for each eight of the bits.  Behind a part of a byte    *)
(* the bits of a byte are added one by one, the highest first.              *)
AppendBytes(buffer, bits) ==
  buffer \o (IF NextBit(buffer) = 0 THEN bits
             ELSE [i \in 1..Len(bits) |->
                     bits[8 * ((i - 1) \div 8) + 8 - ((i - 1) % 8)]])

AppendByte(buffer, byte) == AppendBytes(buffer, ValueBits(byte, 8))

FlushBits(buffer) ==
  IF NextBit(buffer) = 0 THEN buffer ELSE buffer \o Zeros(8 - NextBit(buffer))
=============================================================================
