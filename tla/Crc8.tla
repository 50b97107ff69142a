--------------------------------- MODULE Crc8 --------------------------------
(* lib/crc/crc8_maxim.c, the checksum of the configuration in the EEPROM.  *)
EXTENDS Integers, Sequences, Functions

\* a ^ b, of bytes: the sum of the bits that one of them has and the other has not
Xor(a, b) ==
    SumFunction([i \in 0..7 |-> IF (a \div 2^i) % 2 # (b \div 2^i) % 2 THEN 2^i ELSE 0])

kCRCPolynomial == \h31

(* One round of the inner loop, on an uint8_t.                             *)
crc_shift(crc) ==
    IF crc >= 128 THEN Xor((2 * crc) % 256, kCRCPolynomial) ELSE 2 * crc

(* The inner loop.                                                         *)
crc_shifts(crc) ==
    LET shifted[i \in 0..8] == IF i = 0 THEN crc ELSE crc_shift(shifted[i - 1])
    IN  shifted[8]

\* A faulty crc8_maxim: the byte is added after the shifts.
crc_byte_late(crc, byte) == Xor(crc_shifts(crc), byte)

(* One round of the outer loop.                                            *)
crc_byte(crc, byte) == crc_shifts(Xor(crc, byte))

crc8_maxim(data) ==
    LET crc[i \in 0..Len(data)] == IF i = 0 THEN 0 ELSE crc_byte(crc[i - 1], data[i])
    IN  crc[Len(data)]
==============================================================================
