---------------------------- MODULE MCCrsfStream ----------------------------
(***************************************************************************)
(* A small parser: a buffer of 8 bytes, RC frames of 6 (one channel), and  *)
(* reads of up to 5, one byte less than a frame as in the firmware.  As in *)
(* the real protocol the type byte of an RC frame is itself a possible     *)
(* frame length, and 7 is an impossible one.                               *)
(***************************************************************************)
EXTENDS CrsfStream

MCByte == {3, 4, 7}

\* A checksum that stays in a few values and depends on the order of the bytes.
MCCrc8(crc, a) == (2 * crc + a) % 5

=============================================================================
