---------------------------- MODULE MCCrsfMixed -----------------------------
(***************************************************************************)
(* Messages at the ends of their ranges.  The pitch of one, 16#1816, and   *)
(* a link statistic look like the header of an RC frame.                   *)
(***************************************************************************)
EXTENDS CrsfMixed, Crc8

MCByte == 0 .. 255
MCChunks == {1, 7, 25}

\* All channels at 992; all at 0, and at 2047.
Centred == <<224, 3, 31, 248, 192, 7, 62, 240, 129, 15, 124,
             224, 3, 31, 248, 192, 7, 62, 240, 129, 15, 124>>

MCMessages == {
  [kind |-> "rc", payload |-> Centred],
  [kind |-> "rc", payload |-> [i \in 1 .. 22 |-> 255]],
  [kind |-> "link", payload |-> <<24, 22, 100, 24, 22, 0, 2, 24, 22, 255>>],
  [kind |-> "battery", voltage |-> 65535, current |-> 258,
   fuel |-> 2^24 + 65538, remaining |-> 100],
  [kind |-> "gps", latitude |-> -2147483647 - 1, longitude |-> 2147483647,
   groundspeed |-> 0, gps_heading |-> 35999, altitude |-> 1000,
   num_satellites |-> 12],
  [kind |-> "attitude", pitch |-> 6166, roll |-> -32768, yaw |-> -1],
  [kind |-> "flight_mode", text |-> <<>>],
  [kind |-> "flight_mode", text |-> [i \in 1 .. 15 |-> 65]],
  [kind |-> "flight_mode", text |-> [i \in 1 .. 20 |-> 66]]}

=============================================================================
