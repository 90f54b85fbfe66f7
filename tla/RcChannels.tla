----------------------------- MODULE RcChannels -----------------------------
(***************************************************************************)
(* The RC payload: how crsf_payload_RC_channels_packed_t lays out its      *)
(* 11-bit fields, and how a field becomes a pulse width in microseconds    *)
(* (convert_channel_value in lib/crsf/crsf.cpp).                           *)
(***************************************************************************)
EXTENDS Integers, Sequences

ChannelBits == 11

\* Channels in a payload of n bytes: 16 in the 22 bytes of a real frame.
ChannelsIn(n) == (8 * n) \div ChannelBits

PowerOfTwo == [s \in 0 .. 7 |->
                 CASE s = 0 -> 1  [] s = 1 -> 2  [] s = 2 -> 4  [] s = 3 -> 8
                   [] s = 4 -> 16 [] s = 5 -> 32 [] s = 6 -> 64 [] s = 7 -> 128]

\* Bit-field k of the packed, little-endian struct: 11 bits from bit 11k on,
\* which lie in at most three bytes.
FirstByte(k) == (ChannelBits * k) \div 8 + 1

Window(p, k) ==
  p[FirstByte(k)] + 256 * p[FirstByte(k) + 1]
    + (IF FirstByte(k) + 2 <= Len(p) THEN 65536 * p[FirstByte(k) + 2] ELSE 0)

Field(p, k) == (Window(p, k) \div PowerOfTwo[(ChannelBits * k) % 8]) % 2048

\* 172 -> 988us, 992 -> 1500us, 1811 -> 2012us.  The C code computes
\* scale * chan_value + offset in float and truncates; on 0..2047 that is this
\* integer quotient.
convert_channel_value(c) == 988 + (1024 * (c - 172)) \div 1639

\* The values[] of one decoded payload.
Channels(p) ==
  [k \in 0 .. ChannelsIn(Len(p)) - 1 |-> convert_channel_value(Field(p, k))]

=============================================================================
