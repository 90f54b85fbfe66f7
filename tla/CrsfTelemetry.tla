--------------------------- MODULE CrsfTelemetry ----------------------------
(***************************************************************************)
(* The writers of telemetry frames in lib/crsf/crsf.cpp: what each of them *)
(* gives to write(), as the sequence of its bytes.  A message is a record  *)
(* of the arguments; the integers are those of the C types.  The checksum  *)
(* is the one that the receiver computes.                                  *)
(***************************************************************************)
EXTENDS CrsfParser, SequencesExt

uint8_t == 0 .. 255
UINT16_MAX == 65535
uint16_t == 0 .. UINT16_MAX
INT16_MIN == -32768
INT16_MAX == 32767
int16_t == INT16_MIN .. INT16_MAX
INT32_MIN == -2147483647 - 1
INT32_MAX == 2147483647
int32_t == INT32_MIN .. INT32_MAX

\* What the writers are called with; a text is its characters, none of them 0.
BatteryMessage ==
  [kind : {"battery"}, voltage : uint16_t, current : uint16_t, fuel : Int,
   remaining : uint8_t]
GpsMessage ==
  [kind : {"gps"}, latitude : int32_t, longitude : int32_t,
   groundspeed : uint16_t, gps_heading : uint16_t, altitude : uint16_t,
   num_satellites : uint8_t]
AttitudeMessage ==
  [kind : {"attitude"}, pitch : int16_t, roll : int16_t, yaw : int16_t]
FlightModeMessage == [kind : {"flight_mode"}, text : Seq(uint8_t \ {0})]

TelemetryMessage ==
  BatteryMessage \cup GpsMessage \cup AttitudeMessage \cup FlightModeMessage

CRSF_SYNC_BYTE == 200
gps == 2
battery_sensor == 8
attitude == 30
flight_mode == 33

\* What a uint8_t keeps of a value shifted right by 0, 8, 16 or 24, that is
\* divided by 1, 256, 65536 or 16777216.
Octet(value, unit) == (value \div unit) % 256

\* Mutant of Uint16: little endian.
Uint16Little(value) == <<Octet(value, 1), Octet(value, 256)>>

Uint8(value) == <<Octet(value, 1)>>
Uint16(value) == <<Octet(value, 256), Octet(value, 1)>>
Uint24(value) == <<Octet(value, 65536), Octet(value, 256), Octet(value, 1)>>
Int32(value) == <<Octet(value, 16777216), Octet(value, 65536),
                  Octet(value, 256), Octet(value, 1)>>

\* Mutant of LengthByte: the type byte is not counted.
PayloadLength(payload_size) == payload_size + 1

\* header.length counts type and checksum too.
LengthByte(payload_size) == payload_size + 2

crc8_dvb_s2_buf(buf) ==
  LET crc[i \in 0 .. Len(buf)] == IF i = 0 THEN 0 ELSE Crc8(crc[i - 1], buf[i])
  IN  crc[Len(buf)]

\* write_frame_header, the fields, and write_frame_crc: header and checksum
\* go by payload_size, whatever the fields amount to.
WholeFrame(type, payload_size, fields) ==
  <<CRSF_SYNC_BYTE, LengthByte(payload_size), type>> \o fields
    \o <<crc8_dvb_s2_buf(<<type>> \o SubSeq(fields, 1, payload_size))>>

Battery(m) ==
  WholeFrame(battery_sensor, 8,
    Uint16(m.voltage) \o Uint16(m.current) \o Uint24(m.fuel)
      \o Uint8(m.remaining))

Gps(m) ==
  WholeFrame(gps, 15,
    Int32(m.latitude) \o Int32(m.longitude) \o Uint16(m.groundspeed)
      \o Uint16(m.gps_heading) \o Uint16(m.altitude)
      \o Uint8(m.num_satellites))

Attitude(m) ==
  WholeFrame(attitude, 6, Uint16(m.pitch) \o Uint16(m.roll) \o Uint16(m.yaw))

max_length == 16

\* Mutant of FlightMode: a text is not cut off.
FlightModeWhole(m) ==
  WholeFrame(flight_mode, Len(m.text) + 1, m.text \o <<0>>)

\* A text with its zero has at most max_length bytes.
CutOff(text) ==
  IF Len(text) < max_length THEN text ELSE SubSeq(text, 1, max_length - 1)

FlightMode(m) ==
  WholeFrame(flight_mode, Len(CutOff(m.text)) + 1, CutOff(m.text) \o <<0>>)

\* The sizes of the arrays in which the writers build their frames.
BufferSize(m) ==
  CASE m.kind = "battery" -> 8 + 4
    [] m.kind = "gps" -> 15 + 4
    [] m.kind = "attitude" -> 6 + 4
    [] m.kind = "flight_mode" -> max_length + 4

=============================================================================
