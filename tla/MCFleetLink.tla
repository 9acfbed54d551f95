---------------------------- MODULE MCFleetLink -----------------------------
(* A small alphabet for FleetLink. *)
EXTENDS FleetLink

Bytes == 0..3

\* A register over four values with the properties of a CRC.
SumCrc(c, b) == (3 * c + b + 1) % 4

\* Payloads of up to two bytes; the longest begin with SYNC or are avoid commands.
Sent == {<<>>} \cup {<<b>> : b \in Byte} \cup {<<a, b>> : a \in {AVOID_COMMAND, SYNC}, b \in Byte}
=============================================================================
