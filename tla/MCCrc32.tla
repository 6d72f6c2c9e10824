------------------------------ MODULE MCCrc32 -------------------------------
(* An instance of Crc32 for TLC: every first byte, so that every entry of the
   table is used, then bytes that meet both ends of it. *)
EXTENDS Crc32

Bytes(numbers) == {BitsOf(n, ByteBits) : n \in numbers}
MCInputs == <<Bytes(0 .. 255), Bytes({0, 1, 128, 255}), Bytes({0, 170})>>
=============================================================================
