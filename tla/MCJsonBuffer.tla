---------------------------- MODULE MCJsonBuffer ----------------------------
(* Instances of JsonBuffer for TLC, with the lengths the format string has. *)
EXTENDS JsonBuffer

FixedChars == 102   \* of the format string in writePacket

\* A stray frame in a slot that was never used: all numbers 0, no name, no addresses.
Shortest == FixedChars + 4

\* Rate 1000, antenna 1, channel 2412, power -62, a name of 8 characters, full addresses.
Ordinary == FixedChars + 12 + 8 + 3 * 17

\* Rate 127500, antenna 255, channel 65535, power -128, full addresses.  A name of 15
\* characters or more has no terminator of its own: what is printed for it is 15 of
\* them and the source address, which is put behind them.
Longest == FixedChars + 18 + (15 + 17) + 3 * 17

Sizes == {Shortest, Longest}
OrdinarySizes == {Ordinary}
=============================================================================
