------------------------------- MODULE ByteOrder -------------------------------
(***************************************************************************)
(* The conversions of byteorder.h, for every system it has a branch for.   *)
(*                                                                         *)
(* A number is the sequence of its bytes, most significant first, and      *)
(* memory is the sequence of bytes by address, so that the 16, 32 and 64   *)
(* bit forms of a macro are one operator.  What a byte is does not matter. *)
(***************************************************************************)
EXTENDS Naturals, Sequences

Orders == {"little", "big"}

\* apple_endian: <architecture/byte_order.h> has brought in BYTE_ORDER too.
Apple == {"apple", "apple_endian"}

\* A system, and the order of the machine the program runs on.
AllBuilds ==
  [system : {"linux", "bsd"} \union Apple, order : Orders]
    \union [system : {"cygwin", "windows"}, order : {"little"}]
    \union [system : {"sparc"}, order : {"big"}]

\* How a machine loads a number from memory, and stores one.
Load(order, mem) ==
  IF order = "big" THEN mem ELSE [i \in 1 .. Len(mem) |-> mem[Len(mem) + 1 - i]]

-----------------------------------------------------------------------------
swab(x) == [i \in 1 .. Len(x) |-> x[Len(x) + 1 - i]]

\* The branch for Apple states the order itself, and wrongly on half of its machines.
BYTE_ORDER(b) == IF b.system = "apple" THEN "big" ELSE b.order

\* The order for which le_to_cpu and the others are written.  Apple's own functions
\* ask the machine.
TableOrder(b) ==
  CASE b.system \in {"cygwin", "windows"} -> "little"
    [] b.system = "sparc" -> "big"
    [] b.system \in Apple -> b.order
    [] OTHER -> BYTE_ORDER(b)

\* Mutant: no conversion.
le_to_cpu_Identity(b, x) == x

le_to_cpu(b, x) == IF TableOrder(b) = "little" THEN x ELSE swab(x)

be_to_cpu(b, x) == IF TableOrder(b) = "big" THEN x ELSE swab(x)

cpu_to_le(b, x) == le_to_cpu(b, x)

cpu_to_be(b, x) == be_to_cpu(b, x)

\* Where the system has none of its own; betoh and letoh alike.
htobe(b, x) == IF BYTE_ORDER(b) = "big" THEN x ELSE swab(x)

htole(b, x) == IF BYTE_ORDER(b) = "little" THEN x ELSE swab(x)

htons(b, x) == be_to_cpu(b, x)

ntohs(b, x) == cpu_to_be(b, x)

ntohl(b, x) == cpu_to_be(b, x)

\* The swapping forms, and Apple's functions, keep 16 bits of their argument.
Keeps16(b) == TableOrder(b) = "little" \/ b.system \in Apple

\* htonl is cpu_to_be16, on four bytes.
htonl(b, x) ==
  LET low == cpu_to_be(b, <<x[3], x[4]>>)
  IN  IF Keeps16(b) THEN <<0, 0, low[1], low[2]>> ELSE x
=============================================================================
