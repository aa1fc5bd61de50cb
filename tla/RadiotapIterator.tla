--------------------------- MODULE RadiotapIterator ---------------------------
(***************************************************************************)
(* The radiotap parser of the C server: ieee80211_radiotap_iterator_init   *)
(* and _next (radiotap-parser.c) and the loop of parseRadioTap that drives *)
(* them (client_main.c).  One behaviour parses one header; offsets count   *)
(* bytes from its start.                                                   *)
(*                                                                         *)
(* Data abstraction.  A field's value is the offset it was read from.  The *)
(* second and later words of the bitmap are never looked at (arg_index     *)
(* stops short of 32), so only their number is kept.  The length and the   *)
(* first word are read from memory as the machine of the build does.       *)
(***************************************************************************)
EXTENDS Integers, FiniteSets, ByteOrder

CONSTANTS
  Headers,        \* the headers the air may carry
  Layout,         \* where the fields of each lie, by the radiotap rules
  Builds,         \* systems and machines the server is built for
  BUFSIZ,         \* the length parseRadioTap claims for the packet
  MemoryEnd       \* reading a field at or past this offset faults

EINVAL == 22
HeaderSize == 8                      \* sizeof (struct ieee80211_radiotap_header)
ExtendBit == 31
Indices == 0 .. 13                   \* the entries of rt_sizes
RATE == 2
CHANNEL == 3
DBM_ANTSIGNAL == 5
ANTENNA == 11
StoredFields == {RATE, CHANNEL, DBM_ANTSIGNAL, ANTENNA}
NotStored == -1
Garbage == -2

\* rt_sizes, upper and lower nybble.
ArgAlign == [i \in Indices |-> IF i = 0 THEN 8 ELSE IF i \in {3, 4, 7, 8, 9} THEN 2 ELSE 1]
ArgLength == [i \in Indices |-> IF i = 0 THEN 8 ELSE IF i = 3 THEN 4
                                ELSE IF i \in {4, 7, 8, 9} THEN 2 ELSE 1]

U16 == {n \in Nat : n < 65536}

\* more_words: how many of the words after it_present announce one more.
HeaderType == [version : Nat, len : U16, present : SUBSET (0 .. 31), more_words : Nat]

\* Where the arguments begin: after the last word of the bitmap.
ArgsStart(h) ==
  IF ExtendBit \in h.present THEN HeaderSize + 4 * h.more_words + 4 ELSE HeaderSize

Padded(off, i) ==
  IF off % ArgAlign[i] = 0 THEN off ELSE off + ArgAlign[i] - (off % ArgAlign[i])

\* end[b] is where the fields of bits below b end when each begins at a multiple
\* of its alignment.
IsLayout(h, end) ==
  /\ end \in [0 .. 14 -> Nat]
  /\ end[0] = ArgsStart(h)
  /\ \A b \in Indices :
       end[b + 1] = IF b \in h.present THEN Padded(end[b], b) + ArgLength[b] ELSE end[b]

ASSUME SizesAssumption == BUFSIZ \in Nat /\ MemoryEnd \in Nat /\ MemoryEnd >= BUFSIZ
ASSUME BuildsAssumption == Builds \subseteq AllBuilds
ASSUME HeadersAssumption ==
  /\ Headers \subseteq HeaderType
  /\ \A h \in Headers : IsLayout(h, Layout[h])

\* A header as the radiotap rules have it, and a field with no padding before it.
WellFormed(h) == h.version = 0 /\ h.len <= BUFSIZ /\ Layout[h][14] <= h.len
Unpadded(h, f) == \A b \in (0 .. f) \cap h.present : Layout[h][b] % ArgAlign[b] = 0

VARIABLES
  header,
  build,
  pc,              \* "init", "next", "done", "crashed", "lost" (loops for ever)
  ret,             \* what init or the last next returned
  max_length,
  bitmap,          \* the bits of bitmap_shifter as init left it
  bit,             \* how often it has been shifted since
  arg_index,
  arg,
  this_arg_index,
  this_arg,
  stored           \* the fields written to the slot, and from where

input == <<header, build>>
asRead == <<max_length, bitmap>>
vars == <<input, pc, ret, asRead, bit, arg_index, arg, this_arg_index, this_arg, stored>>

Init ==
  /\ header \in Headers
  /\ build \in Builds
  /\ pc = "init"
  /\ ret = 0
  /\ max_length = 0
  /\ bitmap = {}
  /\ bit = 0
  /\ arg_index = 0
  /\ arg = 0
  /\ this_arg_index = 0
  /\ this_arg = 0
  /\ stored = [f \in StoredFields |-> NotStored]

-----------------------------------------------------------------------------
\* The bytes of it_len and it_present on the air, a byte of the bitmap as the set of
\* its bits.
LenBytes(h) == <<h.len % 256, h.len \div 256>>

PresentBytes(h) == [k \in 1 .. 4 |-> {i \in 0 .. 7 : 8 * (k - 1) + i \in h.present}]

Read(bytes) == le_to_cpu(build, Load(build.order, bytes))

LengthRead == LET x == Read(LenBytes(header)) IN 256 * x[1] + x[2]

BitsRead ==
  LET x == Read(PresentBytes(header)) IN UNION {{8 * (4 - k) + i : i \in x[k]} : k \in 1 .. 4}

Rejected == header.version # 0 \/ BUFSIZ < LengthRead

\* init returns before it has set anything; the loop runs on an iterator of stack
\* leftovers and may find it exhausted, write some fields, never end or fault.
ParseUninitialised ==
  /\ pc = "init"
  /\ Rejected
  /\ pc' \in {"done", "lost", "crashed"}
  /\ ret' = IF pc' = "done" THEN -1 ELSE -EINVAL
  /\ \E fs \in SUBSET StoredFields :
       stored' = [f \in StoredFields |-> IF f \in fs THEN Garbage ELSE stored[f]]
  /\ UNCHANGED <<input, asRead, bit, arg_index, arg, this_arg_index, this_arg>>

\* The chain of bitmap words is given up at the first word past the length.  The
\* word that ends the chain is not checked.
ChainTooLong ==
  ExtendBit \in BitsRead /\ header.more_words > 0
    /\ HeaderSize + 4 * header.more_words > LengthRead

GivenUpAt ==
  IF LengthRead < HeaderSize THEN HeaderSize + 4
  ELSE HeaderSize + 4 * ((LengthRead - HeaderSize) \div 4 + 1)

AfterBitmap ==
  IF ExtendBit \in BitsRead THEN HeaderSize + 4 * header.more_words + 4 ELSE HeaderSize

InitIterator ==
  /\ pc = "init"
  /\ ~ Rejected
  /\ pc' = "next"
  /\ ret' = IF ChainTooLong THEN -EINVAL ELSE 0
  /\ max_length' = LengthRead
  /\ bitmap' = BitsRead
  /\ arg' = IF ChainTooLong THEN GivenUpAt ELSE AfterBitmap
  /\ UNCHANGED <<input, bit, arg_index, this_arg_index, this_arg, stored>>

\* The padding is added to the index, not to the pointer.
Bumped(i, off) ==
  IF off % ArgAlign[i] = 0 THEN i ELSE i + ArgAlign[i] - (off % ArgAlign[i])

\* Mutant: the check allows one byte too many.
PastLength_OffByOne(off) == off > max_length + 1

\* Mutant: an argument may not end where the header ends.
PastLength_AtEnd(off) == off >= max_length

PastLength(off) == off > max_length

\* The switch of parseRadioTap on what next left in the iterator.
Store(i, off) ==
  stored' = IF i \in StoredFields THEN [stored EXCEPT ![i] = off] ELSE stored

\* Mutant: two bits are shifted out at a time.
Shift_Twice == bit' = bit + 2

\* Mutant: a bit that is not set stays in place.
Shift_OnlyPresent == bit' = IF bit \in bitmap THEN bit + 1 ELSE bit

Shift == bit' = bit + 1

SkipAbsent ==
  /\ pc = "next"
  /\ arg_index \in Indices
  /\ bit \notin bitmap
  /\ arg_index' = arg_index + 1
  /\ Shift
  /\ UNCHANGED <<input, pc, ret, asRead, arg, this_arg_index, this_arg, stored>>

TakeArg ==
  /\ pc = "next"
  /\ arg_index \in Indices
  /\ bit \in bitmap
  /\ LET i == Bumped(arg_index, arg)
     IN  /\ ~ PastLength(arg + ArgLength[i])
         /\ arg_index' = i + 1
         /\ arg' = arg + ArgLength[i]
         /\ this_arg_index' = i
         /\ ret' = i
         /\ Store(i, arg)
  /\ this_arg' = arg
  /\ Shift
  /\ UNCHANGED <<input, pc, asRead>>

\* Offsets past MemoryEnd + 8 are folded back by 8: all of them fault alike.
Folded(off) == IF off > MemoryEnd + 8 THEN off - 8 ELSE off

\* next reports an error and stays at the same bit; the caller, which knows only
\* -1, uses the argument and calls again.
RunPastLength ==
  /\ pc = "next"
  /\ arg_index \in Indices
  /\ bit \in bitmap
  /\ LET i == Bumped(arg_index, arg)
     IN  /\ PastLength(arg + ArgLength[i])
         /\ arg_index' = i
         /\ arg' = Folded(arg + ArgLength[i])
         /\ this_arg_index' = i
         /\ IF i \in StoredFields /\ arg >= MemoryEnd
            THEN pc' = "crashed" /\ UNCHANGED stored
            ELSE Store(i, arg) /\ UNCHANGED pc
  /\ this_arg' = arg
  /\ ret' = -EINVAL
  /\ UNCHANGED <<input, asRead, bit>>

NoMoreArgs ==
  /\ pc = "next"
  /\ arg_index \notin Indices
  /\ ret' = -1
  /\ pc' = "done"
  /\ UNCHANGED <<input, asRead, bit, arg_index, arg, this_arg_index, this_arg, stored>>

Next == \/ ParseUninitialised \/ InitIterator
        \/ SkipAbsent \/ TakeArg \/ RunPastLength \/ NoMoreArgs

\* The parser runs on a thread of its own and never blocks.
Spec == Init /\ [][Next]_vars /\ WF_vars(Next)

-----------------------------------------------------------------------------
\* Whatever the header, the size table is only read at its own entries.
TypeOK ==
  /\ header \in Headers
  /\ build \in Builds
  /\ pc \in {"init", "next", "done", "crashed", "lost"}
  /\ ret \in {-EINVAL, -1} \union Indices
  /\ max_length \in U16
  /\ bitmap \subseteq 0 .. 31
  /\ arg_index \in 0 .. 14
  /\ arg \in Nat
  /\ bit \in 0 .. arg_index
  /\ this_arg_index \in Indices
  /\ this_arg \in Nat
  /\ stored \in [StoredFields -> Nat \union {NotStored, Garbage}]

\* An argument reported without an error lies inside the header, after the bitmap
\* (radiotap-parser.c:208, "more arg content than the length of the radiotap section").
ReportedInsideHeader ==
  (pc \in {"next", "done"} /\ this_arg # 0 /\ ret >= 0) =>
    /\ ArgsStart(header) <= this_arg
    /\ this_arg + ArgLength[this_arg_index] <= header.len

\* From a well-formed header the slot gets each field it carries, from the right place,
\* and no other, up to the first padding: all of them from one without padding, as the
\* ordinary 18-byte one of the capture.
FieldsRight ==
  (pc = "done" /\ WellFormed(header)) =>
    \A f \in StoredFields :
      Unpadded(header, f) =>
        stored[f] = IF f \in header.present THEN Layout[header][f] ELSE NotStored

\* Padding makes the walk take later fields with the sizes of others.  Still no well-formed
\* header runs into the check of its length, after which next would report an error and
\* parseRadioTap use it.
PaddedAccepted ==
  WellFormed(header) => ret # -EINVAL /\ pc \notin {"crashed", "lost"}

\* Every well-formed header is parsed to its end, padded ones included.
WellFormedEnds == WellFormed(header) ~> pc = "done"

-----------------------------------------------------------------------------
(***************************************************************************)
(* What the comments say, and the code does not do.                        *)
(***************************************************************************)
\* radiotap-parser.c:32 "or the next argument type index that is present".
ReportedIsPresent ==
  (pc = "next" /\ this_arg # 0 /\ ret >= 0) => this_arg_index \in header.present
=============================================================================
