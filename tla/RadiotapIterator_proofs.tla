------------------------ MODULE RadiotapIterator_proofs ------------------------
(***************************************************************************)
(* Proofs about RadiotapIterator, for every header, every length of the    *)
(* buffer and every layout the radiotap rules give.                        *)
(***************************************************************************)
EXTENDS RadiotapIterator, ByteOrder_proofs

-----------------------------------------------------------------------------
(* The size table.                                                         *)

LEMMA TableTypes ==
  ASSUME NEW i \in Indices
  PROVE  /\ ArgAlign[i] \in {1, 2, 8}
         /\ ArgLength[i] \in 1 .. 8
BY DEF Indices, ArgAlign, ArgLength

\* Padding added to the index never carries it out of the table: the last index
\* that is bumped is 9, by one, and index 0 is bumped by 7 at most.
LEMMA BumpedInTable ==
  ASSUME NEW i \in Indices, NEW off \in Nat
  PROVE  Bumped(i, off) \in Indices /\ i <= Bumped(i, off)
<1>1. CASE i = 0
  <2>1. ArgAlign[i] = 8 BY <1>1 DEF ArgAlign, Indices
  <2>2. off % 8 \in 0 .. 7 OBVIOUS
  <2> QED BY <1>1, <2>1, <2>2 DEF Bumped, Indices
<1>2. CASE i \in {3, 4, 7, 8, 9}
  <2>1. ArgAlign[i] = 2 BY <1>2 DEF ArgAlign, Indices
  <2>2. off % 2 \in 0 .. 1 OBVIOUS
  <2> QED BY <1>2, <2>1, <2>2 DEF Bumped, Indices
<1>3. CASE i \notin {0, 3, 4, 7, 8, 9}
  <2>1. ArgAlign[i] = 1 BY <1>3 DEF ArgAlign, Indices
  <2>2. off % 1 = 0 OBVIOUS
  <2> QED BY <2>1, <2>2 DEF Bumped, Indices
<1> QED BY <1>1, <1>2, <1>3

\* What Headers holds, and where the arguments of a header begin.
LEMMA HeaderFields ==
  ASSUME NEW h \in Headers
  PROVE  /\ h.version \in Nat /\ h.len \in U16 /\ h.len \in Nat /\ h.more_words \in Nat
         /\ h.present \subseteq 0 .. 31
         /\ ArgsStart(h) \in Nat /\ ArgsStart(h) >= 8
BY HeadersAssumption DEF HeaderType, U16, ArgsStart, HeaderSize

-----------------------------------------------------------------------------
(* What init reads.                                                        *)

LEMMA TwoBytes ==
  ASSUME NEW n \in Nat
  PROVE  /\ n % 256 \in Nat /\ n \div 256 \in Nat
         /\ 256 * (n \div 256) + (n % 256) = n
OBVIOUS

LEMMA BitPosition ==
  ASSUME NEW b \in 0 .. 31
  PROVE  \E k \in 1 .. 4, i \in 0 .. 7 : b = 8 * (4 - k) + i
OBVIOUS

LEMMA ReadSwabs ==
  ASSUME build \in Builds, NEW S, NEW mem \in Seq(S)
  PROVE  Read(mem) = swab(mem)
<1>1. build \in AllBuilds
  BY BuildsAssumption
<1> QED BY <1>1, FieldsReadRight DEF Read

LEMMA LengthReadRight ==
  ASSUME header \in Headers, build \in Builds
  PROVE  LengthRead = header.len
<1> DEFINE low == header.len % 256
           high == header.len \div 256
<1>1. low \in Nat /\ high \in Nat /\ 256 * high + low = header.len
  BY HeaderFields, TwoBytes
<1> HIDE DEF low, high
<1>2. <<low, high>> \in Seq(Nat)
  BY <1>1
<1>3. Read(<<low, high>>) = swab(<<low, high>>)
  BY <1>2, ReadSwabs
<1>4. swab(<<low, high>>)[1] = high /\ swab(<<low, high>>)[2] = low
  BY DEF swab
<1>5. LenBytes(header) = <<low, high>>
  BY DEF LenBytes, low, high
<1> QED BY <1>1, <1>3, <1>4, <1>5 DEF LengthRead

LEMMA BitsReadRight ==
  ASSUME header \in Headers, build \in Builds
  PROVE  BitsRead = header.present
<1> DEFINE byte(k) == {i \in 0 .. 7 : 8 * (k - 1) + i \in header.present}
           bytes == PresentBytes(header)
<1>1. bytes = [k \in 1 .. 4 |-> byte(k)]
  BY DEF PresentBytes
<1>2. \A k \in 1 .. 4 : byte(k) \in SUBSET (0 .. 7)
  OBVIOUS
<1>3. bytes \in Seq(SUBSET (0 .. 7)) /\ Len(bytes) = 4
  <2> HIDE DEF byte, bytes
  <2> QED BY <1>1, <1>2
<1>4. Read(bytes) = swab(bytes)
  <2> HIDE DEF bytes
  <2> QED BY <1>3, ReadSwabs
<1>5. \A k \in 1 .. 4 : swab(bytes)[k] = bytes[5 - k]
  <2> HIDE DEF bytes
  <2>1. \A k \in 1 .. Len(bytes) : swab(bytes)[k] = bytes[Len(bytes) + 1 - k]
    BY <1>3, SwabFacts
  <2> QED BY <1>3, <2>1
<1>6. \A k \in 1 .. 4 : bytes[5 - k] = byte(5 - k)
  <2> HIDE DEF byte, bytes
  <2> QED BY <1>1
<1>7. \A k \in 1 .. 4 : Read(bytes)[k] = {i \in 0 .. 7 : 8 * (4 - k) + i \in header.present}
  BY <1>4, <1>5, <1>6
<1>8. BitsRead = UNION {{8 * (4 - k) + i : i \in Read(bytes)[k]} : k \in 1 .. 4}
  BY DEF BitsRead
<1>9. ASSUME NEW b PROVE b \in BitsRead <=> b \in header.present
  <2> HIDE DEF byte, bytes
  <2>1. b \in BitsRead <=> \E k \in 1 .. 4 : \E i \in Read(bytes)[k] : b = 8 * (4 - k) + i
    BY <1>8
  <2>2. b \in BitsRead <=>
          \E k \in 1 .. 4, i \in 0 .. 7 : b = 8 * (4 - k) + i /\ b \in header.present
    BY <1>7, <2>1
  <2>3. b \in header.present => b \in 0 .. 31
    BY HeaderFields
  <2> QED BY <2>2, <2>3, BitPosition
<1> QED BY <1>9

\* On every machine init reads the length and the bits the header has.
LEMMA ReadRight ==
  ASSUME header \in Headers, build \in Builds
  PROVE  /\ LengthRead = header.len
         /\ BitsRead = header.present
         /\ AfterBitmap = ArgsStart(header)
<1>1. LengthRead = header.len /\ BitsRead = header.present
  BY LengthReadRight, BitsReadRight
<1> QED BY <1>1 DEF AfterBitmap, ArgsStart

-----------------------------------------------------------------------------
(***************************************************************************)
(* Type correctness, which needs to know where the iterator stands: before *)
(* init it stands at the start, afterwards its pointer is past the bitmap  *)
(* unless it has already left the header.                                  *)
(***************************************************************************)
AtStart ==
  pc = "init" =>
    /\ ret = 0 /\ arg_index = 0 /\ arg = 0 /\ bit = 0 /\ this_arg = 0
    /\ stored = [f \in StoredFields |-> NotStored]

PastBitmap == pc = "next" => header.len < arg \/ ArgsStart(header) <= arg

Accepted == pc = "next" => header.version = 0 /\ header.len <= BUFSIZ

InitRead == pc = "next" => max_length = header.len /\ bitmap = header.present

TypeInv == TypeOK /\ AtStart /\ InitRead /\ PastBitmap /\ Accepted /\ ReportedInsideHeader

\* Offsets folded at the end of memory stay outside every header.
LEMMA FoldedStaysOutside ==
  ASSUME NEW off \in Nat, NEW len \in Nat, len <= BUFSIZ, off > len
  PROVE  Folded(off) \in Nat /\ Folded(off) > len
BY SizesAssumption DEF Folded

\* The pointer init leaves when it gives up a chain of bitmaps is past the header.
LEMMA GivenUpOutside ==
  ASSUME NEW len \in Nat, LengthRead = len
  PROVE  GivenUpAt \in Nat /\ GivenUpAt > len
<1>1. CASE len < 8
  BY <1>1 DEF GivenUpAt, HeaderSize
<1>2. CASE len >= 8
  <2>1. PICK m \in Nat : len - 8 = m
    BY <1>2
  <2>2. m \div 4 \in Nat /\ 4 * (m \div 4) + 4 > m
    OBVIOUS
  <2> QED BY <1>2, <2>1, <2>2 DEF GivenUpAt, HeaderSize
<1> QED BY <1>1, <1>2

\* What a step that meets a present bit knows of the argument it takes.
LEMMA ArgFacts ==
  ASSUME TypeInv, arg_index \in Indices
  PROVE  LET i == Bumped(arg_index, arg)
         IN  /\ i \in Indices /\ arg_index <= i
             /\ ArgLength[i] \in 1 .. 8
             /\ arg + ArgLength[i] \in Nat
<1> DEFINE i == Bumped(arg_index, arg)
<1>1. i \in Indices /\ arg_index <= i /\ arg \in Nat
  BY BumpedInTable DEF TypeInv, TypeOK
<1>2. ArgLength[i] \in 1 .. 8
  BY <1>1, TableTypes
<1> QED BY <1>1, <1>2

LEMMA StoreType ==
  ASSUME TypeInv, NEW i, NEW off \in Nat, Store(i, off)
  PROVE  stored' \in [StoredFields -> Nat \union {NotStored, Garbage}]
BY DEF TypeInv, TypeOK, Store

LEMMA TypeInvInit == Init => TypeInv
BY HeaderFields
   DEF Init, TypeInv, TypeOK, AtStart, InitRead, PastBitmap, Accepted,
       ReportedInsideHeader, Indices, EINVAL, U16

LEMMA TypeInvStep ==
  ASSUME TypeInv, [Next]_vars
  PROVE  TypeInv'
<1> DEFINE i == Bumped(arg_index, arg)
<1>0. /\ header \in Headers /\ header.len \in Nat
      /\ ArgsStart(header) \in Nat /\ ArgsStart(header) >= 8
      /\ header.len \in U16 /\ header.present \subseteq 0 .. 31
      /\ LengthRead = header.len /\ BitsRead = header.present
      /\ AfterBitmap = ArgsStart(header)
  BY HeaderFields, ReadRight DEF TypeInv, TypeOK
<1> USE DEF input, asRead
<1>1. CASE ParseUninitialised
  <2>1. pc' \notin {"init", "next"} /\ ret' \in {-EINVAL, -1}
    BY <1>1 DEF ParseUninitialised
  <2>2. ret' < 0
    BY <2>1 DEF EINVAL
  <2>3. stored' \in [StoredFields -> Nat \union {NotStored, Garbage}]
    BY <1>1 DEF ParseUninitialised, TypeInv, TypeOK
  <2>4. TypeOK'
    BY <1>1, <2>1, <2>3 DEF ParseUninitialised, TypeInv, TypeOK
  <2> QED BY <2>1, <2>2, <2>4
          DEF TypeInv, AtStart, InitRead, PastBitmap, Accepted, ReportedInsideHeader
<1>2. CASE InitIterator
  <2>1. /\ pc' = "next" /\ header' = header /\ this_arg' = 0
        /\ ret' \in {-EINVAL, 0} /\ ~ Rejected
    BY <1>2 DEF InitIterator, TypeInv, AtStart
  <2>2. arg' \in Nat /\ (header.len < arg' \/ ArgsStart(header) <= arg')
    BY <1>0, <1>2, GivenUpOutside DEF InitIterator
  <2>3. TypeOK'
    BY <1>0, <1>2, <2>1, <2>2 DEF InitIterator, TypeInv, TypeOK, Indices
  <2>4. InitRead'
    BY <1>0, <1>2 DEF InitIterator, InitRead
  <2>5. Accepted'
    BY <1>0, <2>1, SizesAssumption DEF Accepted, Rejected
  <2> QED BY <2>1, <2>2, <2>3, <2>4, <2>5
          DEF TypeInv, AtStart, PastBitmap, ReportedInsideHeader, ArgsStart
<1>3. CASE SkipAbsent
  <2>1. TypeOK'
    BY <1>3 DEF SkipAbsent, Shift, TypeInv, TypeOK, Indices
  <2> QED BY <1>3, <2>1
          DEF SkipAbsent, TypeInv, AtStart, InitRead, PastBitmap, Accepted,
              ReportedInsideHeader, ArgsStart
<1>4. CASE TakeArg
  <2>1. /\ i \in Indices /\ arg_index \in Indices /\ arg_index <= i
        /\ ArgLength[i] \in 1 .. 8 /\ arg \in Nat /\ bit \in 0 .. arg_index
    BY <1>4, ArgFacts DEF TakeArg, TypeInv, TypeOK
  <2>2. /\ arg + ArgLength[i] <= header.len
        /\ arg' = arg + ArgLength[i] /\ this_arg' = arg
        /\ arg_index' = i + 1 /\ this_arg_index' = i /\ ret' = i
        /\ bit' = bit + 1 /\ pc = "next" /\ pc' = "next"
        /\ UNCHANGED <<header, build, max_length, bitmap>>
    BY <1>0, <1>4, <2>1 DEF TakeArg, PastLength, Shift, TypeInv, InitRead
  <2>3. ArgsStart(header) <= arg
    BY <1>0, <2>1, <2>2 DEF TypeInv, PastBitmap
  <2>4. stored' \in [StoredFields -> Nat \union {NotStored, Garbage}]
    BY <1>4, <2>1, StoreType DEF TakeArg
  <2>5. TypeOK'
    <3>1. /\ arg_index' \in 0 .. 14 /\ bit' \in 0 .. arg_index' /\ arg' \in Nat
          /\ this_arg_index' \in Indices /\ ret' \in Indices
      <4> HIDE DEF i
      <4> QED BY <2>1, <2>2 DEF Indices
    <3> QED BY <1>0, <2>1, <2>2, <2>4, <3>1 DEF TypeInv, TypeOK
  <2>6. PastBitmap' /\ ReportedInsideHeader'
    BY <1>0, <2>1, <2>2, <2>3 DEF PastBitmap, ReportedInsideHeader, ArgsStart
  <2>7. AtStart' /\ InitRead' /\ Accepted'
    BY <2>2 DEF TypeInv, AtStart, InitRead, Accepted
  <2> QED BY <2>5, <2>6, <2>7 DEF TypeInv
<1>5. CASE RunPastLength
  <2>1. /\ i \in Indices /\ arg_index \in Indices /\ arg_index <= i
        /\ ArgLength[i] \in 1 .. 8 /\ arg \in Nat /\ bit \in 0 .. arg_index
    BY <1>5, ArgFacts DEF RunPastLength, TypeInv, TypeOK
  <2>2. /\ arg + ArgLength[i] > header.len
        /\ arg' = Folded(arg + ArgLength[i]) /\ this_arg' = arg
        /\ arg_index' = i /\ this_arg_index' = i /\ ret' = -EINVAL
        /\ bit' = bit /\ pc = "next" /\ pc' \in {"next", "crashed"}
        /\ UNCHANGED <<header, build, max_length, bitmap>>
    BY <1>0, <1>5, <2>1 DEF RunPastLength, PastLength, TypeInv, InitRead
  <2>3. header.len <= BUFSIZ
    BY <2>2 DEF TypeInv, Accepted
  <2>4. arg' \in Nat /\ arg' > header.len
    BY <1>0, <2>1, <2>2, <2>3, FoldedStaysOutside
  <2>5. stored' \in [StoredFields -> Nat \union {NotStored, Garbage}]
    BY <1>5, <2>1, StoreType DEF RunPastLength, TypeInv, TypeOK
  <2>6. TypeOK'
    <3>1. /\ arg_index' \in 0 .. 14 /\ bit' \in 0 .. arg_index'
          /\ this_arg_index' \in Indices
      <4> HIDE DEF i
      <4> QED BY <2>1, <2>2 DEF Indices
    <3> QED BY <1>0, <2>1, <2>2, <2>4, <2>5, <3>1 DEF TypeInv, TypeOK
  <2>7. PastBitmap' /\ ReportedInsideHeader'
    BY <2>2, <2>4 DEF PastBitmap, ReportedInsideHeader, EINVAL
  <2>8. AtStart' /\ InitRead' /\ Accepted'
    BY <2>2 DEF TypeInv, AtStart, InitRead, Accepted
  <2> QED BY <2>6, <2>7, <2>8 DEF TypeInv
<1>6. CASE NoMoreArgs
  <2>1. TypeOK'
    BY <1>6 DEF NoMoreArgs, TypeInv, TypeOK
  <2> QED BY <1>6, <2>1
          DEF NoMoreArgs, TypeInv, AtStart, InitRead, PastBitmap, Accepted,
              ReportedInsideHeader
<1>7. CASE UNCHANGED vars
  BY <1>7 DEF vars, TypeInv, TypeOK, AtStart, InitRead, PastBitmap, Accepted,
              ReportedInsideHeader, ArgsStart
<1> QED BY <1>1, <1>2, <1>3, <1>4, <1>5, <1>6, <1>7 DEF Next

LEMMA TypeInvAlways == Spec => []TypeInv
BY TypeInvInit, TypeInvStep, PTL DEF Spec

\* The size table is never read outside its 14 entries, on any header: this holds
\* although the padding is added to the index that reads it.
THEOREM IndexInTable == Spec => []TypeOK
BY TypeInvAlways, PTL DEF TypeInv

\* A field reported without an error lies between the bitmap and the end of its
\* header.
THEOREM FieldsInsideHeader == Spec => []ReportedInsideHeader
BY TypeInvAlways, PTL DEF TypeInv

-----------------------------------------------------------------------------
(* Layouts.                                                                *)

\* One field of a layout ends where the next may begin.
LEMMA LayoutStep ==
  ASSUME NEW h \in Headers, NEW b \in Indices
  PROVE  /\ Layout[h][b] \in Nat /\ Layout[h][b + 1] \in Nat
         /\ Layout[h][b] <= Layout[h][b + 1]
         /\ b \notin h.present => Layout[h][b + 1] = Layout[h][b]
         /\ b \in h.present =>
              /\ Layout[h][b + 1] = Padded(Layout[h][b], b) + ArgLength[b]
              /\ Padded(Layout[h][b], b) \in Nat /\ Layout[h][b] <= Padded(Layout[h][b], b)
         /\ (b \in h.present /\ Layout[h][b] % ArgAlign[b] = 0) =>
              Layout[h][b + 1] = Layout[h][b] + ArgLength[b]
<1>1. IsLayout(h, Layout[h])
  BY HeadersAssumption
<1>2. b \in 0 .. 14 /\ b + 1 \in 0 .. 14
  BY DEF Indices
<1>3. Layout[h][b] \in Nat /\ Layout[h][b + 1] \in Nat
  BY <1>1, <1>2 DEF IsLayout
<1>4. Layout[h][b + 1] =
        IF b \in h.present THEN Padded(Layout[h][b], b) + ArgLength[b] ELSE Layout[h][b]
  BY <1>1 DEF IsLayout
<1>5. ArgLength[b] \in 1 .. 8 /\ ArgAlign[b] \in {1, 2, 8}
  BY TableTypes
<1>6. Padded(Layout[h][b], b) \in Nat /\ Layout[h][b] <= Padded(Layout[h][b], b)
  <2>1. ASSUME NEW off \in Nat, NEW a \in {1, 2, 8}
        PROVE  off + a - (off % a) \in Nat /\ off <= off + a - (off % a)
    OBVIOUS
  <2> QED BY <1>3, <1>5, <2>1 DEF Padded
<1>7. b \in h.present => Layout[h][b] <= Layout[h][b + 1]
  BY <1>3, <1>4, <1>5, <1>6
<1>8. (b \in h.present /\ Layout[h][b] % ArgAlign[b] = 0) =>
        Layout[h][b + 1] = Layout[h][b] + ArgLength[b]
  BY <1>4 DEF Padded
<1> QED BY <1>3, <1>4, <1>6, <1>7, <1>8

\* Every field of a layout ends before the layout does.
LEMMA LayoutMonotone ==
  ASSUME NEW h \in Headers, NEW b \in 0 .. 14
  PROVE  Layout[h][b] \in Nat /\ Layout[h][14] \in Nat /\ Layout[h][b] <= Layout[h][14]
<1> DEFINE L(k) == Layout[h][k]
<1>1. ASSUME NEW k \in Indices
      PROVE  L(k) \in Nat /\ L(k + 1) \in Nat /\ L(k) <= L(k + 1)
  BY LayoutStep
<1>2. /\ L(0) \in Nat /\ L(1) \in Nat /\ L(2) \in Nat /\ L(3) \in Nat /\ L(4) \in Nat
      /\ L(5) \in Nat /\ L(6) \in Nat /\ L(7) \in Nat /\ L(8) \in Nat /\ L(9) \in Nat
      /\ L(10) \in Nat /\ L(11) \in Nat /\ L(12) \in Nat /\ L(13) \in Nat /\ L(14) \in Nat
  <2> HIDE DEF L
  <2> QED BY <1>1 DEF Indices
<1>3. /\ L(0) <= L(1) /\ L(1) <= L(2) /\ L(2) <= L(3) /\ L(3) <= L(4) /\ L(4) <= L(5)
      /\ L(5) <= L(6) /\ L(6) <= L(7) /\ L(7) <= L(8) /\ L(8) <= L(9) /\ L(9) <= L(10)
      /\ L(10) <= L(11) /\ L(11) <= L(12) /\ L(12) <= L(13) /\ L(13) <= L(14)
  <2> HIDE DEF L
  <2> QED BY <1>1 DEF Indices
<1>4. L(b) \in Nat /\ L(14) \in Nat /\ L(b) <= L(14)
  <2> HIDE DEF L
  <2> QED BY <1>2, <1>3
<1> QED BY <1>4

\* A well-formed header is accepted, chain of bitmaps and all.
LEMMA WellFormedAccepted ==
  ASSUME header \in Headers, build \in Builds, WellFormed(header)
  PROVE  /\ ~ Rejected
         /\ ~ ChainTooLong
         /\ Layout[header][0] = ArgsStart(header)
<1>1. /\ header.len \in Nat /\ header.more_words \in Nat
      /\ Layout[header][0] = ArgsStart(header)
  BY HeaderFields, HeadersAssumption DEF IsLayout
<1>2. Layout[header][0] \in Nat /\ Layout[header][14] \in Nat
      /\ Layout[header][0] <= Layout[header][14]
  BY LayoutMonotone
<1>3. ArgsStart(header) <= header.len
  BY <1>1, <1>2 DEF WellFormed
<1>4. ~ ChainTooLong
  BY <1>1, <1>3, ReadRight DEF ChainTooLong, ArgsStart, HeaderSize
<1>5. ~ Rejected
  BY <1>1, ReadRight, SizesAssumption DEF WellFormed, Rejected
<1> QED BY <1>1, <1>4, <1>5

-----------------------------------------------------------------------------
(***************************************************************************)
(* Padded headers.  From the first padding on the index is ahead of the    *)
(* bit, and fields are taken with the size of another index.  The pointer  *)
(* is then behind the layout by what was not skipped, and stays behind:    *)
(* AheadBy bounds from below what it needs to be behind before bit b, for  *)
(* the later fields that are taken with a size larger than theirs.         *)
(***************************************************************************)
AheadBy(b) == IF b <= 1 THEN 8 ELSE IF b = 2 THEN 5 ELSE IF b <= 5 THEN 2
              ELSE IF b = 6 THEN 1 ELSE 0

Behind ==
  WellFormed(header) =>
    /\ pc \in {"init", "next", "done"}
    /\ ret # -EINVAL
    /\ pc = "next" => IF arg_index = bit THEN arg = Layout[header][bit]
                                         ELSE arg + AheadBy(bit) <= Layout[header][bit]

\* The sizes of the fields above an index.
LEMMA SizesAbove ==
  ASSUME NEW i \in Indices
  PROVE  /\ i >= 1 => ArgLength[i] <= 4
         /\ i >= 4 => ArgLength[i] <= 2
         /\ i >= 10 => ArgLength[i] = 1
BY DEF Indices, ArgLength

\* An argument taken ahead of its bit leaves the pointer far enough behind.
LEMMA TakenAhead ==
  ASSUME NEW b \in Indices, NEW i \in Indices, b < i
  PROVE  AheadBy(b + 1) + ArgLength[i] <= AheadBy(b) + ArgLength[b]
<1>1. ArgLength[i] \in 1 .. 8 /\ ArgLength[b] \in 1 .. 8
  BY TableTypes
<1>2. CASE b \in {0, 1, 2}
  <2>1. b = 0 => ArgLength[b] = 8
    BY DEF ArgLength, Indices
  <2>2. ArgLength[i] <= 4
    BY <1>2, SizesAbove DEF Indices
  <2> QED BY <1>1, <1>2, <2>1, <2>2 DEF AheadBy
<1>3. CASE b \in {3, 4, 7, 8, 9}
  <2>1. ArgLength[b] >= 2
    BY <1>3 DEF ArgLength, Indices
  <2>2. ArgLength[i] <= 2
    BY <1>3, SizesAbove
  <2> QED BY <1>1, <1>3, <2>1, <2>2 DEF AheadBy
<1>4. CASE b \in {5, 6}
  BY <1>1, <1>4, SizesAbove DEF AheadBy
<1>5. CASE b \in {10, 11, 12, 13}
  BY <1>1, <1>5, SizesAbove DEF AheadBy
<1> QED BY <1>2, <1>3, <1>4, <1>5 DEF Indices

\* The first padding: what is not skipped makes up for the size of another index.
LEMMA FirstPadding ==
  ASSUME NEW b \in Indices, NEW off \in Nat, off % ArgAlign[b] # 0, off % 4 = 0 \/ b # 0
  PROVE  /\ b < Bumped(b, off)
         /\ off + ArgLength[Bumped(b, off)] + AheadBy(b + 1) <= Padded(off, b) + ArgLength[b]
<1>1. CASE b = 0
  <2>1. ArgAlign[b] = 8 /\ ArgLength[b] = 8
    BY <1>1 DEF ArgAlign, ArgLength, Indices
  <2>2. off % 8 = 4
    BY <1>1, <2>1
  <2>3. Bumped(b, off) = 4 /\ Padded(off, b) = off + 4
    BY <1>1, <2>1, <2>2 DEF Bumped, Padded
  <2>4. ArgLength[4] = 2
    BY DEF ArgLength, Indices
  <2> QED BY <1>1, <2>1, <2>3, <2>4 DEF AheadBy
<1>2. CASE b \in {3, 4, 7, 8, 9}
  <2>1. ArgAlign[b] = 2 /\ off % 2 = 1
    BY <1>2 DEF ArgAlign, Indices
  <2>2. Bumped(b, off) = b + 1 /\ Padded(off, b) = off + 1
    BY <1>2, <2>1 DEF Bumped, Padded
  <2>3. ArgLength[b + 1] + AheadBy(b + 1) <= 1 + ArgLength[b]
    BY <1>2 DEF ArgLength, AheadBy, Indices
  <2>4. ArgLength[b + 1] \in Nat /\ ArgLength[b] \in Nat /\ AheadBy(b + 1) \in Nat
    BY <1>2 DEF ArgLength, AheadBy, Indices
  <2> QED BY <1>2, <2>2, <2>3, <2>4
<1>3. CASE b \notin {0, 3, 4, 7, 8, 9}
  <2>1. ArgAlign[b] = 1
    BY <1>3 DEF ArgAlign, Indices
  <2> QED BY <2>1
<1> QED BY <1>1, <1>2, <1>3

\* The arguments begin at a multiple of four.
LEMMA StartAligned ==
  ASSUME NEW h \in Headers
  PROVE  Layout[h][0] % 4 = 0
<1>1. Layout[h][0] = ArgsStart(h) /\ h.more_words \in Nat
  BY HeadersAssumption, HeaderFields DEF IsLayout
<1>2. ASSUME NEW n \in Nat PROVE (8 + 4 * n + 4) % 4 = 0
  OBVIOUS
<1> QED BY <1>1, <1>2 DEF ArgsStart, HeaderSize

LEMMA BehindStep ==
  ASSUME TypeInv, Behind, [Next]_vars
  PROVE  Behind'
<1>0. header' = header /\ header \in Headers /\ build \in Builds
  BY DEF Next, ParseUninitialised, InitIterator, SkipAbsent, TakeArg, RunPastLength,
         NoMoreArgs, vars, input, TypeInv, TypeOK
<1> SUFFICES ASSUME WellFormed(header)
             PROVE  /\ pc' \in {"init", "next", "done"}
                    /\ ret' # -EINVAL
                    /\ pc' = "next" => IF arg_index' = bit' THEN arg' = Layout[header][bit']
                                       ELSE arg' + AheadBy(bit') <= Layout[header][bit']
  BY <1>0 DEF Behind, WellFormed
<1> DEFINE L(b) == Layout[header][b]
           i == Bumped(arg_index, arg)
<1>1. /\ pc \in {"init", "next", "done"} /\ ret # -EINVAL
      /\ pc = "next" => IF arg_index = bit THEN arg = L(bit) ELSE arg + AheadBy(bit) <= L(bit)
      /\ pc = "next" => max_length = header.len /\ bitmap = header.present
      /\ bit \in 0 .. arg_index /\ arg_index \in 0 .. 14 /\ arg \in Nat
      /\ ret \in {-EINVAL, -1} \union Indices
  BY DEF Behind, TypeInv, InitRead, TypeOK
<1>2. /\ ~ Rejected /\ ~ ChainTooLong
      /\ L(0) = ArgsStart(header) /\ AfterBitmap = ArgsStart(header)
      /\ header.len \in Nat /\ L(14) <= header.len
  BY <1>0, WellFormedAccepted, ReadRight, HeaderFields DEF WellFormed
<1>3. ASSUME pc = "next", arg_index \in Indices, bit \in header.present
      PROVE  /\ i \in Indices /\ bit <= i
             /\ IF i = bit THEN arg + ArgLength[i] = L(bit + 1)
                ELSE arg + ArgLength[i] + AheadBy(bit + 1) <= L(bit + 1)
  <2>1. /\ i \in Indices /\ arg_index <= i /\ bit \in Indices /\ arg_index \in Nat
        /\ ArgLength[i] \in Nat /\ ArgLength[bit] \in Nat
        /\ AheadBy(bit) \in Nat /\ AheadBy(bit + 1) \in Nat
    <3>1. bit \in Indices
      BY <1>1, <1>3 DEF Indices
    <3>2. i \in Indices /\ arg_index <= i
      BY <1>1, <1>3, BumpedInTable
    <3>3. ArgLength[i] \in Nat /\ ArgLength[bit] \in Nat
      BY <3>1, <3>2, TableTypes
    <3>4. AheadBy(bit) \in Nat /\ AheadBy(bit + 1) \in Nat
      BY DEF AheadBy
    <3> QED BY <1>3, <3>1, <3>2, <3>3, <3>4 DEF Indices
  <2>2. /\ L(bit) \in Nat /\ L(bit + 1) \in Nat
        /\ L(bit + 1) = Padded(L(bit), bit) + ArgLength[bit]
        /\ Padded(L(bit), bit) \in Nat /\ L(bit) <= Padded(L(bit), bit)
    BY <1>0, <1>3, <2>1, LayoutStep
  <2>3. bit <= i /\ i \in Nat /\ bit \in Nat
    BY <1>1, <2>1 DEF Indices
  <2>4. CASE arg_index # bit
    <3>1. bit < i
      BY <1>1, <2>1, <2>4 DEF Indices
    <3>2. AheadBy(bit + 1) + ArgLength[i] <= AheadBy(bit) + ArgLength[bit]
      BY <2>1, <3>1, TakenAhead
    <3>3. arg + AheadBy(bit) <= L(bit)
      BY <1>1, <1>3, <2>4
    <3> HIDE DEF L, i
    <3> QED BY <1>1, <2>1, <2>2, <2>3, <3>1, <3>2, <3>3
  <2>5. CASE arg_index = bit /\ arg % ArgAlign[bit] = 0
    <3>1. arg = L(bit) /\ i = bit
      BY <1>1, <1>3, <2>5 DEF Bumped
    <3>2. Padded(L(bit), bit) = L(bit)
      BY <2>5, <3>1 DEF Padded
    <3> HIDE DEF L, i
    <3> QED BY <2>1, <2>2, <2>3, <3>1, <3>2
  <2>6. CASE arg_index = bit /\ arg % ArgAlign[bit] # 0
    <3>1. arg = L(bit)
      BY <1>1, <1>3, <2>6
    <3>2. arg % 4 = 0 \/ bit # 0
      BY <1>0, <1>2, <3>1, StartAligned
    <3>3. /\ bit < i
          /\ arg + ArgLength[i] + AheadBy(bit + 1) <= Padded(arg, bit) + ArgLength[bit]
      BY <1>1, <2>1, <2>6, <3>2, FirstPadding
    <3> HIDE DEF L, i
    <3> QED BY <1>1, <2>1, <2>2, <2>3, <3>1, <3>3
  <2> QED BY <2>4, <2>5, <2>6
<1>4. ASSUME pc = "next", arg_index \in Indices, bit \in header.present
      PROVE  ~ PastLength(arg + ArgLength[i])
  <2>1. bit \in Indices /\ bit + 1 \in 0 .. 14
    BY <1>1, <1>4 DEF Indices
  <2>2. L(bit + 1) \in Nat /\ L(14) \in Nat /\ L(bit + 1) <= L(14)
    BY <1>0, <2>1, LayoutMonotone
  <2>3. AheadBy(bit + 1) \in Nat /\ ArgLength[i] \in Nat
    BY <1>3, <1>4, TableTypes DEF AheadBy
  <2>4. arg + ArgLength[i] <= L(bit + 1)
    <3> HIDE DEF L, i
    <3> QED BY <1>1, <1>3, <1>4, <2>2, <2>3
  <2> HIDE DEF L, i
  <2> QED BY <1>1, <1>2, <1>4, <2>2, <2>3, <2>4 DEF PastLength
<1>5. CASE ParseUninitialised
  BY <1>2, <1>5 DEF ParseUninitialised
<1>6. CASE InitIterator
  BY <1>2, <1>6 DEF InitIterator, TypeInv, AtStart, EINVAL
<1>7. CASE SkipAbsent
  <2>1. /\ pc = "next" /\ pc' = "next" /\ arg_index \in Indices /\ bit \notin header.present
        /\ arg_index' = arg_index + 1 /\ bit' = bit + 1 /\ arg' = arg /\ ret' = ret
    BY <1>1, <1>7 DEF SkipAbsent, Shift
  <2>2. bit \in Indices /\ bit \in Nat /\ arg_index \in Nat
    BY <1>1, <2>1 DEF Indices
  <2>3. L(bit + 1) = L(bit) /\ L(bit) \in Nat
    BY <1>0, <2>1, <2>2, LayoutStep
  <2>4. AheadBy(bit + 1) <= AheadBy(bit) /\ AheadBy(bit) \in Nat /\ AheadBy(bit + 1) \in Nat
    BY <2>2 DEF AheadBy
  <2> HIDE DEF L, i
  <2>5. IF arg_index' = bit' THEN arg' = L(bit') ELSE arg' + AheadBy(bit') <= L(bit')
    BY <1>1, <2>1, <2>2, <2>3, <2>4
  <2> QED BY <1>1, <2>1, <2>5 DEF L
<1>8. CASE TakeArg
  <2>1. /\ pc = "next" /\ pc' = "next" /\ arg_index \in Indices /\ bit \in header.present
        /\ arg_index' = i + 1 /\ bit' = bit + 1 /\ arg' = arg + ArgLength[i] /\ ret' = i
    BY <1>1, <1>8 DEF TakeArg, Shift
  <2>2. i \in Indices /\ i \in Nat /\ bit \in Nat /\ i # -EINVAL
    BY <1>1, <1>3, <2>1 DEF Indices, EINVAL
  <2>3. IF i = bit THEN arg' = L(bit + 1) ELSE arg' + AheadBy(bit + 1) <= L(bit + 1)
    BY <1>3, <2>1
  <2> HIDE DEF L, i
  <2>4. IF arg_index' = bit' THEN arg' = L(bit') ELSE arg' + AheadBy(bit') <= L(bit')
    BY <2>1, <2>2, <2>3
  <2> QED BY <2>1, <2>2, <2>4 DEF L
<1>9. CASE RunPastLength
  BY <1>1, <1>4, <1>9 DEF RunPastLength
<1>10. CASE NoMoreArgs
  BY <1>10 DEF NoMoreArgs, EINVAL
<1>11. CASE UNCHANGED vars
  BY <1>1, <1>11 DEF vars
<1> QED BY <1>5, <1>6, <1>7, <1>8, <1>9, <1>10, <1>11 DEF Next

\* No well-formed header, whatever its padding, runs into the check of its length: the
\* confusion of the index with the pointer costs fields, and never the end of the loop.
THEOREM PaddedNotRefused == Spec => []PaddedAccepted
<1>1. Init => Behind
  BY DEF Init, Behind, EINVAL
<1>2. Behind => PaddedAccepted
  BY DEF Behind, PaddedAccepted
<1> QED BY <1>1, <1>2, BehindStep, TypeInvAlways, PTL DEF Spec

-----------------------------------------------------------------------------
(***************************************************************************)
(* The fields before the first padding.  Until there the index is the bit, *)
(* and what has been stored below the bit is not stored again.             *)
(***************************************************************************)
RightlyStored(f) ==
  stored[f] = IF f \in header.present THEN Layout[header][f] ELSE NotStored

InStep(f) ==
  /\ pc = "next" => IF f < bit THEN RightlyStored(f)
                               ELSE arg_index = bit /\ stored[f] = NotStored
  /\ pc = "done" => RightlyStored(f)

FieldsInStep ==
  WellFormed(header) => \A f \in StoredFields : Unpadded(header, f) => InStep(f)

LEMMA InStepNext ==
  ASSUME TypeInv, Behind, FieldsInStep, [Next]_vars
  PROVE  FieldsInStep'
<1>0. header' = header /\ header \in Headers /\ build \in Builds
  BY DEF Next, ParseUninitialised, InitIterator, SkipAbsent, TakeArg, RunPastLength,
         NoMoreArgs, vars, input, TypeInv, TypeOK
<1> SUFFICES ASSUME WellFormed(header), NEW f \in StoredFields, Unpadded(header, f)
             PROVE  InStep(f)'
  BY <1>0 DEF FieldsInStep, WellFormed, Unpadded
<1> DEFINE i == Bumped(arg_index, arg)
<1>1. /\ InStep(f) /\ f \in Indices /\ f \in Nat
      /\ pc = "next" => max_length = header.len /\ bitmap = header.present
      /\ pc = "next" /\ arg_index = bit => arg = Layout[header][bit]
      /\ bit \in 0 .. arg_index /\ arg_index \in 0 .. 14 /\ arg \in Nat
      /\ stored \in [StoredFields -> Nat \union {NotStored, Garbage}]
  BY DEF FieldsInStep, Behind, TypeInv, InitRead, TypeOK, StoredFields, RATE, CHANNEL,
         DBM_ANTSIGNAL, ANTENNA, Indices
<1>2. ~ Rejected
  BY <1>0, WellFormedAccepted
<1>3. CASE ParseUninitialised
  BY <1>2, <1>3 DEF ParseUninitialised
<1>4. CASE InitIterator
  BY <1>0, <1>1, <1>4 DEF InitIterator, InStep, TypeInv, AtStart
<1>5. CASE SkipAbsent
  <2>1. /\ pc = "next" /\ pc' = "next" /\ bit \notin header.present
        /\ arg_index' = arg_index + 1 /\ bit' = bit + 1 /\ stored' = stored
    BY <1>1, <1>5 DEF SkipAbsent, Shift
  <2>2. CASE f < bit
    BY <1>0, <1>1, <2>1, <2>2 DEF InStep, RightlyStored
  <2>3. CASE f = bit
    BY <1>0, <1>1, <2>1, <2>3 DEF InStep, RightlyStored
  <2>4. CASE f > bit
    BY <1>0, <1>1, <2>1, <2>4 DEF InStep, RightlyStored
  <2> QED BY <1>1, <2>2, <2>3, <2>4
<1>6. CASE TakeArg
  <2>1. /\ pc = "next" /\ pc' = "next" /\ arg_index \in Indices /\ bit \in header.present
        /\ arg_index' = i + 1 /\ bit' = bit + 1 /\ Store(i, arg)
    BY <1>1, <1>6 DEF TakeArg, Shift
  <2>2. i \in Indices /\ i \in Nat /\ arg_index <= i /\ bit \in Nat /\ arg_index \in Nat
    BY <1>1, <2>1, BumpedInTable DEF Indices
  <2>3. stored'[f] = IF f = i THEN arg ELSE stored[f]
    BY <1>1, <2>1 DEF Store
  <2>4. CASE f < bit
    <3>1. f # i
      BY <1>1, <2>2, <2>4
    <3> HIDE DEF i
    <3> QED BY <1>0, <1>1, <2>1, <2>2, <2>3, <2>4, <3>1 DEF InStep, RightlyStored
  <2>5. CASE f >= bit
    <3>1. arg_index = bit /\ arg = Layout[header][bit] /\ stored[f] = NotStored
      BY <1>1, <2>1, <2>2, <2>5 DEF InStep
    <3>2. arg % ArgAlign[bit] = 0
      BY <1>1, <2>1, <2>2, <2>5, <3>1 DEF Unpadded
    <3>3. i = bit
      BY <3>1, <3>2 DEF Bumped
    <3> HIDE DEF i
    <3> QED BY <1>0, <1>1, <2>1, <2>2, <2>3, <2>5, <3>1, <3>3 DEF InStep, RightlyStored
  <2> QED BY <1>1, <2>2, <2>4, <2>5
<1>7. CASE RunPastLength
  <2>1. Behind'
    BY BehindStep
  <2>2. ret' # -EINVAL
    BY <1>0, <2>1 DEF Behind, WellFormed
  <2> QED BY <1>7, <2>2 DEF RunPastLength
<1>8. CASE NoMoreArgs
  <2>1. /\ pc = "next" /\ pc' = "done" /\ arg_index = 14 /\ stored' = stored
    BY <1>1, <1>8 DEF NoMoreArgs, Indices
  <2>2. f < 14 /\ bit \in Nat
    BY <1>1 DEF Indices
  <2> QED BY <1>0, <1>1, <2>1, <2>2 DEF InStep, RightlyStored
<1>9. CASE UNCHANGED vars
  <2>1. pc' = pc /\ bit' = bit /\ arg_index' = arg_index /\ stored' = stored
    BY <1>9 DEF vars
  <2> QED BY <1>0, <1>1, <2>1 DEF InStep, RightlyStored
<1> QED BY <1>3, <1>4, <1>5, <1>6, <1>7, <1>8, <1>9 DEF Next

\* From every well-formed header the slot gets, up to the first padding, exactly the
\* fields the header carries, each from where the radiotap rules put it.
THEOREM FieldsRightUntilPadding == Spec => []FieldsRight
<1>1. Init => FieldsInStep /\ Behind
  BY DEF Init, FieldsInStep, InStep, Behind, EINVAL
<1>2. FieldsInStep => FieldsRight
  BY DEF FieldsInStep, InStep, RightlyStored, FieldsRight
<1> QED BY <1>1, <1>2, InStepNext, BehindStep, TypeInvAlways, PTL DEF Spec
=============================================================================
