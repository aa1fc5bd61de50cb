--------------------------- MODULE JsonBuffer_proofs ---------------------------
(***************************************************************************)
(* Proofs about JsonBuffer: for any buffer, any number of records and any  *)
(* lengths of a record.                                                    *)
(***************************************************************************)
EXTENDS JsonBuffer, TLAPS

\* The loop's index: a record was printed, and its comma is still to come.
InLoop == pc = "comma" => pkt_count < packet_info_count

LEMMA TypeInit == Init => TypeOK /\ InLoop
BY SizesAssumption DEF Init, TypeOK, InLoop

LEMMA TypeStep == ASSUME TypeOK, InLoop, [Next]_vars PROVE TypeOK' /\ InLoop'
<1> USE SizesAssumption DEF TypeOK, InLoop
<1>1. CASE Begin
  BY <1>1 DEF Begin, Rewind
<1>2. CASE PrintOpen
  BY <1>2 DEF PrintOpen, Sprintf
<1>3. CASE WritePacket
  BY <1>3 DEF WritePacket, Sprintf, MorePackets
<1>4. CASE PrintComma
  BY <1>4 DEF PrintComma, Sprintf
<1>5. CASE PrintClose
  BY <1>5 DEF PrintClose, Sprintf
<1>6. CASE Overrun \/ UNCHANGED vars
  BY <1>6 DEF Overrun, vars
<1> QED BY <1>1, <1>2, <1>3, <1>4, <1>5, <1>6 DEF Next

\* The loop never goes past the records of the capture.
THEOREM TypeCorrect == Spec => []TypeOK
<1> QED BY TypeInit, TypeStep, PTL DEF Spec

-----------------------------------------------------------------------------
(* Nothing is printed past the buffer while every record is short enough.  *)

LEMMA MultMonotonic ==
  ASSUME NEW a \in Nat, NEW b \in Nat, NEW k \in Nat, a <= b
  PROVE  a * k <= b * k
<1>1. b * k = a * k + (b - a) * k
  OBVIOUS
<1>2. (b - a) * k >= 0
  OBVIOUS
<1>3. a * k \in Nat /\ b * k \in Nat /\ (b - a) * k \in Int
  OBVIOUS
<1> QED BY <1>1, <1>2, <1>3

\* Each record takes at most MaxRecord characters and a comma.
Room ==
  /\ pc = "open" => used = 0
  /\ pc = "packet" => used <= OpenLen + pkt_count * (MaxRecord + 1)
  /\ pc = "comma" => used <= OpenLen + pkt_count * (MaxRecord + 1) + MaxRecord

LEMMA RoomStep ==
  ASSUME TypeOK, InLoop, Room, StaysInBuffer, [Next]_vars
  PROVE  Room' /\ StaysInBuffer'
<1> USE SizesAssumption
<1> DEFINE cost(n) == n * (MaxRecord + 1)
<1>1. \A n \in Nat : cost(n) \in Nat /\ cost(n + 1) = cost(n) + MaxRecord + 1
  OBVIOUS
<1>2. \A n, k \in Nat : n <= k => cost(n) <= cost(k)
  BY MultMonotonic
<1>3. cost(0) = 0 /\ \A n : EnoughFor(n) <=> OpenLen + cost(n) + CloseLen < BufferSize
  BY DEF EnoughFor
<1>4. /\ pc = "packet" => used <= OpenLen + cost(pkt_count)
      /\ pc = "comma" => used <= OpenLen + cost(pkt_count) + MaxRecord
  BY DEF Room
<1>5. pkt_count \in Nat /\ packet_info_count \in Nat
        /\ pkt_count <= packet_info_count /\ used \in Nat
  BY DEF TypeOK
<1>6. Room' <=> /\ pc' = "open" => used' = 0
                /\ pc' = "packet" => used' <= OpenLen + cost(pkt_count')
                /\ pc' = "comma" => used' <= OpenLen + cost(pkt_count') + MaxRecord
  BY DEF Room
<1> HIDE DEF cost
<1>7. CASE Begin
  <2>1. pc' = "open" /\ used' = 0
    BY <1>7 DEF Begin, Rewind
  <2> QED BY <1>6, <2>1 DEF StaysInBuffer
<1>8. CASE PrintOpen
  <2>1. used' = OpenLen /\ pc' = "packet" /\ pkt_count' = pkt_count
    BY <1>8 DEF PrintOpen, Sprintf, Room
  <2> QED BY <1>1, <1>5, <1>6, <2>1 DEF StaysInBuffer
<1>9. CASE WritePacket
  <2>1. PICK n \in RecordSizes : used' = used + n
    BY <1>9 DEF WritePacket, Sprintf
  <2>2. pc = "packet" /\ pc' = "comma" /\ pkt_count' = pkt_count
    BY <1>9 DEF WritePacket
  <2>3. n \in Nat /\ n <= MaxRecord
    OBVIOUS
  <2> QED BY <1>1, <1>4, <1>5, <1>6, <2>1, <2>2, <2>3 DEF StaysInBuffer
<1>10. CASE PrintComma
  <2>1. pc = "comma" /\ pc' = "packet" /\ pkt_count' = pkt_count + 1
    BY <1>10 DEF PrintComma
  <2>2. used' = used \/ used' = used + 1
    BY <1>10 DEF PrintComma, Sprintf
  <2> QED BY <1>1, <1>4, <1>5, <1>6, <2>1, <2>2 DEF StaysInBuffer
<1>11. CASE PrintClose
  BY <1>6, <1>11 DEF PrintClose, StaysInBuffer
<1>12. CASE Overrun
  <2>1. Room'
    BY <1>6, <1>12 DEF Overrun
  <2>2. packet_info_count' = packet_info_count
    BY <1>12 DEF Overrun
  <2>3. ASSUME EnoughFor(packet_info_count) PROVE FALSE
    <3>1. PICK n \in NextSizes : used + n >= BufferSize
      BY <1>5, <1>12 DEF Overrun, Fits, NextSizes
    <3>2. OpenLen + cost(packet_info_count) + CloseLen < BufferSize
      BY <1>3, <2>3
    <3>3. CASE pc = "open"
      BY <1>1, <1>5, <3>1, <3>2, <3>3 DEF NextSizes, Room
    <3>4. CASE pc = "packet" /\ MorePackets
      <4>1. n \in RecordSizes /\ n \in Nat /\ n <= MaxRecord
        BY <3>1, <3>4 DEF NextSizes
      <4>2. pkt_count + 1 \in Nat /\ pkt_count + 1 <= packet_info_count
        BY <1>5, <3>4 DEF MorePackets
      <4>3. cost(pkt_count + 1) <= cost(packet_info_count)
        BY <1>2, <1>5, <4>2
      <4> QED BY <1>1, <1>4, <1>5, <3>1, <3>2, <3>4, <4>1, <4>3
    <3>5. CASE pc = "packet" /\ ~MorePackets
      <4>1. n = CloseLen
        BY <3>1, <3>5 DEF NextSizes
      <4>2. cost(pkt_count) <= cost(packet_info_count)
        BY <1>2, <1>5
      <4> QED BY <1>1, <1>4, <1>5, <3>1, <3>2, <3>5, <4>1, <4>2
    <3>6. CASE pc = "comma"
      <4>1. n = 1 /\ pkt_count < packet_info_count - 1
        BY <1>5, <3>1, <3>6 DEF NextSizes, LastPacket
      <4>2. cost(pkt_count + 1) <= cost(packet_info_count)
        BY <1>2, <1>5, <4>1
      <4> QED BY <1>1, <1>4, <1>5, <3>1, <3>2, <3>6, <4>1, <4>2
    <3> QED BY <3>1, <3>3, <3>4, <3>5, <3>6 DEF NextSizes, TypeOK
  <2> QED BY <2>1, <2>2, <2>3 DEF StaysInBuffer, EnoughFor
<1>13. CASE UNCHANGED vars
  BY <1>13 DEF vars, Room, StaysInBuffer, EnoughFor
<1> QED BY <1>7, <1>8, <1>9, <1>10, <1>11, <1>12, <1>13 DEF Next

\* For every length of a record, of the brackets and of the buffer, and any number of
\* records: output_buff is never overrun by a capture it is large enough for.
THEOREM InBuffer == Spec => []StaysInBuffer
<1>1. Init => TypeOK /\ InLoop /\ Room /\ StaysInBuffer
  BY TypeInit DEF Init, Room, StaysInBuffer
<1>2. TypeOK /\ InLoop /\ Room /\ StaysInBuffer /\ [Next]_vars
      => (TypeOK /\ InLoop /\ Room /\ StaysInBuffer)'
  BY RoomStep, TypeStep
<1> QED BY <1>1, <1>2, PTL DEF Spec

-----------------------------------------------------------------------------
(* The text is a list of the records.                                      *)

Alternates(s) ==
  /\ 1 <= Len(s) /\ s[1] = "open"
  /\ \A i \in 2 .. Len(s) : s[i] = IF i % 2 = 0 THEN "record" ELSE "comma"

\* What has been printed, by the loop's index.
SoFar ==
  /\ pc = "open" => text = << >> /\ pkt_count = 0
  /\ pc = "packet" =>
       /\ Alternates(text)
       /\ Len(text) = IF pkt_count > 0 /\ pkt_count = packet_info_count
                      THEN 2 * pkt_count ELSE 2 * pkt_count + 1
  /\ pc = "comma" => Alternates(text) /\ Len(text) = 2 * pkt_count + 2

LEMMA AlternatesAppend ==
  ASSUME NEW s \in Seq({"open", "record", "comma", "close"}), Alternates(s),
         NEW p \in {"record", "comma"},
         p = IF (Len(s) + 1) % 2 = 0 THEN "record" ELSE "comma"
  PROVE  Alternates(Append(s, p)) /\ Len(Append(s, p)) = Len(s) + 1
BY DEF Alternates

Pieces == {"open", "record", "comma", "close"}

LEMMA AppendAt ==
  ASSUME NEW s \in Seq(Pieces), NEW p \in Pieces
  PROVE  /\ Append(s, p) \in Seq(Pieces) /\ Len(Append(s, p)) = Len(s) + 1
         /\ \A i \in 1 .. Len(s) : Append(s, p)[i] = s[i]
         /\ Append(s, p)[Len(s) + 1] = p
OBVIOUS

LEMMA ListStep ==
  ASSUME TypeOK, InLoop, SoFar, AnswerIsList, [Next]_vars
  PROVE  SoFar' /\ AnswerIsList'
<1> USE SizesAssumption
<1>1. CASE Begin \/ Overrun \/ UNCHANGED vars
  BY <1>1 DEF Begin, Overrun, vars, SoFar, AnswerIsList
<1>2. CASE PrintOpen
  <2>1. text' = <<"open">> /\ pc' = "packet" /\ UNCHANGED <<pkt_count, packet_info_count>>
    BY <1>2 DEF PrintOpen, Sprintf, SoFar
  <2>2. pkt_count = 0
    BY <1>2 DEF PrintOpen, SoFar
  <2>3. Alternates(text') /\ Len(text') = 1
    BY <2>1 DEF Alternates
  <2> QED BY <2>1, <2>2, <2>3 DEF SoFar, AnswerIsList
<1>3. CASE WritePacket
  <2>1. /\ pc = "packet" /\ pc' = "comma" /\ text' = Append(text, "record")
        /\ pkt_count < packet_info_count /\ pkt_count' = pkt_count
    BY <1>3 DEF WritePacket, Sprintf, MorePackets
  <2>2. Alternates(text) /\ Len(text) = 2 * pkt_count + 1
    BY <2>1 DEF SoFar, TypeOK
  <2>3. "record" = IF (Len(text) + 1) % 2 = 0 THEN "record" ELSE "comma"
    BY <2>2 DEF TypeOK
  <2>4. Alternates(text') /\ Len(text') = 2 * pkt_count + 2
    BY <2>1, <2>2, <2>3, AlternatesAppend DEF TypeOK
  <2> QED BY <2>1, <2>4 DEF SoFar, AnswerIsList
<1>4. CASE PrintComma
  <2>1. /\ pc = "comma" /\ pc' = "packet" /\ pkt_count' = pkt_count + 1
        /\ packet_info_count' = packet_info_count /\ pkt_count < packet_info_count
    BY <1>4 DEF PrintComma, InLoop
  <2>2. Alternates(text) /\ Len(text) = 2 * pkt_count + 2
    BY <2>1 DEF SoFar
  <2>3. CASE LastPacket
    <3>1. text' = text /\ pkt_count' = packet_info_count' /\ pkt_count' > 0
      BY <1>4, <2>1, <2>3 DEF PrintComma, LastPacket, TypeOK
    <3> QED BY <2>1, <2>2, <3>1 DEF SoFar, AnswerIsList, TypeOK
  <2>4. CASE ~LastPacket
    <3>1. text' = Append(text, "comma") /\ pkt_count' # packet_info_count'
      BY <1>4, <2>1, <2>4 DEF PrintComma, Sprintf, LastPacket, TypeOK
    <3>2. "comma" = IF (Len(text) + 1) % 2 = 0 THEN "record" ELSE "comma"
      BY <2>2 DEF TypeOK
    <3>3. Alternates(text') /\ Len(text') = 2 * pkt_count + 3
      BY <2>2, <3>1, <3>2, AlternatesAppend DEF TypeOK
    <3> QED BY <2>1, <3>1, <3>3 DEF SoFar, AnswerIsList, TypeOK
  <2> QED BY <2>3, <2>4
<1>5. CASE PrintClose
  <2>1. /\ pc = "packet" /\ pc' = "done" /\ text' = Append(text, "close")
        /\ UNCHANGED <<pkt_count, packet_info_count>> /\ pkt_count = packet_info_count
    BY <1>5 DEF PrintClose, Sprintf, MorePackets, TypeOK
  <2> DEFINE n == packet_info_count
  <2>0. n \in Nat /\ text \in Seq(Pieces) /\ "close" \in Pieces
    BY DEF TypeOK, Pieces
  <2>2. Alternates(text) /\ Len(text) = IF n > 0 THEN 2 * n ELSE 1
    <3>1. pc = "packet" /\ pkt_count = n
      BY <2>1
    <3>2. Alternates(text) /\ Len(text) = IF n > 0 THEN 2 * n ELSE 2 * n + 1
      BY <3>1 DEF SoFar
    <3> HIDE DEF n
    <3>3. n = 0 => 2 * n + 1 = 1
      OBVIOUS
    <3> QED BY <2>0, <3>2, <3>3
  <2>3. /\ text' \in Seq(Pieces) /\ Len(text') = Len(text) + 1
        /\ \A i \in 1 .. Len(text) : text'[i] = text[i]
        /\ text'[Len(text) + 1] = "close"
    BY ONLY <2>0, <2>1, AppendAt
  <2>4. text' = ListOf(n)
    <3>1. CASE n = 0
      <4>1. Len(text) = 1 /\ text[1] = "open"
        BY <2>0, <2>2, <3>1 DEF Alternates
      <4>2. text' \in Seq(Pieces) /\ Len(text') = 2 /\ text'[1] = "open" /\ text'[2] = "close"
        BY <2>3, <4>1
      <4>3. text' = <<"open", "close">>
        BY <4>2
      <4> QED BY <3>1, <4>3 DEF ListOf
    <3>2. CASE n > 0
      <4>1. text' \in Seq(Pieces) /\ Len(text') = 2 * n + 1
        BY <2>0, <2>2, <2>3, <3>2
      <4>2. \A i \in 1 .. 2 * n + 1 :
              text'[i] = IF i = 1 THEN "open"
                         ELSE IF i = 2 * n + 1 THEN "close"
                         ELSE IF i % 2 = 0 THEN "record" ELSE "comma"
        BY <2>0, <2>2, <2>3, <3>2 DEF Alternates
      <4> QED BY <3>2, <4>1, <4>2 DEF ListOf
    <3> QED BY <2>0, <3>1, <3>2
  <2> QED BY <2>1, <2>4 DEF SoFar, AnswerIsList
<1> QED BY <1>1, <1>2, <1>3, <1>4, <1>5 DEF Next

\* Whatever the number of records: all of them, each once, separated by commas.
THEOREM AnswersAreLists == Spec => []AnswerIsList
<1>1. Init => SoFar /\ AnswerIsList
  BY DEF Init, SoFar, AnswerIsList
<1> QED BY <1>1, TypeInit, TypeStep, ListStep, PTL DEF Spec
=============================================================================
