------------------------------ MODULE JsonBuffer ------------------------------
(***************************************************************************)
(* generateJson and writePacket: the records of a capture are printed one  *)
(* after another into output_buff, and nothing asks whether they fit.      *)
(* A piece of the text is its kind, and how many characters sprintf wrote. *)
(***************************************************************************)
EXTENDS Integers, Sequences

CONSTANTS
  BufferSize,          \* MAX_OUTPUT_BUFFER_SIZE
  MaxCount,            \* bound on the records of a capture
  OpenLen, CloseLen,   \* of {"packets":[ and of ]}
  RecordSizes,         \* characters of one record, by its numbers, name and addresses
  MaxRecord            \* none has more

ASSUME SizesAssumption ==
  /\ BufferSize \in Nat /\ MaxCount \in Nat
  /\ OpenLen \in Nat /\ CloseLen \in Nat
  /\ MaxRecord \in Nat /\ RecordSizes \subseteq 0 .. MaxRecord

VARIABLES
  pc,
  packet_info_count,   \* cap_info.packet_info_count
  pkt_count,           \* the loop's index
  used,                \* buff_ptr - output_buff
  text                 \* what strlen finds: the pieces written, up to the NUL

vars == <<pc, packet_info_count, pkt_count, used, text>>

Init ==
  /\ pc = "done"
  /\ packet_info_count = 0
  /\ pkt_count = 0
  /\ used = 0
  /\ text = << >>

\* Mutant: the buffer is continued instead of begun anew.
Rewind_Never == UNCHANGED used

Rewind == used' = 0

\* A capture has ended; generateJson begins.
Begin ==
  /\ pc = "done"
  /\ pc' = "open"
  /\ packet_info_count' \in 0 .. MaxCount
  /\ pkt_count' = 0
  /\ Rewind
  /\ text' = << >>

\* sprintf writes n characters and a NUL.
Fits(n) == used + n < BufferSize

Sprintf(piece, n) ==
  /\ Fits(n)
  /\ used' = used + n
  /\ text' = Append(text, piece)

PrintOpen ==
  /\ pc = "open" /\ pc' = "packet"
  /\ Sprintf("open", OpenLen)
  /\ UNCHANGED <<packet_info_count, pkt_count>>

\* Mutant: one iteration too many.
MorePackets_OrEqual == pkt_count <= packet_info_count

MorePackets == pkt_count < packet_info_count

WritePacket ==
  /\ pc = "packet" /\ pc' = "comma"
  /\ MorePackets
  /\ \E n \in RecordSizes : Sprintf("record", n)
  /\ UNCHANGED <<packet_info_count, pkt_count>>

\* Mutant: a comma after the last record too.
LastPacket_Never == FALSE

LastPacket == pkt_count >= packet_info_count - 1

PrintComma ==
  /\ pc = "comma" /\ pc' = "packet"
  /\ IF LastPacket THEN UNCHANGED <<used, text>> ELSE Sprintf("comma", 1)
  /\ pkt_count' = pkt_count + 1
  /\ UNCHANGED packet_info_count

PrintClose ==
  /\ pc = "packet" /\ pc' = "done"
  /\ ~MorePackets
  /\ Sprintf("close", CloseLen)
  /\ UNCHANGED <<packet_info_count, pkt_count>>

NextSizes ==
  CASE pc = "open"   -> {OpenLen}
    [] pc = "packet" -> IF MorePackets THEN RecordSizes ELSE {CloseLen}
    [] pc = "comma"  -> IF LastPacket THEN {} ELSE {1}
    [] OTHER         -> {}

\* What comes next does not fit: sprintf writes past output_buff, over the globals that
\* follow it.  What the program does after that is not defined, and it ends here.
Overrun ==
  /\ \E n \in NextSizes : ~Fits(n)
  /\ pc' = "overrun"
  /\ UNCHANGED <<packet_info_count, pkt_count, used, text>>

Next == Begin \/ PrintOpen \/ WritePacket \/ PrintComma \/ PrintClose \/ Overrun

Spec == Init /\ [][Next]_vars

-----------------------------------------------------------------------------
TypeOK ==
  /\ pc \in {"open", "packet", "comma", "done", "overrun"}
  /\ packet_info_count \in 0 .. MaxCount
  /\ pkt_count \in 0 .. packet_info_count
  /\ used \in Nat
  /\ text \in Seq({"open", "record", "comma", "close"})

\* The NUL included.
EnoughFor(n) == OpenLen + n * (MaxRecord + 1) + CloseLen < BufferSize

\* The text of a capture never leaves output_buff as long as so many of the longest
\* records would fit: no loop index, comma or older answer adds to it.
StaysInBuffer == EnoughFor(packet_info_count) => pc # "overrun"

\* An answer is one JSON object: the records of this capture, all of them, separated by
\* commas, with nothing left of an older answer.
ListOf(n) ==
  IF n = 0 THEN <<"open", "close">>
  ELSE [i \in 1 .. 2 * n + 1 |-> IF i = 1 THEN "open"
                                 ELSE IF i = 2 * n + 1 THEN "close"
                                 ELSE IF i % 2 = 0 THEN "record" ELSE "comma"]

AnswerIsList == pc = "done" /\ text # << >> => text = ListOf(packet_info_count)
-----------------------------------------------------------------------------
\* What a comment says, and the code does not do.  client_main.c:33 "Currently let's
\* just assume we support max 50 packet storage": so many records can be answered with.
SupportsMaxCount == pc # "overrun"
=============================================================================
