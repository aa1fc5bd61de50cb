---------------------------- MODULE ByteOrder_proofs ----------------------------
(***************************************************************************)
(* Proofs about ByteOrder, for every system, every width and every number. *)
(***************************************************************************)
EXTENDS ByteOrder, TLAPS

LEMMA SwabFacts ==
  ASSUME NEW S, NEW x \in Seq(S)
  PROVE  /\ swab(x) \in Seq(S) /\ Len(swab(x)) = Len(x)
         /\ \A i \in 1 .. Len(x) : swab(x)[i] = x[Len(x) + 1 - i]
BY DEF swab

\* Swapping twice gives the number back.
LEMMA SwabTwice ==
  ASSUME NEW S, NEW x \in Seq(S)
  PROVE  swab(swab(x)) = x
<1>1. /\ swab(x) \in Seq(S) /\ Len(swab(x)) = Len(x)
      /\ \A i \in 1 .. Len(x) : swab(x)[i] = x[Len(x) + 1 - i]
  BY SwabFacts
<1>2. /\ swab(swab(x)) \in Seq(S) /\ Len(swab(swab(x))) = Len(x)
      /\ \A i \in 1 .. Len(x) : swab(swab(x))[i] = swab(x)[Len(x) + 1 - i]
  BY <1>1, SwabFacts
<1>3. ASSUME NEW i \in 1 .. Len(x) PROVE swab(swab(x))[i] = x[i]
  BY <1>1, <1>2
<1> QED BY <1>2, <1>3

LEMMA LoadCases == ASSUME NEW mem
                   PROVE  /\ Load("big", mem) = mem
                          /\ Load("little", mem) = swab(mem)
BY DEF Load, swab

\* Whatever the system, its conversions are written for the order of its machine.
LEMMA TableOrderRight ==
  ASSUME NEW b \in AllBuilds
  PROVE  TableOrder(b) = b.order /\ b.order \in Orders
BY DEF AllBuilds, Apple, Orders, TableOrder, BYTE_ORDER

\* What le_to_cpu makes of a loaded field is, on every system, the number whose least
\* significant byte comes first in memory, as the fields of a radiotap header are
\* written; be_to_cpu the number whose most significant byte does.
THEOREM FieldsReadRight ==
  ASSUME NEW b \in AllBuilds, NEW S, NEW mem \in Seq(S)
  PROVE  /\ le_to_cpu(b, Load(b.order, mem)) = swab(mem)
         /\ be_to_cpu(b, Load(b.order, mem)) = mem
<1>1. TableOrder(b) = b.order /\ b.order \in {"little", "big"}
  BY TableOrderRight DEF Orders
<1>2. swab(swab(mem)) = mem
  BY SwabTwice
<1> QED BY <1>1, <1>2, LoadCases DEF le_to_cpu, be_to_cpu

\* htons, ntohs and ntohl, although each is defined by the conversion of the other
\* direction or is, put into memory and take out of it the most significant byte first.
THEOREM NetworkOrder ==
  ASSUME NEW b \in AllBuilds, NEW S, NEW x \in Seq(S)
  PROVE  /\ Load(b.order, htons(b, x)) = x
         /\ ntohs(b, Load(b.order, x)) = x
         /\ ntohl(b, Load(b.order, x)) = x
<1>1. TableOrder(b) = b.order /\ b.order \in {"little", "big"}
  BY TableOrderRight DEF Orders
<1>2. swab(swab(x)) = x
  BY SwabTwice
<1> QED BY <1>1, <1>2, LoadCases DEF htons, ntohs, ntohl, cpu_to_be, be_to_cpu

\* htonl keeps 16 bits wherever it swaps: there it is right for 0 only.  main gives it
\* INADDR_ANY, which is 0.
THEOREM HtonlRightForZero ==
  ASSUME NEW b \in AllBuilds, b.order = "little", NEW x \in [1 .. 4 -> 0 .. 255]
  PROVE  Load(b.order, htonl(b, x)) = x <=> x = <<0, 0, 0, 0>>
<1>1. TableOrder(b) = "little"
  BY TableOrderRight
<1>2. cpu_to_be(b, <<x[3], x[4]>>) = <<x[4], x[3]>>
  BY <1>1 DEF cpu_to_be, be_to_cpu, swab
<1>3. htonl(b, x) = <<0, 0, x[4], x[3]>>
  BY <1>1, <1>2 DEF htonl, Keeps16
<1>4. Load(b.order, htonl(b, x)) = <<x[3], x[4], 0, 0>>
  BY <1>3 DEF Load
<1>5. x = <<x[1], x[2], x[3], x[4]>>
  OBVIOUS
<1> QED BY <1>4, <1>5

\* The conversions of the system's own names are right wherever the header finds the
\* order of the machine, which it does not on a little-endian Apple.
THEOREM OwnNames ==
  ASSUME NEW b \in AllBuilds, NEW S, NEW x \in Seq(S),
         b.system # "apple" \/ b.order = "big"
  PROVE  Load(b.order, htobe(b, x)) = x /\ Load(b.order, htole(b, x)) = swab(x)
<1>1. BYTE_ORDER(b) = b.order /\ b.order \in {"little", "big"}
  BY DEF BYTE_ORDER, AllBuilds, Apple, Orders
<1>2. swab(swab(x)) = x
  BY SwabTwice
<1> QED BY <1>1, <1>2, LoadCases DEF htobe, htole
=============================================================================
