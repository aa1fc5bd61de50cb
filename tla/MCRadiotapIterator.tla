-------------------------- MODULE MCRadiotapIterator --------------------------
(* Instances of RadiotapIterator for TLC. *)
EXTENDS RadiotapIterator

CONSTANTS Versions, Lengths, MoreWords,
          Bits            \* the bits of it_present that are varied

\* The Raspberry Pi, and a machine of the other order.
MCBuilds == [system : {"linux"}, order : Orders]

\* The number of further words matters only where the bitmap announces one, and what
\* else there is in a header only if the version is 0.
MCHeaders ==
  {h \in [version : Versions, len : Lengths, present : SUBSET Bits, more_words : MoreWords] :
     /\ h.more_words = 0 \/ ExtendBit \in h.present
     /\ h.version = 0 \/ (h.len = 18 /\ h.more_words = 0)}

MCLayout ==
  [h \in MCHeaders |->
    LET end[b \in 0 .. 14] ==
          IF b = 0 THEN ArgsStart(h)
          ELSE IF b - 1 \in h.present
               THEN Padded(end[b - 1], b - 1) + ArgLength[b - 1]
               ELSE end[b - 1]
    IN  end]
=============================================================================
