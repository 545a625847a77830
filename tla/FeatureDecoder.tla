---------------------------- MODULE FeatureDecoder ----------------------------
(***************************************************************************)
(* A caller of decode_features (inspect_raw.py): each step decodes one     *)
(* feature bitmap, so TLC compares the shift loop with the bitwise         *)
(* reference SetBitsOf over every bitmap up to MaxLen bytes.               *)
(***************************************************************************)
EXTENDS FeatureBits

CONSTANTS
    ByteVals,   \* the byte values a bitmap is built from
    MaxLen      \* the longest bitmap (flen) enumerated

ASSUME ByteVals \subseteq 0..255 /\ MaxLen \in Nat

Bitmaps == UNION { [1..n -> ByteVals] : n \in 0..MaxLen }

VARIABLES input, decoded
vars == <<input, decoded>>

Init == input = <<>> /\ decoded = decode_features(<<>>)

(* One call of decode_features on a bitmap taken off the wire. *)
Decode == \E bytes \in Bitmaps :
            /\ input' = bytes
            /\ decoded' = decode_features(bytes)

Spec == Init /\ [][Decode]_vars

TypeOK ==
    /\ input \in Bitmaps
    /\ DOMAIN decoded \subseteq { FeatureName(b) : b \in 0..(8 * MaxLen) }
    /\ \A n \in DOMAIN decoded : decoded[n] \in {"compulsory", "optional"}

(* The names reported are exactly the names of the set bits, and each    *)
(* name has the level of its highest set bit: the shift loop walks the     *)
(* big-endian integer from bit 0 up and features[name] = kind overwrites,  *)
(* so when both bits of a pair are set the odd (optional) one is reported. *)
DecodeMatchesBits ==
    LET S == SetBitsOf(input)
        top(n) == CHOOSE b \in S : /\ FeatureName(b) = n
                                   /\ \A c \in S : FeatureName(c) = n => c <= b
    IN /\ DOMAIN decoded = { FeatureName(b) : b \in S }
       /\ \A n \in DOMAIN decoded :
             decoded[n] = IF top(n) % 2 = 1 THEN "optional" ELSE "compulsory"
=============================================================================
