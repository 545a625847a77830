----------------------------- MODULE FeatureBits -----------------------------
(***************************************************************************)
(* decode_features of src/gossip_tomography/inspect_raw.py: a BOLT-9       *)
(* feature bitmap (a byte string) read as one big-endian integer, whose    *)
(* set bits are walked from bit 0 upwards and written into a mapping       *)
(* name -> "compulsory" | "optional".  Operators only: FeatureDecoder     *)
(* checks them against a bitwise reference, FingerprintIndex uses them    *)
(* for the names of a fingerprint group and the prevalence counters.      *)
(***************************************************************************)
EXTENDS Naturals, Sequences, SequencesExt, TLC

(* FEATURE_BITS: each even/odd pair shares one name; the table keyed by    *)
(* pair index b \div 2.                                                    *)
PairName ==
    (0 :> "data_loss_protect") @@ (2 :> "upfront_shutdown_script")
    @@ (3 :> "gossip_queries") @@ (4 :> "tlv_onion")
    @@ (5 :> "gossip_queries_ex") @@ (6 :> "static_remote_key")
    @@ (7 :> "payment_secret") @@ (8 :> "basic_mpp")
    @@ (9 :> "large_channels") @@ (10 :> "anchor_outputs")
    @@ (11 :> "anchors_zero_fee_htlc_tx") @@ (12 :> "route_blinding")
    @@ (13 :> "shutdown_anysegwit") @@ (14 :> "dual_fund")
    @@ (22 :> "channel_type") @@ (23 :> "scid_alias")
    @@ (24 :> "payment_metadata") @@ (25 :> "zero_conf")

FEATURE_BITS == [b \in {2 * p : p \in DOMAIN PairName}
                         \cup {2 * p + 1 : p \in DOMAIN PairName}
                    |-> PairName[b \div 2]]

(* FEATURE_BITS.get(bit, f"unknown_bit_{bit}") *)
FeatureName(bit) ==
    IF bit \in DOMAIN FEATURE_BITS THEN FEATURE_BITS[bit]
                                   ELSE "unknown_bit_" \o ToString(bit)

(* Mutants of FeatureKind: the parity test inverted; BOLT's older word   *)
(* "mandatory" in place of the code's "compulsory".                      *)
FeatureKindSwapped(bit) == IF bit % 2 = 1 THEN "compulsory" ELSE "optional"
FeatureKindMandatory(bit) == IF bit % 2 = 0 THEN "mandatory" ELSE "optional"

FeatureKind(bit) == IF bit % 2 = 0 THEN "compulsory" ELSE "optional"

(* int.from_bytes(feat_bytes, "big") if feat_bytes else 0 *)
FromBytesBig(bytes) == FoldLeft(LAMBDA acc, byte : acc * 256 + byte, 0, bytes)

NoFeatures == [n \in {} |-> "optional"]

(* The while val > 0 loop: test the low bit, record it (a later bit of the *)
(* same name overwrites the entry), shift right, count the bit index.      *)
RECURSIVE DecodeLoop(_, _, _)
DecodeLoop(val, bit, features) ==
    IF val > 0
    THEN DecodeLoop(val \div 2, bit + 1,
                    IF val % 2 = 1
                    THEN (FeatureName(bit) :> FeatureKind(bit)) @@ features
                    ELSE features)
    ELSE features

decode_features(featBytes) == DecodeLoop(FromBytesBig(featBytes), 0, NoFeatures)

-----------------------------------------------------------------------------
(* Reference: the set bits of a bitmap read position by position, bit 0    *)
(* being the least significant bit of the last byte (spec 4.2).            *)
IsSet(byte, j) == (byte \div (2 ^ j)) % 2 = 1

SetBitsOf(bytes) ==
    { 8 * (Len(bytes) - p[1]) + p[2] :
        p \in { q \in (1..Len(bytes)) \X (0..7) : IsSet(bytes[q[1]], q[2]) } }
=============================================================================
