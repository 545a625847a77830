---------------------------- MODULE MCArrivalScores ----------------------------
(* Two messages and three receiving peers, timestamps 1 and 2: every      *)
(* table with at most one row per (message, peer), so a message can have  *)
(* zero to three receivers and any pattern of equal timestamps.  Type 4   *)
(* stands for the non-gossip rows the filter drops.  n = 6 gives          *)
(* per_type = 2 and one pick by peer count and one by spread per type;    *)
(* the 50- and 10-receiver thresholds become 2 and 2.                     *)
EXTENDS ArrivalScores

CONSTANTS h1, h2, a, b, c

MCHashOrder == <<h1, h2>>
MCPeerOrder == <<a, b, c>>
=============================================================================
