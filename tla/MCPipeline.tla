------------------------------ MODULE MCPipeline -------------------------------
(* Three peers, three IPs and batches of two: one full and one partial     *)
(* batch when all IPs are distinct, shared IPs when two peers have one.    *)
(* One run of each script, in any interleaving, with the server reading   *)
(* at any time; the initial peers.json may already carry locations, which *)
(* stands for an earlier geolocate.py run.                                *)
EXTENDS Pipeline, TLC

CONSTANTS p1, p2, p3, i1, i2, i3

MCPeerOrder == <<p1, p2, p3>>
MCIPs == {i1, i2, i3}

Symmetry == Permutations(MCIPs)
=============================================================================
