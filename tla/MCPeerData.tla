----------------------------- MODULE MCPeerData -----------------------------
EXTENDS PeerData

CONSTANTS p1, p2, p3, p4, p5

MCPeerOrder == <<p1, p2, p3, p4, p5>>

(* Two IPv4 hosts of one /24 network. *)
v4a   == [fam |-> "v4", net |-> 1, id |-> 1]
v4b   == [fam |-> "v4", net |-> 1, id |-> 2]
v6a   == [fam |-> "v6", net |-> 1, id |-> 1]
onion == [fam |-> "onion", net |-> 0, id |-> 0]
dns   == [fam |-> "dns", net |-> 0, id |-> 0]

MCHosts == {v4a, v4b, v6a, onion, dns}

(* The node list writes every address as host:port, IPv6 in brackets. *)
Addr(h) == [host |-> h, bracketed |-> h.fam = "v6", port |-> TRUE]

(* No address at all; onion and DNS before an IPv4; IPv6 before IPv4; a   *)
(* second IPv4 of the same /24.  Five peers can then form a /24 group and  *)
(* an IPv6 group of sizes 3 and 2, or 2 and 2.                             *)
MCNodeInfos ==
    { [alias |-> "lnt",   addresses |-> <<>>],
      [alias |-> "",      addresses |-> <<Addr(onion), Addr(dns), Addr(v4a)>>],
      [alias |-> "plain", addresses |-> <<Addr(v6a), Addr(v4b)>>],
      [alias |-> "",      addresses |-> <<Addr(v4b)>>] }

(* avg_arrival_pct, top5_pct and messages_seen on both sides of the       *)
(* thresholds (30, MIN_SEEN).                                              *)
MCScoreRows ==
    { [avg |-> 1, top5_pct |-> 31, messages_seen |-> 2],
      [avg |-> 1, top5_pct |-> 30, messages_seen |-> 2],
      [avg |-> 2, top5_pct |-> 31, messages_seen |-> 1],
      [avg |-> 2, top5_pct |-> 31, messages_seen |-> 2] }

MCKnownHubs == [q \in {p1} |-> "downtown_core"]
=============================================================================
