------------------------------- MODULE PeerData -------------------------------
(***************************************************************************)
(* src/gossip_tomography/preprocess.py, the peer half of main (steps 2, 4  *)
(* and 6): load_nodes with is_clearnet and extract_ip, build_peer_data,    *)
(* build_colocation_suspects and build_first_responder_leaks.              *)
(*                                                                         *)
(* An address string is abstracted to its host and how it is written: in   *)
(* brackets or not, with a ":port" or not.  A host is an IPv4 address      *)
(* (its /24 network and host part), an IPv6 address, an onion name or a    *)
(* DNS name.  A dict is an ordered sequence of entries, as Python keeps    *)
(* insertion order.  The score rows are the input of build_peer_data:      *)
(* their averages are abstracted to a small ordered set and their rounding *)
(* to 4 digits is left out, since it keeps the order of the rows.          *)
(***************************************************************************)
EXTENDS Naturals, Sequences, SequencesExt, FiniteSets, FiniteSetsExt

CONSTANTS
    PeerOrder,    \* pubkeys, in the order of the scores frame
    Hosts,        \* host values: [fam, net, id]
    NodeInfos,    \* the "info" entries the node list can hold for a pubkey
    Absent,       \* pubkey missing from the node list
    ScoreRows,    \* [avg, top5_pct, messages_seen] values of a scores row
    KNOWN_HUBS,   \* pubkey -> community
    MIN_SEEN,     \* messages_seen > 10000
    MaxListed,    \* group[:10]
    MaxSuspects   \* suspects[:50]

Pubkeys == Range(PeerOrder)
NoIP == [fam |-> "none", net |-> 0, id |-> 0]

-----------------------------------------------------------------------------
(* is_clearnet / extract_ip *)

(* The string ip_address() is given: addr[1:idx] inside brackets,         *)
(* addr[:idx] before the last ":", or the whole string.  Without a port,   *)
(* the last ":" of an unbracketed IPv6 address is inside the address.      *)
Stripped(a) ==
    IF a.bracketed \/ a.port THEN a.host
    ELSE IF a.host.fam = "v6" THEN [a.host EXCEPT !.fam = "v6cut"]
    ELSE a.host

(* ip_address(addr) does not raise *)
IsClearnet(a) == Stripped(a).fam \in {"v4", "v6"}

(* Mutant of ExtractIP: addr[0:idx], the opening bracket kept. *)
ExtractIPKeepBracket(a) ==
    IF a.bracketed THEN [a.host EXCEPT !.fam = "bracketed"]
    ELSE IF a.port \/ a.host.fam = "v6" THEN Stripped(a)
    ELSE NoIP

(* extract_ip: None when there is no ":" to cut at. *)
ExtractIP(a) ==
    IF a.bracketed THEN a.host
    ELSE IF a.port \/ a.host.fam = "v6" THEN Stripped(a)
    ELSE NoIP

-----------------------------------------------------------------------------
(* load_nodes *)

AddressesOf(info) == IF info = Absent THEN <<>> ELSE info.addresses
AliasOf(info) == IF info = Absent THEN "" ELSE info.alias

(* Mutant of FirstClearnet: the loop without its break keeps the last. *)
LastClearnet(addrs) ==
    LET idx == { i \in DOMAIN addrs : IsClearnet(addrs[i]) } IN
    IF idx = {} THEN NoIP ELSE ExtractIP(addrs[Max(idx)])

(* for addr in addresses: if is_clearnet(addr): ...; break *)
FirstClearnet(addrs) ==
    LET idx == { i \in DOMAIN addrs : IsClearnet(addrs[i]) } IN
    IF idx = {} THEN NoIP ELSE ExtractIP(addrs[Min(idx)])

(* Mutant of IsTorOnly: any() for all(). *)
IsTorOnlyAny(addrs) ==
    IF addrs = <<>> THEN TRUE ELSE \E i \in DOMAIN addrs : addrs[i].host.fam = "onion"

(* all("onion" in a for a in addresses) if addresses else True *)
IsTorOnly(addrs) ==
    IF addrs = <<>> THEN TRUE ELSE \A i \in DOMAIN addrs : addrs[i].host.fam = "onion"

(* node_map[pubkey] for a pubkey of the node list *)
NodeEntry(info) ==
    [alias       |-> AliasOf(info),
     clearnet_ip |-> FirstClearnet(AddressesOf(info)),
     is_tor_only |-> IsTorOnly(AddressesOf(info))]

LoadNodes(nodes) ==
    [pk \in { q \in DOMAIN nodes : nodes[q] # Absent } |-> NodeEntry(nodes[pk])]

-----------------------------------------------------------------------------
(* build_peer_data *)

(* KNOWN_HUBS.get(pubkey, "unknown"), then the LNT alias rule. *)
Community(pk, alias) ==
    IF pk \in DOMAIN KNOWN_HUBS THEN KNOWN_HUBS[pk]
    ELSE IF alias = "lnt" THEN "lnt_periphery"
    ELSE "unknown"

(* node_map.get(pubkey, {}) and its defaults *)
PeerEntry(pk, row, node_map) ==
    LET known == pk \in DOMAIN node_map
        alias == IF known THEN node_map[pk].alias ELSE ""
    IN [pubkey          |-> pk,
        alias           |-> IF alias = "" THEN "pubkey_prefix" ELSE alias,
        ip              |-> IF known THEN node_map[pk].clearnet_ip ELSE NoIP,
        is_tor          |-> IF known THEN node_map[pk].is_tor_only ELSE TRUE,
        community       |-> Community(pk, alias),
        avg_arrival_pct |-> row.avg,
        top5_pct        |-> row.top5_pct,
        messages_seen   |-> row.messages_seen]

BuildPeerData(scores, node_map) ==
    [k \in DOMAIN scores |-> PeerEntry(scores[k].recv_peer, scores[k], node_map)]

-----------------------------------------------------------------------------
(* list.sort(key=..., reverse=...) is stable: x goes after every element   *)
(* it does not sort strictly before.                                       *)
StableInsert(sorted, x, field, desc) ==
    LET after(e) == IF desc THEN e[field] >= x[field] ELSE e[field] <= x[field]
        k == Len(SelectSeq(sorted, after))
    IN InsertAt(sorted, k + 1, x)

StableSort(seq, field, desc) ==
    FoldLeft(LAMBDA acc, x : StableInsert(acc, x, field, desc), <<>>, seq)

-----------------------------------------------------------------------------
(* build_colocation_suspects *)

(* ".".join(ip.split(".")[:3]): the /24 of an IPv4 address; an address    *)
(* without dots is its own prefix.                                         *)
Prefix(ip) == IF ip.fam = "v4" THEN [ip EXCEPT !.id = 0] ELSE ip

(* ip_groups, in the order prefixes are first met, members in dict order. *)
IpGroups(peers) ==
    LET located == SelectSeq(peers, LAMBDA e : e.ip # NoIP)
        order   == FoldLeft(LAMBDA acc, e : IF Contains(acc, Prefix(e.ip)) THEN acc
                                            ELSE Append(acc, Prefix(e.ip)),
                            <<>>, located)
    IN [k \in DOMAIN order |->
          [prefix |-> order[k],
           group  |-> [j \in DOMAIN SelectSeq(located, LAMBDA e : Prefix(e.ip) = order[k]) |->
                         SelectSeq(located, LAMBDA e : Prefix(e.ip) = order[k])[j].pubkey]]]

(* Mutant of IsSuspectGroup: a pair is not enough. *)
IsSuspectGroupOffByOne(g) == Len(g.group) > 2

(* if len(group) >= 2 *)
IsSuspectGroup(g) == Len(g.group) >= 2

ColocationSuspects(peers) ==
    LET found == SelectSeq(IpGroups(peers), IsSuspectGroup)
        entries == [k \in DOMAIN found |->
                      [prefix |-> found[k].prefix,
                       peers  |-> SubSeq(found[k].group, 1, Min({MaxListed, Len(found[k].group)})),
                       count  |-> Len(found[k].group)]]
        sorted == StableSort(entries, "count", TRUE)
    IN SubSeq(sorted, 1, Min({MaxSuspects, Len(sorted)}))

-----------------------------------------------------------------------------
(* build_first_responder_leaks *)

IsLeak(e) == e.top5_pct > 30 /\ e.messages_seen > MIN_SEEN

FirstResponderLeaks(peers) ==
    StableSort(SelectSeq(peers, IsLeak), "avg_arrival_pct", FALSE)

-----------------------------------------------------------------------------
(* main, steps 2, 4, 6 and the summary of step 7.  The node list and the  *)
(* scores frame (step 3, module ArrivalScores) are the inputs.             *)

VARIABLES
    nodes,             \* the node list: pubkey -> info, or Absent
    scores,            \* the scores frame, sorted by avg_arrival_pct
    pc,
    node_map,
    peers,
    colocation,
    first_responders,
    summary

vars == <<nodes, scores, pc, node_map, peers, colocation, first_responders, summary>>

(* A scores frame: one row per peer, ascending by average. *)
ScoreFrames ==
    { f \in [1..Len(PeerOrder) -> ScoreRows] :
        \A i \in 1..Len(PeerOrder) - 1 : f[i].avg <= f[i + 1].avg }

Frame(f) ==
    [i \in DOMAIN f |-> [recv_peer |-> PeerOrder[i], avg |-> f[i].avg,
                         top5_pct |-> f[i].top5_pct, messages_seen |-> f[i].messages_seen]]

Init ==
    /\ nodes \in [Pubkeys -> NodeInfos \cup {Absent}]
    /\ \E f \in ScoreFrames : scores = Frame(f)
    /\ pc = "load"
    /\ node_map = <<>>
    /\ peers = <<>>
    /\ colocation = <<>>
    /\ first_responders = <<>>
    /\ summary = [total_peers |-> 0, peers_with_ip |-> 0, peers_tor_only |-> 0]

Step(from, to) == pc = from /\ pc' = to

(* 2. node_map = load_nodes() *)
LoadNodesStep ==
    /\ Step("load", "build")
    /\ node_map' = LoadNodes(nodes)
    /\ UNCHANGED <<nodes, scores, peers, colocation, first_responders, summary>>

(* 4. peers = build_peer_data(scores, node_map) *)
BuildPeersStep ==
    /\ Step("build", "detect")
    /\ peers' = BuildPeerData(scores, node_map)
    /\ UNCHANGED <<nodes, scores, node_map, colocation, first_responders, summary>>

(* 6. colocation and first_responders *)
DetectLeaks ==
    /\ Step("detect", "write")
    /\ colocation' = ColocationSuspects(peers)
    /\ first_responders' = FirstResponderLeaks(peers)
    /\ UNCHANGED <<nodes, scores, node_map, peers, summary>>

(* 7. the peer counts of summary.json *)
WriteSummary ==
    /\ Step("write", "done")
    /\ summary' = [total_peers    |-> Len(peers),
                    peers_with_ip  |-> Quantify(Range(peers), LAMBDA e : e.ip # NoIP),
                    peers_tor_only |-> Quantify(Range(peers), LAMBDA e : e.is_tor)]
    /\ UNCHANGED <<nodes, scores, node_map, peers, colocation, first_responders>>

Next == LoadNodesStep \/ BuildPeersStep \/ DetectLeaks \/ WriteSummary

Spec == Init /\ [][Next]_vars

-----------------------------------------------------------------------------
IPHosts == { h \in Hosts : h.fam \in {"v4", "v6"} }
NPeers == Len(PeerOrder)

TypeOK ==
    /\ pc \in {"load", "build", "detect", "write", "done"}
    /\ DOMAIN node_map \subseteq Pubkeys
    /\ \A pk \in DOMAIN node_map :
          node_map[pk].clearnet_ip \in IPHosts \cup {NoIP} /\ node_map[pk].is_tor_only \in BOOLEAN
    /\ Len(peers) \in {0, NPeers}
    /\ \A k \in DOMAIN peers : peers[k].ip \in IPHosts \cup {NoIP}
    /\ \A i \in DOMAIN colocation : colocation[i].count \in 2..NPeers
    /\ summary \in [{"total_peers", "peers_with_ip", "peers_tor_only"} -> 0..NPeers]

(* The addresses the node list gives a pubkey; none when it is missing.   *)
ListedAddresses(pk) == AddressesOf(nodes[pk])

(* Every peer written for the frontend carries, as its ip, the host of the *)
(* first IP address (IPv4, or IPv6 in brackets) the node list gives it,    *)
(* after any onion or DNS address, and none when it has no IP address or   *)
(* is missing from the list; it is Tor-only exactly when every address it  *)
(* announces is an onion.  This spans load_nodes (is_clearnet, extract_ip, *)
(* the break) and build_peer_data (node_map.get defaults).                 *)
PeerAddressesFaithful ==
    pc \in {"detect", "write", "done"} =>
        /\ Len(peers) = Len(scores)
        /\ \A k \in DOMAIN peers :
             LET pk    == scores[k].recv_peer
                 addrs == ListedAddresses(pk)
                 ipIdx == { i \in DOMAIN addrs : addrs[i].host \in IPHosts }
             IN /\ peers[k].pubkey = pk
                /\ peers[k].ip = IF ipIdx = {} THEN NoIP ELSE addrs[Min(ipIdx)].host
                /\ peers[k].is_tor = \A i \in DOMAIN addrs : addrs[i].host.fam = "onion"

(* The co-location report lists, largest first, the address prefixes that *)
(* two or more peers share, with the count of all of them and the first   *)
(* MaxListed in peer order; groups of equal size keep the order in which   *)
(* their prefix was first met, and only the MaxSuspects largest are kept:  *)
(* every group cut off ranks below every group listed.                    *)
(* build_colocation_suspects: ip_groups, the >= 2 filter, the members and  *)
(* count, the stable sort and the truncation.                              *)
ColocationGroups ==
    pc \in {"write", "done"} =>
        LET Located    == { k \in DOMAIN peers : peers[k].ip # NoIP }
            Members(x) == { k \in Located : Prefix(peers[k].ip) = x }
            Shared     == { x \in { Prefix(peers[k].ip) : k \in Located } :
                               Cardinality(Members(x)) >= 2 }
            Before(x, y) ==
                \/ Cardinality(Members(x)) > Cardinality(Members(y))
                \/ /\ Cardinality(Members(x)) = Cardinality(Members(y))
                   /\ Min(Members(x)) < Min(Members(y))
            Listed == { colocation[i].prefix : i \in DOMAIN colocation }
        IN /\ Len(colocation) = Min({MaxSuspects, Cardinality(Shared)})
           /\ \A i \in DOMAIN colocation :
                LET x   == colocation[i].prefix
                    idx == SetToSortSeq(Members(x), <)
                IN /\ x \in Shared
                   /\ colocation[i].count = Cardinality(Members(x))
                   /\ colocation[i].peers =
                         [j \in 1..Min({MaxListed, Len(idx)}) |-> peers[idx[j]].pubkey]
           /\ \A i, j \in DOMAIN colocation :
                i < j => Before(colocation[i].prefix, colocation[j].prefix)
           /\ \A i \in DOMAIN colocation, y \in Shared \ Listed :
                Before(colocation[i].prefix, y)
           /\ \A x \in Shared \ Listed, i \in DOMAIN colocation :
                Before(colocation[i].prefix, x)

=============================================================================
