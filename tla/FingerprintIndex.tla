--------------------------- MODULE FingerprintIndex ---------------------------
(***************************************************************************)
(* main() of src/gossip_tomography/inspect_raw.py: the single decode-and-  *)
(* reduce pass over the joined messages/metadata frame.                    *)
(*                                                                         *)
(*   1. node announcements: decode_raw, parse_node_announcement, keep the  *)
(*      record with the highest timestamp per node_id (parsed_nodes),      *)
(*      count parse errors; then the feature prevalence counter;           *)
(*   2. channel announcements: the first ChanLimit rows are decoded;       *)
(*   3. fingerprint groups: node ids grouped by features_hex, groups       *)
(*      sorted by descending size, and the fingerprints.json document.     *)
(*                                                                         *)
(* The frame comes from an inner join whose row order polars does not      *)
(* fix, so each loop takes the rows in any order.  A row is abstracted to  *)
(* what the loop tells apart: whether its base64 text decodes (a text of   *)
(* length 1 mod 4 makes urlsafe_b64decode raise) and what the parser       *)
(* returns (MessageDecoder checks the parser itself).  Printing (flen and  *)
(* address-type histograms, channel feature counts) is left out.          *)
(***************************************************************************)
EXTENDS Naturals, Sequences, SequencesExt, FiniteSets, FeatureBits

CONSTANTS
    Rows,        \* rows of the joined frame
    NodeIds,     \* node_id values
    Timestamps,  \* timestamp values
    Bitmaps,     \* feature bitmaps (byte sequences)
    ChanLimit    \* chan_anns.head(10000)

ASSUME ChanLimit \in Nat /\ Timestamps \subseteq Nat

Malformed == [error |-> "Malformed"]   \* parse_* returned None

NodeRecords == [node_id: NodeIds, timestamp: Timestamps, features: Bitmaps]

(* A row: type 2 (node_announcement) or 1 (channel_announcement), whether  *)
(* its raw text decodes, and for a decoded node row what the parser      *)
(* returns (text that does not decode is never parsed).                   *)
RowContents ==
    [type: {2}, b64ok: {TRUE}, parsed: NodeRecords \cup {Malformed}]
      \cup [type: {1, 2}, b64ok: BOOLEAN, parsed: {Malformed}]

VARIABLES
    table,          \* the joined frame, fixed for the run
    pc,             \* "nodes", "chans", "groups", "done", or "crashed"
    nodeSeen,       \* node rows in the order the loop took them (history)
    parsed_nodes,   \* node_id -> surviving record
    nodeOrder,      \* the keys of parsed_nodes in dict insertion order
    parse_errors,
    feat_counter,   \* feature name -> number of surviving nodes
    chanSeen,       \* channel rows the head(ChanLimit) loop took
    fprint_groups,  \* features_hex -> list of node ids
    keyOrder,       \* the keys of fprint_groups in insertion order
    gi,             \* next position of nodeOrder the grouping loop visits
    output          \* the fingerprints.json document, once written

vars == <<table, pc, nodeSeen, parsed_nodes, nodeOrder, parse_errors,
          feat_counter, chanSeen, fprint_groups, keyOrder, gi, output>>

NodeRows == { r \in Rows : table[r].type = 2 }
ChanRows == { r \in Rows : table[r].type = 1 }

NoOutput == [written |-> FALSE]

Init ==
    /\ table \in [Rows -> RowContents]
    /\ pc = "nodes"
    /\ nodeSeen = <<>>
    /\ parsed_nodes = [n \in {} |-> Malformed]
    /\ nodeOrder = <<>>
    /\ parse_errors = 0
    /\ feat_counter = [n \in {} |-> 0]
    /\ chanSeen = {}
    /\ fprint_groups = [k \in {} |-> <<>>]
    /\ keyOrder = <<>>
    /\ gi = 1
    /\ output = NoOutput

-----------------------------------------------------------------------------
(* [1] node announcements                                                  *)

TakeNodeRow(r) ==
    /\ pc = "nodes"
    /\ r \in NodeRows \ Range(nodeSeen)
    /\ nodeSeen' = Append(nodeSeen, r)

(* decode_raw raises binascii.Error; nothing catches it, main() aborts. *)
NodeUndecodable(r) ==
    /\ TakeNodeRow(r)
    /\ ~table[r].b64ok
    /\ pc' = "crashed"
    /\ UNCHANGED <<table, parsed_nodes, nodeOrder, parse_errors, feat_counter,
                   chanSeen, fprint_groups, keyOrder, gi, output>>

(* if result: ... else: parse_errors += 1 *)
NodeMalformed(r) ==
    /\ TakeNodeRow(r)
    /\ table[r].b64ok /\ table[r].parsed = Malformed
    /\ parse_errors' = parse_errors + 1
    /\ UNCHANGED <<table, pc, parsed_nodes, nodeOrder, feat_counter,
                   chanSeen, fprint_groups, keyOrder, gi, output>>

(* Mutant of Newer: ">=", the last of equal timestamps wins. *)
NewerOrEqual(rec, old) == rec.timestamp >= old.timestamp

(* result["timestamp"] > parsed_nodes[nid]["timestamp"] *)
Newer(rec, old) == rec.timestamp > old.timestamp

(* Keep latest per node: replace unless a record with an equal or higher   *)
(* timestamp is already there.  A new key goes to the end of the dict;     *)
(* replacing a value keeps the key where it is.                           *)
NodeParsed(r) ==
    /\ TakeNodeRow(r)
    /\ table[r].b64ok /\ table[r].parsed # Malformed
    /\ LET rec == table[r].parsed
           nid == rec.node_id
       IN  \/ /\ nid \notin DOMAIN parsed_nodes
              /\ parsed_nodes' = (nid :> rec) @@ parsed_nodes
              /\ nodeOrder' = Append(nodeOrder, nid)
           \/ /\ nid \in DOMAIN parsed_nodes
              /\ Newer(rec, parsed_nodes[nid])
              /\ parsed_nodes' = [parsed_nodes EXCEPT ![nid] = rec]
              /\ UNCHANGED nodeOrder
           \/ /\ nid \in DOMAIN parsed_nodes
              /\ ~Newer(rec, parsed_nodes[nid])
              /\ UNCHANGED <<parsed_nodes, nodeOrder>>
    /\ UNCHANGED <<table, pc, parse_errors, feat_counter, chanSeen,
                   fprint_groups, keyOrder, gi, output>>

(* Mutant of Prevalence: each distinct bitmap counted once. *)
PrevalenceOfBitmaps(nodes) ==
    LET bitmaps == { nodes[n].features : n \in DOMAIN nodes }
        names   == UNION { DOMAIN decode_features(b) : b \in bitmaps }
    IN  [name \in names |->
           Cardinality({ b \in bitmaps : name \in DOMAIN decode_features(b) })]

(* feat_counter[feat_name] += 1 for each name of each surviving node *)
Prevalence(nodes) ==
    LET names == UNION { DOMAIN decode_features(nodes[n].features) : n \in DOMAIN nodes }
    IN  [name \in names |->
           Cardinality({ n \in DOMAIN nodes :
                           name \in DOMAIN decode_features(nodes[n].features) })]

(* The node loop ends; the statistics loop runs over parsed_nodes. *)
EndNodes ==
    /\ pc = "nodes"
    /\ Range(nodeSeen) = NodeRows
    /\ feat_counter' = Prevalence(parsed_nodes)
    /\ pc' = "chans"
    /\ UNCHANGED <<table, nodeSeen, parsed_nodes, nodeOrder, parse_errors,
                   chanSeen, fprint_groups, keyOrder, gi, output>>

-----------------------------------------------------------------------------
(* [2] channel announcements: for row in chan_anns.head(10000)             *)

(* Mutant of TakeChanRow: the head(10000) limit dropped. *)
TakeChanRowUnlimited(r) ==
    /\ pc = "chans"
    /\ r \in ChanRows \ chanSeen
    /\ chanSeen' = chanSeen \cup {r}
    /\ UNCHANGED <<table, nodeSeen, parsed_nodes, nodeOrder, parse_errors,
                   feat_counter, fprint_groups, keyOrder, gi, output>>

TakeChanRow(r) ==
    /\ pc = "chans"
    /\ Cardinality(chanSeen) < ChanLimit
    /\ r \in ChanRows \ chanSeen
    /\ chanSeen' = chanSeen \cup {r}
    /\ UNCHANGED <<table, nodeSeen, parsed_nodes, nodeOrder, parse_errors,
                   feat_counter, fprint_groups, keyOrder, gi, output>>

(* decode_raw(row["raw"]) succeeds; the parse result only feeds counters  *)
(* that are printed.                                                       *)
ChanDecoded(r) == TakeChanRow(r) /\ table[r].b64ok /\ UNCHANGED pc

(* decode_raw raises: main() aborts before fingerprints.json is written. *)
ChanUndecodable(r) == TakeChanRow(r) /\ ~table[r].b64ok /\ pc' = "crashed"

EndChans ==
    /\ pc = "chans"
    /\ Cardinality(chanSeen) = ChanLimit \/ chanSeen = ChanRows
    /\ pc' = "groups"
    /\ UNCHANGED <<table, nodeSeen, parsed_nodes, nodeOrder, parse_errors,
                   feat_counter, chanSeen, fprint_groups, keyOrder, gi, output>>

-----------------------------------------------------------------------------
(* [3] fingerprint groups                                                  *)

(* Mutant of AddMember: fprint_groups[key] = [nid], the list overwritten. *)
AddMemberOverwrite(groups, key, nid) == (key :> <<nid>>) @@ groups

(* fprint_groups.setdefault(key, []).append(nid) *)
AddMember(groups, key, nid) ==
    IF key \in DOMAIN groups THEN [groups EXCEPT ![key] = Append(@, nid)]
                             ELSE (key :> <<nid>>) @@ groups

(* for nid, n in parsed_nodes.items(): key = n["features_hex"] *)
GroupNode ==
    /\ pc = "groups"
    /\ gi <= Len(nodeOrder)
    /\ LET nid == nodeOrder[gi]
           key == parsed_nodes[nid].features
       IN  /\ fprint_groups' = AddMember(fprint_groups, key, nid)
           /\ keyOrder' = IF key \in DOMAIN fprint_groups THEN keyOrder
                                                          ELSE Append(keyOrder, key)
    /\ gi' = gi + 1
    /\ UNCHANGED <<table, pc, nodeSeen, parsed_nodes, nodeOrder, parse_errors,
                   feat_counter, chanSeen, output>>

(* Mutant of InsertByCount: key=lambda x: len(x[1]), the minus sign lost, *)
(* so the smallest groups come first.                                      *)
InsertByCountAscending(sorted, k, groups) ==
    InsertAt(sorted, Cardinality({ j \in DOMAIN sorted :
                                     Len(groups[sorted[j]]) <= Len(groups[k]) }) + 1, k)

(* One step of Python's stable sort by -len(nodes): k goes after every key *)
(* already placed whose group is at least as large.                        *)
InsertByCount(sorted, k, groups) ==
    InsertAt(sorted, Cardinality({ j \in DOMAIN sorted :
                                     Len(groups[sorted[j]]) >= Len(groups[k]) }) + 1, k)

(* sorted(fprint_groups.items(), key=lambda x: -len(x[1])) *)
SortedKeys(keys, groups) ==
    FoldLeft(LAMBDA s, k : InsertByCount(s, k, groups), <<>>, keys)

(* The fingerprints.json document; sample_nodes (nodes[:5]) is left out.   *)
Document ==
    LET keys == SortedKeys(keyOrder, fprint_groups) IN
    [written |-> TRUE,
     feature_prevalence |-> feat_counter,
     fingerprint_groups |->
        [i \in DOMAIN keys |->
           [features_hex  |-> keys[i],
            feature_names |-> DOMAIN decode_features(keys[i]),
            node_count    |-> Len(fprint_groups[keys[i]]),
            all_nodes     |-> fprint_groups[keys[i]]]],
     total_unique_fingerprints |-> Cardinality(DOMAIN fprint_groups),
     total_nodes_parsed |-> Cardinality(DOMAIN parsed_nodes)]

WriteOutput ==
    /\ pc = "groups"
    /\ gi > Len(nodeOrder)
    /\ output' = Document
    /\ pc' = "done"
    /\ UNCHANGED <<table, nodeSeen, parsed_nodes, nodeOrder, parse_errors,
                   feat_counter, chanSeen, fprint_groups, keyOrder, gi>>

Next ==
    \/ \E r \in Rows : NodeUndecodable(r) \/ NodeMalformed(r) \/ NodeParsed(r)
    \/ EndNodes
    \/ \E r \in Rows : ChanDecoded(r) \/ ChanUndecodable(r)
    \/ EndChans
    \/ GroupNode
    \/ WriteOutput

Spec == Init /\ [][Next]_vars


-----------------------------------------------------------------------------
TypeOK ==
    /\ table \in [Rows -> RowContents]
    /\ pc \in {"nodes", "chans", "groups", "done", "crashed"}
    /\ nodeSeen \in Seq(Rows) /\ Range(nodeSeen) \subseteq NodeRows
    /\ DOMAIN parsed_nodes \subseteq NodeIds
    /\ \A n \in DOMAIN parsed_nodes : parsed_nodes[n] \in NodeRecords
    /\ nodeOrder \in Seq(NodeIds)
    /\ parse_errors \in 0..Cardinality(Rows)
    /\ chanSeen \subseteq ChanRows /\ Cardinality(chanSeen) <= ChanLimit
    /\ DOMAIN fprint_groups \subseteq Bitmaps
    /\ gi \in 1..(Len(nodeOrder) + 1)

(* History: the i-th node row the loop took, and whether it parsed. *)
Parsed(i) == table[nodeSeen[i]].b64ok /\ table[nodeSeen[i]].parsed # Malformed
RecAt(i)  == table[nodeSeen[i]].parsed
ParsedAt  == { i \in DOMAIN nodeSeen : Parsed(i) }
ParsedOf(n) == { i \in ParsedAt : RecAt(i).node_id = n }

(* Position of the first survivor of nodeOrder whose bitmap is key. *)
FirstWith(key) == Min({ k \in DOMAIN nodeOrder : parsed_nodes[nodeOrder[k]].features = key })

(* After any prefix of the rows, in whatever order the join produced them, *)
(* parsed_nodes holds for each node_id the record with the highest         *)
(* timestamp parsed so far, the first of them on a tie (spec 4.5), and its *)
(* keys are in the order each node_id was first parsed -- the order that   *)
(* lists the members of a group and breaks ties between groups.            *)
SurvivorIsLatest ==
    /\ DOMAIN parsed_nodes = { RecAt(i).node_id : i \in ParsedAt }
    /\ \A n \in DOMAIN parsed_nodes :
          LET top == Max({ RecAt(i).timestamp : i \in ParsedOf(n) })
          IN  parsed_nodes[n] = RecAt(Min({ i \in ParsedOf(n) : RecAt(i).timestamp = top }))
    /\ Len(nodeOrder) = Cardinality(DOMAIN parsed_nodes)
    /\ \A j, k \in DOMAIN nodeOrder :
          j < k => Min(ParsedOf(nodeOrder[j])) < Min(ParsedOf(nodeOrder[k]))

(* The written document is consistent with the surviving nodes: the groups *)
(* partition them by exact bitmap (every survivor once, in dict order,     *)
(* under its own bitmap, with that bitmap's names), the totals agree, and  *)
(* the per-feature prevalence counted node by node equals the sum of the   *)
(* sizes of the groups whose bitmap has that feature (spec 3, 6).          *)
FingerprintPartition ==
    pc = "done" =>
    LET G == output.fingerprint_groups
        withName(name) == { i \in DOMAIN G : name \in G[i].feature_names }
        sizes(S) == FoldSet(LAMBDA i, acc : acc + G[i].node_count, 0, S)
    IN  /\ \A i \in DOMAIN G :
              /\ G[i].node_count = Len(G[i].all_nodes) /\ G[i].node_count > 0
              /\ G[i].feature_names = DOMAIN decode_features(G[i].features_hex)
              /\ \A j \in DOMAIN G[i].all_nodes :
                    parsed_nodes[G[i].all_nodes[j]].features = G[i].features_hex
              /\ \A j, k \in DOMAIN G[i].all_nodes : j < k =>
                    \E a, b \in DOMAIN nodeOrder :
                       a < b /\ nodeOrder[a] = G[i].all_nodes[j] /\ nodeOrder[b] = G[i].all_nodes[k]
        /\ UNION { Range(G[i].all_nodes) : i \in DOMAIN G } = DOMAIN parsed_nodes
        /\ sizes(DOMAIN G) = output.total_nodes_parsed
        /\ output.total_nodes_parsed = Cardinality(DOMAIN parsed_nodes)
        /\ output.total_unique_fingerprints = Len(G)
        /\ \A name \in DOMAIN output.feature_prevalence :
              output.feature_prevalence[name] = sizes(withName(name))
        /\ \A i \in DOMAIN G : G[i].feature_names \subseteq DOMAIN output.feature_prevalence

(* Groups are written largest first; groups of equal size in the order     *)
(* their bitmap first occurs among the survivors (spec 4.5), which the     *)
(* stable sort over the insertion-ordered dict has to preserve.           *)
GroupsRanked ==
    pc = "done" =>
    LET G == output.fingerprint_groups IN
    \A i, j \in DOMAIN G : i < j =>
        \/ G[i].node_count > G[j].node_count
        \/ /\ G[i].node_count = G[j].node_count
           /\ FirstWith(G[i].features_hex) < FirstWith(G[j].features_hex)

(* The pass implements BatchReport: seen from outside (the rows, whether  *)
(* main() aborted or finished, and fingerprints.json), every behaviour of  *)
(* the three loops, the keep-latest fold, the prevalence counter and the   *)
(* stable sort is a behaviour of the order-free specification -- the      *)
(* document is one that some order of the rows allows, and the pass aborts *)
(* or finishes only when the rows allow it.                                *)
Abstract == INSTANCE BatchReport
    WITH status <- IF pc \in {"done", "crashed"} THEN pc ELSE "running",
         report <- output

Refinement == Abstract!Spec

(* Spec 7: no condition is fatal to the batch; a message that cannot be    *)
(* decoded is counted and skipped, so the pass never aborts.               *)
NoBatchAbort == pc # "crashed"
=============================================================================
