---------------------------- MODULE BatchReport ----------------------------
(***************************************************************************)
(* What the fingerprint pass of inspect_raw.py main() promises, stated     *)
(* without its loops: from the frame of rows it either aborts or, in one   *)
(* step, writes a fingerprints.json document that some resolution of the   *)
(* row order allows.                                                       *)
(*                                                                         *)
(*   - every node_id with a parsed record keeps one of its records with    *)
(*     the highest timestamp (which one, on a tie, is not fixed);          *)
(*   - the node ids are listed in some order (the order they were first    *)
(*     met, which the join does not fix);                                  *)
(*   - the groups partition the survivors by exact bitmap, members in that *)
(*     order, largest group first and equal sizes by first member;         *)
(*   - prevalence counts, per feature name, the survivors that have it.    *)
(*                                                                         *)
(* The pass aborts when a node row cannot be decoded, and may abort when a *)
(* channel row it decodes cannot be; it finishes only when enough of the   *)
(* channel rows decode to fill the head(ChanLimit) sample.                 *)
(* FingerprintIndex is shown to implement this specification.             *)
(***************************************************************************)
EXTENDS Naturals, Sequences, SequencesExt, FiniteSets, FeatureBits

CONSTANTS Rows, NodeIds, Timestamps, Bitmaps, ChanLimit

Malformed == [error |-> "Malformed"]
NodeRecords == [node_id: NodeIds, timestamp: Timestamps, features: Bitmaps]
RowContents ==
    [type: {2}, b64ok: {TRUE}, parsed: NodeRecords \cup {Malformed}]
      \cup [type: {1, 2}, b64ok: BOOLEAN, parsed: {Malformed}]

VARIABLES table, status, report

absVars == <<table, status, report>>

NoOutput == [written |-> FALSE]

NodeRows == { r \in Rows : table[r].type = 2 }
ChanRows == { r \in Rows : table[r].type = 1 }

ParsedRecs == { table[r].parsed : r \in { s \in NodeRows : table[s].parsed # Malformed } }
Ids == { rec.node_id : rec \in ParsedRecs }

(* The records of n no other record of n is newer than. *)
Latest(n) ==
    { rec \in ParsedRecs : rec.node_id = n /\
        \A o \in ParsedRecs : o.node_id = n => o.timestamp <= rec.timestamp }

Survivors == { S \in [Ids -> ParsedRecs] : \A n \in Ids : S[n] \in Latest(n) }

Names(bitmap) == DOMAIN decode_features(bitmap)

(* The document for survivors S listed in order O. *)
ReportOf(S, O) ==
    LET keys       == { S[n].features : n \in Ids }
        members(k) == SelectSeq(O, LAMBDA n : S[n].features = k)
        first(k)   == Min({ i \in DOMAIN O : S[O[i]].features = k })
        before(a, b) ==
            \/ Len(members(a)) > Len(members(b))
            \/ Len(members(a)) = Len(members(b)) /\ first(a) < first(b)
        at(i) == CHOOSE k \in keys : Cardinality({ a \in keys : before(a, k) }) = i - 1
    IN [written |-> TRUE,
        feature_prevalence |->
            [name \in UNION { Names(k) : k \in keys } |->
                Cardinality({ n \in Ids : name \in Names(S[n].features) })],
        fingerprint_groups |->
            [i \in 1..Cardinality(keys) |->
                [features_hex  |-> at(i),
                 feature_names |-> Names(at(i)),
                 node_count    |-> Len(members(at(i))),
                 all_nodes     |-> members(at(i))]],
        total_unique_fingerprints |-> Cardinality(keys),
        total_nodes_parsed |-> Cardinality(Ids)]

Reports == { ReportOf(S, O) : S \in Survivors, O \in SetToSeqs(Ids) }

Init ==
    /\ table \in [Rows -> RowContents]
    /\ status = "running"
    /\ report = NoOutput

(* An undecodable row is met: main() ends with an exception. *)
Abort ==
    /\ status = "running"
    /\ \/ \E r \in NodeRows : ~table[r].b64ok
       \/ ChanLimit > 0 /\ \E r \in ChanRows : ~table[r].b64ok
    /\ status' = "crashed"
    /\ UNCHANGED <<table, report>>

(* The document is written. *)
Finish ==
    /\ status = "running"
    /\ \A r \in NodeRows : table[r].b64ok
    /\ Cardinality({ r \in ChanRows : table[r].b64ok })
         >= Min({ ChanLimit, Cardinality(ChanRows) })
    /\ report' \in Reports
    /\ status' = "done"
    /\ UNCHANGED table

Next == Abort \/ Finish

Spec == Init /\ [][Next]_absVars
=============================================================================
