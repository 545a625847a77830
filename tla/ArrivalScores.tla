---------------------------- MODULE ArrivalScores -----------------------------
(***************************************************************************)
(* src/gossip_tomography/preprocess.py, the timing half of main (steps 1,  *)
(* 3 and 5): keep the gossip rows of timings.parquet, compute the per-peer *)
(* first-responder scores, select the messages for the wavefront viewer,   *)
(* and build their message index and arrival sequences.                    *)
(*                                                                         *)
(* A timing row is [hash, peer, ts].  Percentiles are rationals; they are  *)
(* kept exactly as integers times Scale, a common multiple of every        *)
(* denominator (total - 1).clip(1) can take.  median and std are only      *)
(* written out and are left out.  polars' sort and unique do not keep the  *)
(* order of equal keys, so the model lets those orders be any.             *)
(***************************************************************************)
EXTENDS Naturals, Sequences, SequencesExt, FiniteSets, FiniteSetsExt

CONSTANTS
    HashOrder,    \* message hashes, in the row order of the parquet files
    PeerOrder,    \* recv_peer values, in the row order within a message
    Times,        \* recv_timestamp values, in ms
    MsgTypeVals,  \* metadata "type" values: gossip (1, 2, 3) and others
    N,            \* select_interesting_messages(timings, metadata, n=200)
    MIN_PEERS,    \* pl.col("peer_count") >= 50
    MIN_WAVE      \* if len(msg_data) < 10: continue

ASSUME MIN_WAVE <= MIN_PEERS   \* as in the code: 10 <= 50

Hashes == Range(HashOrder)
RecvPeers == Range(PeerOrder)
NoRow == 0
ASSUME NoRow \notin Times

GossipTypes == {1, 2, 3}
MSG_TYPES == (1 :> "channel_announcement") @@ (2 :> "node_announcement")
                 @@ (3 :> "channel_update")

Scale == ProductSet(1..Max({1, Cardinality(RecvPeers) - 1}))

(* A table has at most one row per (hash, peer); rows come grouped by hash. *)
RowsOf(tbl) ==
    FlattenSeq([k \in 1..Len(HashOrder) |->
        SelectSeq([j \in 1..Len(PeerOrder) |->
                      [hash |-> HashOrder[k], peer |-> PeerOrder[j],
                       ts |-> tbl[HashOrder[k], PeerOrder[j]]]],
                  LAMBDA r : r.ts # NoRow)])

Tables == { RowsOf(tbl) : tbl \in [Hashes \X RecvPeers -> Times \cup {NoRow}] }

-----------------------------------------------------------------------------
(* compute_first_responder_scores *)

SameMsg(rows, i) == { j \in DOMAIN rows : rows[j].hash = rows[i].hash }

(* Mutant of OrdinalRank: rank("min"), equal timestamps share a rank. *)
OrdinalRankMin(rows, i) ==
    1 + Cardinality({ j \in SameMsg(rows, i) : rows[j].ts < rows[i].ts })

(* rank("ordinal").over("hash"): equal timestamps ranked by row order. *)
OrdinalRank(rows, i) ==
    1 + Cardinality({ j \in SameMsg(rows, i) :
                        \/ rows[j].ts < rows[i].ts
                        \/ rows[j].ts = rows[i].ts /\ j < i })

(* Mutant of Percentile: arrival_rank used without the - 1. *)
PercentileFromOne(rows, i) ==
    (OrdinalRank(rows, i) * Scale) \div Max({Cardinality(SameMsg(rows, i)) - 1, 1})

(* (arrival_rank - 1) / (total_peers_for_msg - 1).clip(lower_bound=1), times Scale *)
Percentile(rows, i) ==
    ((OrdinalRank(rows, i) - 1) * Scale) \div Max({Cardinality(SameMsg(rows, i)) - 1, 1})

(* group_by("recv_peer").agg(...): pct_sum / (messages_seen * Scale) is    *)
(* avg_arrival_pct; top5_pct and first_pct are the counts over             *)
(* messages_seen, times 100.                                                *)
PeerScore(rows, p) ==
    LET mine == { i \in DOMAIN rows : rows[i].peer = p } IN
    [recv_peer     |-> p,
     pct_sum       |-> MapThenSumSet(LAMBDA i : Percentile(rows, i), mine),
     messages_seen |-> Cardinality(mine),
     top5_count    |-> Quantify(mine, LAMBDA i : 20 * Percentile(rows, i) < Scale),
     first_count   |-> Quantify(mine, LAMBDA i : OrdinalRank(rows, i) = 1)]

AvgLeq(a, b) == a.pct_sum * b.messages_seen <= b.pct_sum * a.messages_seen

(* .sort("avg_arrival_pct"): every order of the peers by average. *)
ScoreOrders(rows) ==
    { s \in SetToSeqs({ PeerScore(rows, rows[i].peer) : i \in DOMAIN rows }) :
        IsSorted(s, AvgLeq) }

-----------------------------------------------------------------------------
(* select_interesting_messages *)

MsgStats(rows, meta) ==
    { LET mine == { i \in DOMAIN rows : rows[i].hash = h }
          ts   == { rows[i].ts : i \in mine }
      IN [hash |-> h, peer_count |-> Cardinality(mine), type |-> meta[h],
          spread |-> Max(ts) - Min(ts)]
    : h \in { rows[i].hash : i \in DOMAIN rows } }

(* .sort(key, descending=True).head(k): ties in any order. *)
TopBy(S, key, k) ==
    { SubSeq(s, 1, Min({k, Len(s)})) :
        s \in { q \in SetToSeqs(S) : IsSorted(q, LAMBDA a, b : a[key] >= b[key]) } }

(* Mutant of Combine: pl.concat without .unique(subset=["hash"]). *)
CombineKeepingDuplicates(byPeers, bySpread) == { byPeers \o bySpread }

(* pl.concat([by_peers, by_spread]).unique(subset=["hash"]): any order. *)
Combine(byPeers, bySpread) == SetToSeqs(Range(byPeers) \cup Range(bySpread))

(* Mutant of Candidates: the peer_count >= 50 filter dropped. *)
CandidatesUnfiltered(rows, meta) == MsgStats(rows, meta)

Candidates(rows, meta) == { m \in MsgStats(rows, meta) : m.peer_count >= MIN_PEERS }

(* The hashes the loop over types [1, 2, 3] can select, per type. *)
PerTypeChoices(rows, meta, t) ==
    LET per_type  == N \div 3
        type_msgs == { m \in Candidates(rows, meta) : m.type = t }
    IN UNION { { [i \in 1..Min({per_type, Len(c)}) |-> c[i].hash] :
                   c \in Combine(bp, bs) } :
               bp \in TopBy(type_msgs, "peer_count", per_type \div 2),
               bs \in TopBy(type_msgs, "spread", per_type \div 2) }

(* selected.extend(...) for each type, then selected[:n] *)
Selections(rows, meta) ==
    { SubSeq(s1 \o s2 \o s3, 1, Min({N, Len(s1 \o s2 \o s3)})) :
        <<s1, s2, s3>> \in PerTypeChoices(rows, meta, 1) \X PerTypeChoices(rows, meta, 2)
                             \X PerTypeChoices(rows, meta, 3) }

-----------------------------------------------------------------------------
(* build_message_index and build_wavefront_data *)

MessageIndex(meta, hashes) ==
    [h \in Range(hashes) |-> IF meta[h] \in DOMAIN MSG_TYPES THEN MSG_TYPES[meta[h]]
                                                       ELSE "unknown"]

PeerPos(p) == CHOOSE k \in 1..Len(PeerOrder) : PeerOrder[k] = p

(* The rows of h by recv_timestamp (equal ones in row order, one of the    *)
(* orders polars may give), their delays, and the spread.                  *)
Wavefront(rows, h) ==
    LET mine  == SelectSeq(rows, LAMBDA r : r.hash = h)
        first == Min({ r.ts : r \in Range(mine) })
        byTs  == SortSeq(mine, LAMBDA a, b :
                         a.ts < b.ts \/ (a.ts = b.ts /\ PeerPos(a.peer) < PeerPos(b.peer)))
        arr   == [k \in 1..Len(byTs) |-> [peer |-> byTs[k].peer, delay |-> byTs[k].ts - first]]
    IN [arrivals |-> arr, total_peers |-> Len(arr),
        spread_ms |-> IF arr # <<>> THEN Last(arr).delay ELSE 0]

Wavefronts(rows, hashes) ==
    [h \in { x \in Range(hashes) : Len(SelectSeq(rows, LAMBDA r : r.hash = x)) >= MIN_WAVE }
        |-> Wavefront(rows, h)]

-----------------------------------------------------------------------------
VARIABLES
    timings,      \* the timings frame (rows), filtered by FilterGossip
    metadata,     \* hash -> type
    pc,           \* "filter", "scores", "select", "index", "waves", "done"
    scores,       \* the scores frame, sorted by average
    interesting,  \* the selected hashes
    msg_index,
    wavefronts

vars == <<timings, metadata, pc, scores, interesting, msg_index, wavefronts>>

Init ==
    /\ timings \in Tables
    /\ metadata \in [Hashes -> MsgTypeVals]
    /\ pc = "filter"
    /\ scores = <<>>
    /\ interesting = <<>>
    /\ msg_index = <<>>
    /\ wavefronts = <<>>

Step(from, to) == pc = from /\ pc' = to

(* timings.filter(pl.col("hash").is_in(gossip_hashes)) *)
FilterGossip ==
    /\ Step("filter", "scores")
    /\ timings' = SelectSeq(timings, LAMBDA r : metadata[r.hash] \in GossipTypes)
    /\ UNCHANGED <<metadata, scores, interesting, msg_index, wavefronts>>

ComputeScores ==
    /\ Step("scores", "select")
    /\ scores' \in ScoreOrders(timings)
    /\ UNCHANGED <<timings, metadata, interesting, msg_index, wavefronts>>

SelectMessages ==
    /\ Step("select", "index")
    /\ interesting' \in Selections(timings, metadata)
    /\ UNCHANGED <<timings, metadata, scores, msg_index, wavefronts>>

BuildMessageIndex ==
    /\ Step("index", "waves")
    /\ msg_index' = MessageIndex(metadata, interesting)
    /\ UNCHANGED <<timings, metadata, scores, interesting, wavefronts>>

BuildWavefronts ==
    /\ Step("waves", "done")
    /\ wavefronts' = Wavefronts(timings, interesting)
    /\ UNCHANGED <<timings, metadata, scores, interesting, msg_index>>

Next == FilterGossip \/ ComputeScores \/ SelectMessages \/ BuildMessageIndex
          \/ BuildWavefronts

Spec == Init /\ [][Next]_vars

-----------------------------------------------------------------------------
(* A peer's average lies in [0, 1], and a first arrival (percentile 0) is *)
(* always also a top-5% arrival.                                           *)
TypeOK ==
    /\ pc \in {"filter", "scores", "select", "index", "waves", "done"}
    /\ \A k \in DOMAIN scores :
          LET s == scores[k] IN
          /\ s.recv_peer \in RecvPeers
          /\ s.messages_seen >= 1
          /\ s.pct_sum \in 0..(Scale * s.messages_seen)
          /\ s.first_count <= s.top5_count /\ s.top5_count <= s.messages_seen
    /\ Range(interesting) \subseteq Hashes

SeqSum(seq, f(_)) == MapThenSumSet(LAMBDA k : f(seq[k]), DOMAIN seq)
RowsFor(h) == Cardinality({ i \in DOMAIN timings : timings[i].hash = h })

(* The scores account for every arrival exactly once: messages_seen adds  *)
(* up to the timing rows, every message credits exactly one peer as first *)
(* (also when its fastest arrivals share a timestamp), and the             *)
(* percentiles of a message with k >= 2 receivers add up to k / 2, while  *)
(* one seen by a single peer adds 0 (the clip of line 190).                *)
ScoresAccountForArrivals ==
    pc \notin {"filter", "scores"} =>
    LET hs == { timings[i].hash : i \in DOMAIN timings } IN
    /\ SeqSum(scores, LAMBDA s : s.messages_seen) = Len(timings)
    /\ SeqSum(scores, LAMBDA s : s.first_count) = Cardinality(hs)
    /\ 2 * SeqSum(scores, LAMBDA s : s.pct_sum)
         = Scale * MapThenSumSet(LAMBDA h : IF RowsFor(h) >= 2 THEN RowsFor(h) ELSE 0, hs)

(* The wavefront selection never lists a message twice, takes only gossip *)
(* messages with at least MIN_PEERS receivers, at most two per_type // 2   *)
(* picks per type, and always includes a most-received message of every   *)
(* type that has a candidate.                                              *)
SelectedDistinct ==
    pc \in {"index", "waves", "done"} =>
    LET half == (N \div 3) \div 2
        sel  == Range(interesting)
    IN
    /\ IsInjective(interesting)
    /\ \A h \in sel : metadata[h] \in GossipTypes /\ RowsFor(h) >= MIN_PEERS
    /\ \A t \in GossipTypes :
          LET cand == { h \in Range(HashOrder) : metadata[h] = t /\ RowsFor(h) >= MIN_PEERS } IN
          /\ Cardinality({ h \in sel : metadata[h] = t }) <= 2 * half
          /\ cand # {} /\ half >= 1 =>
                \E h \in sel \cap cand : \A c \in cand : RowsFor(c) <= RowsFor(h)

(* Every selected message gets both an index entry and a wavefront whose  *)
(* arrivals start at delay 0 and never go back, with as many arrivals as  *)
(* the message has receivers and the spread select_interesting_messages   *)
(* measured: the 50-receiver filter guarantees the 10-row minimum.         *)
WavefrontsForSelected ==
    pc = "done" =>
    /\ DOMAIN wavefronts = Range(interesting)
    /\ DOMAIN msg_index = Range(interesting)
    /\ \A h \in DOMAIN wavefronts :
          LET w  == wavefronts[h]
              ts == { timings[i].ts : i \in { j \in DOMAIN timings : timings[j].hash = h } }
          IN /\ w.total_peers = RowsFor(h)
             /\ w.spread_ms = Max(ts) - Min(ts)
             /\ w.arrivals[1].delay = 0
             /\ IsSorted(w.arrivals, LAMBDA a, b : a.delay <= b.delay)
=============================================================================
