------------------------------- MODULE Geolocate -------------------------------
(***************************************************************************)
(* src/gossip_tomography/geolocate.py: load peers.json, collect the unique *)
(* IPs, look them up in batches of BATCH_SIZE, copy the answers onto the   *)
(* peers and write peers.json back in place.  The script may be run again  *)
(* and may be killed at any point (it sleeps between batches, so a run     *)
(* lasts minutes); the file on disk is what survives.                      *)
(*                                                                         *)
(* The lookup service is the environment: a batch request either fails as *)
(* a whole (geolocate_batch returns {}) or answers "success" for any       *)
(* subset of its IPs.  A location is abstracted to the IP it was looked up *)
(* for; lat/lon/country/city/isp/as travel together.  The pause between    *)
(* batches only shapes timing and is left out.                             *)
(***************************************************************************)
EXTENDS Naturals, Sequences, SequencesExt, FiniteSets

CONSTANTS
    PeerOrder,   \* the pubkeys of peers.json, in file (dict) order
    IPs,         \* clearnet IP values
    NoIP,        \* "ip": null
    NoLoc,       \* no lat/lon fields
    BATCH_SIZE,
    MaxRuns      \* bound on the number of times the script is started

ASSUME BATCH_SIZE \in Nat \ {0} /\ MaxRuns \in Nat

Peers == Range(PeerOrder)

PeerEntry == [ip: IPs \cup {NoIP}, loc: IPs \cup {NoLoc}]

(* peers.json: a whole JSON document, or the file after open(..., "w")    *)
(* without a complete json.dump.                                           *)
Whole(content) == [whole |-> TRUE, content |-> content]
Corrupt == [whole |-> FALSE,
            content |-> [p \in Peers |-> [ip |-> NoIP, loc |-> NoLoc]]]

(* Mutant of UniqueIPs: one entry per peer, shared IPs not merged. *)
UniqueIPsPerPeer(peers) ==
    FoldLeft(LAMBDA acc, p : IF peers[p].ip # NoIP THEN Append(acc, peers[p].ip) ELSE acc,
             <<>>, PeerOrder)

(* Unique IPs in order of first occurrence (ip_to_peers keys). *)
UniqueIPs(peers) ==
    FoldLeft(LAMBDA acc, p : IF peers[p].ip # NoIP /\ ~Contains(acc, peers[p].ip)
                             THEN Append(acc, peers[p].ip) ELSE acc,
             <<>>, PeerOrder)

(* Mutant of Batches: each slice runs one element past its end. *)
BatchesOverlapping(ips) ==
    [k \in 1..((Len(ips) + BATCH_SIZE - 1) \div BATCH_SIZE) |->
        SubSeq(ips, (k - 1) * BATCH_SIZE + 1, Min({k * BATCH_SIZE + 1, Len(ips)}))]

(* [unique_ips[i:i + BATCH_SIZE] for i in range(0, len, BATCH_SIZE)] *)
Batches(ips) ==
    [k \in 1..((Len(ips) + BATCH_SIZE - 1) \div BATCH_SIZE) |->
        SubSeq(ips, (k - 1) * BATCH_SIZE + 1, Min({k * BATCH_SIZE, Len(ips)}))]

(* if ip and ip in geo_cache: p["lat"] = ... (the other fields stay) *)
Locate(peers, cache) ==
    [p \in Peers |-> IF peers[p].ip # NoIP /\ peers[p].ip \in cache
                     THEN [peers[p] EXCEPT !.loc = peers[p].ip]
                     ELSE peers[p]]

VARIABLES
    disk,       \* peers.json: Whole(content) or Corrupt
    pc,         \* "idle", "batch", "open", "dump"
    peers,      \* the loaded dict
    batches,
    bi,         \* index of the next batch
    geo_cache,  \* the IPs answered so far in this run
    runs,       \* runs started
    loaded      \* the file as this run read it (history)

vars == <<disk, pc, peers, batches, bi, geo_cache, runs, loaded>>

(* peers.json as preprocess.py wrote it, possibly already enriched by an   *)
(* earlier run (a location is always the one of the peer's own IP).       *)
InitialFiles ==
    { f \in [Peers -> PeerEntry] :
        \A p \in Peers : f[p].loc \in {NoLoc} \cup ({f[p].ip} \ {NoIP}) }

Init ==
    /\ disk \in { Whole(f) : f \in InitialFiles }
    /\ pc = "idle"
    /\ peers = disk.content
    /\ batches = <<>>
    /\ bi = 1
    /\ geo_cache = {}
    /\ runs = 0
    /\ loaded = disk.content

StartRun == pc = "idle" /\ runs < MaxRuns /\ runs' = runs + 1

(* json.load(f) of a file cut short raises: the run ends at once. *)
LoadFails ==
    /\ StartRun
    /\ ~disk.whole
    /\ UNCHANGED <<disk, pc, peers, batches, bi, geo_cache, loaded>>

(* Load peers.json, collect the unique IPs and slice them into batches. *)
Load ==
    /\ StartRun
    /\ disk.whole
    /\ peers' = disk.content
    /\ batches' = Batches(UniqueIPs(disk.content))
    /\ bi' = 1
    /\ geo_cache' = {}
    /\ pc' = "batch"
    /\ loaded' = disk.content
    /\ UNCHANGED disk

(* results = geolocate_batch(batch); geo_cache.update(results): the        *)
(* answered subset, empty when the request raised.                         *)
LookupBatch ==
    /\ pc = "batch"
    /\ bi <= Len(batches)
    /\ \E answered \in SUBSET Range(batches[bi]) :
          geo_cache' = geo_cache \cup answered
    /\ bi' = bi + 1
    /\ UNCHANGED <<disk, pc, peers, batches, runs, loaded>>

(* The batch loop is over: copy locations onto the peers. *)
Enrich ==
    /\ pc = "batch"
    /\ bi > Len(batches)
    /\ peers' = Locate(peers, geo_cache)
    /\ pc' = "open"
    /\ UNCHANGED <<disk, batches, bi, geo_cache, runs, loaded>>

(* open(PEERS_PATH, "w") truncates the file ... *)
OpenForWrite ==
    /\ pc = "open"
    /\ disk' = Corrupt
    /\ pc' = "dump"
    /\ UNCHANGED <<peers, batches, bi, geo_cache, runs, loaded>>

(* ... and json.dump(peers, f) fills it. *)
Dump ==
    /\ pc = "dump"
    /\ disk' = Whole(peers)
    /\ pc' = "idle"
    /\ UNCHANGED <<peers, batches, bi, geo_cache, runs, loaded>>

(* The process is killed; only the file survives. *)
Crash ==
    /\ pc # "idle"
    /\ pc' = "idle"
    /\ UNCHANGED <<disk, peers, batches, bi, geo_cache, runs, loaded>>

Next == LoadFails \/ Load \/ LookupBatch \/ Enrich \/ OpenForWrite \/ Dump \/ Crash

Spec == Init /\ [][Next]_vars

-----------------------------------------------------------------------------
TypeOK ==
    /\ disk = Corrupt \/ (disk.whole /\ disk.content \in [Peers -> PeerEntry])
    /\ pc \in {"idle", "batch", "open", "dump"}
    /\ \A k \in DOMAIN batches :
          Len(batches[k]) \in 1..BATCH_SIZE /\ Range(batches[k]) \subseteq IPs
    /\ bi \in 1..(Len(batches) + 1)
    /\ geo_cache \subseteq IPs
    /\ runs \in 0..MaxRuns

(* Every IP of a peer in the loaded file is sent in exactly one batch, in  *)
(* the order the peers list them (range/slice arithmetic of line 68).      *)
EveryIPInOneBatch ==
    pc # "idle" =>
    LET sent == FlattenSeq(batches) IN
    /\ Range(sent) = { peers[p].ip : p \in { q \in Peers : peers[q].ip # NoIP } }
    /\ Len(sent) = Cardinality(Range(sent))
=============================================================================
