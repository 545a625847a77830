------------------------------- MODULE Pipeline --------------------------------
(***************************************************************************)
(* The three programs that share static/data/peers.json:                   *)
(*   - preprocess.py main writes it (open(.., "w"); json.dump), line 456;  *)
(*   - geolocate.py main loads it, enriches it and writes it back in place *)
(*     (module Geolocate);                                                 *)
(*   - server.py serves it to the browser with send_from_directory.        *)
(* They are separate processes with no lock between them, so their steps   *)
(* interleave freely, and either script may be killed at any point.        *)
(*                                                                         *)
(* preprocess.py recomputes every peer from the parquet data and the node  *)
(* list: the entries it writes have an ip (or none) and never a location.  *)
(* Its other outputs (wavefronts, messages, leaks, summary) are written    *)
(* after peers.json and are read by nobody here.                           *)
(***************************************************************************)
EXTENDS Geolocate

CONSTANTS
    MaxPrepRuns,  \* bound on the number of times preprocess.py is started
    NoResponse    \* nothing served yet

VARIABLES
    prep,       \* preprocess.py: "idle", "open" (peers built), "dump" (file truncated)
    prepPeers,  \* the peers dict preprocess.py is about to write
    prepRuns,
    served,     \* the peers.json the server returned last
    prepOut,    \* history: the last peers.json preprocess.py completed
    killed,     \* history: either script has been killed
    overlaid    \* the scripts whose open handle the other has written through

geoVars == vars
prepVars == <<prep, prepPeers, prepRuns>>
allVars == <<geoVars, prepVars, served, prepOut, killed, overlaid>>

(* Mutant of FreshPeers: the rebuilt entries copy lat/lon from the old    *)
(* peers.json whatever IP the peer has now.                                *)
FreshPeersMerged == [Peers -> PeerEntry]

(* build_peer_data: a fresh entry per peer, ip from node_map, no location. *)
FreshPeers == [Peers -> [ip: IPs \cup {NoIP}, loc: {NoLoc}]]

PInit ==
    /\ Init
    /\ prep = "idle"
    /\ prepPeers = [p \in Peers |-> [ip |-> NoIP, loc |-> NoLoc]]
    /\ prepRuns = 0
    /\ served = NoResponse
    /\ prepOut = disk.content
    /\ killed = FALSE
    /\ overlaid = {}

(* Both scripts open peers.json with open(.., "w"): no O_APPEND, no lock, *)
(* so each handle writes from offset 0 of the one file.  When the other    *)
(* script has written through its handle since this one's open truncated  *)
(* the file, json.dump leaves this document, or this document followed by *)
(* the tail of a longer one.                                              *)
Other(w) == IF w = "geo" THEN "prep" ELSE "geo"
HandleOpen(w) == IF w = "geo" THEN pc = "dump" ELSE prep = "dump"

Dumped(w, content) ==
    IF w \in overlaid THEN {Whole(content), Corrupt} ELSE {Whole(content)}

(* open(.., "w") of w truncates the file: what any handle wrote is gone.  *)
Truncated(w) == overlaid' = {}

(* Bytes of w reach the file: an open handle of the other script now      *)
(* writes over them; w's own handle is closed.                            *)
WroteThrough(w) ==
    overlaid' = (overlaid \ {w}) \cup (IF HandleOpen(Other(w)) THEN {Other(w)} ELSE {})

(* Steps 1-6 of preprocess.py main: everything up to the write of peers.json. *)
PrepBuild ==
    /\ prep = "idle"
    /\ prepRuns < MaxPrepRuns
    /\ prepRuns' = prepRuns + 1
    /\ prepPeers' \in FreshPeers
    /\ prep' = "open"
    /\ UNCHANGED <<disk, prepOut>>

(* with open(OUTPUT_DIR / "peers.json", "w") truncates the file ... *)
PrepOpen ==
    /\ prep = "open"
    /\ disk' = Corrupt
    /\ prep' = "dump"
    /\ UNCHANGED <<prepPeers, prepRuns, prepOut>>

(* ... and json.dump(peers, f) fills it. *)
PrepDump ==
    /\ prep = "dump"
    /\ disk' \in Dumped("prep", prepPeers)
    /\ prep' = "idle"
    /\ prepOut' = prepPeers
    /\ UNCHANGED <<prepPeers, prepRuns>>

(* preprocess.py is killed, or fails, before it is done with peers.json. *)
PrepCrash ==
    /\ prep # "idle"
    /\ prep' = "idle"
    /\ UNCHANGED <<disk, prepPeers, prepRuns, prepOut>>

(* GET /data/peers.json: send_from_directory returns the file as it is now. *)
Serve ==
    /\ served' = disk
    /\ UNCHANGED <<geoVars, prepVars, prepOut, killed>>

(* json.dump(peers, f) of geolocate.py through its handle (Dump, with the *)
(* outcomes of a shared file).                                             *)
GeoDump ==
    /\ pc = "dump"
    /\ disk' \in Dumped("geo", peers)
    /\ pc' = "idle"
    /\ UNCHANGED <<peers, batches, bi, geo_cache, runs, loaded>>

(* A kill after the truncation may leave part of the dump in the file. *)
Killed(w, at) == IF at = "dump" THEN WroteThrough(w) ELSE overlaid' = overlaid \ {w}

(* A step of geolocate.py, and one of preprocess.py; a kill of either    *)
(* is recorded in killed.                                                  *)
GeoStep(A)  == A /\ UNCHANGED <<prepVars, served, prepOut, killed>>
PrepStep(A) == A /\ UNCHANGED <<pc, peers, batches, bi, geo_cache, runs, loaded, served, killed>>
GeoKill     == Crash /\ killed' = TRUE /\ Killed("geo", pc)
               /\ UNCHANGED <<prepVars, served, prepOut>>
PrepKill    == PrepCrash /\ killed' = TRUE /\ Killed("prep", prep)
               /\ UNCHANGED <<pc, peers, batches, bi, geo_cache, runs, loaded, served>>

PNext ==
    \/ (GeoStep(LoadFails) \/ GeoStep(Load) \/ GeoStep(LookupBatch) \/ GeoStep(Enrich)
        \/ PrepStep(PrepBuild)) /\ UNCHANGED overlaid
    \/ GeoStep(OpenForWrite) /\ Truncated("geo")
    \/ GeoStep(GeoDump) /\ WroteThrough("geo")
    \/ PrepStep(PrepOpen) /\ Truncated("prep")
    \/ PrepStep(PrepDump) /\ WroteThrough("prep")
    \/ GeoKill \/ PrepKill
    \/ Serve /\ UNCHANGED overlaid

PSpec == PInit /\ [][PNext]_allVars


-----------------------------------------------------------------------------
PTypeOK ==
    /\ TypeOK
    /\ prep \in {"idle", "open", "dump"}
    /\ prepPeers \in [Peers -> [ip: IPs \cup {NoIP}, loc: {NoLoc}]]
    /\ prepRuns \in 0..MaxPrepRuns
    /\ served = NoResponse \/ served = Corrupt
       \/ (served.whole /\ served.content \in [Peers -> PeerEntry])
    /\ prepOut \in [Peers -> PeerEntry]
    /\ killed \in BOOLEAN
    /\ overlaid \subseteq {"geo", "prep"}

IPsOf(content) == [p \in Peers |-> content[p].ip]

(* Whatever order the scripts run in, and wherever they are killed, a     *)
(* location in a whole peers.json is always the one looked up for the IP   *)
(* listed beside it: no peer is shown where its previous IP was.           *)
LocationsMatchIP ==
    disk.whole => \A p \in Peers : disk.content[p].loc \in {NoLoc, disk.content[p].ip}

(* Once both scripts are idle and neither was killed, peers.json is a     *)
(* whole JSON document: whatever order the two scripts' truncate-then-dump *)
(* writes interleave in, the last one leaves a file json.load can read.    *)
WholeWhenIdle ==
    (~killed /\ pc = "idle" /\ prep = "idle") => disk.whole

(* Every peers.json the server returns is a whole JSON document: a reader  *)
(* never sees the file between the truncation by open(.., "w") and the end *)
(* of json.dump, in either script.                                         *)
ServedPeersWhole == served = NoResponse \/ served.whole

(* The file on disk always carries the peers and IPs that preprocess.py    *)
(* computed last: a geolocate.py run never writes back an older peer set.  *)
FreshPeersKept == disk.whole => IPsOf(disk.content) = IPsOf(prepOut)
=============================================================================
