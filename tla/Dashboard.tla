------------------------------- MODULE Dashboard -------------------------------
(***************************************************************************)
(* static/data as the browser sees it through server.py: the peers.json   *)
(* that preprocess.py and geolocate.py share (module Pipeline), and        *)
(* fingerprints.json, which inspect_raw.py main writes once, at the end of *)
(* its pass, with open(out_path, "w") and json.dump (lines 320-322).       *)
(* inspect_raw.py is a separate process with no lock against the server;  *)
(* its pass is abstracted to that write, what the document holds being    *)
(* the subject of FingerprintIndex.  Before the pass writes, the file is  *)
(* whole: the document of an earlier pass (or absent, which the server    *)
(* answers with a 404, not with a cut-short file).                         *)
(***************************************************************************)
EXTENDS Pipeline

VARIABLES
    fpWriter,  \* inspect_raw.py: "idle" (still computing), "dump" (file truncated), "done"
    fpFile,    \* fingerprints.json on disk: "whole" or "cut"
    servedFp   \* the fingerprints.json the server returned last, or NoResponse

fpVars == <<fpWriter, fpFile, servedFp>>
dashVars == <<allVars, fpVars>>

DInit ==
    /\ PInit
    /\ fpWriter = "idle"
    /\ fpFile = "whole"
    /\ servedFp = NoResponse

(* with open(out_path, "w") as f: truncates fingerprints.json ... *)
FpOpen ==
    /\ fpWriter = "idle"
    /\ fpWriter' = "dump"
    /\ fpFile' = "cut"
    /\ UNCHANGED servedFp

(* ... and json.dump(output, f) fills it. *)
FpDump ==
    /\ fpWriter = "dump"
    /\ fpWriter' = "done"
    /\ fpFile' = "whole"
    /\ UNCHANGED servedFp

(* GET /data/fingerprints.json: send_from_directory returns the file as it *)
(* is now.                                                                 *)
ServeFp ==
    /\ servedFp' = fpFile
    /\ UNCHANGED <<fpWriter, fpFile>>

DNext ==
    \/ PNext /\ UNCHANGED fpVars
    \/ (FpOpen \/ FpDump \/ ServeFp) /\ UNCHANGED allVars

DSpec == DInit /\ [][DNext]_dashVars

-----------------------------------------------------------------------------
(* Every data file the server returns is a whole JSON document: a request  *)
(* for peers.json or fingerprints.json never gets the file between the     *)
(* truncation by open(.., "w") and the end of json.dump, in any of the     *)
(* three scripts that write them (spec 5: the accumulator is never read    *)
(* concurrently with a write).                                             *)
ServedWhole ==
    /\ ServedPeersWhole
    /\ servedFp \in {NoResponse, "whole"}
=============================================================================
