---------------------------- MODULE CampaignExport ----------------------------
(***************************************************************************)
(* exportSanitizedBundle (src/harness/export.js) beside the runs of the    *)
(* campaign it exports.                                                    *)
(*                                                                         *)
(* The export takes no lock.  It reads manifest.json, then one result      *)
(* after the other with its evidence, and at last the raw output, while    *)
(* CampaignRun goes on; it fills a staging directory beside the            *)
(* destination and renames it.  The user works in the destination at the   *)
(* same time.                                                              *)
(***************************************************************************)
EXTENDS CampaignRun

VARIABLES
  xpc,       \* where the export is
  withRaw,   \* includeRaw
  there,     \* did the destination exist?
  loaded,    \* the manifest as it was loaded
  got,       \* the results that are verified
  left,      \* the trials whose raw output it has still to copy
  staging,   \* the staging directory: its parts, results and raw output, or None
  dest,      \* the destination: absent, empty, the user's, or a bundle of that
  restarted  \* has a run started the campaign over since it was loaded?

exporting == <<xpc, withRaw, there, loaded, got, left, staging, dest>>
allVars == <<vars, exporting, restarted>>

Part == {"manifest", "results", "report", "readme"}
Nobody == [t \in Trial |-> None]
NoRaw == [t \in Trial |-> {}]

\* A staging directory.
Staging ==
  [parts : SUBSET Part, results : [Trial -> Result \cup {None}],
   raw : [Trial -> SUBSET Run]]

ASSUME StagingAssumption == None \notin Staging

ExportInit ==
  /\ Init
  /\ xpc = "off" /\ withRaw = FALSE /\ there = FALSE
  /\ loaded = None /\ got = Nobody /\ left = {} /\ staging = None
  /\ dest = [is |-> "absent"] /\ restarted = FALSE

Go(from, to) == xpc = from /\ xpc' = to

\* The call returns or throws.
Leave ==
  /\ xpc' = "off" /\ withRaw' = FALSE /\ there' = FALSE
  /\ loaded' = None /\ got' = Nobody /\ left' = {}

-----------------------------------------------------------------------------
(* Reading the campaign *)

\* assertSafeExportDestination: absent, or an empty directory.
BeginExport ==
  /\ Go("off", "loading") /\ dest.is \in {"absent", "empty"}
  /\ withRaw' \in BOOLEAN /\ there' = (dest.is = "empty")
  /\ UNCHANGED <<loaded, got, left, staging, dest, restarted>>

\* loadManifest; something must be finished.
LoadManifest ==
  /\ xpc = "loading"
  /\ IF disk # None /\ InState(disk, Terminal) # {}
     THEN /\ xpc' = "reading" /\ loaded' = disk
          /\ restarted' = (pc = "savingNew")
          /\ UNCHANGED <<withRaw, there, got, left>>
     ELSE Leave /\ UNCHANGED restarted
  /\ UNCHANGED <<staging, dest>>

Unread == {t \in InState(loaded, Terminal) : got[t] = None}

\* verifyCampaignEvidenceDigests, failOnUnavailable: all of them, or no export.
ReadResult(t) ==
  /\ xpc = "reading" /\ t \in Unread /\ \A u \in Unread : t <= u
  /\ IF Verified(t, res[t])
     THEN /\ got' = [got EXCEPT ![t] = res[t]]
          /\ UNCHANGED <<xpc, withRaw, there, loaded, left>>
     ELSE Leave
  /\ UNCHANGED <<staging, dest, restarted>>

-----------------------------------------------------------------------------
(* Writing the bundle *)

\* mkdtemp beside the destination.
Stage ==
  /\ Go("reading", "writing") /\ Unread = {}
  /\ staging' = [parts |-> {}, results |-> Nobody, raw |-> NoRaw]
  /\ UNCHANGED <<withRaw, there, loaded, got, left, dest, restarted>>

\* The manifest, the results, and the report and summary made from them.
WriteBundle ==
  /\ Go("writing", "raw")
  /\ staging' = [staging EXCEPT !.parts = {"manifest", "results", "report"},
                                !.results = got]
  /\ left' = IF withRaw THEN InState(loaded, Terminal) ELSE {}
  /\ UNCHANGED <<withRaw, there, loaded, got, dest, restarted>>

\* copyVerifiedTrialRaw: what is there now; what is not there or cannot be copied
\* is left out.
CopyRaw(t, copied) ==
  /\ xpc = "raw" /\ t \in left /\ \A u \in left : t <= u
  /\ staging' = IF copied THEN [staging EXCEPT !.raw[t] = raw[t]] ELSE staging
  /\ left' = left \ {t}
  /\ UNCHANGED <<xpc, withRaw, there, loaded, got, dest, restarted>>

WriteReadme ==
  /\ xpc = "raw" /\ left = {}
  /\ xpc' = IF there THEN "recheck" ELSE "publishing"
  /\ staging' = [staging EXCEPT !.parts = @ \cup {"readme"}]
  /\ UNCHANGED <<withRaw, there, loaded, got, left, dest, restarted>>

\* The destination was there: it must still be empty, or be gone.
Recheck ==
  /\ xpc = "recheck"
  /\ xpc' = CASE dest.is = "empty" -> "rmdir"
              [] dest.is = "absent" -> "publishing"
              [] OTHER -> "aborting"
  /\ UNCHANGED <<withRaw, there, loaded, got, left, staging, dest, restarted>>

\* Mutant of RemoveEmpty: rm -r.
RemoveAll ==
  /\ Go("rmdir", "publishing")
  /\ dest' = [is |-> "absent"]
  /\ UNCHANGED <<withRaw, there, loaded, got, left, staging, restarted>>

\* rmdir fails unless the directory is there and empty.
RemoveEmpty ==
  /\ xpc = "rmdir"
  /\ IF dest.is = "empty" THEN dest' = [is |-> "absent"] /\ xpc' = "publishing"
     ELSE xpc' = "aborting" /\ UNCHANGED dest
  /\ UNCHANGED <<withRaw, there, loaded, got, left, staging, restarted>>

\* rename replaces nothing but an empty directory.
Publish ==
  /\ xpc = "publishing"
  /\ IF dest.is \in {"absent", "empty"}
     THEN /\ dest' = [is |-> "bundle", of |-> staging] /\ staging' = None
          /\ Leave
     ELSE /\ xpc' = "aborting"
          /\ UNCHANGED <<withRaw, there, loaded, got, left, staging, dest>>
  /\ UNCHANGED restarted

\* Mutant of WriteError: the catch renames what is there.
WriteErrorPublishes ==
  /\ xpc \in {"writing", "raw"}
  /\ xpc' = "publishing"
  /\ UNCHANGED <<withRaw, there, loaded, got, left, staging, dest, restarted>>

\* A write into the staging directory fails.
WriteError ==
  /\ xpc \in {"writing", "raw"}
  /\ xpc' = "aborting"
  /\ UNCHANGED <<withRaw, there, loaded, got, left, staging, dest, restarted>>

\* rm -r of the staging directory; when that fails it stays there for good, as
\* it does when the process dies.
Abort ==
  /\ xpc = "aborting"
  /\ staging' = None /\ Leave
  /\ UNCHANGED <<dest, restarted>>

ExportDies ==
  /\ xpc # "off"
  /\ staging' = None /\ Leave
  /\ UNCHANGED <<dest, restarted>>

-----------------------------------------------------------------------------

\* The user makes the destination, fills it, or empties or removes it.
User ==
  /\ \/ dest.is = "absent" /\ dest' = [is |-> "empty"]
     \/ dest.is = "empty" /\ dest' \in [is : {"user", "absent"}]
     \/ dest.is \in {"user", "bundle"} /\ dest' \in [is : {"empty", "absent"}]
  /\ UNCHANGED <<xpc, withRaw, there, loaded, got, left, staging, restarted>>

Export ==
  \/ BeginExport \/ LoadManifest \/ \E t \in Trial : ReadResult(t)
  \/ Stage \/ WriteBundle \/ \E t \in Trial, copied \in BOOLEAN : CopyRaw(t, copied)
  \/ WriteReadme \/ Recheck \/ RemoveEmpty \/ Publish
  \/ WriteError \/ Abort \/ ExportDies

\* A step of a run, which may save a new manifest over the one that was loaded.
Campaign ==
  /\ Next
  /\ restarted' = (restarted \/ pc' = "savingNew")
  /\ UNCHANGED exporting

ExportNext == Campaign \/ ((Export \/ User) /\ UNCHANGED vars)

ExportSpec == ExportInit /\ [][ExportNext]_allVars

-----------------------------------------------------------------------------
(* Properties *)

\* What lies in the destination under its name is a whole bundle, whenever the
\* export failed or died: every part is there, there is a result, and every result
\* is of a usable execution (export.js 919-1065).
BundleIsWhole ==
  dest.is = "bundle" =>
    /\ dest.of.parts = Part
    /\ \E t \in Trial : dest.of.results[t] # None
    /\ \A t \in Trial : dest.of.results[t] # None => dest.of.results[t].usable

\* Without a lock the export is of one state of the campaign: as long as no run
\* starts the campaign over, what was read of a trial is what is on disk, with
\* its raw output, whatever trials the runs finish meanwhile (export.js 860-910
\* relies on run.js never touching a terminal trial again).
ExportIsSnapshot ==
  ~restarted =>
    \A t \in Trial :
      /\ got[t] # None => got[t] = res[t] /\ Verified(t, res[t])
      /\ staging # None => staging.raw[t] \in {{}, raw[t]}

\* The export never removes or replaces what the user, or another export, has put
\* into the destination, even after it was seen empty (export.js 1028-1062).
OnlyEmptyIsReplaced ==
  [][dest.is \in {"user", "bundle"} /\ dest' # dest => User]_allVars

=============================================================================
