----------------------------- MODULE CaseBundle -----------------------------
(***************************************************************************)
(* The case bundle writer: write_case_bundle writes the artifacts one by   *)
(* one into a directory that may hold an earlier bundle, then hashes what  *)
(* it wrote and writes the manifest.  write_reconstruction_bundle follows  *)
(* the same steps with its own list of files.                              *)
(*                                                                         *)
(* The content of a file is the number of the run that wrote it.  A run    *)
(* that dies while it writes leaves the file torn: open() has truncated it *)
(* before the text is there.                                               *)
(***************************************************************************)
EXTENDS Naturals, Sequences

CONSTANTS BundleFiles,       \* the names, in the order they are written
          Absent, Torn,      \* no file; a file cut short
          MaxRuns            \* bound: runs of the command

ASSUME BundleAssumption == /\ BundleFiles \in Seq(STRING)
                           /\ Absent \notin Nat /\ Torn \notin Nat /\ Absent # Torn
                           /\ MaxRuns \in Nat

VARIABLES files,       \* name -> content
          manifest,    \* manifest.json: Absent, Torn or the run and its hashes
          written      \* how many files this run has written

bundleVars == <<files, manifest, written>>

Names == {BundleFiles[i] : i \in 1 .. Len(BundleFiles)}
Contents == (1 .. MaxRuns) \cup {Absent, Torn}
Manifests == {Absent, Torn} \cup [id : 1 .. MaxRuns, sha256 : [Names -> Contents]]

BundleTypeOK == /\ files \in [Names -> Contents]
                /\ manifest \in Manifests
                /\ written \in 0 .. Len(BundleFiles)

BundleInit == /\ files = [n \in Names |-> Absent]
              /\ manifest = Absent
              /\ written = 0

(* One of the known files is there already. *)
Existing == manifest # Absent \/ \E n \in Names : files[n] # Absent

NextFile == BundleFiles[written + 1]

(* Mutant: files that are there already are kept. *)
WriteMissing(r) ==
  /\ written < Len(BundleFiles)
  /\ files' = [files EXCEPT ![NextFile] = IF @ = Absent THEN r ELSE @]
  /\ written' = written + 1
  /\ UNCHANGED manifest

(* path.write_text(artifacts[name]) *)
WriteFile(r) == /\ written < Len(BundleFiles)
                /\ files' = [files EXCEPT ![NextFile] = r]
                /\ written' = written + 1
                /\ UNCHANGED manifest

(* The hashes are those of the files on disk. *)
WriteManifest(r) == /\ written = Len(BundleFiles)
                    /\ manifest' = [id |-> r, sha256 |-> files]
                    /\ UNCHANGED <<files, written>>

(* The process dies inside a write. *)
TearWrite == IF written < Len(BundleFiles)
             THEN files' = [files EXCEPT ![NextFile] = Torn] /\ UNCHANGED <<manifest, written>>
             ELSE manifest' = Torn /\ UNCHANGED <<files, written>>

(* Every file has the hash the manifest gives it. *)
Verifies == /\ manifest \notin {Absent, Torn}
            /\ \A n \in Names : manifest.sha256[n] = files[n]

(* The manifest vouches for one case: write_case_bundle may die anywhere,   *)
(* over an earlier bundle too, but a directory whose files all have the     *)
(* hashes of its manifest holds the files of the run the manifest names,    *)
(* never a mixture of two cases or a file cut short.                        *)
VerifiedIsOneCase == Verifies => \A n \in Names : files[n] = manifest.id
=============================================================================
