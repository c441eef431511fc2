------------------------------ MODULE Importer ------------------------------
(***************************************************************************)
(* What an import copies (internal/importer/local.go, sftp.go), and the    *)
(* progress StartImporter reports of it (internal/api/handlers.go): the    *)
(* scan of the source, the wipe of the Cell directory, the copies one by   *)
(* one, and a failure or a crash at any of them.  The local and the SFTP   *)
(* import are the same steps on another file system.                       *)
(*                                                                         *)
(* CellAccess has the job's lock, which keeps other writers from the Cell  *)
(* directory while it runs; the source has no lock, and its server may go  *)
(* on writing.  A file is its path; the Cell's copy of it is whole, a part *)
(* or what was there before.                                               *)
(***************************************************************************)
EXTENDS Naturals, FiniteSets, FiniteSetsExt

CONSTANTS
  Files,      \* paths below the source and the Cell directory
  Hive,       \* .hivepanel, with the locks and the progress
  FileKinds,  \* what an option is about: worlds, plugins, mods, configs, jars
  KindsOf,    \* the kinds of each path: a plugin's configuration has two
  Stripped,   \* the path without a leading dot
  RootGiven,  \* TRUE: the request names the source's directory
  MaxSize     \* bound on the size of a file

ASSUME ImporterAssumption ==
  /\ KindsOf \in [Files -> SUBSET FileKinds]
  /\ Stripped \in [Files -> Files]
  /\ Hive \notin Files
  /\ MaxSize \in Nat \ {0} /\ RootGiven \in BOOLEAN

VARIABLES
  source,   \* the source's files, with their sizes
  dest,     \* the Cell directory
  before,   \* the Cell directory when the job began
  job       \* the import

importVars == <<source, dest, before, job>>

ImportSteps == {"none", "queued", "scan", "wipe", "copy", "read", "finish", "complete", "failed", "dead"}
Stands == {"own", "part", "copy"}
NoJob == [pc |-> "none", wanted |-> {}, wipe |-> FALSE, found |-> {}, size |-> [f \in {} |-> 0],
          todo |-> {}, file |-> Hive, copied |-> 0, percent |-> 0]

ImportTypeOK ==
  /\ DOMAIN source \subseteq Files /\ source \in [DOMAIN source -> 0..MaxSize]
  /\ \A d \in {dest, before} : DOMAIN d \subseteq Files \cup {Hive} /\ d \in [DOMAIN d -> Stands]
  /\ job.pc \in ImportSteps /\ job.wipe \in BOOLEAN
  /\ job.wanted \subseteq FileKinds /\ job.found \subseteq Files
  /\ DOMAIN job.size \subseteq job.found /\ job.size \in [DOMAIN job.size -> 0..MaxSize]
  /\ job.todo \subseteq Files /\ job.file \in Files \cup {Hive}
  /\ job.copied \in Nat /\ job.percent \in Nat

ImportInit ==
  /\ source = [f \in Files |-> 1]
  /\ dest = [f \in Files \cup {Hive} |-> "own"] /\ before = dest
  /\ job = NoJob

-----------------------------------------------------------------------------
Without(f, set) == [x \in DOMAIN f \ set |-> f[x]]
With(f, x, v) == [y \in DOMAIN f \cup {x} |-> IF y = x THEN v ELSE f[y]]
Total(size) == MapThenSumSet(LAMBDA f : size[f], DOMAIN size)
Resting == job.pc \in {"none", "complete", "failed", "dead"}
Failed(j) == [j EXCEPT !.pc = "failed", !.percent = 100]

\* Slips: the percentage of what is left; a file cut short passes for a copy.
BytesLeft(index, files, copied, total) ==
  IF total > 0 THEN 25 + (IF copied > total THEN 0 ELSE ((total - copied) * 65) \div total) ELSE 90
KeptGoing(j) == [j EXCEPT !.pc = "copy", !.todo = @ \ {j.file}, !.file = Hive]

\* shouldImport, of the path below the root: no kind it has is switched off.
ShouldImport(f, wanted) == KindsOf[f] \subseteq wanted

\* TrimPrefix(file.Path, remoteRoot): the root of an SFTP request that names none
\* is ".", and what it takes away is the dot of a hidden file.
Relative(f) == IF RootGiven THEN f ELSE Stripped[f]

\* The code divides floating-point numbers and cuts the rest off.
TransferPercent(index, files, copied, total) ==
  IF total > 0 THEN 25 + (copied * 65) \div total
  ELSE IF files > 0 THEN 25 + (index * 65) \div files
  ELSE 90

-----------------------------------------------------------------------------
\* Locked, and queued at 5
StartImporter(wanted, wipe) ==
  /\ Resting
  /\ job' = [NoJob EXCEPT !.pc = "queued", !.wanted = wanted, !.wipe = wipe, !.percent = 5]
  /\ before' = dest
  /\ UNCHANGED <<source, dest>>

\* Connected to the source, or not
Connect ==
  /\ job.pc = "queued"
  /\ \/ job' = [job EXCEPT !.pc = "scan", !.percent = 15]
     \/ job' = Failed(job)
  /\ UNCHANGED <<source, dest, before>>

\* collectLocalFiles and collectRemoteFiles; wipeLocalDirectory is next or left out.
Scan ==
  /\ job.pc = "scan"
  /\ LET files == {f \in DOMAIN source : ShouldImport(Relative(f), job.wanted)}
         scanned == [job EXCEPT !.found = DOMAIN source, !.size = [f \in files |-> source[f]]]
     IN
     \/ job' = IF job.wipe THEN [scanned EXCEPT !.pc = "wipe", !.percent = 20, !.todo = DOMAIN dest \ {Hive}]
               ELSE [scanned EXCEPT !.pc = "copy", !.todo = files]
     \/ job' = Failed(job)
  /\ UNCHANGED <<source, dest, before>>

\* RemoveAll, entry by entry; then the files are due.
Wipe ==
  /\ job.pc = "wipe"
  /\ \/ \E f \in job.todo : dest' = Without(dest, {f}) /\ job' = [job EXCEPT !.todo = @ \ {f}]
     \/ /\ job.todo = {}
        /\ job' = [job EXCEPT !.pc = "copy", !.todo = DOMAIN job.size]
        /\ UNCHANGED dest
     \/ job' = Failed(job) /\ UNCHANGED dest
  /\ UNCHANGED <<source, before>>

\* The next file: reported, opened at the source, cut to nothing at the
\* destination; or one of the two does not open.
CopyBegin(f) ==
  LET files == Cardinality(DOMAIN job.size)
      percent == TransferPercent(files - Cardinality(job.todo), files, job.copied, Total(job.size))
  IN
  /\ job.pc = "copy" /\ f \in job.todo
  /\ \/ /\ f \in DOMAIN source
        /\ dest' = With(dest, Relative(f), "part")
        /\ job' = [job EXCEPT !.pc = "read", !.file = f, !.percent = percent]
     \/ job' = Failed(job) /\ UNCHANGED dest
  /\ UNCHANGED <<source, before>>

\* io.Copy goes on to the end the file has by now; one removed meanwhile is still
\* read from its handle.
CopyEnd ==
  /\ job.pc = "read"
  /\ dest' = With(dest, Relative(job.file), "copy")
  /\ \E n \in IF job.file \in DOMAIN source THEN {source[job.file]} ELSE 0..MaxSize :
       job' = [job EXCEPT !.pc = "copy", !.copied = @ + n, !.todo = @ \ {job.file}, !.file = Hive]
  /\ UNCHANGED <<source, before>>

\* What becomes of the job when the copy breaks off.
AfterError(j) == Failed(j)

CopyFails ==
  /\ job.pc = "read"
  /\ job' = AfterError(job)
  /\ UNCHANGED <<source, dest, before>>

\* 92, and then the job says so and is over.
Finish ==
  /\ \/ job.pc = "copy" /\ job.todo = {} /\ job' = [job EXCEPT !.pc = "finish", !.percent = 92]
     \/ job.pc = "finish" /\ job' = [job EXCEPT !.pc = "complete", !.percent = 100]
  /\ UNCHANGED <<source, dest, before>>

ImportCrash ==
  /\ ~Resting
  /\ job' = [job EXCEPT !.pc = "dead"]
  /\ UNCHANGED <<source, dest, before>>

\* The source's server goes on writing; the Cell's files change between imports.
SourceChanges(f) ==
  /\ source' \in {Without(source, {f})} \cup {With(source, f, n) : n \in 0..MaxSize}
  /\ UNCHANGED <<dest, before, job>>

CellChanges(f) ==
  /\ Resting
  /\ dest' \in {Without(dest, {f}), With(dest, f, "own")}
  /\ job' = NoJob /\ before' = dest'
  /\ UNCHANGED source

ImportNext ==
  \/ \E wanted \in SUBSET FileKinds, wipe \in BOOLEAN : StartImporter(wanted, wipe)
  \/ Connect \/ Scan \/ Wipe \/ CopyEnd \/ CopyFails \/ Finish \/ ImportCrash
  \/ \E f \in Files : CopyBegin(f) \/ SourceChanges(f) \/ CellChanges(f)

ImportSpec == ImportInit /\ [][ImportNext]_importVars

-----------------------------------------------------------------------------
\* The files the scan found, but for those of a kind that was switched off.
Chosen == {f \in job.found : \A k \in FileKinds \ job.wanted : k \notin KindsOf[f]}

\* An import that reports success has put every file it was to bring in its
\* place, whole, and nothing else: with a wipe the Cell has no other file, without
\* one every other is as it was.  One that fails or dies at any step has touched
\* no file but those it was to bring and, with a wipe, those it was to remove.
\* .hivepanel outlives all of it (sftp.go:93, local.go:66).
ImportExact ==
  /\ dest[Hive] = "own"
  /\ \A f \in Files \ Chosen :
       \/ f \notin DOMAIN dest /\ (job.wipe \/ f \notin DOMAIN before)
       \/ f \in DOMAIN dest \cap DOMAIN before /\ dest[f] = before[f]
  /\ job.pc \in {"finish", "complete"} =>
       /\ \A f \in Chosen : f \in DOMAIN dest /\ dest[f] = "copy"
       /\ job.wipe => DOMAIN dest = Chosen \cup {Hive}

\* The percentage an import reports does not go back while it runs, unless the
\* source holds more by now than the scan added up: then the quotient passes one,
\* and the 92 at the end is a step back (sftp.go:451).
ProgressAdvances ==
  [][~Resting /\ job'.copied <= Total(job'.size) => job'.percent >= job.percent]_importVars
=============================================================================
