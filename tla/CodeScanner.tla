----------------------------- MODULE CodeScanner ------------------------------
(***************************************************************************)
(* The static scanner of installed integrations (scanner.py), for one      *)
(* third-party domain: the scan of its tree with one executor job per      *)
(* file, the cache of hits by file signature, and the reconciliation of    *)
(* the findings table, while HACS replaces files, the configuration entry  *)
(* comes and goes, and an analyst sets statuses.  Scans are started by the *)
(* weekly sweep, by the panel and when an entry is added; nothing keeps    *)
(* two of them apart.                                                      *)
(*                                                                         *)
(* A file holds one line that may match one rule, so a file has at most    *)
(* one finding, of severity high; a file over the size limit is listed but *)
(* not read.  The rules themselves are not modelled.                       *)
(***************************************************************************)
EXTENDS Naturals, FiniteSets

CONSTANTS
  SourceFiles,     \* files of the integration
  Scans,           \* scans that may be under way at once
  NoFile,          \* no file is being read
  MaxVersions,     \* bound: replacements of files
  MaxEntryChanges  \* bound: removals and additions of the entry

ASSUME ScannerAssumption ==
  /\ NoFile \notin SourceFiles
  /\ {MaxVersions, MaxEntryChanges} \subseteq Nat

Contents == {"clean", "hit", "broken", "large", "absent"}
FindingStatuses == {"new", "confirmed", "dismissed", "resolved"}
KeptStatuses == {"confirmed", "dismissed", "resolved"}
NotRead == "unread"

VARIABLES
  csFile,          \* file -> content and signature
  csVersions,      \* replacements so far
  csCache,         \* _scan_cache: file -> signature and content seen
  csRow,           \* scanner_findings: file -> status
  csIssue,         \* the Repairs issue scanner_<domain>
  csEntry,         \* the domain has a configuration entry
  csChanges,       \* entry changes so far
  csScan,          \* what each scan is at
  csTold           \* the table was last written by an undisturbed scan

csDisk == <<csFile, csVersions>>
csTable == <<csRow, csIssue>>
csVars == <<csDisk, csCache, csTable, csEntry, csChanges, csScan, csTold>>

IdleScan == [pc |-> "idle", all |-> {}, selected |-> {}, todo |-> {}, at |-> NoFile, sig |-> 0,
           seen |-> [f \in SourceFiles |-> NotRead], alone |-> TRUE]
NoCached == [sig |-> MaxVersions + 1, content |-> NotRead]

CsTypeOK ==
  /\ \A f \in SourceFiles :
       /\ csFile[f].content \in Contents /\ csFile[f].sig \in 0 .. MaxVersions
       /\ csCache[f].sig \in 0 .. MaxVersions + 1
       /\ csCache[f].content \in {"clean", "hit", "broken", NotRead}
       /\ csRow[f] \in FindingStatuses \cup {"none"}
  /\ \A s \in Scans :
       /\ csScan[s].pc \in {"idle", "plan", "next", "stat", "read"}
       /\ csScan[s].todo \subseteq SourceFiles
       /\ csScan[s].at \in SourceFiles \cup {NoFile}
  /\ csVersions \in 0 .. MaxVersions /\ csChanges \in 0 .. MaxEntryChanges
  /\ {csIssue, csEntry, csTold} \subseteq BOOLEAN

CsInit ==
  /\ csFile \in [SourceFiles -> {[content |-> c, sig |-> 0] : c \in {"clean", "hit"}}]
  /\ csVersions = 0 /\ csChanges = 0
  /\ csCache = [f \in SourceFiles |-> NoCached]
  /\ csRow = [f \in SourceFiles |-> "none"] /\ csIssue = FALSE
  /\ csEntry = TRUE
  /\ csScan = [s \in Scans |-> IdleScan]
  /\ csTold = FALSE

ScanAt(s, pc) == csScan[s].pc = pc
Running == {s \in Scans : ~ScanAt(s, "idle")}

\* Something happened that the scans under way may have missed.
Disturbed(scans) == [s \in Scans |-> [scans[s] EXCEPT !.alone = FALSE]]

-----------------------------------------------------------------------------
(* A scan.                                                                 *)

\* async_scan_integration, from any of its three callers.
ScanStarted(s) ==
  /\ ScanAt(s, "idle") /\ csEntry
  /\ csScan' = [Disturbed(csScan) EXCEPT
                  ![s] = [IdleScan EXCEPT !.pc = "plan", !.alone = (Running = {})]]
  /\ UNCHANGED <<csDisk, csCache, csTable, csEntry, csChanges, csTold>>

\* _plan_scan: every file is a candidate, the large ones are not selected.
ScanPlanned(s) ==
  /\ ScanAt(s, "plan")
  /\ LET all == {f \in SourceFiles : csFile[f].content # "absent"}
         selected == {f \in all : csFile[f].content # "large"}
     IN csScan' = [csScan EXCEPT ![s].pc = "next", ![s].all = all,
                                 ![s].selected = selected, ![s].todo = selected]
  /\ UNCHANGED <<csDisk, csCache, csTable, csEntry, csChanges, csTold>>

\* _scan_file: the signature first.
FileStat(s, f) ==
  /\ ScanAt(s, "next") /\ f \in csScan[s].todo
  /\ csScan' = IF csFile[f].content = "absent"
               THEN [csScan EXCEPT ![s].todo = @ \ {f}]
               ELSE [csScan EXCEPT ![s].pc = "stat", ![s].at = f, ![s].sig = csFile[f].sig]
  /\ UNCHANGED <<csDisk, csCache, csTable, csEntry, csChanges, csTold>>

SeenContent(s, content) ==
  [csScan EXCEPT ![s].pc = "next", ![s].at = NoFile, ![s].todo = @ \ {csScan[s].at},
                 ![s].seen = [@ EXCEPT ![csScan[s].at] = content]]

\* A file with the signature of the cache is not read.
FileCached(s) ==
  /\ ScanAt(s, "stat") /\ csCache[csScan[s].at].sig = csScan[s].sig
  /\ csScan' = SeenContent(s, csCache[csScan[s].at].content)
  /\ UNCHANGED <<csDisk, csCache, csTable, csEntry, csChanges, csTold>>

Signature_AfterRead(s) == csFile[csScan[s].at].sig

\* The signature the result is kept under was taken before the read.
Signature(s) == csScan[s].sig

\* What a file that has been read is remembered as; one that could not be
\* read is not.
FileRead(s) ==
  /\ ScanAt(s, "stat") /\ csCache[csScan[s].at].sig # csScan[s].sig
  /\ csScan' = [csScan EXCEPT ![s].pc = "read",
                  ![s].seen = [@ EXCEPT ![csScan[s].at] =
                    CASE csFile[csScan[s].at].content = "absent" -> NotRead
                      [] csFile[csScan[s].at].content = "large" -> "clean"
                      [] OTHER -> csFile[csScan[s].at].content]]
  /\ UNCHANGED <<csDisk, csCache, csTable, csEntry, csChanges, csTold>>

FileParsed(s) ==
  LET f == csScan[s].at IN
  /\ ScanAt(s, "read")
  /\ csCache' = IF csScan[s].seen[f] = NotRead THEN csCache
                ELSE [csCache EXCEPT ![f] = [sig |-> Signature(s), content |-> csScan[s].seen[f]]]
  /\ csScan' = SeenContent(s, csScan[s].seen[f])
  /\ UNCHANGED <<csDisk, csTable, csEntry, csChanges, csTold>>

FileScanned(s) == {f \in SourceFiles : csScan[s].seen[f] \in {"clean", "hit"}}
Found(s) == {f \in SourceFiles : csScan[s].seen[f] = "hit"}

Evaluated_ReadOnly(s) == FileScanned(s)
Evaluated_Listed(s) == FileScanned(s) \cup csScan[s].all

\* Files a missing finding may be resolved for: scanned, or gone.
Evaluated(s) == FileScanned(s) \cup (SourceFiles \ csScan[s].all)

\* async_upsert_finding keeps the status of a row that is there;
\* _reconcile_domain_findings resolves those this scan did not find.
Reconciled(s) ==
  [f \in SourceFiles |->
     CASE f \in Found(s) -> IF csRow[f] = "none" THEN "new" ELSE csRow[f]
       [] f \notin Found(s) /\ f \in Evaluated(s) /\ csRow[f] # "none" -> "resolved"
       [] OTHER -> csRow[f]]

\* _build_report and the rest of async_scan_integration, on the event loop.
ScanApplied(s) ==
  /\ ScanAt(s, "next") /\ csScan[s].todo = {}
  /\ csRow' = Reconciled(s)
  /\ csIssue' = IF \E f \in Found(s) : csRow[f] = "none" THEN TRUE
                ELSE csIssue /\ Found(s) # {}
  /\ csCache' = [f \in SourceFiles |-> IF f \in csScan[s].selected THEN csCache[f] ELSE NoCached]
  /\ csTold' = (csScan[s].alone /\ csEntry)
  /\ csScan' = [csScan EXCEPT ![s] = IdleScan]
  /\ UNCHANGED <<csDisk, csEntry, csChanges>>

-----------------------------------------------------------------------------
(* What happens meanwhile.                                                 *)

\* HACS or the user replaces, adds or removes a file.
FileChanges(f, content) ==
  /\ csVersions < MaxVersions /\ csVersions' = csVersions + 1
  /\ csFile[f].content # content
  /\ csFile' = [csFile EXCEPT ![f] = [content |-> content, sig |-> csVersions']]
  /\ csScan' = Disturbed(csScan) /\ csTold' = FALSE
  /\ UNCHANGED <<csCache, csTable, csEntry, csChanges>>

\* ws_scanner_set_status.
StatusSetTo(f, status) ==
  /\ csRow[f] \notin {"none", status}
  /\ csRow' = [csRow EXCEPT ![f] = status]
  /\ csTold' = FALSE /\ csScan' = Disturbed(csScan)
  /\ UNCHANGED <<csDisk, csCache, csIssue, csEntry, csChanges>>

\* _on_config_entry_removed, of the last entry of the domain.
EntryRemoved ==
  /\ csEntry /\ csChanges < MaxEntryChanges
  /\ csEntry' = FALSE /\ csChanges' = csChanges + 1
  /\ csCache' = [f \in SourceFiles |-> NoCached]
  /\ csRow' = [f \in SourceFiles |->
                 IF csRow[f] \in KeptStatuses \cup {"none"} THEN csRow[f] ELSE "resolved"]
  /\ csScan' = Disturbed(csScan) /\ csTold' = FALSE
  /\ UNCHANGED <<csDisk, csIssue>>

EntryAdded ==
  /\ ~csEntry /\ csChanges < MaxEntryChanges
  /\ csEntry' = TRUE /\ csChanges' = csChanges + 1
  /\ UNCHANGED <<csDisk, csCache, csTable, csScan, csTold>>

CsNext ==
  \/ \E s \in Scans : \/ ScanStarted(s) \/ ScanPlanned(s) \/ FileCached(s) \/ FileRead(s)
                      \/ FileParsed(s) \/ ScanApplied(s)
                      \/ \E f \in SourceFiles : FileStat(s, f)
  \/ \E f \in SourceFiles, c \in Contents : FileChanges(f, c)
  \/ \E f \in SourceFiles, t \in {"dismissed", "resolved"} : StatusSetTo(f, t)
  \/ EntryRemoved \/ EntryAdded

CsSpec == CsInit /\ [][CsNext]_csVars

-----------------------------------------------------------------------------
(* Properties.                                                             *)

\* A file replaced while it is being scanned never leaves a result in the
\* cache under the signature of its new content.
CacheIsTrue ==
  \A f \in SourceFiles :
    csCache[f].sig = csFile[f].sig /\ csFile[f].content \notin {"absent", "large"} =>
      csCache[f].content = csFile[f].content

\* After a scan nothing disturbed, every file that matches has a row, and a
\* file that does not match, or is gone, has no open one, whatever earlier
\* scans read from the cache or applied late.
TableIsTrue ==
  csTold => \A f \in SourceFiles :
              /\ csFile[f].content = "hit" => csRow[f] # "none"
              /\ csFile[f].content \in {"clean", "absent"} => csRow[f] \in {"none", "resolved"}

\* A rescan resolves a finding only when it has read its file or the file is
\* gone: what it skipped or could not parse stays as it was.
SkippedIsKept ==
  [][\A s \in Scans, f \in SourceFiles :
       /\ ScanAt(s, "next") /\ csScan'[s].pc = "idle" /\ csScan[s].alone
       /\ csFile[f].content \in {"broken", "large"}
       => csRow'[f] = csRow[f]]_csVars

\* The cache and the table tell the truth about the files, and what a scan could
\* not read it leaves alone.
ScansTrue == [](CsTypeOK /\ CacheIsTrue /\ TableIsTrue) /\ SkippedIsKept
=============================================================================
