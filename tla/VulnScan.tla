------------------------------- MODULE VulnScan -------------------------------
(***************************************************************************)
(* The device vulnerability scan of vulns.py: the firmware check, the      *)
(* resolving of what is gone, and the correlation of devices with the CVEs *)
(* the NVD answers, page by page, behind the lock that keeps scans apart.  *)
(* A CVE is the number of the page it stands on, and a higher number is a  *)
(* higher score.                                                           *)
(***************************************************************************)
EXTENDS Naturals, Sequences, FiniteSets

CONSTANTS
  VulnScans,       \* the timer's scan and those asked for in the panel
  Devices,         \* device ids
  MatchOf,         \* device -> the match string of its maker and model
  Pages,           \* NVD_MAX_PAGES and the pages there are
  PageRetries,     \* NVD_MAX_RATE_LIMIT_RETRIES
  MaxFindings,     \* MAX_FINDINGS_PER_DEVICE
  MaxDeviceChanges,\* bound: changes of the registry, of updates and of the setting
  MaxAnalyst       \* bound: statuses set by an analyst

ASSUME VulnAssumption ==
  /\ {Pages, PageRetries, MaxFindings, MaxDeviceChanges, MaxAnalyst} \subseteq Nat
  /\ Pages # 0 /\ DOMAIN MatchOf = Devices /\ Devices # {}

MatchStrings == {MatchOf[d] : d \in Devices}
Firmware == 0                                  \* the CVE number of firmware_outdated
VulnRows == Devices \X (0 .. Pages)

VARIABLES
  vsDevices,       \* the device registry, in its order
  vsOutdated,      \* devices whose firmware update entity is on
  vsEnabled,       \* nvd_lookups_enabled
  vsRow,           \* vuln_findings: row -> status
  vsFetched,       \* _last_fetched: match strings fetched within the TTL
  vsScan,          \* what each scan is at
  vsChanges, vsAnalyst,
  vsListed,        \* devices the latest scan found registered
  vsReopened       \* rows an analyst set to new since that scan began

vsWorld == <<vsDevices, vsOutdated, vsEnabled, vsChanges>>
vsVars == <<vsWorld, vsRow, vsFetched, vsScan, vsAnalyst, vsListed, vsReopened>>

Registered(reg) == {reg[i] : i \in 1 .. Len(reg)}
Unasked == Pages + 1                           \* an answer is the number of pages, 0 a failure
NoAnswer == [m \in MatchStrings |-> Unasked]
NoScan == [pc |-> "idle", todo |-> <<>>, cache |-> NoAnswer, page |-> 0, attempt |-> 0, asked |-> <<>>]

VsTypeOK ==
  /\ Registered(vsDevices) \subseteq Devices /\ Len(vsDevices) = Cardinality(Registered(vsDevices))
  /\ vsOutdated \subseteq Devices /\ vsListed \subseteq Devices
  /\ vsEnabled \in BOOLEAN
  /\ vsRow \in [VulnRows -> {"none", "new", "confirmed", "dismissed", "resolved"}]
  /\ vsFetched \subseteq MatchStrings
  /\ \A s \in VulnScans : /\ vsScan[s].pc \in {"idle", "waiting", "next", "asking"}
                          /\ vsScan[s].page \in 0 .. Pages
                          /\ vsScan[s].attempt \in 0 .. PageRetries
  /\ vsReopened \subseteq VulnRows
  /\ vsChanges \in 0 .. MaxDeviceChanges /\ vsAnalyst \in 0 .. MaxAnalyst

VsInit ==
  /\ vsDevices = <<CHOOSE d \in Devices : TRUE>>
  /\ vsOutdated = {} /\ vsEnabled = TRUE /\ vsChanges = 0 /\ vsAnalyst = 0
  /\ vsRow = [r \in VulnRows |-> "none"]
  /\ vsFetched = {}
  /\ vsScan = [s \in VulnScans |-> NoScan]
  /\ vsListed = {} /\ vsReopened = {}

-----------------------------------------------------------------------------
(* The table.                                                              *)

Settled_Dismissed == {"none", "dismissed", "resolved"}

\* Rows no scan resolves.
Settled == {"none", "dismissed", "confirmed", "resolved"}

\* async_upsert_finding keeps the status of a row that is there.
WithRow(row, r) == IF row[r] = "none" THEN [row EXCEPT ![r] = "new"] ELSE row

\* _check_firmware_currency, _resolve_no_longer_outdated_firmware and
\* _resolve_findings_for_removed_devices, in one step of the loop.
AfterChecks(listed) ==
  [r \in VulnRows |->
     CASE r[1] \notin listed -> IF vsRow[r] \in Settled THEN vsRow[r] ELSE "resolved"
       [] r[2] = Firmware /\ r[1] \in vsOutdated -> WithRow(vsRow, r)[r]
       [] r[2] = Firmware -> IF vsRow[r] \in Settled THEN vsRow[r] ELSE "resolved"
       [] OTHER -> vsRow[r]]

\* _build_findings_for_device: the highest scores, no more than the limit.
TopFindings(cves) == {c \in cves : Cardinality({x \in cves : x > c}) < MaxFindings}

AddFindings(d, cves) ==
  vsRow' = [r \in VulnRows |-> IF r[1] = d /\ r[2] \in TopFindings(cves)
                               THEN WithRow(vsRow, r)[r] ELSE vsRow[r]]

-----------------------------------------------------------------------------
(* A scan.                                                                 *)

MayRun_Unlocked == TRUE

\* _scan_lock is free.
MayRun == \A s \in VulnScans : vsScan[s].pc \in {"idle", "waiting"}

\* async_run_scan up to the lock: the timer, or scan_now in the panel.
AskForScan(s) ==
  /\ vsScan[s].pc = "idle"
  /\ vsScan' = [vsScan EXCEPT ![s].pc = "waiting"]
  /\ UNCHANGED <<vsWorld, vsRow, vsFetched, vsAnalyst, vsListed, vsReopened>>

\* _async_run_scan_locked up to the first query: without lookups it ends here.
BeginScan(s) ==
  /\ vsScan[s].pc = "waiting" /\ MayRun
  /\ vsRow' = AfterChecks(Registered(vsDevices))
  /\ vsScan' = [vsScan EXCEPT ![s] = IF vsEnabled
                                     THEN [NoScan EXCEPT !.pc = "next", !.todo = vsDevices]
                                     ELSE NoScan]
  /\ vsListed' = Registered(vsDevices) /\ vsReopened' = {}
  /\ UNCHANGED <<vsWorld, vsFetched, vsAnalyst>>

Cached_UnlessFetched(s, m) == vsScan[s].cache[m] # Unasked /\ m \notin vsFetched

\* run_cache, which is asked before the TTL is.
Cached(s, m) == vsScan[s].cache[m] # Unasked

\* The loop of _async_correlate_cves for a device that needs no query: the
\* answer of this run is used, or a recent fetch makes the device wait.
PassDevice(s) ==
  /\ vsScan[s].pc = "next" /\ vsScan[s].todo # <<>>
  /\ LET d == Head(vsScan[s].todo)  m == MatchOf[d]
     IN  /\ Cached(s, m) \/ m \in vsFetched
         /\ AddFindings(d, IF Cached(s, m) THEN 1 .. vsScan[s].cache[m] ELSE {})
  /\ vsScan' = [vsScan EXCEPT ![s].todo = Tail(@)]
  /\ UNCHANGED <<vsWorld, vsFetched, vsAnalyst, vsListed, vsReopened>>

\* The first page of _async_query_nvd is asked for.
AskNvd(s) ==
  /\ vsScan[s].pc = "next" /\ vsScan[s].todo # <<>>
  /\ LET m == MatchOf[Head(vsScan[s].todo)]
     IN  /\ ~Cached(s, m) /\ m \notin vsFetched
         /\ vsScan' = [vsScan EXCEPT ![s].pc = "asking", ![s].page = 0, ![s].attempt = 0,
                                     ![s].asked = Append(@, m)]
  /\ UNCHANGED <<vsWorld, vsRow, vsFetched, vsAnalyst, vsListed, vsReopened>>

Remembered_Successes(n) == IF n = 0 THEN Unasked ELSE n

\* What run_cache holds of an answer: a failed query too.
Remembered(n) == n

\* The query is over: run_cache and, unless it failed, _last_fetched take
\* the answer, and the device takes its findings.
Answered(s, n) ==
  LET d == Head(vsScan[s].todo)  m == MatchOf[d]
  IN  /\ AddFindings(d, 1 .. n)
      /\ vsFetched' = IF n = 0 THEN vsFetched ELSE vsFetched \cup {m}
      /\ vsScan' = [vsScan EXCEPT ![s].pc = "next", ![s].todo = Tail(@),
                                  ![s].cache[m] = Remembered(n),
                                  ![s].page = 0, ![s].attempt = 0]

\* A page arrives: the last one ends the query.
PageServed(s) ==
  /\ vsScan[s].pc = "asking"
  /\ LET p == vsScan[s].page + 1
     IN  IF p = Pages THEN Answered(s, p)
         ELSE /\ vsScan' = [vsScan EXCEPT ![s].page = p, ![s].attempt = 0]
              /\ UNCHANGED <<vsRow, vsFetched>>
  /\ UNCHANGED <<vsWorld, vsAnalyst, vsListed, vsReopened>>

\* An error, a timeout, or 429 with the retries used up: the pages there are,
\* or a failure when there is none.  A 429 before that is one more attempt.
PageRefused(s) ==
  /\ vsScan[s].pc = "asking"
  /\ \/ Answered(s, vsScan[s].page)
     \/ /\ vsScan[s].attempt < PageRetries
        /\ vsScan' = [vsScan EXCEPT ![s].attempt = @ + 1]
        /\ UNCHANGED <<vsRow, vsFetched>>
  /\ UNCHANGED <<vsWorld, vsAnalyst, vsListed, vsReopened>>

\* The loop is over, or an answer that is no JSON ended it early.
EndScan(s) ==
  /\ vsScan[s].pc = "asking" \/ (vsScan[s].pc = "next" /\ vsScan[s].todo = <<>>)
  /\ vsScan' = [vsScan EXCEPT ![s] = NoScan]
  /\ UNCHANGED <<vsWorld, vsRow, vsFetched, vsAnalyst, vsListed, vsReopened>>

\* MATCH_STRING_CACHE_TTL passes.
FetchExpires(m) ==
  /\ m \in vsFetched
  /\ vsFetched' = vsFetched \ {m}
  /\ UNCHANGED <<vsWorld, vsRow, vsScan, vsAnalyst, vsListed, vsReopened>>

-----------------------------------------------------------------------------
(* The registry, the setting and the analyst.                              *)

DeviceChange ==
  /\ vsChanges < MaxDeviceChanges /\ vsChanges' = vsChanges + 1
  /\ \/ \E d \in Devices \ Registered(vsDevices) :
          vsDevices' = Append(vsDevices, d) /\ UNCHANGED <<vsOutdated, vsEnabled>>
     \/ \E i \in 1 .. Len(vsDevices) :
          /\ vsDevices' = SubSeq(vsDevices, 1, i - 1) \o SubSeq(vsDevices, i + 1, Len(vsDevices))
          /\ UNCHANGED <<vsOutdated, vsEnabled>>
     \/ \E D \in SUBSET Devices :
          vsOutdated' = D /\ D # vsOutdated /\ UNCHANGED <<vsDevices, vsEnabled>>
     \/ vsEnabled' = ~vsEnabled /\ UNCHANGED <<vsDevices, vsOutdated>>
  /\ UNCHANGED <<vsRow, vsFetched, vsScan, vsAnalyst, vsListed, vsReopened>>

\* async_set_status, from ha_soc/vulns/set_status.
SetVulnStatus(r, status) ==
  /\ vsAnalyst < MaxAnalyst /\ vsAnalyst' = vsAnalyst + 1
  /\ vsRow[r] # "none"
  /\ vsRow' = [vsRow EXCEPT ![r] = status]
  /\ vsReopened' = IF status = "new" THEN vsReopened \cup {r} ELSE vsReopened
  /\ UNCHANGED <<vsWorld, vsFetched, vsScan, vsListed>>

VsNext ==
  \/ \E s \in VulnScans : \/ AskForScan(s) \/ BeginScan(s) \/ PassDevice(s) \/ AskNvd(s)
                          \/ PageServed(s) \/ PageRefused(s) \/ EndScan(s)
  \/ \E m \in MatchStrings : FetchExpires(m)
  \/ DeviceChange
  \/ \E r \in VulnRows, status \in {"new", "confirmed", "dismissed", "resolved"} :
       SetVulnStatus(r, status)

VsSpec == VsInit /\ [][VsNext]_vsVars

-----------------------------------------------------------------------------
(* Properties.                                                             *)

\* A row that is open belongs to a device the latest scan found registered:
\* what an older scan learned of a device removed since never comes back,
\* because _scan_lock keeps a slow scan from ending after a newer one.
OpenIsRegistered ==
  \A r \in VulnRows : vsRow[r] = "new" => r[1] \in vsListed \/ r \in vsReopened

\* One run asks the NVD once for a match string, whatever the answer was and
\* however many devices share it: run_cache keeps failures as well.
AskedOnce ==
  \A s \in VulnScans : \A i, j \in DOMAIN vsScan[s].asked :
    vsScan[s].asked[i] = vsScan[s].asked[j] => i = j

\* No scan takes back what an analyst decided: a confirmed or dismissed row
\* changes by set_status alone, when the device goes or its firmware is current too.
AnalystDecides ==
  [][\A r \in VulnRows : vsRow[r] \in {"confirmed", "dismissed"} /\ vsRow'[r] # vsRow[r]
       => vsAnalyst' # vsAnalyst]_vsVars

\* A device that stays registered while lookups stay on gets the findings of
\* its match string in the end, although a recent fetch for another device
\* makes scans pass over it: the order of run_cache and TTL in the loop is what it takes.
VulnerableFound ==
  \A d \in Devices :
    <>[](d \in Registered(vsDevices) /\ vsEnabled) => <>(\E p \in 1 .. Pages : vsRow[<<d, p>>] # "none")

\* Open rows are of registered devices, the NVD is asked once per run, and
\* analysts decide.
VulnsTrue == [](VsTypeOK /\ OpenIsRegistered /\ AskedOnce) /\ AnalystDecides
=============================================================================
