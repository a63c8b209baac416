----------------------------- MODULE ScansProofs -----------------------------
(***************************************************************************)
(* The scans of Home Assistant and of what it runs.  For any number of     *)
(* devices, match strings, pages and retries, an open finding is one of a  *)
(* registered device and each match string is asked for once in a scan; for*)
(* any number of files, versions and overlapping scans, the cache and the  *)
(* table tell what the files hold; for any number of sweeps and set-ups, a *)
(* sweep nothing interfered with leaves in the table what it judged.       *)
(***************************************************************************)
EXTENDS VulnScan, CodeScanner, MisconfigSweep, FiniteSetTheorems, SequenceTheorems, TLAPS

-----------------------------------------------------------------------------
(* The vulnerability scan of the devices.                                  *)

NvdAnswers == [MatchStrings -> 0 .. Unasked]
VulnScanRecs == [pc : {"idle", "waiting", "next", "asking"}, todo : Seq(Devices), cache : NvdAnswers,
             page : 0 .. Pages, attempt : 0 .. PageRetries, asked : Seq(MatchStrings)]
Statuses == {"none", "new", "confirmed", "dismissed", "resolved"}
Distinct(s) == \A i, j \in 1 .. Len(s) : s[i] = s[j] => i = j
Scanning(s) == vsScan[s].pc \in {"next", "asking"}

VsShape ==
  /\ vsDevices \in Seq(Devices) /\ Distinct(vsDevices)
  /\ vsOutdated \subseteq Devices /\ vsListed \subseteq Devices /\ vsEnabled \in BOOLEAN
  /\ vsRow \in [VulnRows -> Statuses]
  /\ vsFetched \subseteq MatchStrings
  /\ vsScan \in [VulnScans -> VulnScanRecs]
  /\ vsReopened \subseteq VulnRows
  /\ vsChanges \in 0 .. MaxDeviceChanges /\ vsAnalyst \in 0 .. MaxAnalyst

\* What a scan has asked for it has the answer to, except what it is asking now.
VulnRunSound(rec) ==
  /\ Distinct(rec.asked)
  /\ rec.pc = "asking" =>
       /\ rec.page < Pages /\ rec.todo # <<>> /\ rec.asked # <<>>
       /\ rec.asked[Len(rec.asked)] = MatchOf[Head(rec.todo)]
  /\ \A i \in 1 .. Len(rec.asked) :
       rec.pc # "asking" \/ i < Len(rec.asked) => rec.cache[rec.asked[i]] # Unasked

\* One scan runs, of devices it found registered.
OneScan ==
  /\ \A s, t \in VulnScans : Scanning(s) /\ Scanning(t) => s = t
  /\ \A s \in VulnScans : Scanning(s) => Registered(vsScan[s].todo) \subseteq vsListed

VsInv ==
  /\ VsShape /\ OneScan /\ OpenIsRegistered
  /\ \A s \in VulnScans : VulnRunSound(vsScan[s])

(* A list without one of its places. *)
LEMMA RemovedKeeps ==
  ASSUME NEW s \in Seq(Devices), Distinct(s), NEW k \in 1 .. Len(s)
  PROVE  /\ SubSeq(s, 1, k - 1) \o SubSeq(s, k + 1, Len(s)) \in Seq(Devices)
         /\ Distinct(SubSeq(s, 1, k - 1) \o SubSeq(s, k + 1, Len(s)))
<1> DEFINE a == SubSeq(s, 1, k - 1)  b == SubSeq(s, k + 1, Len(s))
<1>1. Len(s) \in Nat /\ \A i \in 1 .. Len(s) : s[i] \in Devices
  BY LenProperties
<1>2. PICK n \in Nat : n = Len(s)
  BY <1>1
<1>3. a \in Seq(Devices) /\ Len(a) = k - 1 /\ \A i \in 1 .. k - 1 : a[i] = s[i]
  <2>1. 1 \in Int /\ k - 1 \in Int /\ \A i \in 1 .. k - 1 : s[i] \in Devices
    BY <1>1, <1>2
  <2>2. /\ a \in Seq(Devices) /\ Len(a) = (IF 1 <= k - 1 THEN (k - 1) - 1 + 1 ELSE 0)
        /\ \A i \in 1 .. (k - 1) - 1 + 1 : a[i] = s[1 + i - 1]
    BY <2>1, SubSeqProperties
  <2>. QED
    BY <1>2, <2>2
<1>4. b \in Seq(Devices) /\ Len(b) = n - k /\ \A i \in 1 .. n - k : b[i] = s[k + i]
  <2>1. k + 1 \in Int /\ Len(s) \in Int /\ \A i \in k + 1 .. Len(s) : s[i] \in Devices
    BY <1>1, <1>2
  <2>2. /\ b \in Seq(Devices) /\ Len(b) = (IF k + 1 <= n THEN n - (k + 1) + 1 ELSE 0)
        /\ \A i \in 1 .. n - (k + 1) + 1 : b[i] = s[(k + 1) + i - 1]
    BY <1>2, <2>1, SubSeqProperties
  <2>. QED
    BY <1>2, <2>2
<1> HIDE DEF a, b
<1>5. /\ a \o b \in Seq(Devices) /\ Len(a \o b) = n - 1
      /\ \A i \in 1 .. n - 1 : (a \o b)[i] = IF i <= k - 1 THEN s[i] ELSE s[i + 1]
  <2>1. /\ a \o b \in Seq(Devices) /\ Len(a \o b) = Len(a) + Len(b)
        /\ \A i \in 1 .. Len(a) + Len(b) : (a \o b)[i] = IF i <= Len(a) THEN a[i] ELSE b[i - Len(a)]
    BY <1>3, <1>4, ConcatProperties
  <2>2. \A i \in 1 .. n - 1 : (a \o b)[i] = IF i <= k - 1 THEN a[i] ELSE b[i - (k - 1)]
    BY <1>2, <1>3, <1>4, <2>1
  <2>3. \A i \in 1 .. n - 1 : i > k - 1 => i - (k - 1) \in 1 .. n - k /\ k + (i - (k - 1)) = i + 1
    BY <1>2
  <2>4. \A i \in 1 .. n - 1 : i <= k - 1 => i \in 1 .. k - 1
    BY <1>2
  <2>. QED
    BY <1>2, <1>3, <1>4, <2>1, <2>2, <2>3, <2>4
<1>6. Distinct(a \o b)
  <2> SUFFICES ASSUME NEW i \in 1 .. n - 1, NEW j \in 1 .. n - 1, (a \o b)[i] = (a \o b)[j]
               PROVE  i = j
    BY <1>5 DEF Distinct
  <2> DEFINE p == IF i <= k - 1 THEN i ELSE i + 1
  <2> DEFINE q == IF j <= k - 1 THEN j ELSE j + 1
  <2>1. p \in 1 .. n /\ q \in 1 .. n
    BY <1>2
  <2>2. s[p] = s[q]
    BY <1>5
  <2>3. p = q
    BY <1>2, <2>1, <2>2 DEF Distinct
  <2>. QED
    BY <1>2, <2>3
<1>. QED
  BY <1>5, <1>6 DEF a, b

(* A list without repeats is as long as what it lists is large. *)
LEMMA DistinctLength ==
  ASSUME NEW s \in Seq(Devices), Distinct(s)
  PROVE  Len(s) = Cardinality(Registered(s)) /\ Registered(s) \subseteq Devices
<1>1. Len(s) \in Nat /\ s \in [1 .. Len(s) -> Devices]
  BY LenProperties
<1>2. IsFiniteSet(1 .. Len(s)) /\ Cardinality(1 .. Len(s)) = Len(s)
  <2>1. PICK n \in Nat : n = Len(s)
    BY <1>1
  <2>2. IsFiniteSet(1 .. n) /\ Cardinality(1 .. n) = IF 1 > n THEN 0 ELSE n - 1 + 1
    BY FS_Interval
  <2>. QED
    BY <2>1, <2>2
<1>3. s \in [1 .. Len(s) -> Registered(s)] /\ \A r \in Registered(s) : \E i \in 1 .. Len(s) : s[i] = r
  BY <1>1 DEF Registered
<1>4. ExistsBijection(1 .. Len(s), Registered(s))
  BY <1>3 DEF Distinct, ExistsBijection, Bijection, Injection, Surjection, IsInjective
<1>. QED
  BY <1>1, <1>2, <1>4, FS_Bijection DEF Registered

LEMMA VsInvImplies == VsInv => VsTypeOK /\ OpenIsRegistered /\ AskedOnce
<1> SUFFICES ASSUME VsInv PROVE VsTypeOK /\ OpenIsRegistered /\ AskedOnce
  OBVIOUS
<1>1. Registered(vsDevices) \subseteq Devices /\ Len(vsDevices) = Cardinality(Registered(vsDevices))
  BY DistinctLength DEF VsInv, VsShape
<1>2. VsTypeOK
  BY <1>1 DEF VsInv, VsShape, VsTypeOK, VulnScanRecs, Statuses
<1>3. AskedOnce
  <2>1. \A s \in VulnScans : DOMAIN vsScan[s].asked = 1 .. Len(vsScan[s].asked)
    BY LenProperties DEF VsInv, VsShape, VulnScanRecs
  <2>. QED
    BY <2>1 DEF VsInv, VulnRunSound, Distinct, AskedOnce
<1>. QED
  BY <1>2, <1>3 DEF VsInv

LEMMA NoScanSound == NoScan \in VulnScanRecs /\ VulnRunSound(NoScan) /\ NoScan.pc = "idle"
<1>1. Pages \in Nat /\ PageRetries \in Nat
  BY VulnAssumption
<1>2. NoAnswer \in NvdAnswers
  BY <1>1 DEF NoAnswer, NvdAnswers, Unasked
<1>3. << >> \in Seq(Devices) /\ << >> \in Seq(MatchStrings) /\ Len(<< >>) = 0
  BY EmptySeq
<1>. QED
  BY <1>1, <1>2, <1>3 DEF NoScan, VulnScanRecs, VulnRunSound, Distinct

LEMMA VsInit_Inv == VsInit => VsInv
<1> SUFFICES ASSUME VsInit PROVE VsInv
  OBVIOUS
<1> DEFINE d == CHOOSE x \in Devices : TRUE
<1>1. d \in Devices
  BY VulnAssumption
<1>2. vsDevices = <<d>>
  BY DEF VsInit
<1> HIDE DEF d
<1>3. vsDevices \in Seq(Devices) /\ Distinct(vsDevices)
  BY <1>1, <1>2 DEF Distinct
<1>4. {MaxDeviceChanges, MaxAnalyst} \subseteq Nat
  BY VulnAssumption
<1>5. VsShape
  BY <1>3, <1>4, NoScanSound DEF VsInit, VsShape, Statuses
<1>. QED
  BY <1>5, NoScanSound DEF VsInit, VsInv, OneScan, Scanning, OpenIsRegistered

(* The findings of a device the scan found registered. *)
LEMMA RowsAdded ==
  ASSUME VsInv, NEW d \in vsListed, NEW cves, AddFindings(d, cves),
         vsListed' = vsListed, vsReopened' = vsReopened
  PROVE  vsRow' \in [VulnRows -> Statuses] /\ OpenIsRegistered'
<1>1. vsRow \in [VulnRows -> Statuses]
  BY DEF VsInv, VsShape
<1>2. \A r \in VulnRows : WithRow(vsRow, r)[r] = IF vsRow[r] = "none" THEN "new" ELSE vsRow[r]
  BY <1>1 DEF WithRow
<1>3. \A r \in VulnRows : \/ vsRow'[r] = vsRow[r]
                          \/ vsRow'[r] = "new" /\ r[1] = d
  BY <1>2 DEF AddFindings
<1>4. vsRow' \in [VulnRows -> Statuses]
  BY <1>1, <1>2 DEF AddFindings, Statuses
<1>. QED
  BY <1>3, <1>4 DEF VsInv, OpenIsRegistered

(* The step of one scan, which asks of no device it did not find registered. *)
LEMMA VulnScanMoves ==
  ASSUME VsInv, NEW s \in VulnScans, NEW rec \in VulnScanRecs, VulnRunSound(rec),
         vsScan' = [vsScan EXCEPT ![s] = rec], vsListed' = vsListed,
         rec.pc \in {"next", "asking"} => Scanning(s) /\ Registered(rec.todo) \subseteq vsListed
  PROVE  /\ vsScan' \in [VulnScans -> VulnScanRecs] /\ OneScan'
         /\ \A t \in VulnScans : VulnRunSound(vsScan'[t])
<1>1. vsScan \in [VulnScans -> VulnScanRecs]
  BY DEF VsInv, VsShape
<1>2. vsScan'[s] = rec /\ \A t \in VulnScans \ {s} : vsScan'[t] = vsScan[t]
  BY <1>1
<1>3. \A t \in VulnScans : Scanning(t)' => Scanning(t)
  BY <1>2 DEF Scanning
<1>4. OneScan'
  BY <1>2, <1>3 DEF VsInv, OneScan, Scanning
<1>. QED
  BY <1>1, <1>2, <1>4 DEF VsInv

(* The rest of a scan's list. *)
LEMMA TailListed ==
  ASSUME NEW s \in Seq(Devices), s # << >>
  PROVE  /\ Tail(s) \in Seq(Devices) /\ Head(s) \in Devices
         /\ Registered(Tail(s)) \subseteq Registered(s) /\ Head(s) \in Registered(s)
<1>1. /\ Tail(s) \in Seq(Devices) /\ Head(s) \in Devices
      /\ Len(Tail(s)) = Len(s) - 1 /\ \A i \in 1 .. Len(Tail(s)) : Tail(s)[i] = s[i + 1]
  BY HeadTailProperties
<1>2. Len(s) \in Nat \ {0}
  BY EmptySeq
<1>3. Head(s) = s[1]
  OBVIOUS
<1>4. \A i \in 1 .. Len(Tail(s)) : i + 1 \in 1 .. Len(s)
  BY <1>1, <1>2
<1>5. 1 \in 1 .. Len(s)
  BY <1>2
<1>. QED
  BY <1>1, <1>3, <1>4, <1>5 DEF Registered

LEMMA PagesCount == Pages \in Nat /\ 0 < Pages /\ PageRetries \in Nat /\ 0 \in 0 .. Pages /\ 0 \in 0 .. PageRetries
  BY VulnAssumption

LEMMA VsAskForScan == ASSUME VsInv, NEW s \in VulnScans, AskForScan(s) PROVE VsInv'
<1> DEFINE rec == [vsScan[s] EXCEPT !.pc = "waiting"]
<1>1. vsScan \in [VulnScans -> VulnScanRecs] /\ VulnRunSound(vsScan[s])
  BY DEF VsInv, VsShape
<1>2. vsScan' = [vsScan EXCEPT ![s] = rec]
  BY <1>1 DEF AskForScan
<1>3. rec \in VulnScanRecs /\ VulnRunSound(rec) /\ rec.pc = "waiting"
  BY <1>1 DEF VulnScanRecs, VulnRunSound, AskForScan
<1>4. vsListed' = vsListed
  BY DEF AskForScan
<1>5. /\ vsScan' \in [VulnScans -> VulnScanRecs] /\ OneScan'
      /\ \A t \in VulnScans : VulnRunSound(vsScan'[t])
  BY <1>2, <1>3, <1>4, VulnScanMoves
<1>. QED
  BY <1>5 DEF AskForScan, VsInv, VsShape, OpenIsRegistered, vsWorld

LEMMA VsBeginScan == ASSUME VsInv, NEW s \in VulnScans, BeginScan(s) PROVE VsInv'
<1> DEFINE rec == IF vsEnabled THEN [NoScan EXCEPT !.pc = "next", !.todo = vsDevices] ELSE NoScan
<1>1. vsScan \in [VulnScans -> VulnScanRecs] /\ vsScan' = [vsScan EXCEPT ![s] = rec]
  BY DEF VsInv, VsShape, BeginScan
<1>2. vsDevices \in Seq(Devices) /\ vsRow \in [VulnRows -> Statuses]
  BY DEF VsInv, VsShape
<1>3. rec \in VulnScanRecs /\ VulnRunSound(rec)
  BY <1>2, NoScanSound DEF VulnScanRecs, VulnRunSound
<1>4. rec.todo = vsDevices \/ rec.pc = "idle"
  BY NoScanSound DEF VulnScanRecs
<1> HIDE DEF rec
<1>5. vsScan'[s] = rec /\ \A t \in VulnScans \ {s} : vsScan'[t] = vsScan[t] /\ ~Scanning(t)'
  BY <1>1 DEF BeginScan, MayRun, Scanning
<1>6. OneScan'
  BY <1>4, <1>5 DEF OneScan, Scanning, BeginScan
<1>7. \A t \in VulnScans : VulnRunSound(vsScan'[t])
  BY <1>3, <1>5 DEF VsInv
<1>8. vsRow' \in [VulnRows -> Statuses] /\ OpenIsRegistered'
  <2>1. vsRow' = AfterChecks(vsListed')
    BY DEF BeginScan
  <2>2. \A r \in VulnRows : WithRow(vsRow, r)[r] \in Statuses
    BY <1>2 DEF WithRow, Statuses
  <2>3. \A r \in VulnRows : vsRow'[r] \in Statuses /\ (r[1] \notin vsListed' => vsRow'[r] # "new")
    BY <1>2, <2>1, <2>2 DEF AfterChecks, Settled, Statuses
  <2>. QED
    BY <2>1, <2>3 DEF AfterChecks, OpenIsRegistered
<1>9. vsListed' \subseteq Devices
  BY <1>2, DistinctLength DEF BeginScan, VsInv, VsShape
<1>10. vsScan' \in [VulnScans -> VulnScanRecs]
  BY <1>1, <1>3
<1>. QED
  BY <1>6, <1>7, <1>8, <1>9, <1>10 DEF BeginScan, VsInv, VsShape, vsWorld

LEMMA VsPassDevice == ASSUME VsInv, NEW s \in VulnScans, PassDevice(s) PROVE VsInv'
<1> DEFINE rec == [vsScan[s] EXCEPT !.todo = Tail(vsScan[s].todo)]
<1>1. vsScan \in [VulnScans -> VulnScanRecs] /\ vsScan[s] \in VulnScanRecs /\ VulnRunSound(vsScan[s]) /\ Scanning(s)
  BY DEF VsInv, VsShape, PassDevice, Scanning
<1>2. vsScan' = [vsScan EXCEPT ![s] = rec]
  BY <1>1 DEF PassDevice
<1>3. vsScan[s].todo \in Seq(Devices) /\ vsScan[s].todo # << >> /\ vsScan[s].pc = "next"
  BY <1>1 DEF VulnScanRecs, PassDevice
<1>4. /\ Tail(vsScan[s].todo) \in Seq(Devices) /\ Head(vsScan[s].todo) \in vsListed
      /\ Registered(Tail(vsScan[s].todo)) \subseteq vsListed
  BY <1>1, <1>3, TailListed DEF VsInv, OneScan
<1>5. rec \in VulnScanRecs /\ rec.todo = Tail(vsScan[s].todo)
  BY <1>1, <1>4 DEF VulnScanRecs
<1>6. VulnRunSound(rec)
  BY <1>1, <1>3 DEF VulnScanRecs, VulnRunSound
<1> HIDE DEF rec
<1>7. vsListed' = vsListed /\ vsReopened' = vsReopened
  BY DEF PassDevice
<1>8. /\ vsScan' \in [VulnScans -> VulnScanRecs] /\ OneScan'
      /\ \A t \in VulnScans : VulnRunSound(vsScan'[t])
  BY <1>1, <1>2, <1>4, <1>5, <1>6, <1>7, VulnScanMoves
<1>9. vsRow' \in [VulnRows -> Statuses] /\ OpenIsRegistered'
  BY <1>4, <1>7, RowsAdded DEF PassDevice
<1>. QED
  BY <1>8, <1>9 DEF PassDevice, VsInv, VsShape, vsWorld

LEMMA VsAskNvd == ASSUME VsInv, NEW s \in VulnScans, AskNvd(s) PROVE VsInv'
<1> DEFINE d == Head(vsScan[s].todo)
<1> DEFINE q == Append(vsScan[s].asked, MatchOf[d])
<1> DEFINE rec == [vsScan[s] EXCEPT !.pc = "asking", !.page = 0, !.attempt = 0, !.asked = q]
<1>1. vsScan \in [VulnScans -> VulnScanRecs] /\ vsScan[s] \in VulnScanRecs /\ VulnRunSound(vsScan[s]) /\ Scanning(s)
  BY DEF VsInv, VsShape, AskNvd, Scanning
<1>2. vsScan' = [vsScan EXCEPT ![s] = rec]
  BY <1>1 DEF AskNvd
<1>3. /\ vsScan[s].todo \in Seq(Devices) /\ vsScan[s].todo # << >> /\ vsScan[s].pc = "next"
      /\ vsScan[s].asked \in Seq(MatchStrings)
      /\ vsScan[s].cache[MatchOf[d]] = Unasked
  BY <1>1 DEF VulnScanRecs, AskNvd, Cached
<1>4. d \in Devices /\ MatchOf[d] \in MatchStrings /\ Registered(vsScan[s].todo) \subseteq vsListed
  BY <1>1, <1>3, TailListed DEF VsInv, OneScan, MatchStrings
<1> HIDE DEF d
<1>5. PICK n \in Nat : n = Len(vsScan[s].asked)
  BY <1>3, LenProperties
<1>6. /\ q \in Seq(MatchStrings) /\ q # << >> /\ Len(q) = n + 1 /\ q[n + 1] = MatchOf[d]
      /\ \A i \in 1 .. n : q[i] = vsScan[s].asked[i]
  BY <1>3, <1>4, <1>5, AppendProperties
<1> HIDE DEF q
<1>7. /\ rec \in VulnScanRecs /\ rec.pc = "asking" /\ rec.page = 0 /\ rec.asked = q
      /\ rec.todo = vsScan[s].todo /\ rec.cache = vsScan[s].cache
  BY <1>1, <1>6, PagesCount DEF VulnScanRecs
<1> HIDE DEF rec
<1>8. VulnRunSound(rec)
  <2>1. \A i \in 1 .. n : q[i] # MatchOf[d] /\ vsScan[s].cache[q[i]] # Unasked
    BY <1>1, <1>3, <1>5, <1>6 DEF VulnRunSound
  <2>2. \A i, j \in 1 .. n : q[i] = q[j] => i = j
    BY <1>1, <1>5, <1>6 DEF VulnRunSound, Distinct
  <2>3. \A i \in 1 .. n + 1 : i = n + 1 \/ i \in 1 .. n
    OBVIOUS
  <2>4. Distinct(q)
    BY <1>6, <2>1, <2>2, <2>3 DEF Distinct
  <2>5. 0 < Pages
    BY VulnAssumption
  <2>6. \A i \in 1 .. Len(q) : i < Len(q) => i \in 1 .. n
    BY <1>6
  <2>. QED
    BY <1>3, <1>6, <1>7, <2>1, <2>4, <2>5, <2>6 DEF VulnRunSound, d
<1>9. /\ vsListed' = vsListed /\ vsReopened' = vsReopened
  BY DEF AskNvd
<1>10. /\ vsScan' \in [VulnScans -> VulnScanRecs] /\ OneScan'
       /\ \A t \in VulnScans : VulnRunSound(vsScan'[t])
  BY <1>1, <1>2, <1>4, <1>7, <1>8, <1>9, VulnScanMoves
<1>. QED
  BY <1>10 DEF AskNvd, VsInv, VsShape, OpenIsRegistered, vsWorld

(* The end of a query, with as many pages as came. *)
LEMMA VsAnswered ==
  ASSUME VsInv, NEW s \in VulnScans, vsScan[s].pc = "asking", NEW n \in 0 .. Pages, Answered(s, n),
         UNCHANGED <<vsWorld, vsAnalyst, vsListed, vsReopened>>
  PROVE  VsInv'
<1> DEFINE d == Head(vsScan[s].todo)
<1> DEFINE c == [vsScan[s].cache EXCEPT ![MatchOf[d]] = n]
<1> DEFINE rec == [vsScan[s] EXCEPT !.pc = "next", !.todo = Tail(vsScan[s].todo), !.cache = c,
                                    !.page = 0, !.attempt = 0]
<1>1. vsScan \in [VulnScans -> VulnScanRecs] /\ vsScan[s] \in VulnScanRecs /\ VulnRunSound(vsScan[s]) /\ Scanning(s)
  BY DEF VsInv, VsShape, Scanning
<1>2. vsScan' = [vsScan EXCEPT ![s] = rec]
  <2>1. vsScan' = [vsScan EXCEPT ![s].pc = "next", ![s].todo = Tail(vsScan[s].todo),
                                 ![s].cache[MatchOf[d]] = n, ![s].page = 0, ![s].attempt = 0]
    BY DEF Answered, Remembered
  <2>2. PICK old : old = vsScan[s]
    OBVIOUS
  <2>3. vsScan[s].cache = old.cache /\ vsScan[s].todo = old.todo
    BY <2>2
  <2>. QED
    BY <1>1, <2>1, <2>2, <2>3 DEF VulnScanRecs
<1>3. /\ vsScan[s].todo \in Seq(Devices) /\ vsScan[s].todo # << >>
      /\ vsScan[s].asked \in Seq(MatchStrings) /\ vsScan[s].cache \in NvdAnswers
      /\ vsScan[s].asked[Len(vsScan[s].asked)] = MatchOf[d]
  BY <1>1 DEF VulnScanRecs, VulnRunSound
<1>4. /\ d \in Devices /\ MatchOf[d] \in MatchStrings /\ d \in vsListed
      /\ Tail(vsScan[s].todo) \in Seq(Devices)
      /\ Registered(Tail(vsScan[s].todo)) \subseteq vsListed
  BY <1>1, <1>3, TailListed DEF VsInv, OneScan, MatchStrings
<1>5. /\ c \in NvdAnswers /\ n # Unasked /\ c[MatchOf[d]] = n
      /\ \A m \in MatchStrings : c[m] = n \/ c[m] = vsScan[s].cache[m]
  <2>1. n \in 0 .. Unasked /\ n # Unasked
    BY PagesCount DEF Unasked
  <2>. QED
    BY <1>3, <1>4, <2>1 DEF NvdAnswers
<1> HIDE DEF c
<1>6. /\ rec \in VulnScanRecs /\ rec.pc = "next" /\ rec.asked = vsScan[s].asked
      /\ rec.todo = Tail(vsScan[s].todo) /\ rec.cache = c
  BY <1>1, <1>4, <1>5, PagesCount DEF VulnScanRecs
<1> HIDE DEF rec
<1>7. VulnRunSound(rec)
  <2>1. PICK k \in Nat : k = Len(vsScan[s].asked)
    BY <1>3, LenProperties
  <2>2. \A i \in 1 .. k : i = k \/ i < k
    BY <2>1
  <2>3. \A i \in 1 .. k : vsScan[s].asked[i] \in MatchStrings
    BY <1>3, <2>1, LenProperties
  <2>4. \A i \in 1 .. k : c[vsScan[s].asked[i]] # Unasked
    <3> SUFFICES ASSUME NEW i \in 1 .. k PROVE c[vsScan[s].asked[i]] # Unasked
      OBVIOUS
    <3>1. CASE i = k
      BY <1>3, <1>5, <2>1, <3>1
    <3>2. CASE i < k
      BY <1>1, <1>5, <2>1, <2>3, <3>2 DEF VulnRunSound
    <3>. QED
      BY <2>2, <3>1, <3>2
  <2>. QED
    BY <1>1, <1>6, <2>1, <2>4 DEF VulnRunSound
<1>8. /\ vsScan' \in [VulnScans -> VulnScanRecs] /\ OneScan'
      /\ \A t \in VulnScans : VulnRunSound(vsScan'[t])
  BY <1>1, <1>2, <1>4, <1>6, <1>7, VulnScanMoves
<1>9. vsRow' \in [VulnRows -> Statuses] /\ OpenIsRegistered'
  BY <1>4, RowsAdded DEF Answered
<1>10. vsFetched' \subseteq MatchStrings
  BY <1>4 DEF Answered, VsInv, VsShape
<1>. QED
  BY <1>8, <1>9, <1>10 DEF VsInv, VsShape, vsWorld

(* A page is kept, or asked for again: the query goes on. *)
LEMMA VsQueryGoesOn ==
  ASSUME VsInv, NEW s \in VulnScans, vsScan[s].pc = "asking",
         NEW p \in 0 .. Pages, p < Pages, NEW a \in 0 .. PageRetries,
         vsScan' = [vsScan EXCEPT ![s] = [vsScan[s] EXCEPT !.page = p, !.attempt = a]],
         UNCHANGED <<vsWorld, vsRow, vsFetched, vsAnalyst, vsListed, vsReopened>>
  PROVE  VsInv'
<1> DEFINE rec == [vsScan[s] EXCEPT !.page = p, !.attempt = a]
<1>1. vsScan[s] \in VulnScanRecs /\ VulnRunSound(vsScan[s]) /\ Scanning(s)
  BY DEF VsInv, VsShape, Scanning
<1>2. rec \in VulnScanRecs /\ rec.todo = vsScan[s].todo
  BY <1>1 DEF VulnScanRecs
<1>3. VulnRunSound(rec)
  BY <1>1 DEF VulnScanRecs, VulnRunSound
<1>4. Registered(rec.todo) \subseteq vsListed
  BY <1>1, <1>2 DEF VsInv, OneScan
<1> HIDE DEF rec
<1>5. vsScan' = [vsScan EXCEPT ![s] = rec] /\ vsListed' = vsListed
  BY DEF rec
<1>6. /\ vsScan' \in [VulnScans -> VulnScanRecs] /\ OneScan'
      /\ \A t \in VulnScans : VulnRunSound(vsScan'[t])
  BY <1>1, <1>2, <1>3, <1>4, <1>5, VulnScanMoves
<1>. QED
  BY <1>6 DEF VsInv, VsShape, OpenIsRegistered, vsWorld

LEMMA VsPageServed == ASSUME VsInv, NEW s \in VulnScans, PageServed(s) PROVE VsInv'
<1>1. vsScan \in [VulnScans -> VulnScanRecs] /\ vsScan[s] \in VulnScanRecs /\ vsScan[s].pc = "asking"
  BY DEF VsInv, VsShape, PageServed
<1>2. PICK p \in Nat : p = vsScan[s].page /\ p < Pages
  BY <1>1, VulnAssumption DEF VulnScanRecs, VsInv, VulnRunSound
<1>3. p + 1 \in 0 .. Pages /\ 0 \in 0 .. PageRetries
  BY <1>2, VulnAssumption
<1>4. CASE p + 1 = Pages
  <2>1. Answered(s, p + 1) /\ UNCHANGED <<vsWorld, vsAnalyst, vsListed, vsReopened>>
    BY <1>2, <1>4 DEF PageServed
  <2>. QED
    BY <1>1, <1>3, <2>1, VsAnswered
<1>5. CASE p + 1 # Pages
  <2>1. p + 1 < Pages
    BY <1>2, <1>5, VulnAssumption
  <2>2. /\ vsScan' = [vsScan EXCEPT ![s] = [vsScan[s] EXCEPT !.page = p + 1, !.attempt = 0]]
        /\ UNCHANGED <<vsWorld, vsRow, vsFetched, vsAnalyst, vsListed, vsReopened>>
    BY <1>1, <1>2, <1>5 DEF PageServed
  <2>. QED
    BY <1>1, <1>3, <2>1, <2>2, VsQueryGoesOn
<1>. QED
  BY <1>4, <1>5

LEMMA VsPageRefused == ASSUME VsInv, NEW s \in VulnScans, PageRefused(s) PROVE VsInv'
<1>1. vsScan \in [VulnScans -> VulnScanRecs] /\ vsScan[s] \in VulnScanRecs /\ vsScan[s].pc = "asking"
  BY DEF VsInv, VsShape, PageRefused
<1>2. vsScan[s].page \in 0 .. Pages /\ vsScan[s].page < Pages /\ vsScan[s].attempt \in 0 .. PageRetries
  BY <1>1 DEF VulnScanRecs, VsInv, VulnRunSound
<1>3. UNCHANGED <<vsWorld, vsAnalyst, vsListed, vsReopened>>
  BY DEF PageRefused
<1>4. CASE Answered(s, vsScan[s].page)
  BY <1>1, <1>2, <1>3, <1>4, VsAnswered
<1>5. CASE /\ vsScan[s].attempt < PageRetries /\ vsScan' = [vsScan EXCEPT ![s].attempt = @ + 1]
           /\ UNCHANGED <<vsRow, vsFetched>>
  <2>1. PICK p \in 0 .. Pages, a \in 0 .. PageRetries :
          p = vsScan[s].page /\ p < Pages /\ a = vsScan[s].attempt + 1
    <3>1. vsScan[s].attempt + 1 \in 0 .. PageRetries
      BY <1>2, <1>5, PagesCount
    <3>. QED
      BY <1>2, <3>1
  <2>2. vsScan' = [vsScan EXCEPT ![s] = [vsScan[s] EXCEPT !.page = p, !.attempt = a]]
    BY <1>1, <1>5, <2>1 DEF VulnScanRecs
  <2>. QED
    BY <1>1, <1>3, <1>5, <2>1, <2>2, VsQueryGoesOn
<1>. QED
  BY <1>4, <1>5 DEF PageRefused

LEMMA VsEndScan == ASSUME VsInv, NEW s \in VulnScans, EndScan(s) PROVE VsInv'
<1>1. vsScan' = [vsScan EXCEPT ![s] = NoScan] /\ vsListed' = vsListed
  BY DEF EndScan
<1>2. /\ vsScan' \in [VulnScans -> VulnScanRecs] /\ OneScan'
      /\ \A t \in VulnScans : VulnRunSound(vsScan'[t])
  BY <1>1, NoScanSound, VulnScanMoves
<1>. QED
  BY <1>2 DEF EndScan, VsInv, VsShape, OpenIsRegistered, vsWorld

LEMMA VsDeviceChange == ASSUME VsInv, DeviceChange PROVE VsInv'
<1>1. vsDevices \in Seq(Devices) /\ Distinct(vsDevices) /\ vsChanges' \in 0 .. MaxDeviceChanges
  BY VulnAssumption DEF VsInv, VsShape, DeviceChange
<1>2. vsDevices' \in Seq(Devices) /\ Distinct(vsDevices)'
  <2>1. ASSUME NEW d \in Devices \ Registered(vsDevices), vsDevices' = Append(vsDevices, d)
        PROVE  vsDevices' \in Seq(Devices) /\ Distinct(vsDevices)'
    <3>1. PICK n \in Nat : n = Len(vsDevices)
      BY <1>1, LenProperties
    <3>2. /\ vsDevices' \in Seq(Devices) /\ Len(vsDevices') = n + 1 /\ vsDevices'[n + 1] = d
          /\ \A i \in 1 .. n : vsDevices'[i] = vsDevices[i] /\ vsDevices[i] # d
      BY <1>1, <2>1, <3>1, AppendProperties DEF Registered
    <3>3. \A i \in 1 .. n + 1 : i = n + 1 \/ i \in 1 .. n
      OBVIOUS
    <3>. QED
      BY <1>1, <3>1, <3>2, <3>3 DEF Distinct
  <2>2. ASSUME NEW i \in 1 .. Len(vsDevices),
               vsDevices' = SubSeq(vsDevices, 1, i - 1) \o SubSeq(vsDevices, i + 1, Len(vsDevices))
        PROVE  vsDevices' \in Seq(Devices) /\ Distinct(vsDevices)'
    BY <1>1, <2>2, RemovedKeeps
  <2>3. CASE vsDevices' = vsDevices
    BY <1>1, <2>3
  <2>. QED
    BY <2>1, <2>2, <2>3 DEF DeviceChange
<1>. QED
  BY <1>1, <1>2 DEF DeviceChange, VsInv, VsShape, OneScan, Scanning, OpenIsRegistered

LEMMA VsSetStatus ==
  ASSUME VsInv, NEW r \in VulnRows, NEW status \in {"new", "confirmed", "dismissed", "resolved"},
         SetVulnStatus(r, status)
  PROVE  VsInv'
<1>1. vsRow' \in [VulnRows -> Statuses] /\ vsRow'[r] = status /\ \A q \in VulnRows \ {r} : vsRow'[q] = vsRow[q]
  BY DEF VsInv, VsShape, SetVulnStatus, Statuses
<1>2. vsAnalyst' \in 0 .. MaxAnalyst /\ vsReopened' \subseteq VulnRows
  BY VulnAssumption DEF VsInv, VsShape, SetVulnStatus
<1>3. OpenIsRegistered'
  BY <1>1 DEF VsInv, OpenIsRegistered, SetVulnStatus
<1>. QED
  BY <1>1, <1>2, <1>3 DEF SetVulnStatus, VsInv, VsShape, OneScan, Scanning, vsWorld

LEMMA VsStep == VsInv /\ [VsNext]_vsVars => VsInv'
<1> SUFFICES ASSUME VsInv, [VsNext]_vsVars PROVE VsInv'
  OBVIOUS
<1>1. CASE UNCHANGED vsVars
  BY <1>1 DEF VsInv, VsShape, OneScan, Scanning, OpenIsRegistered, vsVars, vsWorld
<1>2. ASSUME NEW m \in MatchStrings, FetchExpires(m) PROVE VsInv'
  BY <1>2 DEF FetchExpires, VsInv, VsShape, OneScan, Scanning, OpenIsRegistered, vsWorld
<1>. QED
  BY <1>1, <1>2, VsAskForScan, VsBeginScan, VsPassDevice, VsAskNvd, VsPageServed, VsPageRefused,
     VsEndScan, VsDeviceChange, VsSetStatus DEF VsNext

(* A scan leaves what an analyst decided. *)
LEMMA VsDecided ==
  ASSUME VsInv, [VsNext]_vsVars, NEW r \in VulnRows,
         vsRow[r] \in {"confirmed", "dismissed"}, vsAnalyst' = vsAnalyst
  PROVE  vsRow'[r] = vsRow[r]
<1>1. vsRow \in [VulnRows -> Statuses] /\ vsAnalyst \in Nat
  BY VulnAssumption DEF VsInv, VsShape
<1>2. WithRow(vsRow, r)[r] = vsRow[r]
  BY DEF WithRow
<1>3. ASSUME NEW d, NEW cves, AddFindings(d, cves) PROVE vsRow'[r] = vsRow[r]
  BY <1>2, <1>3 DEF AddFindings
<1>4. ASSUME NEW s \in VulnScans, BeginScan(s) PROVE vsRow'[r] = vsRow[r]
  BY <1>2, <1>4 DEF BeginScan, AfterChecks, Settled
<1>5. ASSUME NEW s \in VulnScans, PassDevice(s) \/ PageServed(s) \/ PageRefused(s)
      PROVE  vsRow'[r] = vsRow[r]
  BY <1>3, <1>5 DEF PassDevice, PageServed, PageRefused, Answered
<1>6. ASSUME NEW q \in VulnRows, NEW status, SetVulnStatus(q, status) PROVE FALSE
  BY <1>1, <1>6 DEF SetVulnStatus
<1>7. CASE UNCHANGED vsRow
  BY <1>7
<1>. QED
  BY <1>4, <1>5, <1>6, <1>7 DEF VsNext, AskForScan, AskNvd, EndScan, FetchExpires, DeviceChange, vsVars

(* For any number of scans, devices and pages: an open row is of a device    *)
(* the latest scan found, one run asks the NVD once for a match string, and  *)
(* no scan takes back what an analyst decided (vulns.py).                    *)
THEOREM VulnsHold == VsSpec => VulnsTrue
<1>1. VsInv => VsTypeOK /\ OpenIsRegistered /\ AskedOnce
  BY VsInvImplies
<1>2. VsInv /\ [VsNext]_vsVars =>
        [\A r \in VulnRows : vsRow[r] \in {"confirmed", "dismissed"} /\ vsRow'[r] # vsRow[r]
           => vsAnalyst' # vsAnalyst]_vsVars
  BY VsDecided
<1>. QED
  BY <1>1, <1>2, VsInit_Inv, VsStep, PTL DEF VsSpec, VulnsTrue, AnalystDecides

-----------------------------------------------------------------------------
(* The code scanner.                                                       *)

Reads == {"clean", "hit", "broken", NotRead}
FileRecs == [content : Contents, sig : 0 .. MaxVersions]
CacheRecs == [sig : 0 .. MaxVersions + 1, content : Reads]
ScanRecs == [pc : {"idle", "plan", "next", "stat", "read"}, all : SUBSET SourceFiles,
             selected : SUBSET SourceFiles, todo : SUBSET SourceFiles, at : SourceFiles \cup {NoFile},
             sig : 0 .. MaxVersions, seen : [SourceFiles -> Reads], alone : BOOLEAN]
Unread == [f \in SourceFiles |-> NotRead]
Readable(f) == csFile[f].content \notin {"absent", "large"}
ReadingOf(rec) == rec.pc \in {"stat", "read"}

CsShape ==
  /\ csFile \in [SourceFiles -> FileRecs]
  /\ csCache \in [SourceFiles -> CacheRecs]
  /\ csRow \in [SourceFiles -> FindingStatuses \cup {"none"}]
  /\ csScan \in [Scans -> ScanRecs]
  /\ csVersions \in 0 .. MaxVersions /\ csChanges \in 0 .. MaxEntryChanges
  /\ {csIssue, csEntry, csTold} \subseteq BOOLEAN

\* No signature is from the future, so a file that changes gets a new one.
SignaturesPast ==
  /\ \A f \in SourceFiles : /\ csFile[f].sig <= csVersions
                            /\ csCache[f].sig <= csVersions \/ csCache[f].sig = MaxVersions + 1
  /\ \A s \in Scans : csScan[s].sig <= csVersions

\* Where a scan stands, and that what it is about to remember of a file is so
\* if the file is still the one it asked the signature of.
RunSound(rec) ==
  /\ ReadingOf(rec) => rec.at \in rec.todo
  /\ rec.todo \subseteq rec.selected
  /\ rec.pc \in {"idle", "plan"} => rec.seen = Unread /\ rec.selected = {}
  /\ \A f \in SourceFiles \ rec.selected : rec.seen[f] = NotRead
  /\ rec.pc = "read" /\ csFile[rec.at].sig = rec.sig /\ Readable(rec.at) =>
       rec.seen[rec.at] = csFile[rec.at].content

\* What a scan nothing has disturbed knows is what the files are.
AloneKnows(rec) ==
  rec.alone /\ rec.pc \notin {"idle", "plan"} =>
    /\ rec.all = {f \in SourceFiles : csFile[f].content # "absent"}
    /\ rec.selected = {f \in rec.all : csFile[f].content # "large"}
    /\ ReadingOf(rec) => csFile[rec.at].sig = rec.sig
    /\ \A f \in rec.selected \ rec.todo : rec.seen[f] = csFile[f].content

CsInv ==
  /\ CsShape /\ SignaturesPast /\ CacheIsTrue /\ TableIsTrue
  /\ \A s \in Scans : RunSound(csScan[s]) /\ AloneKnows(csScan[s])

-----------------------------------------------------------------------------

LEMMA CsStarts == CsInit => CsInv
<1> SUFFICES ASSUME CsInit PROVE CsInv
  OBVIOUS
<1>1. IdleScan \in ScanRecs /\ NoCached \in CacheRecs
  BY ScannerAssumption DEF IdleScan, NoCached, ScanRecs, CacheRecs, Reads, NotRead
<1>2. CsShape
  <2>1. csFile \in [SourceFiles -> FileRecs]
    BY ScannerAssumption DEF CsInit, FileRecs, Contents
  <2>2. csCache \in [SourceFiles -> CacheRecs] /\ csScan \in [Scans -> ScanRecs]
    BY <1>1 DEF CsInit
  <2>3. csRow \in [SourceFiles -> FindingStatuses \cup {"none"}]
    BY DEF CsInit
  <2>4. csVersions \in 0 .. MaxVersions /\ csChanges \in 0 .. MaxEntryChanges
    BY ScannerAssumption DEF CsInit
  <2>5. {csIssue, csEntry, csTold} \subseteq BOOLEAN
    BY DEF CsInit
  <2>. QED
    BY <2>1, <2>2, <2>3, <2>4, <2>5 DEF CsShape
<1>3. SignaturesPast /\ CacheIsTrue
  BY <1>2, ScannerAssumption DEF CsInit, SignaturesPast, CacheIsTrue, NoCached, IdleScan, CsShape, FileRecs
<1>4. TableIsTrue
  BY DEF CsInit, TableIsTrue
<1>5. ASSUME NEW s \in Scans PROVE RunSound(csScan[s]) /\ AloneKnows(csScan[s])
  BY DEF CsInit, RunSound, AloneKnows, IdleScan, ReadingOf, Unread
<1>. QED
  BY <1>2, <1>3, <1>4, <1>5 DEF CsInv

(* A step of one scan that leaves the files, the cache and the table alone. *)
LEMMA ScanMoves ==
  ASSUME CsInv, NEW s \in Scans, NEW r \in ScanRecs,
         csScan' = [csScan EXCEPT ![s] = r], r.sig <= csVersions,
         RunSound(r), AloneKnows(r),
         UNCHANGED <<csDisk, csCache, csTable, csEntry, csChanges, csTold>>
  PROVE  CsInv'
<1>1. /\ csFile' = csFile /\ csVersions' = csVersions /\ csCache' = csCache /\ csRow' = csRow
      /\ csIssue' = csIssue /\ csEntry' = csEntry /\ csChanges' = csChanges /\ csTold' = csTold
  BY DEF csDisk, csTable
<1>2. \A t \in Scans : csScan'[t] = IF t = s THEN r ELSE csScan[t]
  BY DEF CsInv, CsShape
<1>3. CsShape'
  BY <1>1 DEF CsInv, CsShape
<1>4. SignaturesPast'
  BY <1>1, <1>2 DEF CsInv, SignaturesPast
<1>5. CacheIsTrue' /\ TableIsTrue'
  BY <1>1 DEF CsInv, CacheIsTrue, TableIsTrue
<1>6. ASSUME NEW t \in Scans PROVE (RunSound(csScan[t]) /\ AloneKnows(csScan[t]))'
  <2>1. RunSound(csScan'[t]) /\ AloneKnows(csScan'[t])
    BY <1>2 DEF CsInv
  <2>. QED
    BY <1>1, <2>1 DEF RunSound, AloneKnows, Readable
<1>. QED
  BY <1>3, <1>4, <1>5, <1>6 DEF CsInv

(* Disturbing the scans does not make what they know false. *)
LEMMA DisturbedStands ==
  ASSUME CsInv
  PROVE  /\ Disturbed(csScan) \in [Scans -> ScanRecs]
         /\ \A s \in Scans : /\ Disturbed(csScan)[s].pc = csScan[s].pc
                             /\ Disturbed(csScan)[s].sig = csScan[s].sig
                             /\ ~Disturbed(csScan)[s].alone
                             /\ RunSound(Disturbed(csScan)[s]) /\ AloneKnows(Disturbed(csScan)[s])
<1>1. \A s \in Scans : Disturbed(csScan)[s] = [csScan[s] EXCEPT !.alone = FALSE]
  BY DEF Disturbed
<1>2. \A s \in Scans : csScan[s] \in ScanRecs
  BY DEF CsInv, CsShape
<1>3. \A s \in Scans : [csScan[s] EXCEPT !.alone = FALSE] \in ScanRecs
  BY <1>2 DEF ScanRecs
<1>4. Disturbed(csScan) \in [Scans -> ScanRecs]
  BY <1>3 DEF Disturbed
<1>5. ASSUME NEW s \in Scans
      PROVE  /\ Disturbed(csScan)[s].pc = csScan[s].pc /\ Disturbed(csScan)[s].sig = csScan[s].sig
             /\ ~Disturbed(csScan)[s].alone
             /\ Disturbed(csScan)[s].todo = csScan[s].todo /\ Disturbed(csScan)[s].at = csScan[s].at
             /\ Disturbed(csScan)[s].selected = csScan[s].selected
             /\ Disturbed(csScan)[s].seen = csScan[s].seen
  <2>1. PICK r \in ScanRecs : r = csScan[s]
    BY <1>2
  <2>2. PICK d : d = [r EXCEPT !.alone = FALSE]
    OBVIOUS
  <2>3. /\ d.pc = r.pc /\ d.sig = r.sig /\ ~d.alone /\ d.todo = r.todo /\ d.at = r.at
        /\ d.selected = r.selected /\ d.seen = r.seen
    BY <2>2 DEF ScanRecs
  <2>. QED
    BY <1>1, <2>1, <2>2, <2>3
<1>6. ASSUME NEW s \in Scans
      PROVE  RunSound(Disturbed(csScan)[s]) /\ AloneKnows(Disturbed(csScan)[s])
  BY <1>5 DEF CsInv, RunSound, AloneKnows, ReadingOf
<1>. QED
  BY <1>4, <1>5, <1>6

LEMMA ScanStartedKeeps ==
  ASSUME CsInv, NEW s \in Scans, ScanStarted(s) PROVE CsInv'
<1> DEFINE r == [IdleScan EXCEPT !.pc = "plan", !.alone = (Running = {})]
<1>1. /\ csFile' = csFile /\ csVersions' = csVersions /\ csCache' = csCache /\ csRow' = csRow
      /\ csIssue' = csIssue /\ csEntry' = csEntry /\ csChanges' = csChanges /\ csTold' = csTold
      /\ csScan' = [Disturbed(csScan) EXCEPT ![s] = r]
  BY DEF ScanStarted, csDisk, csTable
<1>2. /\ r.pc = "plan" /\ r.selected = {} /\ r.todo = {} /\ r.sig = 0 /\ r.seen = Unread
      /\ r \in ScanRecs
  <2>1. IdleScan \in ScanRecs
    BY ScannerAssumption DEF IdleScan, ScanRecs, Reads, NotRead
  <2>2. (Running = {}) \in BOOLEAN
    OBVIOUS
  <2>3. r \in ScanRecs
    BY <2>1, <2>2 DEF ScanRecs
  <2>. QED
    BY <2>3 DEF IdleScan, Unread
<1> HIDE DEF r
<1>3. r \in ScanRecs /\ RunSound(r) /\ AloneKnows(r) /\ r.sig = 0
  BY <1>2 DEF RunSound, AloneKnows, ReadingOf, Unread
<1>4. csScan' \in [Scans -> ScanRecs]
      /\ \A t \in Scans : csScan'[t] = IF t = s THEN r ELSE Disturbed(csScan)[t]
  BY <1>1, <1>3, DisturbedStands
<1>5. CsShape'
  BY <1>1, <1>4 DEF CsInv, CsShape
<1>6. SignaturesPast'
  BY <1>1, <1>3, <1>4, DisturbedStands, ScannerAssumption DEF CsInv, CsShape, SignaturesPast
<1>7. CacheIsTrue' /\ TableIsTrue'
  BY <1>1 DEF CsInv, CacheIsTrue, TableIsTrue
<1>8. ASSUME NEW t \in Scans PROVE (RunSound(csScan[t]) /\ AloneKnows(csScan[t]))'
  <2>1. RunSound(csScan'[t]) /\ AloneKnows(csScan'[t])
    BY <1>3, <1>4, DisturbedStands
  <2>. QED
    BY <1>1, <2>1 DEF RunSound, AloneKnows, Readable
<1>. QED
  BY <1>5, <1>6, <1>7, <1>8 DEF CsInv

LEMMA ScanPlannedKeeps ==
  ASSUME CsInv, NEW s \in Scans, ScanPlanned(s) PROVE CsInv'
<1> DEFINE all == {f \in SourceFiles : csFile[f].content # "absent"}
<1> DEFINE selected == {f \in all : csFile[f].content # "large"}
<1> DEFINE r == [csScan[s] EXCEPT !.pc = "next", !.all = all, !.selected = selected, !.todo = selected]
<1>1. csScan[s] \in ScanRecs /\ RunSound(csScan[s]) /\ csScan[s].sig <= csVersions /\ csScan[s].pc = "plan"
  BY DEF CsInv, CsShape, SignaturesPast, ScanPlanned, ScanAt
<1>2. r \in ScanRecs /\ r.sig = csScan[s].sig /\ r.seen = Unread
  BY <1>1 DEF ScanRecs, RunSound
<1>3. RunSound(r)
  BY <1>1, <1>2 DEF RunSound, ReadingOf, Unread, ScanRecs
<1>4. AloneKnows(r)
  BY <1>1 DEF AloneKnows, ReadingOf, ScanRecs
<1>5. csScan' = [csScan EXCEPT ![s] = r]
  BY DEF ScanPlanned, CsInv, CsShape
<1>. QED
  <2>1. UNCHANGED <<csDisk, csCache, csTable, csEntry, csChanges, csTold>>
    BY DEF ScanPlanned
  <2> HIDE DEF r
  <2>. QED
    BY <1>1, <1>2, <1>3, <1>4, <1>5, <2>1, ScanMoves

LEMMA FileStatKeeps ==
  ASSUME CsInv, NEW s \in Scans, NEW f \in SourceFiles, FileStat(s, f) PROVE CsInv'
<1>1. /\ csScan[s] \in ScanRecs /\ RunSound(csScan[s]) /\ AloneKnows(csScan[s])
      /\ csScan[s].sig <= csVersions /\ csScan[s].pc = "next" /\ f \in csScan[s].todo
  BY DEF CsInv, CsShape, SignaturesPast, FileStat, ScanAt
<1>2. csFile[f] \in FileRecs /\ csFile[f].sig <= csVersions
  BY DEF CsInv, CsShape, SignaturesPast
<1>3. UNCHANGED <<csDisk, csCache, csTable, csEntry, csChanges, csTold>>
  BY DEF FileStat
<1>4. CASE csFile[f].content = "absent"
  <2> DEFINE r == [csScan[s] EXCEPT !.todo = @ \ {f}]
  <2>1. /\ r \in ScanRecs /\ r.sig = csScan[s].sig /\ r.pc = "next" /\ r.todo = csScan[s].todo \ {f}
        /\ r.selected = csScan[s].selected /\ r.all = csScan[s].all /\ r.seen = csScan[s].seen
        /\ r.alone = csScan[s].alone
    BY <1>1 DEF ScanRecs
  <2>2. csScan' = [csScan EXCEPT ![s] = r]
    BY <1>4 DEF FileStat, CsInv, CsShape
  <2> HIDE DEF r
  <2>3. RunSound(r)
    BY <1>1, <2>1 DEF RunSound, ReadingOf
  <2>4. ~r.alone
    BY <1>1, <1>4, <2>1 DEF AloneKnows, RunSound
  <2>5. AloneKnows(r)
    BY <2>4 DEF AloneKnows
  <2>. QED
    BY <1>1, <1>3, <2>1, <2>2, <2>3, <2>5, ScanMoves
<1>5. CASE csFile[f].content # "absent"
  <2> DEFINE r == [csScan[s] EXCEPT !.pc = "stat", !.at = f, !.sig = csFile[f].sig]
  <2>1. /\ r \in ScanRecs /\ r.sig = csFile[f].sig /\ r.pc = "stat" /\ r.todo = csScan[s].todo
        /\ r.selected = csScan[s].selected /\ r.all = csScan[s].all /\ r.seen = csScan[s].seen
        /\ r.alone = csScan[s].alone /\ r.at = f
    BY <1>1, <1>2 DEF ScanRecs, FileRecs
  <2>2. csScan' = [csScan EXCEPT ![s] = r]
    BY <1>5 DEF FileStat, CsInv, CsShape
  <2> HIDE DEF r
  <2>3. RunSound(r)
    BY <1>1, <2>1 DEF RunSound, ReadingOf
  <2>4. AloneKnows(r)
    BY <1>1, <2>1 DEF AloneKnows
  <2>. QED
    BY <1>1, <1>2, <1>3, <2>1, <2>2, <2>3, <2>4, ScanMoves
<1>. QED
  BY <1>4, <1>5

LEMMA FileCachedKeeps ==
  ASSUME CsInv, NEW s \in Scans, FileCached(s) PROVE CsInv'
<1> DEFINE f == csScan[s].at
<1> DEFINE c == csCache[f].content
<1> DEFINE r == [csScan[s] EXCEPT !.pc = "next", !.at = NoFile, !.todo = @ \ {csScan[s].at},
                                  !.seen = [@ EXCEPT ![csScan[s].at] = c]]
<1>1. /\ csScan[s] \in ScanRecs /\ RunSound(csScan[s]) /\ AloneKnows(csScan[s])
      /\ csScan[s].sig <= csVersions /\ csScan[s].pc = "stat"
      /\ csCache[f].sig = csScan[s].sig
  BY DEF CsInv, CsShape, SignaturesPast, FileCached, ScanAt
<1>2. f \in csScan[s].todo /\ f \in csScan[s].selected /\ f \in SourceFiles
  BY <1>1 DEF RunSound, ReadingOf, ScanRecs
<1>3. csCache[f] \in CacheRecs /\ csFile[f] \in FileRecs
  BY <1>2 DEF CsInv, CsShape
<1>4. /\ r \in ScanRecs /\ r.sig = csScan[s].sig /\ r.pc = "next" /\ r.todo = csScan[s].todo \ {f}
      /\ r.selected = csScan[s].selected /\ r.all = csScan[s].all
      /\ r.seen = [csScan[s].seen EXCEPT ![f] = c] /\ r.alone = csScan[s].alone
  BY <1>1, <1>2, <1>3 DEF ScanRecs, CacheRecs
<1>5. csScan' = [csScan EXCEPT ![s] = r]
  BY DEF FileCached, SeenContent, CsInv, CsShape
<1>6. \A g \in SourceFiles : r.seen[g] = IF g = f THEN c ELSE csScan[s].seen[g]
  BY <1>1, <1>2, <1>4 DEF ScanRecs
<1>7. csCache[f].sig = csFile[f].sig /\ Readable(f) => c = csFile[f].content
  BY <1>2 DEF CsInv, CacheIsTrue, Readable
<1>8. UNCHANGED <<csDisk, csCache, csTable, csEntry, csChanges, csTold>>
  BY DEF FileCached
<1> HIDE DEF r, c, f
<1>9. RunSound(r)
  BY <1>1, <1>2, <1>4, <1>6 DEF RunSound, ReadingOf
<1>10. AloneKnows(r)
  <2> SUFFICES ASSUME r.alone
               PROVE  /\ r.all = {g \in SourceFiles : csFile[g].content # "absent"}
                      /\ r.selected = {g \in r.all : csFile[g].content # "large"}
                      /\ \A g \in r.selected \ r.todo : r.seen[g] = csFile[g].content
    BY <1>4 DEF AloneKnows, ReadingOf
  <2>1. /\ r.all = {g \in SourceFiles : csFile[g].content # "absent"}
        /\ r.selected = {g \in r.all : csFile[g].content # "large"}
        /\ csFile[f].sig = csScan[s].sig
        /\ \A g \in csScan[s].selected \ csScan[s].todo : csScan[s].seen[g] = csFile[g].content
    BY <1>1, <1>4 DEF AloneKnows, ReadingOf, f
  <2>2. Readable(f)
    BY <1>2, <1>4, <2>1 DEF Readable
  <2>3. c = csFile[f].content
    BY <1>1, <1>7, <2>1, <2>2
  <2>4. \A g \in r.selected : g \in SourceFiles
    BY <2>1
  <2>. QED
    BY <1>4, <1>6, <2>1, <2>3, <2>4
<1>. QED
  BY <1>1, <1>4, <1>5, <1>8, <1>9, <1>10, ScanMoves

LEMMA FileReadKeeps ==
  ASSUME CsInv, NEW s \in Scans, FileRead(s) PROVE CsInv'
<1> DEFINE f == csScan[s].at
<1> DEFINE c == CASE csFile[f].content = "absent" -> NotRead
                  [] csFile[f].content = "large" -> "clean"
                  [] OTHER -> csFile[f].content
<1> DEFINE r == [csScan[s] EXCEPT !.pc = "read", !.seen = [@ EXCEPT ![csScan[s].at] = c]]
<1>1. /\ csScan[s] \in ScanRecs /\ RunSound(csScan[s]) /\ AloneKnows(csScan[s])
      /\ csScan[s].sig <= csVersions /\ csScan[s].pc = "stat"
  BY DEF CsInv, CsShape, SignaturesPast, FileRead, ScanAt
<1>2. f \in csScan[s].todo /\ f \in csScan[s].selected /\ f \in SourceFiles
  BY <1>1 DEF RunSound, ReadingOf, ScanRecs
<1>3. csFile[f].content \in Contents
  BY <1>2 DEF CsInv, CsShape, FileRecs
<1>4. c \in Reads /\ (Readable(f) => c = csFile[f].content)
  BY <1>3 DEF Reads, Contents, Readable
<1>5. csScan' = [csScan EXCEPT ![s] = r]
  BY DEF FileRead, CsInv, CsShape
<1>6. UNCHANGED <<csDisk, csCache, csTable, csEntry, csChanges, csTold>>
  BY DEF FileRead
<1> HIDE DEF c
<1>7. /\ r \in ScanRecs /\ r.sig = csScan[s].sig /\ r.pc = "read" /\ r.todo = csScan[s].todo
      /\ r.selected = csScan[s].selected /\ r.all = csScan[s].all /\ r.at = f
      /\ r.seen = [csScan[s].seen EXCEPT ![f] = c] /\ r.alone = csScan[s].alone
  BY <1>1, <1>2, <1>4 DEF ScanRecs
<1>8. \A g \in SourceFiles : r.seen[g] = IF g = f THEN c ELSE csScan[s].seen[g]
  BY <1>1, <1>2, <1>7 DEF ScanRecs
<1> HIDE DEF r, f
<1>9. RunSound(r)
  BY <1>1, <1>2, <1>4, <1>7, <1>8 DEF RunSound, ReadingOf, f
<1>10. AloneKnows(r)
  <2>1. \A g \in r.selected \ r.todo : g # f /\ (r.selected \subseteq SourceFiles)
    BY <1>2, <1>7 DEF ScanRecs
  <2>. QED
    BY <1>1, <1>7, <1>8, <2>1 DEF AloneKnows, ReadingOf, f
<1>. QED
  BY <1>1, <1>5, <1>6, <1>7, <1>9, <1>10, ScanMoves

LEMMA FileParsedKeeps ==
  ASSUME CsInv, NEW s \in Scans, FileParsed(s) PROVE CsInv'
<1> DEFINE f == csScan[s].at
<1> DEFINE c == csScan[s].seen[f]
<1> DEFINE r == [csScan[s] EXCEPT !.pc = "next", !.at = NoFile, !.todo = @ \ {csScan[s].at},
                                  !.seen = [@ EXCEPT ![csScan[s].at] = c]]
<1>1. /\ csScan[s] \in ScanRecs /\ RunSound(csScan[s]) /\ AloneKnows(csScan[s])
      /\ csScan[s].sig <= csVersions /\ csScan[s].pc = "read"
  BY DEF CsInv, CsShape, SignaturesPast, FileParsed, ScanAt
<1>2. f \in csScan[s].todo /\ f \in csScan[s].selected /\ f \in SourceFiles /\ c \in Reads
  BY <1>1 DEF RunSound, ReadingOf, ScanRecs
<1>3. /\ r \in ScanRecs /\ r.sig = csScan[s].sig /\ r.pc = "next" /\ r.todo = csScan[s].todo \ {f}
      /\ r.selected = csScan[s].selected /\ r.all = csScan[s].all /\ r.alone = csScan[s].alone
      /\ r.seen = csScan[s].seen
  BY <1>1, <1>2 DEF ScanRecs
<1>4. csScan' = [csScan EXCEPT ![s] = r]
  BY DEF FileParsed, SeenContent, CsInv, CsShape
<1>5. /\ csFile' = csFile /\ csVersions' = csVersions /\ csRow' = csRow /\ csIssue' = csIssue
      /\ csEntry' = csEntry /\ csChanges' = csChanges /\ csTold' = csTold
      /\ csCache' = IF c = NotRead THEN csCache
                    ELSE [csCache EXCEPT ![f] = [sig |-> csScan[s].sig, content |-> c]]
  BY DEF FileParsed, Signature, csDisk, csTable
<1>6. csFile[f].sig = csScan[s].sig /\ Readable(f) => c = csFile[f].content
  BY <1>1 DEF RunSound
<1>7. csScan[s].sig \in 0 .. MaxVersions
  BY <1>1 DEF ScanRecs
<1> HIDE DEF r, c, f
<1>8. RunSound(r)
  BY <1>1, <1>3 DEF RunSound, ReadingOf
<1>9. AloneKnows(r)
  <2> SUFFICES ASSUME r.alone
               PROVE  /\ r.all = {g \in SourceFiles : csFile[g].content # "absent"}
                      /\ r.selected = {g \in r.all : csFile[g].content # "large"}
                      /\ \A g \in r.selected \ r.todo : r.seen[g] = csFile[g].content
    BY <1>3 DEF AloneKnows, ReadingOf
  <2>1. /\ r.all = {g \in SourceFiles : csFile[g].content # "absent"}
        /\ r.selected = {g \in r.all : csFile[g].content # "large"}
        /\ csFile[f].sig = csScan[s].sig
        /\ \A g \in csScan[s].selected \ csScan[s].todo : csScan[s].seen[g] = csFile[g].content
    BY <1>1, <1>3 DEF AloneKnows, ReadingOf, f
  <2>2. Readable(f)
    BY <1>2, <1>3, <2>1 DEF Readable
  <2>3. csScan[s].seen[f] = csFile[f].content
    BY <1>6, <2>1, <2>2 DEF c
  <2>. QED
    BY <1>3, <2>1, <2>3
<1>10. \A t \in Scans : csScan'[t] = IF t = s THEN r ELSE csScan[t]
  BY <1>4 DEF CsInv, CsShape
<1>11. csCache' \in [SourceFiles -> CacheRecs]
       /\ \A g \in SourceFiles : csCache'[g] = IF g = f /\ c # NotRead
                                               THEN [sig |-> csScan[s].sig, content |-> c] ELSE csCache[g]
  <2>1. csCache \in [SourceFiles -> CacheRecs]
    BY DEF CsInv, CsShape
  <2>2. [sig |-> csScan[s].sig, content |-> c] \in CacheRecs
    BY <1>2, <1>7, ScannerAssumption DEF CacheRecs
  <2>. QED
    BY <1>2, <1>5, <2>1, <2>2
<1>12. CsShape'
  BY <1>3, <1>4, <1>5, <1>11 DEF CsInv, CsShape
<1>13. SignaturesPast'
  BY <1>1, <1>3, <1>5, <1>10, <1>11 DEF CsInv, SignaturesPast
<1>14. CacheIsTrue' /\ TableIsTrue'
  BY <1>5, <1>6, <1>11 DEF CsInv, CacheIsTrue, TableIsTrue, Readable
<1>15. ASSUME NEW t \in Scans PROVE (RunSound(csScan[t]) /\ AloneKnows(csScan[t]))'
  <2>1. RunSound(csScan'[t]) /\ AloneKnows(csScan'[t])
    BY <1>8, <1>9, <1>10 DEF CsInv
  <2>. QED
    BY <1>5, <2>1 DEF RunSound, AloneKnows, Readable
<1>. QED
  BY <1>12, <1>13, <1>14, <1>15 DEF CsInv

(* What a scan has seen of every file, when it has gone through its list. *)
LEMMA AloneSees ==
  ASSUME CsInv, NEW s \in Scans, ScanApplied(s), csScan[s].alone, NEW f \in SourceFiles
  PROVE  /\ csFile[f].content \in {"clean", "hit", "broken"} => csScan[s].seen[f] = csFile[f].content
         /\ csFile[f].content \in {"large", "absent"} => csScan[s].seen[f] = NotRead
         /\ csFile[f].content = "absent" <=> f \notin csScan[s].all
<1>1. RunSound(csScan[s]) /\ AloneKnows(csScan[s]) /\ csScan[s].pc = "next" /\ csScan[s].todo = {}
  BY DEF CsInv, ScanApplied, ScanAt
<1>. QED
  BY <1>1 DEF RunSound, AloneKnows

LEMMA ScanAppliedKeeps ==
  ASSUME CsInv, NEW s \in Scans, ScanApplied(s) PROVE CsInv'
<1>1. /\ csFile' = csFile /\ csVersions' = csVersions /\ csEntry' = csEntry /\ csChanges' = csChanges
      /\ csRow' = Reconciled(s) /\ csTold' = (csScan[s].alone /\ csEntry)
      /\ csCache' = [f \in SourceFiles |-> IF f \in csScan[s].selected THEN csCache[f] ELSE NoCached]
      /\ csScan' = [csScan EXCEPT ![s] = IdleScan]
  BY DEF ScanApplied, csDisk
<1>2. IdleScan \in ScanRecs /\ NoCached \in CacheRecs /\ IdleScan.sig = 0
      /\ RunSound(IdleScan) /\ AloneKnows(IdleScan)
  BY ScannerAssumption DEF IdleScan, NoCached, ScanRecs, CacheRecs, Reads, NotRead, RunSound,
       AloneKnows, ReadingOf, Unread
<1>3. csScan' \in [Scans -> ScanRecs]
      /\ \A t \in Scans : csScan'[t] = IF t = s THEN IdleScan ELSE csScan[t]
  BY <1>1, <1>2 DEF CsInv, CsShape
<1>4. csCache' \in [SourceFiles -> CacheRecs]
      /\ \A f \in SourceFiles : csCache'[f] = csCache[f] \/ csCache'[f] = NoCached
  BY <1>1, <1>2 DEF CsInv, CsShape
<1>5. csRow' \in [SourceFiles -> FindingStatuses \cup {"none"}]
  <2>1. \A f \in SourceFiles : csRow[f] \in FindingStatuses \cup {"none"}
    BY DEF CsInv, CsShape
  <2>2. \A f \in SourceFiles : Reconciled(s)[f] \in FindingStatuses \cup {"none"}
    BY <2>1 DEF Reconciled, FindingStatuses
  <2>. QED
    BY <1>1, <2>2 DEF Reconciled
<1>6. csIssue' \in BOOLEAN /\ csTold' \in BOOLEAN
  <2>1. csIssue \in BOOLEAN /\ csEntry \in BOOLEAN /\ csScan[s].alone \in BOOLEAN
    BY DEF CsInv, CsShape, ScanRecs
  <2>2. (Found(s) # {}) \in BOOLEAN
    OBVIOUS
  <2>. QED
    BY <1>1, <2>1, <2>2 DEF ScanApplied
<1>7. CsShape'
  BY <1>1, <1>3, <1>4, <1>5, <1>6 DEF CsInv, CsShape
<1>8. SignaturesPast' /\ CacheIsTrue'
  BY <1>1, <1>2, <1>3, <1>4, ScannerAssumption DEF CsInv, CsShape, SignaturesPast, CacheIsTrue, NoCached
<1>9. TableIsTrue'
  <2> SUFFICES ASSUME csScan[s].alone, NEW f \in SourceFiles
               PROVE  /\ csFile[f].content = "hit" => csRow'[f] # "none"
                      /\ csFile[f].content \in {"clean", "absent"} => csRow'[f] \in {"none", "resolved"}
    BY <1>1 DEF TableIsTrue
  <2>1. csFile[f].content = "hit" <=> f \in Found(s)
    BY AloneSees DEF Found, CsInv, CsShape, FileRecs, Contents, NotRead
  <2>2. csFile[f].content \in {"clean", "absent"} => f \in Evaluated(s)
    BY AloneSees DEF Evaluated, FileScanned
  <2>3. csRow'[f] = CASE f \in Found(s) -> IF csRow[f] = "none" THEN "new" ELSE csRow[f]
                      [] f \notin Found(s) /\ f \in Evaluated(s) /\ csRow[f] # "none" -> "resolved"
                      [] OTHER -> csRow[f]
    BY <1>1 DEF Reconciled
  <2>. QED
    BY <2>1, <2>2, <2>3
<1>10. ASSUME NEW t \in Scans PROVE (RunSound(csScan[t]) /\ AloneKnows(csScan[t]))'
  <2>1. RunSound(csScan'[t]) /\ AloneKnows(csScan'[t])
    BY <1>2, <1>3 DEF CsInv
  <2>. QED
    BY <1>1, <2>1 DEF RunSound, AloneKnows, Readable
<1>. QED
  BY <1>7, <1>8, <1>9, <1>10 DEF CsInv

(* What happens meanwhile disturbs the scans.                              *)
LEMMA FileChangesKeeps ==
  ASSUME CsInv, NEW f \in SourceFiles, NEW c \in Contents, FileChanges(f, c) PROVE CsInv'
<1>1. /\ csVersions < MaxVersions /\ csVersions' = csVersions + 1
      /\ csFile' = [csFile EXCEPT ![f] = [content |-> c, sig |-> csVersions']]
      /\ csScan' = Disturbed(csScan) /\ csTold' = FALSE
      /\ csCache' = csCache /\ csRow' = csRow /\ csIssue' = csIssue /\ csEntry' = csEntry
      /\ csChanges' = csChanges
  BY DEF FileChanges, csTable
<1>2. csVersions \in Nat /\ csVersions' \in 0 .. MaxVersions
  BY <1>1, ScannerAssumption DEF CsInv, CsShape
<1>3. csFile' \in [SourceFiles -> FileRecs]
      /\ \A g \in SourceFiles : csFile'[g] = IF g = f THEN [content |-> c, sig |-> csVersions'] ELSE csFile[g]
  <2>1. [content |-> c, sig |-> csVersions'] \in FileRecs
    BY <1>2 DEF FileRecs
  <2>. QED
    BY <1>1, <2>1 DEF CsInv, CsShape
<1>4. CsShape'
  BY <1>1, <1>2, <1>3, DisturbedStands DEF CsInv, CsShape
<1>5. /\ \A g \in SourceFiles : csFile[g] \in FileRecs /\ csCache[g] \in CacheRecs
      /\ \A s \in Scans : csScan[s] \in ScanRecs
  BY DEF CsInv, CsShape
<1>6. /\ \A g \in SourceFiles : csFile[g].sig <= csVersions'
      /\ \A g \in SourceFiles : csCache[g].sig <= csVersions \/ csCache[g].sig = MaxVersions + 1
      /\ \A s \in Scans : csScan[s].sig <= csVersions /\ csScan[s].sig # csVersions'
  BY <1>1, <1>2, <1>5 DEF CsInv, SignaturesPast, FileRecs, CacheRecs, ScanRecs
<1>7. \A g \in SourceFiles : csCache[g].sig # csVersions' /\ (csCache[g].sig <= csVersions => csCache[g].sig <= csVersions')
  BY <1>1, <1>2, <1>5, <1>6, ScannerAssumption DEF CacheRecs
<1>8. SignaturesPast'
  <2>1. \A g \in SourceFiles : csFile'[g].sig <= csVersions'
    BY <1>2, <1>3, <1>6
  <2>2. \A s \in Scans : csScan'[s].sig <= csVersions'
    BY <1>1, <1>2, <1>5, <1>6, DisturbedStands DEF ScanRecs
  <2>. QED
    BY <1>1, <1>6, <1>7, <2>1, <2>2 DEF SignaturesPast
<1>9. CacheIsTrue' /\ TableIsTrue'
  BY <1>1, <1>3, <1>7 DEF CsInv, CacheIsTrue, TableIsTrue
<1>10. ASSUME NEW s \in Scans PROVE (RunSound(csScan[s]) /\ AloneKnows(csScan[s]))'
  <2> DEFINE r == Disturbed(csScan)[s]
  <2>1. csScan'[s] = r /\ RunSound(r) /\ ~r.alone /\ r.sig # csVersions' /\ r \in ScanRecs
    BY <1>1, <1>6, DisturbedStands
  <2> HIDE DEF r
  <2>2. r.pc = "read" => r.at \in SourceFiles
    BY <2>1 DEF RunSound, ReadingOf, ScanRecs
  <2>3. /\ ReadingOf(r) => r.at \in r.todo
        /\ r.todo \subseteq r.selected
        /\ r.pc \in {"idle", "plan"} => r.seen = Unread /\ r.selected = {}
        /\ \A g \in SourceFiles \ r.selected : r.seen[g] = NotRead
        /\ r.pc = "read" /\ csFile'[r.at].sig = r.sig /\ csFile'[r.at].content \notin {"absent", "large"} =>
             r.seen[r.at] = csFile'[r.at].content
    BY <1>3, <2>1, <2>2 DEF RunSound, Readable
  <2>4. (RunSound(csScan[s]))'
    BY <2>1, <2>3 DEF RunSound, Readable
  <2>5. (AloneKnows(csScan[s]))'
    BY <2>1 DEF AloneKnows
  <2>. QED
    BY <2>4, <2>5
<1>. QED
  BY <1>4, <1>8, <1>9, <1>10 DEF CsInv

LEMMA TableMoves ==
  ASSUME CsInv, csScan' = Disturbed(csScan), csTold' = FALSE, UNCHANGED csDisk,
         csRow' \in [SourceFiles -> FindingStatuses \cup {"none"}],
         csCache' \in {csCache, [f \in SourceFiles |-> NoCached]},
         csChanges' \in 0 .. MaxEntryChanges, {csIssue', csEntry'} \subseteq BOOLEAN
  PROVE  CsInv'
<1>1. csFile' = csFile /\ csVersions' = csVersions
  BY DEF csDisk
<1>2. NoCached \in CacheRecs /\ NoCached.sig = MaxVersions + 1
  BY ScannerAssumption DEF NoCached, CacheRecs, Reads
<1>3. CsShape'
  BY <1>1, <1>2, DisturbedStands DEF CsInv, CsShape
<1>4. \A f \in SourceFiles : csCache'[f] \in {csCache[f], NoCached} /\ csFile[f].sig \in 0 .. MaxVersions
  BY DEF CsInv, CsShape, FileRecs
<1>5. SignaturesPast' /\ CacheIsTrue' /\ TableIsTrue'
  BY <1>1, <1>2, <1>4, DisturbedStands, ScannerAssumption DEF CsInv, SignaturesPast, CacheIsTrue, TableIsTrue
<1>6. ASSUME NEW s \in Scans PROVE (RunSound(csScan[s]) /\ AloneKnows(csScan[s]))'
  <2>1. RunSound(csScan'[s]) /\ AloneKnows(csScan'[s])
    BY DisturbedStands
  <2>. QED
    BY <1>1, <2>1 DEF RunSound, AloneKnows, Readable
<1>. QED
  BY <1>3, <1>5, <1>6 DEF CsInv

LEMMA MeanwhileKeeps ==
  ASSUME CsInv, \/ \E f \in SourceFiles, t \in {"dismissed", "resolved"} : StatusSetTo(f, t)
                \/ EntryRemoved \/ EntryAdded
  PROVE  CsInv'
<1>1. /\ csRow \in [SourceFiles -> FindingStatuses \cup {"none"}] /\ csChanges \in 0 .. MaxEntryChanges
      /\ csIssue \in BOOLEAN /\ csEntry \in BOOLEAN /\ csTold \in BOOLEAN
  BY DEF CsInv, CsShape
<1>2. CASE \E f \in SourceFiles, t \in {"dismissed", "resolved"} : StatusSetTo(f, t)
  <2> PICK f \in SourceFiles, t \in {"dismissed", "resolved"} : StatusSetTo(f, t)
    BY <1>2
  <2>1. csRow' \in [SourceFiles -> FindingStatuses \cup {"none"}]
    BY <1>1 DEF StatusSetTo, FindingStatuses
  <2>2. /\ csScan' = Disturbed(csScan) /\ csTold' = FALSE /\ UNCHANGED csDisk /\ csCache' = csCache
        /\ csChanges' = csChanges /\ csIssue' = csIssue /\ csEntry' = csEntry
    BY DEF StatusSetTo
  <2>. QED
    BY <1>1, <2>1, <2>2, TableMoves
<1>3. CASE EntryRemoved
  <2>1. csRow' \in [SourceFiles -> FindingStatuses \cup {"none"}]
    BY <1>1, <1>3 DEF EntryRemoved, FindingStatuses
  <2>2. /\ csScan' = Disturbed(csScan) /\ csTold' = FALSE /\ UNCHANGED csDisk
        /\ csCache' = [f \in SourceFiles |-> NoCached] /\ csIssue' = csIssue /\ csEntry' = FALSE
    BY <1>3 DEF EntryRemoved
  <2>3. csChanges' \in 0 .. MaxEntryChanges
    BY <1>1, <1>3, ScannerAssumption DEF EntryRemoved
  <2>. QED
    BY <1>1, <2>1, <2>2, <2>3, TableMoves
<1>4. CASE EntryAdded
  <2>1. /\ csFile' = csFile /\ csVersions' = csVersions /\ csCache' = csCache /\ csRow' = csRow
        /\ csIssue' = csIssue /\ csScan' = csScan /\ csTold' = csTold /\ csEntry' = TRUE
    BY <1>4 DEF EntryAdded, csDisk, csTable
  <2>2. csChanges' \in 0 .. MaxEntryChanges
    BY <1>1, <1>4, ScannerAssumption DEF EntryAdded
  <2>3. CsShape'
    BY <2>1, <2>2 DEF CsInv, CsShape
  <2>4. SignaturesPast' /\ CacheIsTrue' /\ TableIsTrue'
    BY <2>1 DEF CsInv, SignaturesPast, CacheIsTrue, TableIsTrue
  <2>5. ASSUME NEW s \in Scans PROVE (RunSound(csScan[s]) /\ AloneKnows(csScan[s]))'
    BY <2>1 DEF CsInv, RunSound, AloneKnows, Readable
  <2>. QED
    BY <2>3, <2>4, <2>5 DEF CsInv
<1>. QED
  BY <1>2, <1>3, <1>4

-----------------------------------------------------------------------------

LEMMA CsKept == CsInv /\ [CsNext]_csVars => CsInv'
<1> SUFFICES ASSUME CsInv, [CsNext]_csVars PROVE CsInv'
  OBVIOUS
<1>1. CASE \E s \in Scans : \/ ScanStarted(s) \/ ScanPlanned(s) \/ FileCached(s) \/ FileRead(s)
                            \/ FileParsed(s) \/ ScanApplied(s)
                            \/ \E f \in SourceFiles : FileStat(s, f)
  BY <1>1, ScanStartedKeeps, ScanPlannedKeeps, FileCachedKeeps, FileReadKeeps, FileParsedKeeps,
     ScanAppliedKeeps, FileStatKeeps
<1>2. CASE \E f \in SourceFiles, c \in Contents : FileChanges(f, c)
  BY <1>2, FileChangesKeeps
<1>3. CASE \/ \E f \in SourceFiles, t \in {"dismissed", "resolved"} : StatusSetTo(f, t)
           \/ EntryRemoved \/ EntryAdded
  BY <1>3, MeanwhileKeeps
<1>4. CASE UNCHANGED csVars
  <2>1. /\ csFile' = csFile /\ csVersions' = csVersions /\ csCache' = csCache /\ csRow' = csRow
        /\ csIssue' = csIssue /\ csScan' = csScan /\ csTold' = csTold /\ csEntry' = csEntry
        /\ csChanges' = csChanges
    BY <1>4 DEF csVars, csDisk, csTable
  <2>2. CsShape' /\ SignaturesPast' /\ CacheIsTrue' /\ TableIsTrue'
    BY <2>1 DEF CsInv, CsShape, SignaturesPast, CacheIsTrue, TableIsTrue
  <2>3. ASSUME NEW s \in Scans PROVE (RunSound(csScan[s]) /\ AloneKnows(csScan[s]))'
    BY <2>1 DEF CsInv, RunSound, AloneKnows, Readable
  <2>. QED
    BY <2>2, <2>3 DEF CsInv
<1>. QED
  BY <1>1, <1>2, <1>3, <1>4 DEF CsNext

(* Only the end of a scan takes it from its list to nothing.               *)
LEMMA OnlyAppliedEnds ==
  ASSUME CsInv, [CsNext]_csVars, NEW s \in Scans, ScanAt(s, "next"), csScan'[s].pc = "idle"
  PROVE  ScanApplied(s)
<1>1. csScan \in [Scans -> ScanRecs] /\ csScan[s].pc = "next"
  BY DEF CsInv, CsShape, ScanAt
<1>2. ASSUME NEW t \in Scans, ScanStarted(t) PROVE FALSE
  <2>1. t # s /\ csScan' = [Disturbed(csScan) EXCEPT
                  ![t] = [IdleScan EXCEPT !.pc = "plan", !.alone = (Running = {})]]
    BY <1>1, <1>2 DEF ScanStarted, ScanAt
  <2>2. csScan'[s] = Disturbed(csScan)[s]
    BY <2>1, DisturbedStands
  <2>. QED
    BY <1>1, <2>2, DisturbedStands
<1>3. ASSUME NEW t \in Scans, ScanPlanned(t) \/ FileCached(t) \/ FileRead(t) \/ FileParsed(t)
      PROVE  FALSE
  <2>1. t # s
    BY <1>1, <1>3 DEF ScanPlanned, FileCached, FileRead, FileParsed, ScanAt
  <2>2. csScan'[s] = csScan[s]
    BY <1>1, <1>3, <2>1 DEF ScanPlanned, FileCached, FileRead, FileParsed, SeenContent
  <2>. QED
    BY <1>1, <2>2
<1>4. ASSUME NEW t \in Scans, NEW f \in SourceFiles, FileStat(t, f) PROVE FALSE
  <2>1. csScan'[s].pc \in {csScan[s].pc, "stat"}
    BY <1>1, <1>4 DEF FileStat, ScanRecs
  <2>. QED
    BY <1>1, <2>1
<1>5. ASSUME NEW t \in Scans, ScanApplied(t) PROVE t = s
  BY <1>1, <1>5 DEF ScanApplied
<1>6. ASSUME csScan' = csScan \/ csScan' = Disturbed(csScan) PROVE FALSE
  BY <1>1, <1>6, DisturbedStands
<1>7. CASE UNCHANGED csVars
  BY <1>6, <1>7 DEF csVars
<1>8. CASE CsNext
  <2>1. ASSUME \/ \E f \in SourceFiles, c \in Contents : FileChanges(f, c)
               \/ \E f \in SourceFiles, t \in {"dismissed", "resolved"} : StatusSetTo(f, t)
               \/ EntryRemoved \/ EntryAdded
        PROVE  FALSE
    BY <1>6, <2>1 DEF FileChanges, StatusSetTo, EntryRemoved, EntryAdded
  <2>2. PICK t \in Scans : \/ ScanStarted(t) \/ ScanPlanned(t) \/ FileCached(t) \/ FileRead(t)
                           \/ FileParsed(t) \/ ScanApplied(t)
                           \/ \E f \in SourceFiles : FileStat(t, f)
    BY <1>8, <2>1 DEF CsNext
  <2>. QED
    BY <1>2, <1>3, <1>4, <1>5, <2>2
<1>. QED
  BY <1>7, <1>8

LEMMA CsStepsSkip ==
  ASSUME CsInv, [CsNext]_csVars, NEW s \in Scans, NEW f \in SourceFiles,
         ScanAt(s, "next"), csScan'[s].pc = "idle", csScan[s].alone,
         csFile[f].content \in {"broken", "large"}
  PROVE  csRow'[f] = csRow[f]
<1>1. ScanApplied(s)
  BY OnlyAppliedEnds
<1>2. csScan[s].seen[f] \in {"broken", NotRead} /\ f \in csScan[s].all
  BY <1>1, AloneSees
<1>3. f \notin Found(s) /\ f \notin Evaluated(s)
  BY <1>2 DEF Found, Evaluated, FileScanned, NotRead
<1>. QED
  BY <1>1, <1>3 DEF ScanApplied, Reconciled

(* Type correctness follows from the shape and from where a scan stands.   *)
LEMMA CsInvTypeOK == CsInv => CsTypeOK /\ CacheIsTrue /\ TableIsTrue
<1> SUFFICES ASSUME CsInv PROVE CsTypeOK /\ CacheIsTrue /\ TableIsTrue
  OBVIOUS
<1>1. ASSUME NEW f \in SourceFiles
      PROVE  /\ csFile[f].content \in Contents /\ csFile[f].sig \in 0 .. MaxVersions
             /\ csCache[f].sig \in 0 .. MaxVersions + 1
             /\ csCache[f].content \in {"clean", "hit", "broken", NotRead}
             /\ csRow[f] \in FindingStatuses \cup {"none"}
  BY DEF CsInv, CsShape, FileRecs, CacheRecs, Reads
<1>2. ASSUME NEW s \in Scans
      PROVE  /\ csScan[s].pc \in {"idle", "plan", "next", "stat", "read"}
             /\ csScan[s].todo \subseteq SourceFiles
             /\ csScan[s].at \in SourceFiles \cup {NoFile}
  BY DEF CsInv, CsShape, ScanRecs
<1>. QED
  BY <1>1, <1>2 DEF CsInv, CsShape, CsTypeOK

(* For any number of files, versions of them and scans that overlap: a cached *)
(* result is of the content its signature is of, a scan that nothing          *)
(* disturbed leaves the table true to the files, and a scan alone leaves the  *)
(* finding of a file it could not parse or skipped (scanner.py).              *)
THEOREM ScansHold == CsSpec => ScansTrue
<1>1. CsInit => CsInv
  BY CsStarts
<1>2. CsInv /\ [CsNext]_csVars => CsInv'
  BY CsKept
<1>3. CsInv => CsTypeOK /\ CacheIsTrue /\ TableIsTrue
  BY CsInvTypeOK
<1>4. CsInv /\ [CsNext]_csVars =>
        [\A s \in Scans, f \in SourceFiles :
           /\ ScanAt(s, "next") /\ csScan'[s].pc = "idle" /\ csScan[s].alone
           /\ csFile[f].content \in {"broken", "large"}
           => csRow'[f] = csRow[f]]_csVars
  BY CsStepsSkip
<1>. QED
  BY <1>1, <1>2, <1>3, <1>4, PTL DEF CsSpec, ScansTrue, SkippedIsKept

-----------------------------------------------------------------------------
(* The misconfiguration sweep.                                             *)

RowStatuses == {"none", "new", "confirmed", "dismissed", "resolved"}
SweepRecs == [pc : {"idle", "yaml", "loading", "judged", "addon"}, answer : AnswersOf("yaml"),
              alone : BOOLEAN]

McShape ==
  /\ mcTruth \in [Checks -> Answers] /\ \A c \in Checks : mcTruth[c] \in AnswersOf(c)
  /\ mcRow \in [Findings -> RowStatuses]
  /\ mcIssue \subseteq Findings \ {"unjudged"}
  /\ mcYaml \in {"stale"} \cup AnswersOf("yaml")
  /\ mcSweep \in [Sweeps -> SweepRecs]
  /\ mcSetups \in 0 .. MaxSetups /\ mcTurns \in 0 .. MaxTurns /\ mcDecisions \in 0 .. MaxDecisions
  /\ {mcRan, mcTold} \subseteq BOOLEAN

\* A sweep that has run without interference so far.
AloneNow(s) == mcSweep[s].alone /\ mcSweep[s].pc # "idle"

\* What the table and Repairs say of one check is so.
Tells(c) ==
  /\ mcTruth[c] = "bad" =>
       mcRow[c] # "none" /\ (c \in mcIssue <=> mcRow[c] # "dismissed")
  /\ mcTruth[c] = "clean" => mcRow[c] # "new" /\ (c \in mcIssue => mcRow[c] \in Keeps)

\* A sweep that runs alone runs without any other, and loads the YAML itself.
OnlySweep ==
  \A s \in Sweeps : AloneNow(s) => /\ \A t \in Sweeps \ {s} : mcSweep[t].pc = "idle"
                                   /\ mcSweep[s].pc = "yaml" => mcYaml = "stale"
                                   /\ mcSweep[s].pc = "addon" => Tells("yaml")

\* As long as nothing has changed, what any sweep has loaded is still so.
NothingChanged == mcTold \/ \E s \in Sweeps : AloneNow(s)
YamlFresh ==
  NothingChanged =>
    /\ mcYaml \in {"stale", mcTruth["yaml"]}
    /\ \A s \in Sweeps : mcSweep[s].pc \in {"loading", "judged"} => mcSweep[s].answer = mcTruth["yaml"]

ToldIsTrue == mcTold => \A c \in Checks : Tells(c)

McInv == McShape /\ OnlySweep /\ YamlFresh /\ ToldIsTrue

-----------------------------------------------------------------------------

LEMMA McStarts == McInit => McInv
<1> SUFFICES ASSUME McInit PROVE McInv
  OBVIOUS
<1>1. mcSweep \in [Sweeps -> SweepRecs] /\ \A s \in Sweeps : mcSweep[s].pc = "idle"
  BY DEF McInit, NoSweep, SweepRecs, AnswersOf
<1>2. McShape
  <2>1. mcTruth \in [Checks -> Answers] /\ \A c \in Checks : mcTruth[c] \in AnswersOf(c)
    BY DEF McInit, Checks, Answers, AnswersOf
  <2>2. mcRow \in [Findings -> RowStatuses]
    BY DEF McInit, RowStatuses
  <2>3. mcSetups \in 0 .. MaxSetups /\ mcTurns \in 0 .. MaxTurns /\ mcDecisions \in 0 .. MaxDecisions
    BY SweepAssumption DEF McInit
  <2>4. mcIssue = {} /\ mcYaml = "stale" /\ {mcRan, mcTold} \subseteq BOOLEAN
    BY DEF McInit
  <2>. QED
    BY <1>1, <2>1, <2>2, <2>3, <2>4 DEF McShape
<1>3. OnlySweep /\ YamlFresh /\ ToldIsTrue
  BY <1>1 DEF McInit, OnlySweep, YamlFresh, ToldIsTrue, NothingChanged, AloneNow
<1>. QED
  BY <1>2, <1>3 DEF McInv

(* What a check makes of the findings it owns.                             *)
LEMMA FinalizeSays ==
  ASSUME McShape, NEW owned \in SUBSET Findings, NEW active \in SUBSET owned, Finalize(owned, active)
  PROVE  /\ mcRow' \in [Findings -> RowStatuses] /\ mcIssue' \subseteq Findings \ {"unjudged"}
         /\ \A f \in Findings \ owned : mcRow'[f] = mcRow[f] /\ (f \in mcIssue' <=> f \in mcIssue)
         /\ \A f \in active : /\ mcRow'[f] = Upserted(f) /\ mcRow'[f] # "none"
                              /\ (f \in mcIssue' <=> Mirrored(f, mcRow'[f]))
         /\ \A f \in owned \ active : /\ mcRow'[f] # "new" /\ (f \in mcIssue' => mcRow'[f] \in Keeps)
                                      /\ mcRow'[f] \in {mcRow[f], "resolved"}
         /\ \A f \in Findings : mcRow[f] \in Keeps => mcRow'[f] = mcRow[f]
<1>1. mcRow \in [Findings -> RowStatuses] /\ mcIssue \subseteq Findings \ {"unjudged"}
  BY DEF McShape
<1>2. \A f \in Findings :
        /\ mcRow'[f] = CASE f \in active -> Upserted(f)
                         [] f \in owned \ active /\ mcRow[f] \notin Keeps \cup {"none"} -> "resolved"
                         [] OTHER -> mcRow[f]
        /\ f \in mcIssue' <=> CASE f \in active -> Mirrored(f, Upserted(f))
                                [] f \in owned \ active -> f \in mcIssue /\ mcRow[f] \in Keeps
                                [] OTHER -> f \in mcIssue
  BY DEF Finalize
<1>3. \A f \in Findings : Upserted(f) \in RowStatuses /\ Upserted(f) # "none"
                          /\ (mcRow[f] \in Keeps => Upserted(f) = mcRow[f])
  BY <1>1 DEF Upserted, RowStatuses, Keeps
<1>4. mcIssue' \subseteq Findings \ {"unjudged"}
  BY <1>1, <1>2 DEF Finalize, Mirrored
<1>5. \A f \in Findings : mcRow'[f] \in RowStatuses
  BY <1>1, <1>2, <1>3 DEF RowStatuses
<1>6. mcRow' \in [Findings -> RowStatuses]
  BY <1>5 DEF Finalize
<1>7. \A f \in Findings \ owned : mcRow'[f] = mcRow[f] /\ (f \in mcIssue' <=> f \in mcIssue)
  BY <1>2
<1>8. \A f \in active : /\ mcRow'[f] = Upserted(f) /\ mcRow'[f] # "none"
                        /\ (f \in mcIssue' <=> Mirrored(f, mcRow'[f]))
  BY <1>2, <1>3
<1>9. \A f \in owned \ active : /\ mcRow'[f] # "new" /\ (f \in mcIssue' => mcRow'[f] \in Keeps)
                                /\ mcRow'[f] \in {mcRow[f], "resolved"}
  BY <1>2 DEF Keeps
<1>10. \A f \in Findings : mcRow[f] \in Keeps => mcRow'[f] = mcRow[f]
  BY <1>2, <1>3 DEF Keeps
<1>. QED
  BY <1>4, <1>6, <1>7, <1>8, <1>9, <1>10

(* A step of one sweep that leaves the table alone.                        *)
LEMMA SweepMoves ==
  ASSUME McInv, NEW s \in Sweeps, mcSweep[s].pc # "idle",
         NEW r \in SweepRecs, mcSweep' = [mcSweep EXCEPT ![s] = r],
         r.alone /\ r.pc # "idle" =>
           AloneNow(s) /\ r.pc # "yaml" /\ (r.pc = "addon" => Tells("yaml")),
         mcYaml' \in {"stale"} \cup AnswersOf("yaml"), mcRan' \in BOOLEAN,
         NothingChanged => /\ mcYaml' \in {"stale", mcTruth["yaml"]}
                           /\ r.pc \in {"loading", "judged"} => r.answer = mcTruth["yaml"],
         UNCHANGED <<mcWorld, mcTable, mcSetups, mcDecisions, mcTold>>
  PROVE  McInv'
<1>1. /\ mcTruth' = mcTruth /\ mcTurns' = mcTurns /\ mcRow' = mcRow /\ mcIssue' = mcIssue
      /\ mcSetups' = mcSetups /\ mcDecisions' = mcDecisions /\ mcTold' = mcTold
  BY DEF mcWorld, mcTable
<1>2. \A t \in Sweeps : mcSweep'[t] = IF t = s THEN r ELSE mcSweep[t]
  BY DEF McInv, McShape
<1>3. McShape'
  BY <1>1 DEF McInv, McShape
<1>4. Tells("yaml")' = Tells("yaml") /\ \A c \in Checks : Tells(c)' = Tells(c)
  BY <1>1 DEF Tells
<1>5. \A t \in Sweeps : AloneNow(t)' => AloneNow(t)
  BY <1>2 DEF AloneNow
<1>6. OnlySweep'
  <2> SUFFICES ASSUME NEW t \in Sweeps, AloneNow(t)'
               PROVE  /\ \A u \in Sweeps \ {t} : mcSweep'[u].pc = "idle"
                      /\ mcSweep'[t].pc = "yaml" => mcYaml' = "stale"
                      /\ mcSweep'[t].pc = "addon" => Tells("yaml")
    BY <1>4 DEF OnlySweep
  <2>1. AloneNow(t)
    BY <1>5
  <2>2. CASE t = s
    BY <1>2, <2>1, <2>2 DEF McInv, OnlySweep, AloneNow
  <2>3. CASE t # s
    BY <2>1, <2>3 DEF McInv, OnlySweep
  <2>. QED
    BY <2>2, <2>3
<1>7. NothingChanged' => NothingChanged
  BY <1>1, <1>5 DEF NothingChanged
<1>8. YamlFresh'
  BY <1>1, <1>2, <1>7 DEF McInv, YamlFresh
<1>9. ToldIsTrue'
  BY <1>1, <1>4 DEF McInv, ToldIsTrue
<1>. QED
  BY <1>3, <1>6, <1>8, <1>9 DEF McInv

(* A sweep that is interfered with is no longer alone, nothing else.       *)
LEMMA InterferedSays ==
  ASSUME McShape
  PROVE  \E d \in [Sweeps -> SweepRecs] :
           /\ d = Interfered(mcSweep)
           /\ \A t \in Sweeps : /\ d[t].pc = mcSweep[t].pc /\ d[t].answer = mcSweep[t].answer
                                /\ mcSweep[t].pc # "idle" => ~d[t].alone
<1>1. ASSUME NEW t \in Sweeps
      PROVE  \E r \in SweepRecs : /\ r = Interfered(mcSweep)[t]
                                  /\ r.pc = mcSweep[t].pc /\ r.answer = mcSweep[t].answer
                                  /\ mcSweep[t].pc # "idle" => ~r.alone
  <2>1. PICK m \in SweepRecs : m = mcSweep[t]
    BY DEF McShape
  <2>2. Interfered(mcSweep)[t] = IF m.pc # "idle" THEN [m EXCEPT !.alone = FALSE] ELSE m
    BY <2>1 DEF Interfered, Sweeping, SweepAt
  <2>3. PICK e : e = [m EXCEPT !.alone = FALSE]
    OBVIOUS
  <2>4. e \in SweepRecs /\ e.pc = m.pc /\ e.answer = m.answer /\ ~e.alone
    BY <2>3 DEF SweepRecs
  <2>. QED
    BY <2>1, <2>2, <2>3, <2>4
<1>2. Interfered(mcSweep) \in [Sweeps -> SweepRecs]
  <2>1. \A t \in Sweeps : Interfered(mcSweep)[t] \in SweepRecs
    BY <1>1
  <2>2. Interfered(mcSweep) = [t \in Sweeps |-> Interfered(mcSweep)[t]]
    BY DEF Interfered
  <2>. QED
    BY <2>1, <2>2
<1>. QED
  BY <1>1, <1>2

LEMMA SweepStartedKeeps ==
  ASSUME McInv, NEW s \in Sweeps, SweepStarted(s) PROVE McInv'
<1> DEFINE r == [pc |-> "yaml", answer |-> "clean", alone |-> Sweeping = {}]
<1>1. /\ mcTruth' = mcTruth /\ mcTurns' = mcTurns /\ mcRow' = mcRow /\ mcIssue' = mcIssue
      /\ mcRan' = mcRan /\ mcDecisions' = mcDecisions /\ mcTold' = mcTold /\ mcYaml' = "stale"
      /\ mcSweep' = [Interfered(mcSweep) EXCEPT ![s] = r] /\ mcSweep[s].pc = "idle"
  BY DEF SweepStarted, SweepAt, mcWorld, mcTable
<1>2. mcSetups' \in 0 .. MaxSetups
  BY SweepAssumption DEF McInv, McShape, SweepStarted, MayStart
<1>3. r \in SweepRecs /\ r.pc = "yaml" /\ (r.alone <=> Sweeping = {})
  BY DEF SweepRecs, AnswersOf
<1> HIDE DEF r
<1>4. PICK d \in [Sweeps -> SweepRecs] :
        /\ d = Interfered(mcSweep)
        /\ \A t \in Sweeps : /\ d[t].pc = mcSweep[t].pc /\ d[t].answer = mcSweep[t].answer
                             /\ mcSweep[t].pc # "idle" => ~d[t].alone
  BY InterferedSays DEF McInv
<1>5. mcSweep' \in [Sweeps -> SweepRecs]
      /\ \A t \in Sweeps : mcSweep'[t] = IF t = s THEN r ELSE d[t]
  BY <1>1, <1>3, <1>4
<1>6. McShape'
  BY <1>1, <1>2, <1>5 DEF McInv, McShape
<1>7. \A c \in Checks : Tells(c)' = Tells(c)
  BY <1>1 DEF Tells
<1>8. \A t \in Sweeps : AloneNow(t)' => t = s /\ Sweeping = {}
  BY <1>3, <1>4, <1>5 DEF AloneNow
<1>9. OnlySweep'
  BY <1>1, <1>3, <1>4, <1>5, <1>8 DEF OnlySweep, Sweeping, SweepAt
<1>10. YamlFresh'
  <2> SUFFICES ASSUME NothingChanged', NEW t \in Sweeps, mcSweep'[t].pc \in {"loading", "judged"}
               PROVE  mcSweep'[t].answer = mcTruth["yaml"]
    BY <1>1 DEF YamlFresh
  <2>1. t # s /\ mcSweep[t].pc = mcSweep'[t].pc /\ mcSweep[t].answer = mcSweep'[t].answer
    BY <1>3, <1>4, <1>5
  <2>2. t \in Sweeping
    BY <2>1 DEF Sweeping, SweepAt
  <2>3. mcTold
    BY <1>1, <1>8, <2>2 DEF NothingChanged
  <2>. QED
    BY <2>1, <2>3 DEF McInv, YamlFresh, NothingChanged
<1>11. ToldIsTrue'
  BY <1>1, <1>7 DEF McInv, ToldIsTrue
<1>. QED
  BY <1>6, <1>9, <1>10, <1>11 DEF McInv

LEMMA SweepStepsKeep ==
  ASSUME McInv, NEW s \in Sweeps,
         YamlCached(s) \/ YamlRead(s) \/ YamlLoaded(s) \/ CheckSkipped(s) \/ SweepCancelled(s)
  PROVE  McInv'
<1>1. /\ mcSweep[s] \in SweepRecs /\ mcSweep \in [Sweeps -> SweepRecs]
      /\ mcYaml \in {"stale"} \cup AnswersOf("yaml") /\ mcRan \in BOOLEAN
      /\ mcTruth["yaml"] \in AnswersOf("yaml")
  BY DEF McInv, McShape, Checks
<1>2. AloneNow(s) => NothingChanged
  BY DEF NothingChanged
<1>3. CASE YamlCached(s)
  <2> DEFINE r == [mcSweep[s] EXCEPT !.pc = "judged", !.answer = mcYaml]
  <2>1. /\ mcSweep[s].pc = "yaml" /\ mcYaml # "stale" /\ mcYaml' = mcYaml /\ mcRan' = mcRan
        /\ UNCHANGED <<mcWorld, mcTable, mcSetups, mcDecisions, mcTold>>
    BY <1>3 DEF YamlCached, SweepAt
  <2>2. /\ r \in SweepRecs /\ r.pc = "judged" /\ r.answer = mcYaml /\ r.alone = mcSweep[s].alone
        /\ mcSweep' = [mcSweep EXCEPT ![s] = r]
    BY <1>1, <1>3, <2>1 DEF YamlCached, SweepRecs
  <2> HIDE DEF r
  <2>3. NothingChanged => mcYaml \in {"stale", mcTruth["yaml"]}
    BY DEF McInv, YamlFresh
  <2>. QED
    BY <1>1, <2>1, <2>2, <2>3, SweepMoves DEF AloneNow
<1>4. CASE YamlRead(s)
  <2> DEFINE r == [mcSweep[s] EXCEPT !.pc = "loading", !.answer = mcTruth["yaml"]]
  <2>1. /\ mcSweep[s].pc = "yaml" /\ mcYaml = "stale" /\ mcYaml' = mcYaml /\ mcRan' = mcRan
        /\ UNCHANGED <<mcWorld, mcTable, mcSetups, mcDecisions, mcTold>>
    BY <1>4 DEF YamlRead, SweepAt
  <2>2. /\ r \in SweepRecs /\ r.pc = "loading" /\ r.answer = mcTruth["yaml"] /\ r.alone = mcSweep[s].alone
        /\ mcSweep' = [mcSweep EXCEPT ![s] = r]
    BY <1>1, <1>4 DEF YamlRead, SweepRecs
  <2> HIDE DEF r
  <2>. QED
    BY <1>1, <2>1, <2>2, SweepMoves DEF AloneNow
<1>5. CASE YamlLoaded(s)
  <2> DEFINE r == [mcSweep[s] EXCEPT !.pc = "judged"]
  <2>1. /\ mcSweep[s].pc = "loading" /\ mcYaml' = mcSweep[s].answer /\ mcRan' = mcRan
        /\ UNCHANGED <<mcWorld, mcTable, mcSetups, mcDecisions, mcTold>>
    BY <1>5 DEF YamlLoaded, SweepAt
  <2>2. /\ r \in SweepRecs /\ r.pc = "judged" /\ r.answer = mcSweep[s].answer /\ r.alone = mcSweep[s].alone
        /\ mcSweep' = [mcSweep EXCEPT ![s] = r] /\ mcSweep[s].answer \in AnswersOf("yaml")
    BY <1>1, <1>5 DEF YamlLoaded, SweepRecs
  <2> HIDE DEF r
  <2>3. NothingChanged => mcSweep[s].answer = mcTruth["yaml"]
    BY <2>1 DEF McInv, YamlFresh
  <2>. QED
    BY <1>1, <2>1, <2>2, <2>3, SweepMoves DEF AloneNow
<1>6. CASE CheckSkipped(s) \/ SweepCancelled(s)
  <2>1. /\ mcSweep[s].pc # "idle" /\ mcYaml' = mcYaml /\ mcRan' \in BOOLEAN
        /\ mcSweep' = [mcSweep EXCEPT ![s] = NoSweep]
        /\ UNCHANGED <<mcWorld, mcTable, mcSetups, mcDecisions, mcTold>>
    BY <1>1, <1>6 DEF CheckSkipped, SweepCancelled, SweepAt
  <2>2. NoSweep \in SweepRecs /\ NoSweep.pc = "idle"
    BY DEF NoSweep, SweepRecs, AnswersOf
  <2>3. NothingChanged => mcYaml \in {"stale", mcTruth["yaml"]}
    BY DEF McInv, YamlFresh
  <2>. QED
    BY <1>1, <2>1, <2>2, <2>3, SweepMoves
<1>. QED
  BY <1>3, <1>4, <1>5, <1>6

(* What a sweep of the YAML says is what it has loaded.                    *)
LEMMA YamlJudgedSays ==
  ASSUME McInv, NEW s \in Sweeps, YamlJudged(s)
  PROVE  /\ mcSweep[s].pc = "judged" /\ mcSweep[s].answer \in AnswersOf("yaml")
         /\ mcRow' \in [Findings -> RowStatuses] /\ mcIssue' \subseteq Findings \ {"unjudged"}
         /\ \A f \in Findings \ {"yaml"} : mcRow'[f] = mcRow[f] /\ (f \in mcIssue' <=> f \in mcIssue)
         /\ mcSweep[s].answer = "bad" => /\ mcRow'["yaml"] \notin {"none", "resolved"}
                                              \/ (mcRow'["yaml"] = mcRow["yaml"] /\ mcRow'["yaml"] # "none")
                                         /\ ("yaml" \in mcIssue' <=> mcRow'["yaml"] # "dismissed")
         /\ mcSweep[s].answer = "clean" => mcRow'["yaml"] # "new" /\ ("yaml" \in mcIssue' => mcRow'["yaml"] \in Keeps)
         /\ mcSweep[s].answer # "clean" /\ mcRow'["yaml"] = "resolved" => mcRow["yaml"] = "resolved"
         /\ \A f \in Findings : mcRow[f] \in Keeps => mcRow'[f] = mcRow[f]
<1>1. mcSweep[s].pc = "judged" /\ mcSweep[s].answer \in AnswersOf("yaml") /\ YamlFinal(s) /\ McShape
  BY DEF McInv, McShape, SweepRecs, YamlJudged, SweepAt
<1>2. CASE mcSweep[s].answer = "unreadable"
  <2>1. mcRow' = mcRow /\ mcIssue' = mcIssue
    BY <1>1, <1>2 DEF YamlFinal, mcTable
  <2>. QED
    BY <1>1, <1>2, <2>1 DEF McShape
<1>3. CASE mcSweep[s].answer # "unreadable"
  <2> DEFINE active == IF mcSweep[s].answer = "bad" THEN {"yaml"} ELSE {}
  <2>1. Finalize({"yaml"}, active) /\ {"yaml"} \in SUBSET Findings /\ active \in SUBSET {"yaml"}
    BY <1>1, <1>3 DEF YamlFinal, Findings
  <2>2. /\ mcRow' \in [Findings -> RowStatuses] /\ mcIssue' \subseteq Findings \ {"unjudged"}
        /\ \A f \in Findings \ {"yaml"} : mcRow'[f] = mcRow[f] /\ (f \in mcIssue' <=> f \in mcIssue)
        /\ \A f \in active : /\ mcRow'[f] = Upserted(f) /\ mcRow'[f] # "none"
                             /\ (f \in mcIssue' <=> Mirrored(f, mcRow'[f]))
        /\ \A f \in {"yaml"} \ active : /\ mcRow'[f] # "new" /\ (f \in mcIssue' => mcRow'[f] \in Keeps)
                                        /\ mcRow'[f] \in {mcRow[f], "resolved"}
        /\ \A f \in Findings : mcRow[f] \in Keeps => mcRow'[f] = mcRow[f]
    <3> HIDE DEF active
    <3>. QED
      BY <1>1, <2>1, FinalizeSays
  <2>3. mcSweep[s].answer \in {"clean", "bad"}
    BY <1>1, <1>3 DEF AnswersOf
  <2>4. CASE mcSweep[s].answer = "bad"
    <3>1. mcRow'["yaml"] = Upserted("yaml") /\ mcRow'["yaml"] # "none" /\ ("yaml" \in mcIssue' <=> mcRow'["yaml"] # "dismissed")
      BY <2>2, <2>4 DEF Mirrored
    <3>2. mcRow'["yaml"] \in {"new", mcRow["yaml"]}
      BY <3>1 DEF Upserted
    <3>. QED
      BY <1>1, <2>2, <2>4, <3>1, <3>2
  <2>5. CASE mcSweep[s].answer = "clean"
    BY <1>1, <2>2, <2>5
  <2>. QED
    BY <2>3, <2>4, <2>5
<1>. QED
  BY <1>2, <1>3

LEMMA YamlJudgedKeeps ==
  ASSUME McInv, NEW s \in Sweeps, YamlJudged(s) PROVE McInv'
<1> DEFINE r == [mcSweep[s] EXCEPT !.pc = "addon"]
<1>1. /\ mcTruth' = mcTruth /\ mcTurns' = mcTurns /\ mcYaml' = mcYaml /\ mcSetups' = mcSetups
      /\ mcRan' = mcRan /\ mcDecisions' = mcDecisions /\ mcTold' = mcTold
      /\ mcSweep' = [mcSweep EXCEPT ![s] = r]
  BY DEF YamlJudged, mcWorld, McInv, McShape
<1>2. mcSweep[s] \in SweepRecs /\ r \in SweepRecs /\ r.pc = "addon" /\ r.alone = mcSweep[s].alone
  BY DEF McInv, McShape, SweepRecs
<1> HIDE DEF r
<1>3. \A t \in Sweeps : mcSweep'[t] = IF t = s THEN r ELSE mcSweep[t]
  BY <1>1 DEF McInv, McShape
<1>4. McShape'
  BY <1>1, <1>2, YamlJudgedSays DEF McInv, McShape
<1>5. \A t \in Sweeps : AloneNow(t)' => AloneNow(t)
  BY <1>2, <1>3, YamlJudgedSays DEF AloneNow
<1>6. NothingChanged' => NothingChanged
  BY <1>1, <1>5 DEF NothingChanged
<1>7. NothingChanged => Tells("yaml")'
  <2> SUFFICES ASSUME NothingChanged PROVE Tells("yaml")'
    OBVIOUS
  <2>1. mcSweep[s].answer = mcTruth["yaml"]
    BY YamlJudgedSays DEF McInv, YamlFresh
  <2>. QED
    BY <1>1, <2>1, YamlJudgedSays DEF Tells
<1>8. OnlySweep'
  <2> SUFFICES ASSUME NEW t \in Sweeps, AloneNow(t)'
               PROVE  /\ \A u \in Sweeps \ {t} : mcSweep'[u].pc = "idle"
                      /\ mcSweep'[t].pc = "yaml" => mcYaml' = "stale"
                      /\ mcSweep'[t].pc = "addon" => Tells("yaml")'
    BY DEF OnlySweep
  <2>1. AloneNow(t)
    BY <1>5
  <2>2. \A u \in Sweeps \ {t} : mcSweep[u].pc = "idle"
    BY <2>1 DEF McInv, OnlySweep
  <2>3. mcSweep[s].pc # "idle"
    BY YamlJudgedSays
  <2>4. t = s
    BY <2>2, <2>3
  <2>5. Tells("yaml")'
    BY <1>7, <2>1 DEF NothingChanged
  <2>. QED
    BY <1>2, <1>3, <2>2, <2>4, <2>5
<1>9. YamlFresh'
  BY <1>1, <1>2, <1>3, <1>6 DEF McInv, YamlFresh
<1>10. ToldIsTrue'
  <2> SUFFICES ASSUME mcTold, NEW c \in Checks PROVE Tells(c)'
    BY <1>1 DEF ToldIsTrue
  <2>1. CASE c = "yaml"
    BY <1>7, <2>1 DEF NothingChanged
  <2>2. CASE c = "addon"
    <3>1. mcRow'["addon"] = mcRow["addon"] /\ ("addon" \in mcIssue' <=> "addon" \in mcIssue)
      BY YamlJudgedSays DEF Findings
    <3>. QED
      BY <1>1, <2>2, <3>1 DEF McInv, ToldIsTrue, Tells
  <2>. QED
    BY <2>1, <2>2 DEF Checks
<1>. QED
  BY <1>4, <1>8, <1>9, <1>10 DEF McInv

LEMMA AddonJudgedSays ==
  ASSUME McInv, NEW s \in Sweeps, AddonJudged(s)
  PROVE  /\ mcRow' \in [Findings -> RowStatuses] /\ mcIssue' \subseteq Findings \ {"unjudged"}
         /\ mcRow'["yaml"] = mcRow["yaml"] /\ ("yaml" \in mcIssue' <=> "yaml" \in mcIssue)
         /\ mcTruth["addon"] = "bad" => mcRow'["addon"] # "none" /\ ("addon" \in mcIssue' <=> mcRow'["addon"] # "dismissed")
         /\ mcTruth["addon"] = "clean" => mcRow'["addon"] # "new" /\ ("addon" \in mcIssue' => mcRow'["addon"] \in Keeps)
         /\ \A f \in Findings : mcRow[f] \in Keeps => mcRow'[f] = mcRow[f]
<1> DEFINE owned == {"addon", "unjudged"}
<1> DEFINE active == Reported(mcTruth["addon"])
<1>1. Finalize(owned, active) /\ McShape /\ owned \in SUBSET Findings /\ active \in SUBSET owned
  BY DEF AddonJudged, McInv, Findings, Reported
<1>2. (mcTruth["addon"] = "bad" => "addon" \in active) /\ (mcTruth["addon"] = "clean" => "addon" \in owned \ active)
  BY DEF Reported
<1>3. "yaml" \in Findings \ owned
  BY DEF Findings
<1> HIDE DEF owned, active
<1>4. /\ mcRow' \in [Findings -> RowStatuses] /\ mcIssue' \subseteq Findings \ {"unjudged"}
      /\ \A f \in Findings \ owned : mcRow'[f] = mcRow[f] /\ (f \in mcIssue' <=> f \in mcIssue)
      /\ \A f \in active : /\ mcRow'[f] = Upserted(f) /\ mcRow'[f] # "none"
                           /\ (f \in mcIssue' <=> Mirrored(f, mcRow'[f]))
      /\ \A f \in owned \ active : /\ mcRow'[f] # "new" /\ (f \in mcIssue' => mcRow'[f] \in Keeps)
                                   /\ mcRow'[f] \in {mcRow[f], "resolved"}
      /\ \A f \in Findings : mcRow[f] \in Keeps => mcRow'[f] = mcRow[f]
  BY <1>1, FinalizeSays
<1>. QED
  BY <1>2, <1>3, <1>4 DEF Mirrored

LEMMA AddonJudgedKeeps ==
  ASSUME McInv, NEW s \in Sweeps, AddonJudged(s) PROVE McInv'
<1>1. /\ mcTruth' = mcTruth /\ mcTurns' = mcTurns /\ mcYaml' = mcYaml /\ mcSetups' = mcSetups
      /\ mcRan' = TRUE /\ mcDecisions' = mcDecisions /\ mcTold' = mcSweep[s].alone
      /\ mcSweep' = [mcSweep EXCEPT ![s] = NoSweep] /\ mcSweep[s].pc = "addon"
  BY DEF AddonJudged, SweepAt, mcWorld
<1>2. NoSweep \in SweepRecs /\ NoSweep.pc = "idle" /\ mcSweep[s].alone \in BOOLEAN
  BY DEF NoSweep, SweepRecs, AnswersOf, McInv, McShape
<1>3. mcSweep' \in [Sweeps -> SweepRecs]
      /\ \A t \in Sweeps : mcSweep'[t] = IF t = s THEN NoSweep ELSE mcSweep[t]
  BY <1>1, <1>2 DEF McInv, McShape
<1>4. McShape'
  BY <1>1, <1>2, <1>3, AddonJudgedSays DEF McInv, McShape
<1>5. \A t \in Sweeps : ~AloneNow(t)'
  BY <1>1, <1>2, <1>3 DEF AloneNow, McInv, OnlySweep
<1>6. OnlySweep'
  BY <1>5 DEF OnlySweep
<1>7. mcTold' => /\ \A t \in Sweeps : mcSweep'[t].pc = "idle"
                 /\ Tells("yaml") /\ mcYaml \in {"stale", mcTruth["yaml"]}
  <2>1. mcSweep[s].alone => AloneNow(s)
    BY <1>1 DEF AloneNow
  <2>. QED
    BY <1>1, <1>2, <1>3, <2>1 DEF McInv, OnlySweep, YamlFresh, NothingChanged
<1>8. YamlFresh'
  BY <1>1, <1>5, <1>7 DEF YamlFresh, NothingChanged
<1>9. ToldIsTrue'
  <2> SUFFICES ASSUME mcTold', NEW c \in Checks PROVE Tells(c)'
    BY DEF ToldIsTrue
  <2>1. CASE c = "yaml"
    BY <1>1, <1>7, <2>1, AddonJudgedSays DEF Tells
  <2>2. CASE c = "addon"
    BY <1>1, <2>2, AddonJudgedSays DEF Tells
  <2>. QED
    BY <2>1, <2>2 DEF Checks
<1>. QED
  BY <1>4, <1>6, <1>8, <1>9 DEF McInv

(* What happens meanwhile: no sweep is alone any more.                     *)
LEMMA MeanwhileInterferes ==
  ASSUME McInv, mcSweep' = Interfered(mcSweep), mcTold' = FALSE, mcRan' = mcRan, mcYaml' = mcYaml,
         mcSetups' = mcSetups,
         mcTruth' \in [Checks -> Answers], \A c \in Checks : mcTruth'[c] \in AnswersOf(c),
         mcRow' \in [Findings -> RowStatuses], mcIssue' = mcIssue,
         mcTurns' \in 0 .. MaxTurns, mcDecisions' \in 0 .. MaxDecisions
  PROVE  McInv'
<1>1. PICK d \in [Sweeps -> SweepRecs] :
        /\ d = Interfered(mcSweep)
        /\ \A t \in Sweeps : mcSweep[t].pc = d[t].pc /\ (mcSweep[t].pc # "idle" => ~d[t].alone)
  BY InterferedSays DEF McInv
<1>2. mcSweep' = d
  BY <1>1
<1>3. McShape'
  BY <1>2 DEF McInv, McShape
<1>4. \A t \in Sweeps : ~AloneNow(t)'
  BY <1>1, <1>2 DEF AloneNow
<1>. QED
  BY <1>3, <1>4 DEF McInv, OnlySweep, YamlFresh, ToldIsTrue, NothingChanged

LEMMA McMeanwhileKeeps ==
  ASSUME McInv, \/ \E c \in Checks : \E a \in AnswersOf(c) : TruthTurns(c, a)
                \/ \E f \in Findings : \/ RowPruned(f)
                                       \/ \E t \in {"new", "confirmed", "dismissed"} : Decided(f, t)
  PROVE  McInv'
<1>1. /\ mcTruth \in [Checks -> Answers] /\ \A c \in Checks : mcTruth[c] \in AnswersOf(c)
      /\ mcRow \in [Findings -> RowStatuses] /\ mcTurns \in 0 .. MaxTurns /\ mcDecisions \in 0 .. MaxDecisions
  BY DEF McInv, McShape
<1>2. CASE \E c \in Checks : \E a \in AnswersOf(c) : TruthTurns(c, a)
  <2> PICK c \in Checks : \E a \in AnswersOf(c) : TruthTurns(c, a)
    BY <1>2
  <2> PICK a \in AnswersOf(c) : TruthTurns(c, a)
    OBVIOUS
  <2>1. a \in Answers
    BY DEF AnswersOf, Answers
  <2>2. mcTruth' \in [Checks -> Answers] /\ \A d \in Checks : mcTruth'[d] \in AnswersOf(d)
    BY <1>1, <2>1 DEF TruthTurns
  <2>3. mcTurns' \in 0 .. MaxTurns
    BY <1>1, SweepAssumption DEF TruthTurns
  <2>4. /\ mcSweep' = Interfered(mcSweep) /\ mcTold' = FALSE /\ mcRan' = mcRan /\ mcYaml' = mcYaml
        /\ mcSetups' = mcSetups /\ mcRow' = mcRow /\ mcIssue' = mcIssue /\ mcDecisions' = mcDecisions
    BY DEF TruthTurns, mcTable
  <2>. QED
    BY <1>1, <2>2, <2>3, <2>4, MeanwhileInterferes
<1>3. CASE \E f \in Findings : \/ RowPruned(f)
                               \/ \E t \in {"new", "confirmed", "dismissed"} : Decided(f, t)
  <2> PICK f \in Findings : \/ RowPruned(f)
                            \/ \E t \in {"new", "confirmed", "dismissed"} : Decided(f, t)
    BY <1>3
  <2>1. mcRow' \in [Findings -> RowStatuses]
    BY <1>1 DEF RowPruned, Decided, RowStatuses
  <2>2. mcDecisions' \in 0 .. MaxDecisions
    BY <1>1, SweepAssumption DEF RowPruned, Decided
  <2>3. /\ mcSweep' = Interfered(mcSweep) /\ mcTold' = FALSE /\ mcRan' = mcRan /\ mcYaml' = mcYaml
        /\ mcSetups' = mcSetups /\ mcTruth' = mcTruth /\ mcTurns' = mcTurns /\ mcIssue' = mcIssue
    BY DEF RowPruned, Decided, mcWorld
  <2>. QED
    BY <1>1, <2>1, <2>2, <2>3, MeanwhileInterferes
<1>. QED
  BY <1>2, <1>3

-----------------------------------------------------------------------------

LEMMA McKept == McInv /\ [McNext]_mcVars => McInv'
<1> SUFFICES ASSUME McInv, [McNext]_mcVars PROVE McInv'
  OBVIOUS
<1>1. CASE \E s \in Sweeps : \/ SweepStarted(s) \/ YamlCached(s) \/ YamlRead(s) \/ YamlLoaded(s)
                             \/ YamlJudged(s) \/ AddonJudged(s) \/ CheckSkipped(s) \/ SweepCancelled(s)
  BY <1>1, SweepStartedKeeps, SweepStepsKeep, YamlJudgedKeeps, AddonJudgedKeeps
<1>2. CASE \/ \E c \in Checks : \E a \in AnswersOf(c) : TruthTurns(c, a)
           \/ \E f \in Findings : \/ RowPruned(f)
                                  \/ \E t \in {"new", "confirmed", "dismissed"} : Decided(f, t)
  BY <1>2, McMeanwhileKeeps
<1>3. CASE UNCHANGED mcVars
  <2>1. /\ mcTruth' = mcTruth /\ mcTurns' = mcTurns /\ mcRow' = mcRow /\ mcIssue' = mcIssue
        /\ mcYaml' = mcYaml /\ mcSweep' = mcSweep /\ mcSetups' = mcSetups /\ mcRan' = mcRan
        /\ mcDecisions' = mcDecisions /\ mcTold' = mcTold
    BY <1>3 DEF mcVars, mcWorld, mcTable
  <2>2. McShape'
    BY <2>1 DEF McInv, McShape
  <2>3. \A c \in Checks : Tells(c)' = Tells(c)
    BY <2>1 DEF Tells
  <2>4. \A s \in Sweeps : AloneNow(s)' = AloneNow(s)
    BY <2>1 DEF AloneNow
  <2>5. OnlySweep' /\ YamlFresh' /\ ToldIsTrue'
    BY <2>1, <2>3, <2>4 DEF McInv, OnlySweep, YamlFresh, ToldIsTrue, NothingChanged, Checks
  <2>. QED
    BY <2>2, <2>5 DEF McInv
<1>. QED
  BY <1>1, <1>2, <1>3 DEF McNext

(* Steps that leave the table alone.                                       *)
LEMMA TableSteps ==
  ASSUME McInv, [McNext]_mcVars,
         ~ \E s \in Sweeps : YamlJudged(s) \/ AddonJudged(s),
         ~ \E f \in Findings : RowPruned(f) \/ \E t \in {"new", "confirmed", "dismissed"} : Decided(f, t)
  PROVE  mcRow' = mcRow
BY DEF McNext, mcVars, mcTable, SweepStarted, YamlCached, YamlRead, YamlLoaded, CheckSkipped,
       SweepCancelled, TruthTurns

LEMMA McStepsKeep ==
  ASSUME McInv, [McNext]_mcVars
  PROVE  /\ mcTruth["yaml"] = "unreadable" /\ mcRow["yaml"] = "new" /\ mcRow'["yaml"] = "resolved" =>
              \E s \in Sweeps : SweepAt(s, "judged") /\ mcSweep[s].answer = "clean"
         /\ \A f \in Findings : mcRow[f] \in {"confirmed", "dismissed"} /\ mcRow'[f] # mcRow[f] =>
                                 mcDecisions' # mcDecisions
<1>1. mcRow \in [Findings -> RowStatuses] /\ mcDecisions \in Nat
  BY SweepAssumption DEF McInv, McShape
<1>2. ASSUME NEW s \in Sweeps, YamlJudged(s)
      PROVE  /\ mcRow["yaml"] = "new" /\ mcRow'["yaml"] = "resolved" => SweepAt(s, "judged") /\ mcSweep[s].answer = "clean"
             /\ \A f \in Findings : mcRow[f] \in {"confirmed", "dismissed"} => mcRow'[f] = mcRow[f]
  BY <1>2, YamlJudgedSays DEF SweepAt, Keeps
<1>3. ASSUME NEW s \in Sweeps, AddonJudged(s)
      PROVE  /\ mcRow'["yaml"] = mcRow["yaml"]
             /\ \A f \in Findings : mcRow[f] \in {"confirmed", "dismissed"} => mcRow'[f] = mcRow[f]
  BY <1>3, AddonJudgedSays DEF Keeps
<1>4. ASSUME NEW f \in Findings, RowPruned(f) \/ \E t \in {"new", "confirmed", "dismissed"} : Decided(f, t)
      PROVE  /\ mcRow["yaml"] = "new" => mcRow'["yaml"] # "resolved"
             /\ mcDecisions' # mcDecisions
  <2>1. mcDecisions' = mcDecisions + 1
    BY <1>4 DEF RowPruned, Decided
  <2>2. PICK t \in {"none", "new", "confirmed", "dismissed"} : mcRow' = [mcRow EXCEPT ![f] = t]
    BY <1>4 DEF RowPruned, Decided
  <2>3. "yaml" \in Findings
    BY DEF Findings
  <2>4. mcRow'["yaml"] = IF f = "yaml" THEN t ELSE mcRow["yaml"]
    BY <1>1, <2>2, <2>3
  <2>5. mcDecisions' # mcDecisions
    BY <1>1, <2>1
  <2>. QED
    BY <2>4, <2>5
<1>5. CASE \E s \in Sweeps : YamlJudged(s) \/ AddonJudged(s)
  BY <1>2, <1>3, <1>5
<1>6. CASE \E f \in Findings : RowPruned(f) \/ \E t \in {"new", "confirmed", "dismissed"} : Decided(f, t)
  BY <1>4, <1>6
<1>7. CASE mcRow' = mcRow
  BY <1>7
<1>. QED
  BY <1>5, <1>6, <1>7, TableSteps

(* For any number of sweeps, reloads and decisions in between: a sweep that   *)
(* nothing interfered with leaves rows and Repairs issues as it judged, a     *)
(* configuration that cannot be read resolves nothing unless the sweep judges *)
(* by an earlier reading, and no sweep overrules an analyst (health.py).      *)
THEOREM SweepsHold == McSpec => SweepsTrue
<1>1. McInit => McInv
  BY McStarts
<1>2. McInv /\ [McNext]_mcVars => McInv'
  BY McKept
<1>3. McInv => McTypeOK /\ SweepTells
  <2> SUFFICES ASSUME McInv PROVE McTypeOK /\ SweepTells
    OBVIOUS
  <2>1. \A s \in Sweeps : /\ mcSweep[s].pc \in {"idle", "yaml", "loading", "judged", "addon"}
                          /\ mcSweep[s].answer \in Answers
    BY DEF McInv, McShape, SweepRecs, AnswersOf, Answers
  <2>2. McTypeOK
    BY <2>1 DEF McInv, McShape, McTypeOK, RowStatuses
  <2>3. SweepTells
    BY DEF McInv, ToldIsTrue, Tells, SweepTells
  <2>. QED
    BY <2>2, <2>3
<1>4. McInv /\ [McNext]_mcVars =>
        /\ [mcTruth["yaml"] = "unreadable" /\ mcRow["yaml"] = "new" /\ mcRow'["yaml"] = "resolved" =>
              \E s \in Sweeps : SweepAt(s, "judged") /\ mcSweep[s].answer = "clean"]_mcVars
        /\ [\A f \in Findings : mcRow[f] \in {"confirmed", "dismissed"} /\ mcRow'[f] # mcRow[f] =>
                                 mcDecisions' # mcDecisions]_mcVars
  BY McStepsKeep
<1>. QED
  BY <1>1, <1>2, <1>3, <1>4, PTL DEF McSpec, SweepsTrue, UnreadableIsKept, DecisionsStand
=============================================================================
