--------------------------- MODULE AuditLogProofs ---------------------------
(***************************************************************************)
(* Theorems about the writer of module AuditLog, for every value of its    *)
(* constants.  Those of the first part hold under every fault the module   *)
(* allows; those about the records themselves, on disk and in memory,      *)
(* exclude a second fault in the handling of a first one.                  *)
(***************************************************************************)
EXTENDS AuditLog, FiniteSetTheorems, TLAPS

-----------------------------------------------------------------------------
(* Sequences                                                               *)

\* Concatenation keeps the type and both operands.
LEMMA ConcatType ==
  ASSUME NEW S, NEW s \in Seq(S), NEW t \in Seq(S)
  PROVE  /\ s \o t \in Seq(S)
         /\ Len(s \o t) = Len(s) + Len(t)
         /\ \A i \in 1 .. Len(s) : (s \o t)[i] = s[i]
         /\ \A i \in 1 .. Len(t) : (s \o t)[Len(s) + i] = t[i]
  OBVIOUS

\* What is left of a sequence after its first n elements.
LEMMA RestType ==
  ASSUME NEW S, NEW s \in Seq(S), NEW n \in 0 .. Len(s)
  PROVE  /\ SubSeq(s, n + 1, Len(s)) \in Seq(S)
         /\ Len(SubSeq(s, n + 1, Len(s))) = Len(s) - n
         /\ \A i \in 1 .. Len(s) - n : SubSeq(s, n + 1, Len(s))[i] = s[n + i]
  OBVIOUS

\* A function on 1..n is a sequence.
LEMMA TableType ==
  ASSUME NEW S, NEW n \in Nat, NEW F(_), \A i \in 1 .. n : F(i) \in S
  PROVE  [i \in 1 .. n |-> F(i)] \in Seq(S) /\ Len([i \in 1 .. n |-> F(i)]) = n
  OBVIOUS

\* Cutting a stretch out of a sequence keeps its type.
LEMMA CutType ==
  ASSUME NEW S, NEW d \in Seq(S), NEW a \in DOMAIN d, NEW b \in DOMAIN d
  PROVE  Cut(d, a, b) \in Seq(S)
  BY DEF Cut

\* Appending lines to a file gives a disk again.
LEMMA AppendLinesType ==
  ASSUME NEW d \in Seq(Lines), NEW k, NEW ls \in Seq(Lines), NEW e,
         AppendLines(d, k, ls, e)
  PROVE  e \in Seq(Lines)
<1> DEFINE ended == [i \in 1 .. Len(d) |-> IF Key(d[i]) = k THEN [d[i] EXCEPT !.eol = TRUE] ELSE d[i]]
<1>1. ended \in Seq(Lines) /\ Len(ended) = Len(d)
  <2>1. \A l \in Lines : [l EXCEPT !.eol = TRUE] \in Lines
    BY DEF Lines
  <2>2. \A i \in 1 .. Len(d) : ended[i] \in Lines
    BY <2>1
  <2> QED BY <2>2
<1>2. PICK p \in 0 .. Len(d) : e = SubSeq(ended, 1, p) \o ls \o SubSeq(ended, p + 1, Len(d))
  BY DEF AppendLines
<1> HIDE DEF ended
<1>3. SubSeq(ended, 1, p) \in Seq(Lines) /\ SubSeq(ended, p + 1, Len(d)) \in Seq(Lines)
  BY <1>1
<1> QED BY <1>2, <1>3

-----------------------------------------------------------------------------
(* Numbering                                                               *)

\* Preparing the buffer numbers every buffered record, keeps the copies that
\* were prepared before, and goes on from the last of them.
LEMMA PrepareBufferedFacts ==
  ASSUME TypeOK, PreparedFollowsBuffer
  PROVE  /\ PrepareBuffered \in Seq(Prepared)
         /\ Len(PrepareBuffered) = Len(buffer)
         /\ \A i \in 1 .. Len(prepared) : PrepareBuffered[i] = prepared[i]
         /\ \A i \in 1 .. Len(buffer) : /\ PrepareBuffered[i].id = buffer[i].id
                                        /\ PrepareBuffered[i].seq = chain.seq + i
         /\ \A i \in 1 .. Len(buffer) - Len(prepared) :
              LET new == SubSeq(buffer, Len(prepared) + 1, Len(buffer))
              IN  /\ PrepareBuffered[Len(prepared) + i].prev = ChainHash(Base.hash, new, i - 1)
                  /\ PrepareBuffered[Len(prepared) + i].hash = ChainHash(Base.hash, new, i)
<1> DEFINE new == SubSeq(buffer, Len(prepared) + 1, Len(buffer))
           F(i) == [id    |-> new[i].id,
                    ts    |-> new[i].ts,
                    count |-> new[i].count,
                    seq   |-> Base.seq + i,
                    prev  |-> ChainHash(Base.hash, new, i - 1),
                    hash  |-> ChainHash(Base.hash, new, i)]
           add == [i \in 1 .. Len(new) |-> F(i)]
<1>0. /\ buffer \in Seq(Records) /\ prepared \in Seq(Prepared) /\ Len(prepared) <= Len(buffer)
      /\ chain \in Marks
  BY DEF TypeOK, MemType
<1>1. /\ new \in Seq(Records) /\ Len(new) = Len(buffer) - Len(prepared)
      /\ \A i \in 1 .. Len(new) : new[i] = buffer[Len(prepared) + i]
  BY <1>0, RestType
<1>2. Base \in Marks /\ Base.seq = chain.seq + Len(prepared)
  <2>1. CASE prepared = <<>>
    BY <2>1, <1>0 DEF Base, Marks
  <2>2. CASE prepared # <<>>
    <3>1. Len(prepared) \in DOMAIN prepared /\ prepared[Len(prepared)] \in Prepared
      BY <2>2, <1>0
    <3>2. prepared[Len(prepared)].seq = chain.seq + Len(prepared)
      BY <3>1 DEF PreparedFollowsBuffer
    <3> QED BY <2>2, <3>1, <3>2 DEF Base, Marks, Mark, Prepared
  <2> QED BY <2>1, <2>2
<1>3. \A i \in 0 .. Len(new) : ChainHash(Base.hash, new, i) \in Hashes
  <2> SUFFICES ASSUME NEW i \in 0 .. Len(new)
               PROVE  ChainHash(Base.hash, new, i) \in Hashes
    OBVIOUS
  <2>1. \A j \in 1 .. i : new[j].id \in Nat
    BY <1>1 DEF Records
  <2> HIDE DEF new
  <2>2. i \in Nat
    BY <1>1
  <2>3. [j \in 1 .. i |-> new[j].id] \in Seq(Nat)
    BY <2>1, <2>2
  <2>4. Base.hash \in Seq(Nat)
    BY <1>2 DEF Marks, Hashes
  <2> QED BY <2>3, <2>4 DEF ChainHash, Hashes
<1>4. \A i \in 1 .. Len(new) : F(i) \in Prepared
  <2> SUFFICES ASSUME NEW i \in 1 .. Len(new)
               PROVE  F(i) \in Prepared
    OBVIOUS
  <2>1. new[i] \in Records
    BY <1>1, SMTT(30)
  <2>2. Base.seq + i \in Nat
    BY <1>1, <1>2 DEF Marks
  <2>3. ChainHash(Base.hash, new, i - 1) \in Hashes /\ ChainHash(Base.hash, new, i) \in Hashes
    BY <1>1, <1>3
  <2> HIDE DEF new
  <2> QED BY <2>1, <2>2, <2>3 DEF Prepared, Records
<1>5. add \in Seq(Prepared) /\ Len(add) = Len(new) /\ \A i \in 1 .. Len(new) : add[i] = F(i)
  <2> HIDE DEF new, F
  <2> QED BY <1>1, <1>4
<1>6. PrepareBuffered = prepared \o add
  BY DEF PrepareBuffered
<1>7. /\ prepared \o add \in Seq(Prepared)
      /\ Len(prepared \o add) = Len(prepared) + Len(add)
      /\ \A i \in 1 .. Len(prepared) : (prepared \o add)[i] = prepared[i]
      /\ \A i \in 1 .. Len(add) : (prepared \o add)[Len(prepared) + i] = add[i]
  <2> HIDE DEF add
  <2> QED BY <1>0, <1>5, ConcatType
<1>8. \A i \in 1 .. Len(new) : F(i).id = buffer[Len(prepared) + i].id
                               /\ F(i).seq = chain.seq + (Len(prepared) + i)
  BY <1>0, <1>1, <1>2 DEF Marks
<1>9. ASSUME NEW i \in 1 .. Len(buffer)
      PROVE  PrepareBuffered[i].id = buffer[i].id /\ PrepareBuffered[i].seq = chain.seq + i
  <2>1. CASE i <= Len(prepared)
    BY <2>1, <1>0, <1>6, <1>7 DEF PreparedFollowsBuffer
  <2>2. CASE i > Len(prepared)
    <3>1. PICK j \in 1 .. Len(new) : i = Len(prepared) + j
      <4>1. i - Len(prepared) \in 1 .. Len(new) /\ i = Len(prepared) + (i - Len(prepared))
        <5> HIDE DEF new
        <5> QED BY <2>2, <1>0, <1>1
      <4> QED BY <4>1
    <3> HIDE DEF new, F, add
    <3> QED BY <3>1, <1>5, <1>6, <1>7, <1>8
  <2> QED BY <2>1, <2>2, <1>0
<1>10. ASSUME NEW i \in 1 .. Len(buffer) - Len(prepared)
       PROVE  /\ PrepareBuffered[Len(prepared) + i].prev = ChainHash(Base.hash, new, i - 1)
              /\ PrepareBuffered[Len(prepared) + i].hash = ChainHash(Base.hash, new, i)
  <2>1. F(i).prev = ChainHash(Base.hash, new, i - 1) /\ F(i).hash = ChainHash(Base.hash, new, i)
    OBVIOUS
  <2>2. PrepareBuffered[Len(prepared) + i] = F(i)
    <3> HIDE DEF new, F, add
    <3> QED BY <1>1, <1>5, <1>6, <1>7
  <2> HIDE DEF new, F, add
  <2> QED BY <2>1, <2>2
<1>11. /\ PrepareBuffered \in Seq(Prepared) /\ Len(PrepareBuffered) = Len(buffer)
       /\ \A i \in 1 .. Len(prepared) : PrepareBuffered[i] = prepared[i]
  <2> HIDE DEF new, F, add
  <2> QED BY <1>0, <1>1, <1>5, <1>6, <1>7
<1> QED BY <1>9, <1>10, <1>11

-----------------------------------------------------------------------------
(* Type correctness                                                        *)

\* The flush a verification begins with, which is not a step of the writer alone.
VerifierFlush ==
  /\ phase = "up"
  /\ buffer # <<>>
  /\ BeginFlush("reader")
  /\ UNCHANGED <<phase, task>>

\* Logging keeps the buffer within its limit.
LEMMA AsyncLogType ==
  ASSUME TypeOK, NEW kinds \in Seq(Kinds), AsyncLog(kinds)
  PROVE  /\ buffer' \in Seq(Records) /\ Len(buffer') <= BufferMax
         /\ Len(buffer) <= Len(buffer')
         /\ \A i \in 1 .. Len(buffer) : buffer'[i] = buffer[i]
         /\ accepted' \in Nat /\ dropped' \in Nat /\ refused' \in Nat
         /\ task' \in {"none", "queued", "running"}
<1> DEFINE n == MinOf(Len(kinds), Room)
           F(i) == [id |-> accepted + i, ts |-> today, kind |-> kinds[i], count |-> 0]
           add == [i \in 1 .. n |-> F(i)]
<1>0. /\ buffer \in Seq(Records) /\ Len(buffer) <= BufferMax /\ BufferMax \in Nat
      /\ accepted \in Nat /\ dropped \in Nat /\ refused \in Nat /\ today \in Days
  BY SizesAssumption DEF TypeOK, MemType, EnvType
<1>1. n \in Nat /\ n <= Len(kinds) /\ n <= BufferMax - Len(buffer)
  BY <1>0 DEF MinOf, Room
<1>2. \A i \in 1 .. n : F(i) \in Records
  BY <1>0, <1>1 DEF Records
<1>3. add \in Seq(Records) /\ Len(add) = n
  <2> HIDE DEF F, n
  <2> QED BY <1>1, <1>2
<1>4. buffer' = buffer \o add /\ accepted' = accepted + n
      /\ dropped' = dropped + (Len(kinds) - n) /\ refused' = refused + (Len(kinds) - n)
  BY DEF AsyncLog
<1>5. task' \in {"none", "queued", "running"}
  BY DEF AsyncLog, TypeOK, MemType
<1> HIDE DEF add, n
<1> QED BY <1>0, <1>1, <1>3, <1>4, <1>5, ConcatType

\* What is numbered and hashed can be written to a head file.
LEMMA HeadPayloadType ==
  ASSUME TypeOK, NEW a \in Marks, NEW r \in Marks
  PROVE  /\ FlushHead.seq \in Nat /\ FlushHead.hash \in Hashes
         /\ HeadPayload(FlushHead, a, r) \in Heads
<1>1. /\ batch \in Seq(Prepared) /\ written \in 0 .. Len(batch) /\ chain \in Marks
  BY DEF TypeOK, MemType, FlushType
<1>2. FlushHead.seq \in Nat /\ FlushHead.hash \in Hashes
  <2>1. CASE written > 0
    <3>1. batch[written] \in Prepared
      BY <1>1, <2>1
    <3> QED BY <2>1, <3>1 DEF FlushHead, Prepared
  <2>2. CASE ~(written > 0)
    BY <1>1, <2>2 DEF FlushHead, Marks
  <2> QED BY <2>1, <2>2
<1> QED BY <1>2 DEF HeadPayload, Heads

\* The lines of a day group.
LEMMA GroupLinesType ==
  ASSUME TypeOK, written < Len(batch), NEW n \in 0 .. Len(batch) - written, NEW seg \in Nat
  PROVE  GroupDay \in Nat /\ GroupLines(n, seg) \in Seq(Lines)
<1> DEFINE F(i) == [id |-> batch[written + i].id, count |-> batch[written + i].count,
                    seq |-> batch[written + i].seq, prev |-> batch[written + i].prev,
                    hash |-> batch[written + i].hash, day |-> GroupDay, seg |-> seg, eol |-> TRUE]
<1>1. /\ batch \in Seq(Prepared) /\ written \in 0 .. Len(batch) /\ floor \in Nat
  BY DEF TypeOK, MemType, FlushType
<1>2. GroupDay \in Nat
  <2>1. batch[written + 1] \in Prepared
    BY <1>1
  <2>2. batch[written + 1].ts \in Nat
    BY <2>1, SizesAssumption DEF Prepared, Days
  <2> QED BY <1>1, <2>2 DEF GroupDay, MaxOf
<1>3. \A i \in 1 .. n : F(i) \in Lines
  <2> SUFFICES ASSUME NEW i \in 1 .. n
               PROVE  F(i) \in Lines
    OBVIOUS
  <2>1. batch[written + i] \in Prepared
    BY <1>1
  <2> QED BY <1>2, <2>1 DEF Lines, Prepared
<1>4. GroupLines(n, seg) = [i \in 1 .. n |-> F(i)]
  BY DEF GroupLines
<1> HIDE DEF F
<1>5. n \in Nat
  BY <1>1
<1>6. [i \in 1 .. n |-> F(i)] \in Seq(Lines)
  BY <1>3, <1>5
<1> QED BY <1>2, <1>4, <1>6

\* What an incomplete append leaves is a disk.
LEMMA PartialAppendType ==
  ASSUME TypeOK, written < Len(batch), NEW d, PartialAppend(d)
  PROVE  d \in Seq(Lines)
<1>1. disk \in Seq(Lines) /\ written \in 0 .. Len(batch) /\ batch \in Seq(Prepared)
  BY DEF TypeOK, DiskType, FlushType
<1>2. PICK n \in 0 .. Len(batch) - written, seg \in 0 .. Len(disk), torn \in BOOLEAN :
        AppendLines(disk, <<GroupDay, seg>>,
          IF torn THEN Append(GroupLines(n, seg), Torn(GroupDay, seg)) ELSE GroupLines(n, seg), d)
  BY DEF PartialAppend
<1>3. seg \in Nat
  BY <1>1
<1>4. GroupDay \in Nat /\ GroupLines(n, seg) \in Seq(Lines)
  BY <1>3, GroupLinesType
<1>5. Torn(GroupDay, seg) \in Lines
  BY <1>3, <1>4 DEF Torn, Lines, Genesis, Hashes
<1>6. (IF torn THEN Append(GroupLines(n, seg), Torn(GroupDay, seg)) ELSE GroupLines(n, seg)) \in Seq(Lines)
  BY <1>4, <1>5
<1> QED BY <1>1, <1>2, <1>6, AppendLinesType

\* Taking the lock keeps the types.
LEMMA BeginFlushType ==
  ASSUME TypeOK, PreparedFollowsBuffer,
         NEW who \in {"timer", "task", "stop", "reader"}, BeginFlush(who),
         phase' = phase, task' \in {"none", "queued", "running"}
  PROVE  TypeOK'
<1> USE DEF diskVars, storeVars, envVars
<1>1. PrepareBuffered \in Seq(Prepared) /\ Len(PrepareBuffered) = Len(buffer)
  BY PrepareBufferedFacts
<1>2. MemType'
  BY <1>1 DEF BeginFlush, TypeOK, MemType
<1>3. FlushType'
  <2>1. batch' \in Seq(Prepared) /\ written' \in 0 .. Len(batch')
    BY <1>1 DEF BeginFlush
  <2> QED BY <2>1 DEF BeginFlush, TypeOK, FlushType
<1>4. DiskType'
  BY DEF BeginFlush, TypeOK, DiskType
<1>5. EnvType'
  BY DEF BeginFlush, TypeOK, EnvType
<1> QED BY <1>2, <1>3, <1>4, <1>5 DEF TypeOK

\* Committing keeps the types and the limit, also with a record of the
\* refused ones added.
LEMMA CommitType ==
  ASSUME TypeOK, PreparedFollowsBuffer, written > 0, CommitWritten, SetAuditHead
  PROVE  /\ buffer' \in Seq(Records) /\ Len(buffer') <= BufferMax
         /\ prepared' \in Seq(Prepared) /\ Len(prepared') <= Len(buffer')
         /\ dropped' \in Nat /\ accepted' \in Nat /\ chain' \in Marks /\ mirror' \in Marks
<1>0. /\ buffer \in Seq(Records) /\ Len(buffer) <= BufferMax /\ BufferMax \in Nat
      /\ prepared \in Seq(Prepared) /\ batch \in Seq(Prepared)
      /\ written \in 1 .. Len(batch) /\ Len(batch) <= Len(prepared) /\ Len(prepared) <= Len(buffer)
      /\ accepted \in Nat /\ dropped \in Nat /\ today \in Days /\ mirror \in Marks
  BY SizesAssumption DEF TypeOK, MemType, FlushType, DiskType, EnvType, PreparedFollowsBuffer
<1>1. written \in 0 .. Len(buffer) /\ written \in 0 .. Len(prepared)
  BY <1>0
<1>2. /\ Uncommitted(buffer) \in Seq(Records) /\ Len(Uncommitted(buffer)) = Len(buffer) - written
      /\ Uncommitted(prepared) \in Seq(Prepared) /\ Len(Uncommitted(prepared)) = Len(prepared) - written
  BY <1>0, <1>1, RestType DEF Uncommitted
<1>3. DroppedRecord \in Records
  BY <1>0 DEF DroppedRecord, Records, Kinds
<1>4. Mark(batch[written]) \in Marks
  <2>1. batch[written] \in Prepared
    BY <1>0
  <2> QED BY <2>1 DEF Mark, Marks, Prepared
<1>5. /\ buffer' \in Seq(Records) /\ Len(buffer') <= BufferMax
      /\ prepared' \in Seq(Prepared) /\ Len(prepared') <= Len(buffer')
  <2>1. CASE ReportDue
    <3>1. buffer' = Append(Uncommitted(buffer), DroppedRecord) /\ prepared' = Uncommitted(prepared)
      BY <2>1 DEF CommitWritten
    <3>2. Len(Uncommitted(buffer)) < BufferMax
      BY <2>1 DEF ReportDue
    <3> QED BY <1>0, <1>2, <1>3, <3>1, <3>2
  <2>2. CASE ~ReportDue
    <3>1. buffer' = Uncommitted(buffer) /\ prepared' = Uncommitted(prepared)
      BY <2>2 DEF CommitWritten
    <3> QED BY <1>0, <1>2, <3>1
  <2> QED BY <2>1, <2>2
<1>6. dropped' \in Nat /\ accepted' \in Nat /\ chain' \in Marks /\ mirror' \in Marks
  BY <1>0, <1>4 DEF CommitWritten, SetAuditHead
<1> QED BY <1>5, <1>6

\* A rebuilt object is typed, whatever is on disk.
LEMMA LoseMemoryType ==
  ASSUME TypeOK, LoseMemory
  PROVE  MemType' /\ FlushType' /\ accepted' \in Nat
<1>1. NoMark \in Marks /\ NoPass \in Passes
  BY DEF NoMark, Marks, Genesis, Hashes, NoPass, Passes
<1>2. MemType'
  BY <1>1, SizesAssumption DEF LoseMemory, MemType
<1>3. FlushType'
  <2>1. batch' \in Seq(Prepared) /\ written' \in 0 .. Len(batch')
    BY DEF LoseMemory
  <2> QED BY <1>1, <2>1 DEF LoseMemory, FlushType
<1>4. accepted' \in Nat
  BY DEF LoseMemory, TypeOK, EnvType
<1> QED BY <1>2, <1>3, <1>4

\* No step leaves the types.
LEMMA TypeStep ==
  ASSUME TypeOK, FlushInv, PreparedFollowsBuffer, [Next]_vars \/ VerifierFlush
  PROVE  TypeOK'
<1> USE DEF memVars, flushVars, diskVars, storeVars, envVars
<1>0. MemType /\ FlushType /\ DiskType /\ EnvType
  BY DEF TypeOK
<1>a. NoMark \in Marks /\ NoPass \in Passes /\ NoHead \in Heads
  BY DEF NoMark, Marks, Genesis, Hashes, NoPass, Passes, NoHead, Heads
<1>b. \A l \in Lines : l.seq \in Nat /\ Mark(l) \in Marks /\ Key(l) \in Nat \X Nat /\ l.day \in Nat
  BY DEF Lines, Marks, Mark, Key
<1>c. \A p \in Prepared : p.seq \in Nat /\ Mark(p) \in Marks
  BY DEF Prepared, Marks, Mark
<1>d. "repair" \in Kinds /\ "reset" \in Kinds /\ "low" \in Kinds /\ "high" \in Kinds
  BY DEF Kinds
<1>1. CASE \E kind \in {"low", "high"} : Log(kind)
  <2>1. PICK kind \in {"low", "high"} : Log(kind)
    BY <1>1
  <2>2. <<kind>> \in Seq(Kinds) /\ AsyncLog(<<kind>>)
    BY <2>1, <1>d DEF Log
  <2>3. MemType'
    <3>1. /\ buffer' \in Seq(Records) /\ Len(buffer') <= BufferMax /\ Len(buffer) <= Len(buffer')
          /\ dropped' \in Nat /\ task' \in {"none", "queued", "running"}
      BY <2>2, AsyncLogType
    <3>2. /\ buffer \in Seq(Records) /\ prepared \in Seq(Prepared) /\ Len(prepared) <= Len(buffer)
      BY <1>0 DEF MemType
    <3>3. Len(prepared') <= Len(buffer')
      BY <2>1, <3>1, <3>2 DEF Log
    <3> QED BY <1>0, <2>1, <3>1, <3>3 DEF Log, MemType
  <2>4. EnvType'
    BY <1>0, <2>1, <2>2, AsyncLogType DEF Log, EnvType
  <2>5. FlushType' /\ DiskType'
    BY <1>0, <2>1 DEF Log, FlushType, DiskType
  <2> QED BY <2>3, <2>4, <2>5 DEF TypeOK
<1>2. CASE Query
  <2>1. MemType'
    BY <1>0, <1>2, PrepareBufferedFacts DEF Query, MemType
  <2>2. FlushType' /\ DiskType' /\ EnvType'
    BY <1>0, <1>2 DEF Query, FlushType, DiskType, EnvType
  <2> QED BY <2>1, <2>2 DEF TypeOK
<1>3. CASE TimerFlush \/ VerifierFlush
  BY <1>0, <1>3, BeginFlushType DEF TimerFlush, VerifierFlush, MemType
<1>4. CASE TaskFlush
  BY <1>0, <1>4, BeginFlushType DEF TaskFlush
<1>5. CASE TaskFlushEmpty
  BY <1>0, <1>5 DEF TaskFlushEmpty, TypeOK, MemType, FlushType, DiskType, EnvType
<1>6. CASE AppendGroup
  <2>1. written < Len(batch)
    BY <1>6 DEF AppendGroup, FlushInv
  <2>2. PICK n \in 1 .. Len(batch) - written, seg \in 0 .. Len(disk) :
          /\ AppendLines(disk, <<GroupDay, seg>>, GroupLines(n, seg), disk')
          /\ written' = written + n
          /\ flushPc' = IF written + n = Len(batch) THEN "head" ELSE "append"
    BY <1>6 DEF AppendGroup
  <2>3. n \in 0 .. Len(batch) - written /\ seg \in Nat
    BY <1>0 DEF FlushType, DiskType
  <2>4. GroupDay \in Nat /\ GroupLines(n, seg) \in Seq(Lines)
    BY <2>1, <2>3, GroupLinesType
  <2>5. DiskType'
    BY <1>0, <1>6, <2>2, <2>4, AppendLinesType DEF AppendGroup, DiskType
  <2>6. FlushType'
    BY <1>0, <1>6, <2>2 DEF AppendGroup, FlushType
  <2>7. MemType' /\ EnvType'
    BY <1>0, <1>6, <2>4 DEF AppendGroup, MemType, EnvType
  <2> QED BY <2>5, <2>6, <2>7 DEF TypeOK
<1>7. CASE WriteHead
  <2>1. head' \in Heads
    BY <1>0, <1>7, HeadPayloadType DEF WriteHead, MemType
  <2> QED BY <1>0, <1>7, <2>1 DEF WriteHead, TypeOK, MemType, FlushType, DiskType, EnvType
<1>8. CASE SkipRetention
  BY <1>0, <1>8 DEF SkipRetention, TypeOK, MemType, FlushType, DiskType, EnvType
<1>9. CASE BeginRetention
  <2>1. today - RetentionDays \in Int
    BY <1>0, SizesAssumption DEF EnvType, Days
  <2>2. pass' \in Passes
    BY <1>9, <1>a, <2>1 DEF BeginRetention, Passes
  <2> QED BY <1>0, <1>9, <2>2 DEF BeginRetention, TypeOK, MemType, FlushType, DiskType, EnvType
<1>10. CASE RemoveFile
  <2>1. PICK i \in DOMAIN disk : 
          /\ \E a \in DOMAIN disk, b \in DOMAIN disk : disk' = Cut(disk, a, b)
          /\ pass' = IF disk[i].seq > pass.best.seq THEN [pass EXCEPT !.best = Mark(disk[i])] ELSE pass
    BY <1>10 DEF RemoveFile
  <2>2. disk' \in Seq(Lines)
    BY <1>0, <2>1, CutType DEF DiskType
  <2>3. Mark(disk[i]) \in Marks
    BY <1>0, <1>b DEF DiskType
  <2>4. pass' \in Passes
    BY <1>0, <2>1, <2>3 DEF FlushType, Passes
  <2> QED BY <1>0, <1>10, <2>2, <2>4 DEF RemoveFile, TypeOK, MemType, FlushType, DiskType, EnvType
<1>11. CASE EndRetention
  <2>1. pass.best \in Marks
    BY <1>0 DEF FlushType, Passes
  <2>2. anchor' \in Marks /\ reset' \in Marks
    BY <1>0, <1>11, <1>a, <2>1 DEF EndRetention, MemType
  <2>3. head' \in Heads
    BY <1>0, <1>11, <2>2, HeadPayloadType DEF EndRetention, DiskType
  <2>4. fails' \in Nat
    BY <1>0, <1>11 DEF EndRetention, EnvType
  <2>5. MemType'
    BY <1>0, <1>11, <2>2 DEF EndRetention, MemType
  <2>6. FlushType' /\ DiskType' /\ EnvType'
    BY <1>0, <1>11, <1>a, <2>3, <2>4 DEF EndRetention, FlushType, DiskType, EnvType
  <2> QED BY <2>5, <2>6 DEF TypeOK
<1>12. CASE EndFlush
  <2>1. FlushType'
    <3>1. batch' \in Seq(Prepared) /\ written' \in 0 .. Len(batch')
      BY <1>12 DEF EndFlush
    <3> QED BY <1>0, <1>12, <3>1 DEF EndFlush, FlushType
  <2>2. /\ buffer' \in Seq(Records) /\ Len(buffer') <= BufferMax
        /\ prepared' \in Seq(Prepared) /\ Len(prepared') <= Len(buffer')
        /\ dropped' \in Nat /\ accepted' \in Nat /\ chain' \in Marks /\ mirror' \in Marks
    <3>1. CASE written > 0
      BY <1>0, <1>12, <3>1, CommitType DEF EndFlush
    <3>2. CASE ~(written > 0)
      BY <1>0, <1>12, <3>2 DEF EndFlush, MemType, DiskType, EnvType
    <3> QED BY <3>1, <3>2
  <2>3. MemType'
    BY <1>0, <1>12, <2>2 DEF EndFlush, MemType
  <2>4. DiskType' /\ EnvType'
    BY <1>0, <1>12, <2>2 DEF EndFlush, DiskType, EnvType
  <2> QED BY <2>1, <2>3, <2>4 DEF TypeOK
<1>13. CASE AppendFails
  <2>1. written < Len(batch)
    BY <1>13 DEF AppendFails, FlushInv
  <2>2. disk' \in Seq(Lines)
    BY <1>0, <1>13, <2>1, PartialAppendType DEF AppendFails, DiskType
  <2> QED BY <1>0, <1>13, <2>2 DEF AppendFails, TypeOK, MemType, FlushType, DiskType, EnvType
<1>14. CASE WriteHeadFails
  BY <1>0, <1>14 DEF WriteHeadFails, TypeOK, MemType, FlushType, DiskType, EnvType
<1>15. CASE RemoveFileFails
  <2>1. PICK k \in FileKeys(disk) :
          pass' = IF Expired # {} THEN [pass EXCEPT !.aged = @ \cup {k}]
                                  ELSE [pass EXCEPT !.skipped = @ \cup {k}]
    BY <1>15 DEF RemoveFileFails
  <2>2. k \in Nat \X Nat
    BY <1>0, <1>b DEF FileKeys, DiskType
  <2>3. pass' \in Passes
    BY <1>0, <2>1, <2>2 DEF FlushType, Passes
  <2> QED BY <1>0, <1>15, <2>3, SMTT(30) DEF RemoveFileFails, TypeOK, MemType, FlushType, DiskType, EnvType
<1>16. CASE SaveStore
  BY <1>0, <1>16 DEF SaveStore, TypeOK, MemType, FlushType, DiskType, EnvType
<1>17. CASE LoadHead
  <2>1. Mark(head) \in Marks /\ head.anchor \in Marks /\ head.reset \in Marks
    BY <1>0 DEF DiskType, Heads, Marks, Mark
  <2>2. NewestDay(disk) \in Nat
    <3>1. CASE disk = <<>>
      BY <3>1 DEF NewestDay
    <3>2. CASE disk # <<>>
      <4>1. disk[Len(disk)] \in Lines
        BY <1>0, <3>2 DEF DiskType
      <4> QED BY <3>2, <4>1, <1>b DEF NewestDay
    <3> QED BY <3>1, <3>2
  <2>3. MemType'
    BY <1>0, <1>17, <2>1, <2>2 DEF LoadHead, MemType
  <2> QED BY <1>0, <1>17, <2>3 DEF LoadHead, TypeOK, FlushType, DiskType, EnvType
<1>18. CASE RepairTornTail
  <2>1. disk' \in Seq(Lines)
    <3>1. \A i \in TornTails : i \in DOMAIN disk
      BY DEF TornTails
    <3> QED BY <1>0, <1>18, <3>1, CutType DEF RepairTornTail, Repaired, DiskType
  <2>2. repairs' \in Seq(Kinds)
    <3>1. repairs' = Append(repairs, "repair") \/ repairs' = repairs
      BY <1>18, Zenon DEF RepairTornTail
    <3>2. repairs \in Seq(Kinds)
      BY <1>0 DEF MemType
    <3> QED BY <1>d, <3>1, <3>2
  <2>3. MemType'
    BY <1>0, <1>18, <2>2 DEF RepairTornTail, MemType
  <2> QED BY <1>0, <1>18, <2>1, <2>3 DEF RepairTornTail, TypeOK, FlushType, DiskType, EnvType
<1>19. CASE RebuildHead
  <2>1. chain' \in Marks /\ repairs' \in Seq(Kinds) /\ head' \in Heads /\ fails' \in Nat
    <3>1. CASE UNCHANGED <<chain, repairs, head, fails>>
      BY <1>0, <3>1 DEF MemType, DiskType, EnvType
    <3>2. CASE ~UNCHANGED <<chain, repairs, head, fails>>
      <4>1. PICK top \in DOMAIN disk :
              /\ chain' = Mark(disk[top])
              /\ repairs' = Append(repairs, "repair")
              /\ \/ head' = HeadPayload(chain', anchor, reset) /\ UNCHANGED fails
                 \/ fails < MaxFails /\ fails' = fails + 1 /\ UNCHANGED head
        BY <1>19, <3>2 DEF RebuildHead
      <4>2. chain' \in Marks
        BY <1>0, <1>b, <4>1 DEF DiskType
      <4>3. HeadPayload(chain', anchor, reset) \in Heads
        BY <1>0, <4>2 DEF MemType, HeadPayload, Heads, Marks
      <4> QED BY <1>0, <1>d, <4>1, <4>2, <4>3 DEF MemType, DiskType, EnvType
    <3> QED BY <3>1, <3>2
  <2>2. MemType'
    BY <1>0, <1>19, <2>1 DEF RebuildHead, MemType
  <2> QED BY <1>0, <1>19, <2>1, <2>2 DEF RebuildHead, TypeOK, FlushType, DiskType, EnvType
<1>20. CASE DetectReset
  <2> DEFINE kinds == (IF Lost THEN <<"reset">> ELSE <<>>) \o repairs
  <2>1. kinds \in Seq(Kinds) /\ AsyncLog(kinds)
    BY <1>0, <1>20, <1>d DEF DetectReset, MemType
  <2>2. chain' \in Marks /\ reset' \in Marks
    BY <1>0, <1>20 DEF DetectReset, MemType, DiskType
  <2> HIDE DEF kinds
  <2>3. MemType'
    BY <1>0, <1>20, <2>1, <2>2, AsyncLogType DEF DetectReset, MemType
  <2>4. EnvType'
    BY <1>0, <1>20, <2>1, AsyncLogType DEF DetectReset, EnvType
  <2> QED BY <1>0, <1>20, <2>3, <2>4 DEF DetectReset, TypeOK, FlushType, DiskType
<1>21. CASE BeginStop
  BY <1>0, <1>21 DEF BeginStop, TypeOK, MemType, FlushType, DiskType, EnvType
<1>22. CASE StopFlush
  BY <1>0, <1>22, BeginFlushType DEF StopFlush, MemType
<1>23. CASE StopFlushEmpty
  BY <1>0, <1>23 DEF StopFlushEmpty, TypeOK, MemType, FlushType, DiskType, EnvType
<1>24. CASE Unload
  <2>1. LoseMemory
    BY <1>24 DEF Unload
  <2> QED BY <1>0, <1>24, <2>1, LoseMemoryType DEF Unload, TypeOK, DiskType, EnvType
<1>25. CASE Crash
  <2>1. LoseMemory
    BY <1>25 DEF Crash
  <2>2. disk' \in Seq(Lines)
    BY <1>0, <1>25, PartialAppendType DEF Crash, DiskType, FlushInv
  <2> QED BY <1>0, <1>25, <2>1, <2>2, LoseMemoryType DEF Crash, TypeOK, DiskType, EnvType
<1>26. CASE LoseDirectory
  <2>1. saved.seq \in Nat
    BY <1>0 DEF DiskType, Marks
  <2> QED BY <1>0, <1>26, <1>a, <2>1 DEF LoseDirectory, TypeOK, MemType, FlushType, DiskType, EnvType
<1>27. CASE ClockMoves
  BY <1>0, <1>27 DEF ClockMoves, TypeOK, MemType, FlushType, DiskType, EnvType
<1>28. CASE UNCHANGED vars
  BY <1>0, <1>28 DEF vars, TypeOK, MemType, FlushType, DiskType, EnvType
<1> QED
  BY <1>1, <1>2, <1>3, <1>4, <1>5, <1>6, <1>7, <1>8, <1>9, <1>10, <1>11, <1>12, <1>13, <1>14,
     <1>15, <1>16, <1>17, <1>18, <1>19, <1>20, <1>21, <1>22, <1>23, <1>24, <1>25, <1>26, <1>27, <1>28
     DEF Next, FlushStep, IOError, StartStep, StopStep

-----------------------------------------------------------------------------
(* Numbers                                                                 *)

\* The steps of a flush and of start-up stay in the order FlushInv describes.
LEMMA FlushStepInv ==
  ASSUME TypeOK, FlushInv, PreparedFollowsBuffer, [Next]_vars \/ VerifierFlush
  PROVE  FlushInv'
<1> USE DEF memVars, flushVars, diskVars, storeVars, envVars
<1>0. /\ buffer \in Seq(Records) /\ batch \in Seq(Prepared) /\ written \in 0 .. Len(batch)
  BY DEF TypeOK, MemType, FlushType
<1>1. CASE \E kind \in {"low", "high"} : Log(kind)
  BY <1>1 DEF Log, FlushInv
<1>2. CASE Query \/ TaskFlushEmpty \/ SaveStore \/ BeginStop \/ StopFlushEmpty \/ ClockMoves \/ LoseDirectory
  BY <1>2 DEF Query, TaskFlushEmpty, SaveStore, BeginStop, StopFlushEmpty, ClockMoves, LoseDirectory,
              FlushInv
<1>3. CASE TimerFlush \/ TaskFlush \/ StopFlush \/ VerifierFlush
  <2>1. buffer # <<>> /\ batch' = PrepareBuffered /\ written' = 0 /\ flushPc' = "append"
        /\ headWritten' = FALSE /\ phase' = phase /\ phase \in {"up", "stopping", "stopped"}
    BY <1>3 DEF TimerFlush, TaskFlush, StopFlush, VerifierFlush, BeginFlush
  <2>2. written' < Len(batch')
    BY <1>0, <2>1, PrepareBufferedFacts
  <2> QED BY <2>1, <2>2 DEF FlushInv
<1>4. CASE AppendGroup
  <2>1. PICK n \in 1 .. Len(batch) - written :
          /\ written' = written + n
          /\ flushPc' = IF written + n = Len(batch) THEN "head" ELSE "append"
    BY <1>4 DEF AppendGroup
  <2>2. written' > 0 /\ (flushPc' = "append" => written' < Len(batch))
    BY <1>0, <2>1
  <2>3. phase \notin {"down", "repair", "rebuild", "detect"} /\ ~headWritten
    BY <1>4 DEF AppendGroup, FlushInv
  <2> QED BY <1>4, <2>1, <2>2, <2>3 DEF AppendGroup, FlushInv
<1>5. CASE AppendFails
  BY <1>0, <1>5 DEF AppendFails, FlushInv
<1>6. CASE WriteHead \/ WriteHeadFails \/ SkipRetention \/ BeginRetention
  BY <1>6 DEF WriteHead, WriteHeadFails, SkipRetention, BeginRetention, FlushInv
<1>7. CASE RemoveFile \/ RemoveFileFails \/ EndRetention
  BY <1>7 DEF RemoveFile, RemoveFileFails, EndRetention, FlushInv
<1>8. CASE EndFlush
  BY <1>8 DEF EndFlush, FlushInv
<1>9. CASE StartStep
  <2>1. phase' = "up" \/ UNCHANGED <<buffer, prepared>>
    BY <1>9 DEF StartStep, LoadHead, RepairTornTail, RebuildHead, DetectReset
  <2>2. flushPc' = flushPc /\ batch' = batch /\ written' = written /\ headWritten' = headWritten
    BY <1>9 DEF StartStep, LoadHead, RepairTornTail, RebuildHead, DetectReset
  <2>3. phase \in {"down", "repair", "rebuild", "detect"}
    BY <1>9 DEF StartStep, LoadHead, RepairTornTail, RebuildHead, DetectReset
  <2> QED BY <2>1, <2>2, <2>3 DEF FlushInv
<1>10. CASE Unload \/ Crash
  BY <1>10 DEF Unload, Crash, LoseMemory, FlushInv
<1>11. CASE UNCHANGED vars
  BY <1>11 DEF vars, FlushInv
<1> QED
  BY <1>1, <1>2, <1>3, <1>4, <1>5, <1>6, <1>7, <1>8, <1>9, <1>10, <1>11
     DEF Next, FlushStep, IOError, StartStep, StopStep

\* Queries, flushes and commits keep the prepared copies aligned with the buffer.
LEMMA PreparedStep ==
  ASSUME TypeOK, FlushInv, PreparedFollowsBuffer, [Next]_vars \/ VerifierFlush
  PROVE  PreparedFollowsBuffer'
<1> USE DEF memVars, flushVars, diskVars, storeVars, envVars
<1>0. /\ buffer \in Seq(Records) /\ prepared \in Seq(Prepared) /\ batch \in Seq(Prepared)
      /\ written \in 0 .. Len(batch) /\ chain \in Marks /\ chain.seq \in Nat
  BY DEF TypeOK, MemType, FlushType, Marks
<1>a. /\ Len(prepared) <= Len(buffer)
      /\ \A i \in DOMAIN prepared : prepared[i].id = buffer[i].id
      /\ \A i \in DOMAIN prepared : prepared[i].seq = chain.seq + i
      /\ Len(batch) <= Len(prepared)
      /\ \A i \in DOMAIN batch : batch[i] = prepared[i]
  BY DEF PreparedFollowsBuffer
<1>1. CASE \E kind \in {"low", "high"} : Log(kind)
  <2>1. PICK kind \in {"low", "high"} : Log(kind)
    BY <1>1
  <2>2. <<kind>> \in Seq(Kinds) /\ AsyncLog(<<kind>>)
    BY <2>1 DEF Log, Kinds
  <2>3. Len(buffer) <= Len(buffer') /\ \A i \in 1 .. Len(buffer) : buffer'[i] = buffer[i]
    BY <2>2, AsyncLogType
  <2>4. buffer' \in Seq(Records)
    BY <2>2, AsyncLogType
  <2>5. prepared' = prepared /\ batch' = batch /\ chain' = chain
    BY <2>1 DEF Log
  <2>6. Len(prepared') <= Len(buffer')
    BY <1>0, <1>a, <2>3, <2>4, <2>5
  <2>7. ASSUME NEW i \in DOMAIN prepared'
        PROVE  prepared'[i].id = buffer'[i].id
    <3>1. i \in DOMAIN prepared /\ i \in 1 .. Len(buffer)
      BY <1>0, <1>a, <2>5
    <3>2. buffer'[i] = buffer[i]
      BY <2>3, <3>1
    <3> QED BY <1>a, <2>5, <3>1, <3>2
  <2> QED BY <1>a, <2>5, <2>6, <2>7 DEF PreparedFollowsBuffer
<1>2. CASE Query \/ TimerFlush \/ TaskFlush \/ StopFlush \/ VerifierFlush
  <2>1. prepared' = PrepareBuffered /\ buffer' = buffer /\ chain' = chain
        /\ (batch' = PrepareBuffered \/ batch' = batch)
    BY <1>2 DEF Query, TimerFlush, TaskFlush, StopFlush, VerifierFlush, BeginFlush
  <2>2. /\ PrepareBuffered \in Seq(Prepared)
        /\ Len(PrepareBuffered) = Len(buffer)
        /\ \A i \in 1 .. Len(prepared) : PrepareBuffered[i] = prepared[i]
        /\ \A i \in 1 .. Len(buffer) : /\ PrepareBuffered[i].id = buffer[i].id
                                       /\ PrepareBuffered[i].seq = chain.seq + i
    BY PrepareBufferedFacts
  <2> HIDE DEF PrepareBuffered
  <2>3. Len(batch') <= Len(prepared') /\ \A i \in DOMAIN batch' : batch'[i] = prepared'[i]
    <3>1. CASE batch' = PrepareBuffered
      BY <2>1, <2>2, <3>1
    <3>2. CASE batch' = batch
      <4>1. Len(batch') <= Len(prepared')
        BY <1>0, <1>a, <2>1, <2>2, <3>2
      <4>2. ASSUME NEW i \in DOMAIN batch
            PROVE  batch[i] = PrepareBuffered[i]
        <5>1. i \in 1 .. Len(prepared) /\ batch[i] = prepared[i]
          BY <1>0, <1>a
        <5> QED BY <2>2, <5>1
      <4> QED BY <2>1, <3>2, <4>1, <4>2
    <3> QED BY <2>1, <3>1, <3>2
  <2>4. DOMAIN PrepareBuffered = 1 .. Len(buffer)
    BY <2>2
  <2> QED BY <1>0, <2>1, <2>2, <2>3, <2>4 DEF PreparedFollowsBuffer
<1>3. CASE EndFlush
  <2>1. CASE written > 0
    <3>1. CommitWritten /\ batch' = <<>>
      BY <1>3, <2>1 DEF EndFlush
    <3>2. written \in 0 .. Len(buffer) /\ written \in 0 .. Len(prepared) /\ written \in DOMAIN batch
          /\ written \in DOMAIN prepared
      BY <1>0, <1>a, <2>1
    <3>3. chain'.seq = chain.seq + written
      BY <1>a, <3>1, <3>2 DEF CommitWritten, Mark
    <3>4. /\ Uncommitted(buffer) \in Seq(Records) /\ Len(Uncommitted(buffer)) = Len(buffer) - written
          /\ \A i \in 1 .. Len(buffer) - written : Uncommitted(buffer)[i] = buffer[written + i]
      BY <1>0, <3>2, RestType DEF Uncommitted
    <3>5. /\ Uncommitted(prepared) \in Seq(Prepared)
          /\ Len(Uncommitted(prepared)) = Len(prepared) - written
          /\ \A i \in 1 .. Len(prepared) - written : Uncommitted(prepared)[i] = prepared[written + i]
      BY <1>0, <3>2, RestType DEF Uncommitted
    <3>6. /\ Len(buffer') >= Len(buffer) - written
          /\ \A i \in 1 .. Len(buffer) - written : buffer'[i] = buffer[written + i]
      <4>1. buffer' = Uncommitted(buffer) \/ buffer' = Append(Uncommitted(buffer), DroppedRecord)
        BY <3>1 DEF CommitWritten
      <4>2. DroppedRecord \in Records
        BY DEF DroppedRecord, Records, Kinds, TypeOK, MemType, EnvType
      <4>3. \A q \in Seq(Records), x \in Records :
               Len(Append(q, x)) = Len(q) + 1 /\ \A i \in 1 .. Len(q) : Append(q, x)[i] = q[i]
        OBVIOUS
      <4>4. Len(buffer') = Len(Uncommitted(buffer)) \/ Len(buffer') = Len(Uncommitted(buffer)) + 1
        BY <3>4, <4>1, <4>2, <4>3
      <4>5. \A i \in 1 .. Len(Uncommitted(buffer)) : buffer'[i] = Uncommitted(buffer)[i]
        BY <3>4, <4>1, <4>2, <4>3
      <4>6. PICK rest : rest = Uncommitted(buffer)
        OBVIOUS
      <4>7. PICK n : n = Len(buffer) - written
        OBVIOUS
      <4>8. n \in Nat
        BY <1>0, <3>2, <4>7
      <4>9. Len(rest) = n /\ \A i \in 1 .. n : rest[i] = buffer[written + i]
        BY <3>4, <4>6, <4>7, Zenon
      <4>10. \A i \in 1 .. n : buffer'[i] = buffer[written + i]
        BY <4>5, <4>6, <4>9, Zenon
      <4>11. Len(buffer') >= n
        BY <4>4, <4>6, <4>8, <4>9
      <4> QED BY <4>7, <4>10, <4>11, Zenon
    <3>7. prepared' = Uncommitted(prepared)
      BY <3>1 DEF CommitWritten
    <3>8. buffer' \in Seq(Records)
      BY <3>1, <1>3, <2>1, CommitType DEF EndFlush
    <3>9. Len(prepared') <= Len(buffer')
      BY <1>0, <1>a, <3>2, <3>5, <3>6, <3>7, <3>8
    <3>10. ASSUME NEW i \in DOMAIN prepared'
           PROVE  prepared'[i].id = buffer'[i].id /\ prepared'[i].seq = chain'.seq + i
      <4>1. i \in 1 .. Len(prepared) - written /\ written + i \in DOMAIN prepared
            /\ i \in 1 .. Len(buffer) - written
        BY <1>0, <1>a, <3>2, <3>5, <3>7
      <4>2. prepared'[i] = prepared[written + i] /\ buffer'[i] = buffer[written + i]
        BY <3>5, <3>6, <3>7, <4>1
      <4>3. prepared[written + i].seq = chain.seq + (written + i)
        BY <1>a, <4>1
      <4>4. chain.seq + (written + i) = chain'.seq + i
        BY <1>0, <3>3, <4>1
      <4> QED BY <1>a, <4>1, <4>2, <4>3, <4>4
    <3>11. Len(batch') <= Len(prepared') /\ \A i \in DOMAIN batch' : batch'[i] = prepared'[i]
      BY <3>1, <3>5, <3>7
    <3> QED BY <3>9, <3>10, <3>11 DEF PreparedFollowsBuffer
  <2>2. CASE ~(written > 0)
    <3>1. prepared' = prepared /\ buffer' = buffer /\ chain' = chain /\ batch' = <<>>
      BY <1>3, <2>2 DEF EndFlush
    <3>2. Len(batch') <= Len(prepared') /\ \A i \in DOMAIN batch' : batch'[i] = prepared'[i]
      BY <1>0, <3>1
    <3> QED BY <1>a, <3>1, <3>2 DEF PreparedFollowsBuffer
  <2> QED BY <2>1, <2>2
<1>4. CASE StartStep
  <2>1. prepared = <<>> /\ batch = <<>>
    BY <1>4 DEF StartStep, LoadHead, RepairTornTail, RebuildHead, DetectReset, FlushInv
  <2>2. prepared' = <<>> /\ batch' = <<>>
    BY <1>4, <2>1 DEF StartStep, LoadHead, RepairTornTail, RebuildHead, DetectReset
  <2>3. buffer' \in Seq(Records)
    BY TypeStep DEF TypeOK, MemType
  <2> QED BY <2>2, <2>3 DEF PreparedFollowsBuffer
<1>5. CASE Unload \/ Crash
  <2>1. prepared' = <<>> /\ batch' = <<>> /\ buffer' = <<>>
    BY <1>5 DEF Unload, Crash, LoseMemory
  <2> QED BY <2>1 DEF PreparedFollowsBuffer
<1>6. CASE AppendGroup \/ AppendFails \/ WriteHead \/ WriteHeadFails \/ SkipRetention \/ BeginRetention
            \/ RemoveFile \/ RemoveFileFails \/ EndRetention
  BY <1>6 DEF AppendGroup, AppendFails, WriteHead, WriteHeadFails, SkipRetention, BeginRetention,
              RemoveFile, RemoveFileFails, EndRetention, PreparedFollowsBuffer
<1>7. CASE TaskFlushEmpty \/ SaveStore \/ BeginStop \/ StopFlushEmpty \/ LoseDirectory \/ ClockMoves
  BY <1>7 DEF TaskFlushEmpty, SaveStore, BeginStop, StopFlushEmpty, LoseDirectory, ClockMoves,
              PreparedFollowsBuffer
<1>8. CASE UNCHANGED vars
  BY <1>8 DEF vars, PreparedFollowsBuffer
<1> QED
  BY <1>1, <1>2, <1>3, <1>4, <1>5, <1>6, <1>7, <1>8 DEF Next, FlushStep, IOError, StopStep

-----------------------------------------------------------------------------
(* Heads                                                                   *)

\* The numbers the heads and markers are compared by.
LEMMA HeadNumbers ==
  ASSUME TypeOK, PreparedFollowsBuffer
  PROVE  /\ head.seq \in Nat /\ head.anchor.seq \in Nat /\ head.reset.seq \in Nat
         /\ chain.seq \in Nat /\ anchor.seq \in Nat /\ reset.seq \in Nat
         /\ saved.seq \in Nat /\ mirror.seq \in Nat /\ pass.best.seq \in Nat
         /\ written \in Nat
         /\ FlushHead.seq = chain.seq + written
         /\ written > 0 => batch[written].seq = chain.seq + written
<1>1. /\ head \in Heads /\ chain \in Marks /\ anchor \in Marks /\ reset \in Marks
      /\ saved \in Marks /\ mirror \in Marks /\ pass \in Passes
      /\ batch \in Seq(Prepared) /\ written \in 0 .. Len(batch) /\ prepared \in Seq(Prepared)
  BY DEF TypeOK, MemType, FlushType, DiskType
<1>2. /\ head.seq \in Nat /\ head.anchor \in Marks /\ head.reset \in Marks /\ pass.best \in Marks
  BY <1>1 DEF Heads, Passes
<1>3. /\ head.anchor.seq \in Nat /\ head.reset.seq \in Nat
      /\ chain.seq \in Nat /\ anchor.seq \in Nat /\ reset.seq \in Nat
      /\ saved.seq \in Nat /\ mirror.seq \in Nat /\ pass.best.seq \in Nat
  BY <1>1, <1>2 DEF Marks
<1>4. written > 0 => batch[written].seq = chain.seq + written
  <2> SUFFICES ASSUME written > 0
               PROVE  batch[written].seq = chain.seq + written
    OBVIOUS
  <2>1. written \in DOMAIN batch /\ written \in DOMAIN prepared
    BY <1>1 DEF PreparedFollowsBuffer
  <2> QED BY <2>1 DEF PreparedFollowsBuffer
<1>5. FlushHead.seq = chain.seq + written
  BY <1>1, <1>3, <1>4 DEF FlushHead
<1> QED BY <1>1, <1>2, <1>3, <1>4, <1>5

\* No step lets the head file run ahead of memory or the mirror ahead of the
\* head file.
LEMMA HeadStep ==
  ASSUME TypeOK, FlushInv, PreparedFollowsBuffer, HeadInv, [Next]_vars \/ VerifierFlush
  PROVE  HeadInv'
<1> USE DEF memVars, flushVars, diskVars, storeVars, envVars
<1>0. /\ head.seq \in Nat /\ head.anchor.seq \in Nat /\ head.reset.seq \in Nat
      /\ chain.seq \in Nat /\ anchor.seq \in Nat /\ reset.seq \in Nat
      /\ saved.seq \in Nat /\ mirror.seq \in Nat /\ pass.best.seq \in Nat
      /\ written \in Nat
      /\ FlushHead.seq = chain.seq + written
      /\ written > 0 => batch[written].seq = chain.seq + written
  BY HeadNumbers
<1>a. flushPc # "idle" => phase # "down"
  BY DEF FlushInv
<1>1. CASE \/ \E kind \in {"low", "high"} : Log(kind)
           \/ Query \/ TimerFlush \/ TaskFlush \/ StopFlush \/ VerifierFlush
  <2>1. /\ UNCHANGED <<phase, chain, anchor, reset, head, mirror, saved, wipes>>
        /\ UNCHANGED <<written, headWritten>> \/ (flushPc = "idle" /\ written' = 0 /\ headWritten' = FALSE)
    BY <1>1 DEF Log, Query, TimerFlush, TaskFlush, StopFlush, VerifierFlush, BeginFlush
  <2>2. UNCHANGED written /\ (headWritten' => headWritten)
    BY <2>1 DEF FlushInv
  <2> QED BY <2>1, <2>2 DEF HeadInv
<1>2. CASE AppendGroup
  <2>1. PICK n \in 1 .. Len(batch) - written : written' = written + n
    BY <1>2 DEF AppendGroup
  <2>2. n \in Nat /\ ~headWritten
    BY <1>2, <1>0 DEF AppendGroup, FlushInv, TypeOK, FlushType
  <2>3. UNCHANGED <<phase, chain, anchor, reset, headWritten, head, mirror, saved, wipes>>
    BY <1>2 DEF AppendGroup
  <2> QED BY <1>0, <2>1, <2>2, <2>3, SMTT(30) DEF HeadInv
<1>3. CASE WriteHead
  <2>1. /\ head'.seq = chain.seq + written /\ head'.anchor = anchor /\ head'.reset = reset
        /\ UNCHANGED <<phase, chain, anchor, reset, written, mirror, saved, wipes>>
    BY <1>0, <1>3 DEF WriteHead, HeadPayload
  <2>2. phase # "down"
    BY <1>3, <1>a DEF WriteHead
  <2> QED BY <1>0, <2>1, <2>2 DEF HeadInv
<1>4. CASE EndRetention
  <2>1. CASE pass.best.seq > anchor.seq
    <3>1. /\ anchor'.seq = pass.best.seq
          /\ (pass.best.seq >= reset.seq /\ reset' = NoMark) \/ (pass.best.seq < reset.seq /\ reset' = reset)
          /\ UNCHANGED <<phase, chain, written, headWritten, mirror, saved, wipes>>
      BY <1>0, <1>4, <2>1 DEF EndRetention
    <3>2. \/ head'.seq = chain.seq + written /\ head'.anchor = anchor' /\ head'.reset = reset'
          \/ UNCHANGED head
      BY <1>0, <1>4, <2>1 DEF EndRetention, HeadPayload
    <3>3. phase # "down"
      BY <1>4, <1>a DEF EndRetention
    <3>4. NoMark.seq = 0
      BY DEF NoMark
    <3> QED BY <1>0, <2>1, <3>1, <3>2, <3>3, <3>4 DEF HeadInv
  <2>2. CASE ~(pass.best.seq > anchor.seq)
    BY <1>4, <2>2 DEF EndRetention, HeadInv
  <2> QED BY <2>1, <2>2
<1>5. CASE EndFlush
  <2>1. /\ written' = 0 /\ headWritten' = FALSE
        /\ UNCHANGED <<anchor, reset, head, saved, wipes>>
        /\ phase' # "down" /\ phase # "down"
    BY <1>5, <1>a DEF EndFlush
  <2>2. chain'.seq = chain.seq + written
    BY <1>0, <1>5 DEF EndFlush, CommitWritten, Mark
  <2>3. \/ mirror' = mirror
        \/ headWritten /\ mirror'.seq = chain.seq + written /\ mirror.seq < chain.seq + written
    BY <1>0, <1>5 DEF EndFlush, SetAuditHead, Mark
  <2> QED BY <1>0, <2>1, <2>2, <2>3, SMTT(30) DEF HeadInv
<1>6. CASE LoadHead
  <2>1. written = 0 /\ ~headWritten
    BY <1>6 DEF LoadHead, FlushInv
  <2>2. /\ chain'.seq = head.seq /\ anchor' = head.anchor /\ reset' = head.reset
        /\ UNCHANGED <<head, written, headWritten, mirror, saved, wipes>>
    BY <1>6 DEF LoadHead, Mark
  <2> QED BY <1>0, <2>1, <2>2 DEF HeadInv
<1>7. CASE RebuildHead
  <2>1. written = 0 /\ ~headWritten /\ phase # "down"
    BY <1>7 DEF RebuildHead, FlushInv
  <2>2. /\ chain' = chain \/ (chain'.seq \in Nat /\ chain'.seq > chain.seq)
        /\ \/ UNCHANGED head
           \/ head'.seq = chain'.seq /\ head'.anchor = anchor /\ head'.reset = reset
    <3>1. ASSUME NEW top \in DOMAIN disk, Continues(top)
          PROVE  disk[top].seq \in Nat /\ disk[top].seq > chain.seq
      <4>1. disk[top] \in Lines
        BY DEF TypeOK, DiskType
      <4> QED BY <3>1, <4>1 DEF Continues, Lines
    <3> QED BY <1>7, <3>1 DEF RebuildHead, HeadPayload, Mark
  <2>3. UNCHANGED <<anchor, reset, written, headWritten, mirror, saved, wipes>> /\ phase' # "down"
    BY <1>7 DEF RebuildHead
  <2> QED BY <1>0, <2>1, <2>2, <2>3, SMTT(30) DEF HeadInv
<1>8. CASE DetectReset
  <2>1. written = 0 /\ ~headWritten /\ phase # "down"
    BY <1>8 DEF DetectReset, FlushInv
  <2>2. /\ IF mirror.seq > chain.seq THEN chain' = mirror /\ reset' = mirror
                                     ELSE chain' = chain /\ reset' = reset
        /\ UNCHANGED <<anchor, written, headWritten, head, mirror, saved, wipes>> /\ phase' # "down"
    BY <1>8 DEF DetectReset, Lost
  <2> QED BY <1>0, <2>1, <2>2 DEF HeadInv
<1>9. CASE RepairTornTail
  BY <1>9 DEF RepairTornTail, HeadInv
<1>10. CASE Unload \/ Crash
  <2>1. /\ phase' = "down" /\ headWritten' = FALSE /\ reset' = NoMark
        /\ UNCHANGED <<head, wipes>>
        /\ mirror'.seq = saved'.seq /\ (saved' = saved \/ saved' = mirror)
    BY <1>10 DEF Unload, Crash, LoseMemory
  <2> QED BY <1>0, <2>1 DEF HeadInv
<1>11. CASE LoseDirectory
  <2>1. wipes' # 0
    BY <1>11 DEF LoseDirectory, TypeOK, EnvType
  <2>2. /\ head'.seq = 0 /\ head'.anchor.seq = 0 /\ head'.reset.seq = 0
        /\ UNCHANGED <<phase, chain, anchor, reset, written>>
    BY <1>11 DEF LoseDirectory, NoHead, NoMark
  <2> QED BY <1>0, <2>1, <2>2 DEF HeadInv
<1>12. CASE SaveStore
  BY <1>0, <1>12 DEF SaveStore, HeadInv
<1>13. CASE AppendFails \/ WriteHeadFails \/ SkipRetention \/ BeginRetention \/ RemoveFile \/ RemoveFileFails
  BY <1>13 DEF AppendFails, WriteHeadFails, SkipRetention, BeginRetention, RemoveFile, RemoveFileFails, HeadInv
<1>14. CASE TaskFlushEmpty \/ BeginStop \/ StopFlushEmpty \/ ClockMoves
  BY <1>14 DEF TaskFlushEmpty, BeginStop, StopFlushEmpty, ClockMoves, HeadInv
<1>15. CASE UNCHANGED vars
  BY <1>15 DEF vars, HeadInv
<1> QED
  BY <1>1, <1>2, <1>3, <1>4, <1>5, <1>6, <1>7, <1>8, <1>9, <1>10, <1>11, <1>12, <1>13, <1>14, <1>15
     DEF Next, FlushStep, IOError, StartStep, StopStep

\* No head rewrite takes anything back.
LEMMA MarkersStep ==
  ASSUME TypeOK, FlushInv, PreparedFollowsBuffer, HeadInv, [Next]_vars, wipes' = wipes
  PROVE  /\ head'.seq >= head.seq
         /\ head'.anchor.seq >= head.anchor.seq
         /\ head.reset.seq > 0 => head'.reset.seq >= head.reset.seq \/ head'.anchor.seq >= head.reset.seq
<1> USE DEF memVars, flushVars, diskVars, storeVars, envVars
<1>0. /\ head.seq \in Nat /\ head.anchor.seq \in Nat /\ head.reset.seq \in Nat
      /\ chain.seq \in Nat /\ anchor.seq \in Nat /\ reset.seq \in Nat
      /\ pass.best.seq \in Nat /\ written \in Nat
      /\ FlushHead.seq = chain.seq + written
  BY HeadNumbers
<1>1. CASE head' = head
  BY <1>0, <1>1
<1>2. CASE WriteHead
  <2>1. head'.seq = chain.seq + written /\ head'.anchor = anchor /\ head'.reset = reset
    BY <1>0, <1>2 DEF WriteHead, HeadPayload
  <2>2. phase # "down"
    BY <1>2 DEF WriteHead, FlushInv
  <2> QED BY <1>0, <2>1, <2>2 DEF HeadInv
<1>3. CASE EndRetention /\ head' # head
  <2>1. /\ pass.best.seq > anchor.seq
        /\ head'.seq = chain.seq + written /\ head'.anchor = pass.best
        /\ head'.reset = IF pass.best.seq >= reset.seq THEN NoMark ELSE reset
    BY <1>0, <1>3 DEF EndRetention, HeadPayload
  <2>2. phase # "down"
    BY <1>3 DEF EndRetention, FlushInv
  <2> QED BY <1>0, <2>1, <2>2 DEF HeadInv
<1>4. CASE RebuildHead /\ head' # head
  <2>1. PICK top \in DOMAIN disk : Continues(top) /\ chain' = Mark(disk[top])
                                   /\ head' = HeadPayload(chain', anchor, reset)
    BY <1>4 DEF RebuildHead
  <2>2. disk[top].seq \in Nat /\ disk[top].seq > chain.seq
    <3>1. disk[top] \in Lines
      BY DEF TypeOK, DiskType
    <3> QED BY <2>1, <3>1 DEF Continues, Lines
  <2>3. head'.seq = disk[top].seq /\ head'.anchor = anchor /\ head'.reset = reset
    BY <2>1 DEF HeadPayload, Mark
  <2>4. phase # "down" /\ written = 0
    BY <1>4 DEF RebuildHead, FlushInv
  <2> QED BY <1>0, <2>2, <2>3, <2>4 DEF HeadInv
<1>5. head' = head \/ WriteHead \/ EndRetention \/ RebuildHead
  <2>1. CASE FlushStep \/ IOError \/ StartStep
    BY <2>1 DEF FlushStep, IOError, StartStep, AppendGroup, SkipRetention, BeginRetention, RemoveFile,
                EndFlush, AppendFails, WriteHeadFails, RemoveFileFails, LoadHead, RepairTornTail, DetectReset
  <2>2. CASE (\E kind \in {"low", "high"} : Log(kind)) \/ Query \/ TimerFlush \/ TaskFlush \/ TaskFlushEmpty
    BY <2>2 DEF Log, Query, TimerFlush, TaskFlush, TaskFlushEmpty, BeginFlush
  <2>3. CASE SaveStore \/ BeginStop \/ StopStep \/ Crash \/ ClockMoves
    BY <2>3 DEF SaveStore, BeginStop, StopStep, StopFlush, StopFlushEmpty, Unload, Crash, ClockMoves, BeginFlush
  <2>4. CASE LoseDirectory
    BY <2>4 DEF LoseDirectory, TypeOK, EnvType
  <2>5. CASE UNCHANGED vars
    BY <2>5 DEF vars
  <2> QED BY <2>1, <2>2, <2>3, <2>4, <2>5 DEF Next
<1> QED BY <1>1, <1>2, <1>3, <1>4, <1>5

-----------------------------------------------------------------------------
(* The first theorems, under every fault                                   *)

\* The inductive invariant: the types need the order of a flush's steps and the
\* alignment of the prepared copies, and the heads need all three.
AuditInv == TypeOK /\ FlushInv /\ PreparedFollowsBuffer /\ HeadInv

\* A fresh installation and one with a flushed record satisfy the invariant.
LEMMA AuditInvInit ==
  ASSUME Init
  PROVE  AuditInv
<1>1. NoMark \in Marks /\ NoPass \in Passes /\ NoHead \in Heads /\ NoHead.seq = 0 /\ NoMark.seq = 0
      /\ NoHead.reset = NoMark
  BY DEF NoMark, Marks, Genesis, Hashes, NoPass, Passes, NoHead, Heads
<1>2. /\ FirstLine \in Lines /\ Mark(FirstLine) \in Marks /\ Mark(FirstLine).seq = 1
      /\ HeadPayload(FirstLine, NoMark, NoMark) \in Heads
      /\ HeadPayload(FirstLine, NoMark, NoMark).seq = 1
      /\ HeadPayload(FirstLine, NoMark, NoMark).reset = NoMark
  BY <1>1 DEF FirstLine, Lines, Mark, Marks, HeadPayload, Heads, Genesis, Hashes
<1>3. DiskType
  <2>1. <<FirstLine>> \in Seq(Lines) /\ <<>> \in Seq(Lines)
    BY <1>2
  <2> QED BY <1>1, <1>2, <2>1 DEF Init, DiskType
<1>4. MemType /\ EnvType
  BY <1>1, SizesAssumption DEF Init, MemType, EnvType, Days
<1>5. FlushType
  <2>1. batch \in Seq(Prepared) /\ written \in 0 .. Len(batch)
    BY DEF Init
  <2> QED BY <1>1, <2>1 DEF Init, FlushType
<1>6. FlushInv /\ PreparedFollowsBuffer
  BY DEF Init, FlushInv, PreparedFollowsBuffer
<1>7. HeadInv
  BY <1>1, <1>2 DEF Init, HeadInv
<1> QED BY <1>3, <1>4, <1>5, <1>6, <1>7 DEF AuditInv, TypeOK

\* Every reachable state satisfies the invariant.
THEOREM AuditInvariant == Spec => []AuditInv
<1>1. Init => AuditInv
  BY AuditInvInit
<1>2. AuditInv /\ [Next]_vars => AuditInv'
  BY TypeStep, FlushStepInv, PreparedStep, HeadStep DEF AuditInv
<1> QED BY <1>1, <1>2, PTL DEF Spec

\* The types hold, and the buffer never exceeds _BUFFER_MAX_RECORDS, whatever
\* fails and however often the system restarts.
THEOREM TypeCorrect == Spec => []TypeOK
<1>1. AuditInv => TypeOK
  BY DEF AuditInv
<1> QED BY <1>1, AuditInvariant, PTL

\* The cache of prepared records stays a prefix of the buffer, numbered from
\* the committed head, and a flush works on a prefix of it: what _commit_written
\* drops is what was written, whatever queries did meanwhile.
THEOREM PreparedCorrect == Spec => []PreparedFollowsBuffer
<1>1. AuditInv => PreparedFollowsBuffer
  BY DEF AuditInv
<1> QED BY <1>1, AuditInvariant, PTL

\* While the audit directory exists, _async_detect_chain_reset has no cause: the
\* mirror in the store never gets ahead of chain_head.json.
THEOREM ResetCorrect == Spec => []NoFalseReset
<1>1. AuditInv => NoFalseReset
  <2> SUFFICES ASSUME AuditInv, wipes = 0
               PROVE  reset = NoMark /\ head.reset = NoMark /\ saved.seq <= head.seq
    BY DEF NoFalseReset
  <2>1. head.seq \in Nat /\ saved.seq \in Nat /\ mirror.seq \in Nat
    BY HeadNumbers DEF AuditInv
  <2> QED BY <2>1 DEF AuditInv, HeadInv
<1> QED BY <1>1, AuditInvariant, PTL

\* As long as the directory is not lost, every rewrite of chain_head.json moves
\* forward and keeps the reset marker until the anchor has passed it.
THEOREM MarkersCorrect == Spec => MarkersCarried
<1> DEFINE Forward == wipes' = wipes =>
             /\ head'.seq >= head.seq
             /\ head'.anchor.seq >= head.anchor.seq
             /\ head.reset.seq > 0 => head'.reset.seq >= head.reset.seq \/ head'.anchor.seq >= head.reset.seq
<1>1. AuditInv /\ [Next]_vars => Forward
  BY MarkersStep DEF AuditInv
<1>2. MarkersCarried <=> [][Forward]_vars
  BY DEF MarkersCarried
<1> HIDE DEF Forward
<1> QED BY <1>1, <1>2, AuditInvariant, PTL DEF Spec

-----------------------------------------------------------------------------
(* The files are in order                                                  *)

\* The lines stand in the order of their files.
Sorted(d) == \A i, j \in DOMAIN d : i < j => ~KeyBefore(Key(d[j]), Key(d[i]))

\* A crash leaves the only torn line, at the end of the newest file, and
\* start-up cuts it off before anything else is read or written.
TornLast ==
  \A i \in DOMAIN disk :
    IsTorn(disk[i]) => i = Len(disk) /\ ~disk[i].eol /\ phase \in {"down", "repair"}

\* No line is filed under a day that the next append could fall behind.
FloorHolds == phase # "down" => \A i \in DOMAIN disk : disk[i].day <= floor

\* No file was passed over by the retention pass.
NonePassedOver == pass.aged = {} /\ pass.skipped = {}

DiskInv == Sorted(disk) /\ TornLast /\ FloorHolds /\ NonePassedOver

\* The first n elements.
LEMMA FrontType ==
  ASSUME NEW S, NEW s \in Seq(S), NEW n \in 0 .. Len(s)
  PROVE  /\ SubSeq(s, 1, n) \in Seq(S)
         /\ Len(SubSeq(s, 1, n)) = n
         /\ \A i \in 1 .. n : i \in DOMAIN s /\ SubSeq(s, 1, n)[i] = s[i]
  OBVIOUS

\* The types of a line's parts.
LEMMA LineFacts ==
  ASSUME NEW d \in Seq(Lines), NEW i \in DOMAIN d
  PROVE  /\ d[i] \in Lines
         /\ d[i].id \in Nat /\ d[i].seq \in Nat /\ d[i].day \in Nat /\ d[i].seg \in Nat
         /\ d[i].prev \in Hashes /\ d[i].hash \in Hashes /\ d[i].eol \in BOOLEAN
         /\ Key(d[i]) = <<d[i].day, d[i].seg>> /\ Key(d[i]) \in Nat \X Nat
<1>1. d[i] \in Lines
  OBVIOUS
<1> QED BY <1>1 DEF Lines, Key

\* The file an append goes to is not before any that is there.
LEMMA TargetIsNewest ==
  ASSUME NEW d \in Seq(Lines), NEW day \in Nat, NEW seg \in Nat, IsTarget(d, day, seg),
         \A i \in DOMAIN d : d[i].day <= day
  PROVE  \A i \in DOMAIN d : ~KeyBefore(<<day, seg>>, Key(d[i]))
<1> SUFFICES ASSUME NEW i \in DOMAIN d, d[i].day = day, seg < d[i].seg
             PROVE  FALSE
  <2> SUFFICES ASSUME NEW i \in DOMAIN d, KeyBefore(<<day, seg>>, Key(d[i]))
               PROVE  d[i].day = day /\ seg < d[i].seg
    OBVIOUS
  <2>1. d[i].day \in Nat /\ d[i].seg \in Nat /\ d[i].day <= day
    BY LineFacts
  <2>2. day < d[i].day \/ (day = d[i].day /\ seg < d[i].seg)
    BY DEF KeyBefore, Key
  <2> QED BY <2>1, <2>2
<1> DEFINE segs == {d[j].seg : j \in {k \in DOMAIN d : d[k].day = day}}
<1>1. d[i].seg \in segs /\ segs \subseteq Nat
  BY LineFacts
<1>2. PICK s \in segs : (\A t \in segs : t <= s) /\ (seg = s \/ seg = s + 1)
  BY <1>1 DEF IsTarget
<1>3. d[i].seg \in Nat /\ s \in Nat /\ d[i].seg <= s
  BY <1>1, <1>2
<1> HIDE DEF segs
<1> QED BY <1>2, <1>3

\* An append to the newest file adds to the end; of what was there it may at
\* most end the last line.
LEMMA AppendAtEnd ==
  ASSUME NEW d \in Seq(Lines), NEW k \in Nat \X Nat, NEW ls \in Seq(Lines), NEW e, AppendLines(d, k, ls, e),
         \A i \in DOMAIN d : ~KeyBefore(k, Key(d[i]))
  PROVE  /\ e \in Seq(Lines) /\ Len(e) = Len(d) + Len(ls)
         /\ \A i \in 1 .. Len(d) :
              /\ e[i].id = d[i].id /\ e[i].seq = d[i].seq /\ e[i].prev = d[i].prev /\ e[i].hash = d[i].hash
              /\ e[i].day = d[i].day /\ e[i].seg = d[i].seg
         /\ \A i \in 1 .. Len(ls) : e[Len(d) + i] = ls[i]
<1> DEFINE ended == [i \in 1 .. Len(d) |-> IF Key(d[i]) = k THEN [d[i] EXCEPT !.eol = TRUE] ELSE d[i]]
<1>1. ended \in Seq(Lines) /\ Len(ended) = Len(d)
  <2>1. \A l \in Lines : [l EXCEPT !.eol = TRUE] \in Lines
    BY DEF Lines
  <2>2. \A i \in 1 .. Len(d) : ended[i] \in Lines
    BY <2>1
  <2> QED BY <2>2
<1>2. \A i \in 1 .. Len(d) :
        /\ ended[i].id = d[i].id /\ ended[i].seq = d[i].seq /\ ended[i].prev = d[i].prev
        /\ ended[i].hash = d[i].hash /\ ended[i].day = d[i].day /\ ended[i].seg = d[i].seg
  BY LineFacts DEF Lines
<1>3. PICK p \in 0 .. Len(d) :
        /\ \A i \in DOMAIN d : KeyBefore(k, Key(d[i])) <=> i > p
        /\ e = SubSeq(ended, 1, p) \o ls \o SubSeq(ended, p + 1, Len(d))
  BY DEF AppendLines
<1>4. p = Len(d)
  <2>1. p < Len(d) => p + 1 \in DOMAIN d /\ p + 1 > p
    OBVIOUS
  <2> QED BY <1>3, <2>1
<1> HIDE DEF ended
<1>5. e = ended \o ls
  <2>1. SubSeq(ended, 1, Len(d)) = ended
    BY <1>1
  <2>2. SubSeq(ended, Len(d) + 1, Len(d)) = <<>>
    BY <1>1
  <2>3. ended \o ls \in Seq(Lines)
    BY <1>1
  <2>4. (ended \o ls) \o <<>> = ended \o ls
    BY <2>3
  <2> QED BY <1>3, <1>4, <2>1, <2>2, <2>3, <2>4
<1>6. /\ e \in Seq(Lines) /\ Len(e) = Len(d) + Len(ls)
      /\ \A i \in 1 .. Len(d) : e[i] = ended[i]
      /\ \A i \in 1 .. Len(ls) : e[Len(d) + i] = ls[i]
  <2>1. PICK q \in Seq(Lines) : q = ended
    BY <1>1
  <2>2. /\ q \o ls \in Seq(Lines)
        /\ Len(q \o ls) = Len(q) + Len(ls)
        /\ \A i \in 1 .. Len(q) : (q \o ls)[i] = q[i]
        /\ \A i \in 1 .. Len(ls) : (q \o ls)[Len(q) + i] = ls[i]
    BY ConcatType
  <2>3. Len(q) = Len(d) /\ e = q \o ls
    BY <1>1, <1>5, <2>1
  <2> QED BY <2>1, <2>2, <2>3
<1>7. ASSUME NEW i \in 1 .. Len(d)
      PROVE  /\ e[i].id = d[i].id /\ e[i].seq = d[i].seq /\ e[i].prev = d[i].prev /\ e[i].hash = d[i].hash
             /\ e[i].day = d[i].day /\ e[i].seg = d[i].seg
  <2>1. e[i] = ended[i]
    BY <1>6
  <2> QED BY <1>2, <2>1
<1> QED BY <1>6, <1>7

\* What is appended to a group's file, in whole or in part.
Appended(n, e) ==
  /\ e \in Seq(Lines) /\ Len(e) >= Len(disk) + n
  /\ \A i \in 1 .. Len(disk) :
       /\ e[i].id = disk[i].id /\ e[i].seq = disk[i].seq /\ e[i].prev = disk[i].prev
       /\ e[i].hash = disk[i].hash /\ e[i].day = disk[i].day /\ e[i].seg = disk[i].seg
  /\ \A i \in 1 .. n :
       /\ e[Len(disk) + i].id = batch[written + i].id /\ e[Len(disk) + i].seq = batch[written + i].seq
       /\ e[Len(disk) + i].prev = batch[written + i].prev /\ e[Len(disk) + i].hash = batch[written + i].hash

\* The lines of a group carry the records of the batch in order.
LEMMA GroupLineFacts ==
  ASSUME TypeOK, written < Len(batch), NEW n \in 0 .. Len(batch) - written, NEW seg \in Nat
  PROVE  /\ GroupDay \in Nat /\ floor <= GroupDay /\ GroupLines(n, seg) \in Seq(Lines)
         /\ Len(GroupLines(n, seg)) = n
         /\ \A i \in 1 .. n :
              /\ written + i \in 1 .. Len(batch) /\ batch[written + i] \in Prepared
              /\ GroupLines(n, seg)[i].id = batch[written + i].id
              /\ GroupLines(n, seg)[i].seq = batch[written + i].seq
              /\ GroupLines(n, seg)[i].prev = batch[written + i].prev
              /\ GroupLines(n, seg)[i].hash = batch[written + i].hash
              /\ GroupLines(n, seg)[i].day = GroupDay /\ GroupLines(n, seg)[i].seg = seg
<1>1. GroupDay \in Nat /\ GroupLines(n, seg) \in Seq(Lines)
  BY GroupLinesType
<1>2. /\ batch \in Seq(Prepared) /\ written \in 0 .. Len(batch) /\ floor \in Nat
  BY DEF TypeOK, MemType, FlushType
<1>3. floor <= GroupDay
  <2>1. batch[written + 1] \in Prepared
    BY <1>2
  <2>2. batch[written + 1].ts \in Nat
    BY <2>1, SizesAssumption DEF Prepared, Days
  <2> QED BY <1>2, <2>2 DEF GroupDay, MaxOf
<1>4. \A i \in 1 .. n : written + i \in 1 .. Len(batch) /\ batch[written + i] \in Prepared
  BY <1>2
<1>5. Len(GroupLines(n, seg)) = n
  BY <1>2 DEF GroupLines
<1>6. ASSUME NEW i \in 1 .. n
      PROVE  GroupLines(n, seg)[i] =
               [id |-> batch[written + i].id, count |-> batch[written + i].count,
                seq |-> batch[written + i].seq, prev |-> batch[written + i].prev,
                hash |-> batch[written + i].hash, day |-> GroupDay, seg |-> seg, eol |-> TRUE]
  BY DEF GroupLines
<1> QED BY <1>1, <1>3, <1>4, <1>5, <1>6

\* Whole lines of the group and, if torn, a fragment of one more come after
\* what is there.
LEMMA GroupAppended ==
  ASSUME TypeOK, Sorted(disk), \A i \in DOMAIN disk : disk[i].day <= floor /\ ~IsTorn(disk[i]),
         written < Len(batch), NEW n \in 0 .. Len(batch) - written, NEW seg \in Nat, NEW torn \in BOOLEAN,
         IsTarget(disk, GroupDay, seg), NEW e,
         AppendLines(disk, <<GroupDay, seg>>,
           IF torn THEN Append(GroupLines(n, seg), Torn(GroupDay, seg)) ELSE GroupLines(n, seg), e)
  PROVE  /\ Appended(n, e) /\ Sorted(e)
         /\ Len(e) = IF torn THEN Len(disk) + n + 1 ELSE Len(disk) + n
         /\ torn => IsTorn(e[Len(e)]) /\ ~e[Len(e)].eol /\ e[Len(e)].id = 0 /\ e[Len(e)].hash = Genesis
         /\ \A i \in DOMAIN e : e[i].day <= GroupDay
<1> DEFINE ls == IF torn THEN Append(GroupLines(n, seg), Torn(GroupDay, seg)) ELSE GroupLines(n, seg)
<1>1. /\ GroupDay \in Nat /\ floor <= GroupDay /\ GroupLines(n, seg) \in Seq(Lines)
      /\ Len(GroupLines(n, seg)) = n
  BY GroupLineFacts
<1>2. Torn(GroupDay, seg) \in Lines /\ Torn(GroupDay, seg).day = GroupDay
      /\ Torn(GroupDay, seg).seg = seg /\ Torn(GroupDay, seg).seq = 0 /\ Torn(GroupDay, seg).eol = FALSE
      /\ Torn(GroupDay, seg).id = 0 /\ Torn(GroupDay, seg).hash = Genesis
  BY <1>1 DEF Torn, Lines, Genesis, Hashes
<1>3. /\ ls \in Seq(Lines) /\ Len(ls) = IF torn THEN n + 1 ELSE n
      /\ \A i \in 1 .. n : ls[i] = GroupLines(n, seg)[i]
      /\ torn => ls[n + 1] = Torn(GroupDay, seg)
  BY <1>1, <1>2
<1> HIDE DEF ls
<1>4. \A i \in 1 .. Len(ls) : ls[i].day = GroupDay /\ ls[i].seg = seg
  <2> SUFFICES ASSUME NEW i \in 1 .. Len(ls) PROVE ls[i].day = GroupDay /\ ls[i].seg = seg
    OBVIOUS
  <2>1. CASE i \in 1 .. n
    BY SMTT(60), <2>1, <1>3, GroupLineFacts
  <2>2. CASE i \notin 1 .. n
    <3>1. torn /\ i = n + 1
      BY <2>2, <1>3
    <3> QED BY <3>1, <1>2, <1>3
  <2> QED BY <2>1, <2>2
<1>5. disk \in Seq(Lines) /\ floor \in Nat
  BY DEF TypeOK, DiskType, MemType
<1>6. \A i \in DOMAIN disk : disk[i].day <= GroupDay
  BY <1>1, <1>5, LineFacts
<1>7. \A i \in DOMAIN disk : ~KeyBefore(<<GroupDay, seg>>, Key(disk[i]))
  BY <1>1, <1>5, <1>6, TargetIsNewest
<1>8. AppendLines(disk, <<GroupDay, seg>>, ls, e)
  BY DEF ls
<1>9. /\ e \in Seq(Lines) /\ Len(e) = Len(disk) + Len(ls)
      /\ \A i \in 1 .. Len(disk) :
           /\ e[i].id = disk[i].id /\ e[i].seq = disk[i].seq /\ e[i].prev = disk[i].prev
           /\ e[i].hash = disk[i].hash /\ e[i].day = disk[i].day /\ e[i].seg = disk[i].seg
      /\ \A i \in 1 .. Len(ls) : e[Len(disk) + i] = ls[i]
  BY SMTT(60), <1>1, <1>3, <1>5, <1>7, <1>8, AppendAtEnd
<1>10. ASSUME NEW i \in DOMAIN e
       PROVE  \/ i \in 1 .. Len(disk) /\ Key(e[i]) = Key(disk[i]) /\ e[i].day = disk[i].day
              \/ i > Len(disk) /\ Key(e[i]) = <<GroupDay, seg>> /\ e[i].day = GroupDay
  <2>1. CASE i \in 1 .. Len(disk)
    BY <2>1, <1>9 DEF Key
  <2>2. CASE i > Len(disk)
    <3>1. i - Len(disk) \in 1 .. Len(ls) /\ i = Len(disk) + (i - Len(disk))
      BY SMTT(60), <2>2, <1>3, <1>5, <1>9
    <3>2. e[i] = ls[i - Len(disk)]
      BY <3>1, <1>9
    <3> QED BY <2>2, <3>1, <3>2, <1>4 DEF Key
  <2> QED BY <2>1, <2>2, <1>5, <1>9
<1>11. Sorted(e)
  <2> SUFFICES ASSUME NEW i \in DOMAIN e, NEW j \in DOMAIN e, i < j
               PROVE  ~KeyBefore(Key(e[j]), Key(e[i]))
    BY DEF Sorted
  <2>1. CASE j \in 1 .. Len(disk)
    <3>1. i \in 1 .. Len(disk)
      BY <2>1, <1>5, <1>9
    <3>2. Key(e[i]) = Key(disk[i]) /\ Key(e[j]) = Key(disk[j])
      BY <2>1, <3>1, <1>5, <1>10
    <3>3. ~KeyBefore(Key(disk[j]), Key(disk[i]))
      BY <2>1, <3>1, <1>5 DEF Sorted
    <3> QED BY <3>2, <3>3
  <2>2. CASE j > Len(disk) /\ i \in 1 .. Len(disk)
    BY <2>2, <1>5, <1>7, <1>10
  <2>3. CASE j > Len(disk) /\ i > Len(disk)
    <3>1. Key(e[j]) = <<GroupDay, seg>> /\ Key(e[i]) = <<GroupDay, seg>>
      BY <2>3, <1>5, <1>10
    <3> QED BY <3>1, <1>1 DEF KeyBefore
  <2> QED BY <2>1, <2>2, <2>3, <1>5, <1>9
<1>12. Appended(n, e)
  <2>1. \A i \in 1 .. n : i \in 1 .. Len(ls) /\ e[Len(disk) + i] = GroupLines(n, seg)[i]
    <3>1. n \in Nat
      BY <1>1
    <3>2. \A i \in 1 .. n : i \in 1 .. Len(ls)
      BY <1>3, <3>1
    <3> QED BY <1>3, <1>9, <3>2
  <2>2. ASSUME NEW i \in 1 .. n
        PROVE  /\ e[Len(disk) + i].id = batch[written + i].id /\ e[Len(disk) + i].seq = batch[written + i].seq
               /\ e[Len(disk) + i].prev = batch[written + i].prev /\ e[Len(disk) + i].hash = batch[written + i].hash
    <3>1. /\ GroupLines(n, seg)[i].id = batch[written + i].id
          /\ GroupLines(n, seg)[i].seq = batch[written + i].seq
          /\ GroupLines(n, seg)[i].prev = batch[written + i].prev
          /\ GroupLines(n, seg)[i].hash = batch[written + i].hash
      BY GroupLineFacts
    <3> QED BY <2>1, <3>1
  <2>3. Len(e) >= Len(disk) + n
    BY <1>3, <1>5, <1>9
  <2> QED BY <1>9, <2>2, <2>3 DEF Appended
<1>13. torn => IsTorn(e[Len(e)]) /\ ~e[Len(e)].eol /\ e[Len(e)].id = 0 /\ e[Len(e)].hash = Genesis
  BY <1>2, <1>3, <1>5, <1>9 DEF IsTorn
<1>14. Len(e) = IF torn THEN Len(disk) + n + 1 ELSE Len(disk) + n
  BY <1>3, <1>5, <1>9
<1>15. \A i \in DOMAIN e : e[i].day <= GroupDay
  BY <1>1, <1>6, <1>10
<1> QED BY <1>11, <1>12, <1>13, <1>14, <1>15

\* The lines without the fragment at the end.
LEMMA IntactFacts ==
  ASSUME NEW d \in Seq(Lines)
  PROVE  /\ Intact(d) \in Seq(Lines)
         /\ \A i \in 1 .. Len(Intact(d)) : i \in DOMAIN d /\ Intact(d)[i] = d[i]
         /\ (d = <<>> \/ ~IsTorn(d[Len(d)])) => Intact(d) = d
         /\ (d # <<>> /\ IsTorn(d[Len(d)])) =>
              Intact(d) = SubSeq(d, 1, Len(d) - 1) /\ Len(Intact(d)) = Len(d) - 1
<1>1. CASE d = <<>> \/ ~IsTorn(d[Len(d)])
  BY <1>1 DEF Intact
<1>2. CASE d # <<>> /\ IsTorn(d[Len(d)])
  <2>1. Intact(d) = SubSeq(d, 1, Len(d) - 1)
    BY <1>2 DEF Intact
  <2>2. PICK f : f = SubSeq(d, 1, Len(d) - 1)
    OBVIOUS
  <2>a. Len(d) \in Nat \ {0}
    BY <1>2
  <2>b. Len(d) - 1 \in 0 .. Len(d)
    BY <2>a
  <2>3. f \in Seq(Lines) /\ Len(f) = Len(d) - 1 /\ \A i \in 1 .. Len(d) - 1 : i \in DOMAIN d /\ f[i] = d[i]
    BY <2>2, <2>a, <2>b, FrontType
  <2>4. /\ Intact(d) \in Seq(Lines)
        /\ \A i \in 1 .. Len(Intact(d)) : i \in DOMAIN d /\ Intact(d)[i] = d[i]
        /\ Len(Intact(d)) = Len(d) - 1
    BY <2>1, <2>2, <2>3
  <2> QED BY <1>2, <2>1, <2>4
<1> QED BY <1>1, <1>2

\* The newest file is one of those start-up looks at.
LEMMA NewestIsRecent ==
  ASSUME NEW d \in Seq(Lines), Sorted(d), d # <<>>
  PROVE  Key(d[Len(d)]) \in RecentFiles(d)
<1>1. Len(d) \in DOMAIN d /\ Key(d[Len(d)]) \in FileKeys(d)
  BY DEF FileKeys
<1>2. \A m \in FileKeys(d) : ~KeyBefore(Key(d[Len(d)]), m)
  <2> SUFFICES ASSUME NEW i \in DOMAIN d
               PROVE  ~KeyBefore(Key(d[Len(d)]), Key(d[i]))
    BY DEF FileKeys
  <2>1. CASE i = Len(d)
    BY <2>1, LineFacts DEF KeyBefore
  <2>2. CASE i # Len(d)
    BY <2>2, <1>1 DEF Sorted
  <2> QED BY <2>1, <2>2
<1>3. {m \in FileKeys(d) : KeyBefore(Key(d[Len(d)]), m)} = {}
  BY <1>2
<1>4. Cardinality({m \in FileKeys(d) : KeyBefore(Key(d[Len(d)]), m)}) = 0
  BY <1>3, FS_EmptySet
<1> QED BY <1>1, <1>4, SizesAssumption DEF RecentFiles

\* Retention takes the lines of the first file.
LEMMA RemoveFileFacts ==
  ASSUME TypeOK, Sorted(disk), NonePassedOver, RemoveFile
  PROVE  \E b \in 1 .. Len(disk) :
           /\ disk' = SubSeq(disk, b + 1, Len(disk))
           /\ pass' = IF disk[b].seq > pass.best.seq
                        THEN [pass EXCEPT !.best = Mark(disk[b])] ELSE pass
<1>1. disk \in Seq(Lines) /\ pass.cutoff \in Int
  BY DEF TypeOK, DiskType, FlushType, Passes
<1>2. PICK i \in DOMAIN disk, a \in DOMAIN disk, b \in DOMAIN disk :
        /\ IsVictim(Key(disk[i])) /\ IsLastLine(i)
        /\ Key(disk[b]) = Key(disk[i]) /\ \A j \in b + 1 .. Len(disk) : Key(disk[j]) # Key(disk[i])
        /\ pass' = IF disk[i].seq > pass.best.seq THEN [pass EXCEPT !.best = Mark(disk[i])] ELSE pass
        /\ \A j \in 1 .. a - 1 : Key(disk[j]) # Key(disk[i])
        /\ disk' = Cut(disk, a, b)
  BY DEF RemoveFile
<1>3. 1 \in DOMAIN disk
  BY <1>1, <1>2
<1>4. ~KeyBefore(Key(disk[i]), Key(disk[1]))
  <2>1. CASE i = 1
    BY <2>1, <1>1, <1>3, LineFacts DEF KeyBefore
  <2>2. CASE i # 1
    BY <2>2, <1>1, <1>2, <1>3 DEF Sorted
  <2> QED BY <2>1, <2>2
<1>5. Key(disk[1]) = Key(disk[i])
  <2>1. Key(disk[1]) \in FileKeys(disk) /\ Key(disk[i]) \in FileKeys(disk)
    BY <1>2, <1>3 DEF FileKeys
  <2>2. CASE Expired = {}
    <3>1. OldestOf(Key(disk[i]), FileKeys(disk))
      BY <1>2, <2>2 DEF IsVictim, Kept, NonePassedOver
    <3> QED BY <1>4, <2>1, <3>1 DEF OldestOf
  <2>3. CASE Expired # {}
    <3>1. OldestOf(Key(disk[i]), Expired)
      BY <1>2, <2>3 DEF IsVictim
    <3>2. Key(disk[i])[1] < pass.cutoff
      BY <3>1 DEF OldestOf, Expired
    <3>3. Key(disk[i])[1] = disk[i].day /\ Key(disk[1])[1] = disk[1].day
          /\ disk[i].day \in Nat /\ disk[1].day \in Nat
      BY <1>1, <1>2, <1>3, LineFacts DEF Key
    <3>4. Key(disk[1])[1] <= Key(disk[i])[1]
      BY <1>4, <3>3 DEF KeyBefore
    <3>5. Key(disk[1])[1] < pass.cutoff
      BY <1>1, <3>2, <3>3, <3>4
    <3>6. Key(disk[1]) \in Expired
      BY <2>1, <3>5 DEF Expired, NonePassedOver
    <3> QED BY <1>4, <3>1, <3>6 DEF OldestOf
  <2> QED BY <2>2, <2>3
<1>6. a = 1
  <2>1. a # 1 => 1 \in 1 .. a - 1
    BY <1>1, <1>2
  <2> QED BY <1>2, <1>5, <2>1
<1>7. Cut(disk, 1, b) = SubSeq(disk, b + 1, Len(disk))
  <2>1. SubSeq(disk, b + 1, Len(disk)) \in Seq(Lines)
    BY <1>1, <1>2
  <2>2. SubSeq(disk, 1, 1 - 1) = <<>>
    BY <1>1
  <2>3. PICK rest \in Seq(Lines) : rest = SubSeq(disk, b + 1, Len(disk))
    BY <2>1
  <2>4. <<>> \o rest = rest
    OBVIOUS
  <2>5. Cut(disk, 1, b) = SubSeq(disk, 1, 1 - 1) \o SubSeq(disk, b + 1, Len(disk))
    BY Zenon DEF Cut
  <2> QED BY <2>2, <2>3, <2>4, <2>5, Zenon
<1>8. i = b
  <2>1. b <= i
    BY <1>2 DEF IsLastLine
  <2>2. ~(b < i)
    <3>1. b < i => i \in b + 1 .. Len(disk)
      BY <1>1, <1>2
    <3> QED BY <1>2, <3>1
  <2> QED BY <1>1, <1>2, <2>1, <2>2
<1> QED
  <2>1. b \in 1 .. Len(disk) /\ disk' = SubSeq(disk, b + 1, Len(disk))
    BY <1>1, <1>2, <1>6, <1>7
  <2> QED BY <1>2, <1>8, <2>1, Zenon

\* A stretch of a disk at its front or at its end is in order, and has no
\* lines that were not there.
LEMMA FrontSorted ==
  ASSUME NEW d \in Seq(Lines), Sorted(d), NEW a \in 0 .. Len(d)
  PROVE  Sorted(SubSeq(d, 1, a))
<1>1. PICK e : e = SubSeq(d, 1, a)
  OBVIOUS
<1>2. e \in Seq(Lines) /\ Len(e) = a /\ \A i \in 1 .. a : i \in DOMAIN d /\ e[i] = d[i]
  BY <1>1, FrontType
<1>3. Sorted(e)
  BY <1>2 DEF Sorted
<1> QED BY <1>1, <1>3

\* Expiry from the front leaves the file order.
LEMMA RestSorted ==
  ASSUME NEW d \in Seq(Lines), Sorted(d), NEW a \in 0 .. Len(d)
  PROVE  /\ Sorted(SubSeq(d, a + 1, Len(d)))
         /\ \A i \in DOMAIN SubSeq(d, a + 1, Len(d)) :
              a + i \in DOMAIN d /\ SubSeq(d, a + 1, Len(d))[i] = d[a + i]
<1>1. PICK e : e = SubSeq(d, a + 1, Len(d))
  OBVIOUS
<1>2. e \in Seq(Lines) /\ Len(e) = Len(d) - a /\ \A i \in 1 .. Len(d) - a : e[i] = d[a + i]
  BY <1>1, RestType
<1>3. \A i \in DOMAIN e : a + i \in DOMAIN d /\ e[i] = d[a + i]
  BY <1>2
<1>4. Sorted(e)
  <2> SUFFICES ASSUME NEW i \in DOMAIN e, NEW j \in DOMAIN e, i < j
               PROVE  ~KeyBefore(Key(e[j]), Key(e[i]))
    BY DEF Sorted
  <2>1. a + i \in DOMAIN d /\ a + j \in DOMAIN d /\ a + i < a + j
    BY <1>2, <1>3
  <2> QED BY <1>3, <2>1 DEF Sorted
<1> QED BY <1>1, <1>3, <1>4

\* The records of a flush are numbered from the chain on.
LEMMA BatchNumbers ==
  ASSUME TypeOK, PreparedFollowsBuffer
  PROVE  \A i \in DOMAIN batch :
           /\ i \in DOMAIN prepared /\ i \in DOMAIN buffer /\ batch[i] = prepared[i] /\ batch[i].id = buffer[i].id
           /\ batch[i].seq = chain.seq + i /\ batch[i].seq > 0 /\ batch[i] \in Prepared
<1>1. /\ batch \in Seq(Prepared) /\ prepared \in Seq(Prepared) /\ buffer \in Seq(Records)
      /\ chain.seq \in Nat
  BY DEF TypeOK, MemType, FlushType, Marks
<1>2. \A i \in DOMAIN batch : i \in DOMAIN prepared /\ i \in DOMAIN buffer
  BY <1>1 DEF PreparedFollowsBuffer
<1>3. \A i \in DOMAIN batch : batch[i] = prepared[i] /\ prepared[i].id = buffer[i].id /\ prepared[i].seq = chain.seq + i
  BY <1>2 DEF PreparedFollowsBuffer
<1> QED BY <1>1, <1>2, <1>3

\* Whole lines and a fragment appended keep the lines whole but for the last.
LEMMA PartialKeeps ==
  ASSUME TypeOK, PreparedFollowsBuffer, Sorted(disk), written < Len(batch),
         \A i \in DOMAIN disk : disk[i].day <= floor /\ ~IsTorn(disk[i]), NEW d, PartialAppend(d)
  PROVE  \E n \in 0 .. Len(batch) - written :
           /\ Appended(n, d) /\ Sorted(d)
           /\ \A i \in 1 .. Len(disk) + n : i \in DOMAIN d /\ ~IsTorn(d[i])
           /\ \/ Len(d) = Len(disk) + n
              \/ /\ Len(d) = Len(disk) + n + 1 /\ IsTorn(d[Len(d)]) /\ ~d[Len(d)].eol
                 /\ d[Len(d)].id = 0 /\ d[Len(d)].hash = Genesis
<1>1. PICK n \in 0 .. Len(batch) - written, seg \in 0 .. Len(disk), torn \in BOOLEAN :
        /\ IsTarget(disk, GroupDay, seg)
        /\ AppendLines(disk, <<GroupDay, seg>>,
             IF torn THEN Append(GroupLines(n, seg), Torn(GroupDay, seg)) ELSE GroupLines(n, seg), d)
  BY DEF PartialAppend
<1>2. seg \in Nat /\ disk \in Seq(Lines) /\ batch \in Seq(Prepared) /\ written \in 0 .. Len(batch)
  BY DEF TypeOK, DiskType, FlushType
<1>3. /\ Appended(n, d) /\ Sorted(d)
      /\ Len(d) = IF torn THEN Len(disk) + n + 1 ELSE Len(disk) + n
      /\ torn => IsTorn(d[Len(d)]) /\ ~d[Len(d)].eol /\ d[Len(d)].id = 0 /\ d[Len(d)].hash = Genesis
  BY <1>1, <1>2, GroupAppended
<1>4. ASSUME NEW i \in 1 .. Len(disk) + n
      PROVE  i \in DOMAIN d /\ ~IsTorn(d[i])
  <2>1. i \in DOMAIN d
    BY <1>2, <1>3 DEF Appended
  <2>2. CASE i \in 1 .. Len(disk)
    BY <1>2, <1>3, <2>1, <2>2 DEF Appended, IsTorn
  <2>3. CASE i \notin 1 .. Len(disk)
    <3>1. i - Len(disk) \in 1 .. n /\ i = Len(disk) + (i - Len(disk))
          /\ written + (i - Len(disk)) \in DOMAIN batch
      BY <1>2, <2>3
    <3>2. d[i].seq = batch[written + (i - Len(disk))].seq
      BY <1>3, <3>1 DEF Appended
    <3> QED BY <2>1, <3>1, <3>2, BatchNumbers DEF IsTorn
  <2> QED BY <2>2, <2>3
<1> QED BY <1>3, <1>4

\* Cutting off the last line.
LEMMA CutLast ==
  ASSUME disk \in Seq(Lines), disk # <<>>
  PROVE  Repaired(Len(disk)) = SubSeq(disk, 1, Len(disk) - 1)
<1>1. Len(disk) - 1 \in 0 .. Len(disk) /\ Len(disk) \in 0 .. Len(disk)
  BY DEF Repaired
<1>2. PICK f \in Seq(Lines) : f = SubSeq(disk, 1, Len(disk) - 1)
  BY <1>1, FrontType
<1>3. SubSeq(disk, Len(disk) + 1, Len(disk)) = <<>>
  BY <1>1, RestType
<1>4. f \o <<>> = f
  OBVIOUS
<1>5. Repaired(Len(disk)) = SubSeq(disk, 1, Len(disk) - 1) \o SubSeq(disk, Len(disk) + 1, Len(disk))
  BY Zenon DEF Repaired, Cut
<1> QED BY <1>2, <1>3, <1>4, <1>5, Zenon

\* Start-up and flushes keep the files in order, whole and under the day floor.
LEMMA DiskStep ==
  ASSUME ~TrimMayFail, ~RemoveMayFail, AuditInv, DiskInv, [Next]_vars \/ VerifierFlush
  PROVE  DiskInv'
<1> USE DEF memVars, flushVars, diskVars, storeVars, envVars
<1>0. /\ TypeOK /\ FlushInv /\ PreparedFollowsBuffer /\ disk \in Seq(Lines) /\ floor \in Nat
      /\ Sorted(disk) /\ TornLast /\ FloorHolds /\ NonePassedOver
  BY DEF AuditInv, DiskInv, TypeOK, DiskType, MemType
<1>a. flushPc # "idle" =>
        /\ phase \in {"up", "stopping", "stopped"}
        /\ \A i \in DOMAIN disk : disk[i].day <= floor /\ ~IsTorn(disk[i])
  BY <1>0 DEF FlushInv, TypeOK, MemType, TornLast, FloorHolds
<1>1. CASE AppendGroup
  <2>1. PICK n \in 1 .. Len(batch) - written, seg \in 0 .. Len(disk) :
          /\ IsTarget(disk, GroupDay, seg)
          /\ AppendLines(disk, <<GroupDay, seg>>, GroupLines(n, seg), disk')
    BY <1>1 DEF AppendGroup
  <2>2. /\ written < Len(batch) /\ n \in 0 .. Len(batch) - written /\ seg \in Nat
        /\ written \in 0 .. Len(batch) /\ batch \in Seq(Prepared)
    BY <1>0, <1>1 DEF AppendGroup, FlushInv, TypeOK, FlushType
  <2>3. /\ Appended(n, disk') /\ Sorted(disk') /\ Len(disk') = Len(disk) + n
        /\ \A i \in DOMAIN disk' : disk'[i].day <= GroupDay
    <3>1. \A i \in DOMAIN disk : disk[i].day <= floor /\ ~IsTorn(disk[i])
      BY <1>1, <1>a DEF AppendGroup
    <3> QED BY <1>0, <2>1, <2>2, <3>1, GroupAppended
  <2>4. ASSUME NEW i \in DOMAIN disk'
        PROVE  ~IsTorn(disk'[i])
    <3>1. CASE i \in 1 .. Len(disk)
      <4>1. disk'[i].seq = disk[i].seq /\ ~IsTorn(disk[i])
        <5>1. flushPc # "idle" /\ i \in DOMAIN disk
          BY <1>0, <1>1, <3>1 DEF AppendGroup
        <5> QED BY <1>a, <2>3, <3>1, <5>1 DEF Appended
      <4> QED BY <4>1 DEF IsTorn
    <3>2. CASE i \notin 1 .. Len(disk)
      <4>1. i - Len(disk) \in 1 .. n /\ i = Len(disk) + (i - Len(disk))
            /\ written + (i - Len(disk)) \in DOMAIN batch
        BY SMTT(60), <1>0, <2>2, <2>3, <3>2 DEF Appended
      <4>2. disk'[i].seq = batch[written + (i - Len(disk))].seq
        BY <2>3, <4>1 DEF Appended
      <4> QED BY <1>0, <4>1, <4>2, BatchNumbers DEF IsTorn
    <3> QED BY <3>1, <3>2
  <2>5. floor' = GroupDay /\ phase' = phase /\ pass' = pass
    BY <1>1 DEF AppendGroup
  <2> QED BY <1>0, <2>3, <2>4, <2>5 DEF DiskInv, TornLast, FloorHolds, NonePassedOver
<1>2. CASE RemoveFile
  <2>1. PICK b \in 1 .. Len(disk) : disk' = SubSeq(disk, b + 1, Len(disk))
    BY <1>0, <1>2, RemoveFileFacts
  <2>2. Sorted(disk') /\ \A i \in DOMAIN disk' : \E j \in DOMAIN disk : disk'[i] = disk[j]
    <3>1. b \in 0 .. Len(disk)
      BY <1>0
    <3>2. /\ Sorted(SubSeq(disk, b + 1, Len(disk)))
          /\ \A i \in DOMAIN SubSeq(disk, b + 1, Len(disk)) :
               b + i \in DOMAIN disk /\ SubSeq(disk, b + 1, Len(disk))[i] = disk[b + i]
      BY <1>0, <3>1, RestSorted
    <3> QED BY <2>1, <3>2, Zenon
  <2>3. \A i \in DOMAIN disk' : disk'[i].day <= floor /\ ~IsTorn(disk'[i])
    BY <1>2, <1>a, <2>2 DEF RemoveFile
  <2>4. phase' = phase /\ floor' = floor /\ pass'.aged = pass.aged /\ pass'.skipped = pass.skipped
    BY <1>2, <1>0 DEF RemoveFile, TypeOK, FlushType, Passes
  <2> QED BY <1>0, <2>2, <2>3, <2>4 DEF DiskInv, TornLast, FloorHolds, NonePassedOver
<1>3. CASE RepairTornTail
  <2>1. phase = "repair" /\ floor' = floor /\ pass' = pass /\ phase' # "down"
    BY <1>3 DEF RepairTornTail
  <2>2. CASE TornTails # {} /\ UNCHANGED phase
    <3>1. PICK i \in TornTails : disk' = Repaired(i)
      BY <1>3, <2>1, <2>2 DEF RepairTornTail
    <3>2. i = Len(disk) /\ i \in DOMAIN disk
      BY <1>0, <3>1 DEF TornTails, TornLast
    <3>3. disk' = SubSeq(disk, 1, Len(disk) - 1)
      BY <1>0, <3>1, <3>2, CutLast
    <3>4. Len(disk) - 1 \in 0 .. Len(disk)
      BY <1>0, <3>2
    <3>5. Sorted(disk')
      BY <1>0, <3>3, <3>4, FrontSorted
    <3>6. \A j \in DOMAIN disk' : j \in DOMAIN disk /\ j # Len(disk) /\ disk'[j] = disk[j]
      <4>1. Len(disk') = Len(disk) - 1 /\ disk' \in Seq(Lines)
            /\ \A j \in 1 .. Len(disk) - 1 : j \in DOMAIN disk /\ disk'[j] = disk[j]
        BY <1>0, <3>3, <3>4, FrontType
      <4>2. DOMAIN disk' = 1 .. Len(disk) - 1
        BY <1>0, <4>1
      <4> QED BY <1>0, <4>1, <4>2
    <3>7. \A j \in DOMAIN disk' : ~IsTorn(disk'[j]) /\ disk'[j].day <= floor
      BY <1>0, <2>1, <3>6 DEF TornLast, FloorHolds
    <3> QED BY <1>0, <2>1, <3>5, <3>7 DEF DiskInv, TornLast, FloorHolds, NonePassedOver
  <2>3. CASE ~(TornTails # {} /\ UNCHANGED phase)
    <3>1. TornTails = {} /\ disk' = disk
      BY <1>3, <2>3 DEF RepairTornTail
    <3>2. \A j \in DOMAIN disk : ~IsTorn(disk[j])
      <4> SUFFICES ASSUME NEW j \in DOMAIN disk, IsTorn(disk[j]) PROVE FALSE
        OBVIOUS
      <4>1. j = Len(disk) /\ ~disk[j].eol /\ disk # <<>>
        BY <1>0 DEF TornLast
      <4>2. Key(disk[j]) \in RecentFiles(disk)
        BY <1>0, <4>1, NewestIsRecent
      <4> QED BY <3>1, <4>1, <4>2 DEF TornTails
    <3> QED BY <1>0, <2>1, <3>1, <3>2 DEF DiskInv, TornLast, FloorHolds, NonePassedOver
  <2> QED BY <2>2, <2>3
<1>4. CASE LoadHead
  <2>1. /\ phase = "down" /\ phase' = "repair" /\ disk' = disk /\ pass' = pass
        /\ floor' = NewestDay(disk)
    BY <1>4 DEF LoadHead
  <2>2. ASSUME NEW i \in DOMAIN disk
        PROVE  disk[i].day <= NewestDay(disk)
    <3>1. disk # <<>> /\ Len(disk) \in DOMAIN disk /\ NewestDay(disk) = disk[Len(disk)].day
      BY <1>0 DEF NewestDay
    <3>2. disk[i].day \in Nat /\ disk[Len(disk)].day \in Nat
      BY <1>0, <3>1, LineFacts
    <3>3. i # Len(disk) => ~KeyBefore(Key(disk[Len(disk)]), Key(disk[i]))
      BY <1>0, <3>1 DEF Sorted
    <3>4. i # Len(disk) => ~(disk[Len(disk)].day < disk[i].day)
      BY <3>3 DEF KeyBefore, Key
    <3> QED BY <3>1, <3>2, <3>4
  <2> QED BY <1>0, <2>1, <2>2 DEF DiskInv, TornLast, FloorHolds, NonePassedOver
<1>5. CASE Unload \/ Crash
  <2>1. phase' = "down" /\ pass' = NoPass
    BY <1>5 DEF Unload, Crash, LoseMemory
  <2>2. CASE disk' = disk
    BY <1>0, <2>1, <2>2 DEF DiskInv, TornLast, FloorHolds, NonePassedOver, NoPass
  <2>3. CASE disk' # disk
    <3>1. flushPc = "append" /\ PartialAppend(disk')
      BY <1>5, <2>3 DEF Unload, Crash
    <3>2. written < Len(batch)
      BY <1>0, <3>1 DEF FlushInv
    <3>3. PICK n \in 0 .. Len(batch) - written :
            /\ Appended(n, disk') /\ Sorted(disk')
            /\ \A i \in 1 .. Len(disk) + n : i \in DOMAIN disk' /\ ~IsTorn(disk'[i])
            /\ \/ Len(disk') = Len(disk) + n
               \/ Len(disk') = Len(disk) + n + 1 /\ IsTorn(disk'[Len(disk')]) /\ ~disk'[Len(disk')].eol
      BY <1>0, <1>a, <3>1, <3>2, PartialKeeps
    <3>4. \A i \in DOMAIN disk' : IsTorn(disk'[i]) => i = Len(disk') /\ ~disk'[i].eol
      <4>1. disk' \in Seq(Lines)
        BY <3>3 DEF Appended
      <4> QED BY <1>0, <3>3, <4>1
    <3> QED BY <2>1, <3>3, <3>4 DEF DiskInv, TornLast, FloorHolds, NonePassedOver, NoPass
  <2> QED BY <2>2, <2>3
<1>6. CASE LoseDirectory
  BY <1>0, <1>6 DEF LoseDirectory, DiskInv, Sorted, TornLast, FloorHolds, NonePassedOver
<1>7. CASE AppendFails \/ WriteHead \/ WriteHeadFails \/ SkipRetention \/ RemoveFileFails
  BY <1>0, <1>7 DEF AppendFails, WriteHead, WriteHeadFails, SkipRetention, RemoveFileFails,
       DiskInv, Sorted, TornLast, FloorHolds, NonePassedOver
<1>8. CASE BeginRetention \/ EndRetention
  BY <1>0, <1>8 DEF BeginRetention, EndRetention, NoPass, DiskInv, Sorted, TornLast, FloorHolds, NonePassedOver
<1>9. CASE EndFlush
  <2>1. phase' # "down" /\ disk' = disk /\ floor' = floor /\ pass' = pass
    BY <1>9, <1>a DEF EndFlush
  <2> QED BY <1>9, <1>a, <2>1, <1>0 DEF EndFlush, DiskInv, Sorted, TornLast, FloorHolds, NonePassedOver
<1>10. CASE RebuildHead \/ DetectReset
  BY <1>0, <1>10 DEF RebuildHead, DetectReset, DiskInv, Sorted, TornLast, FloorHolds, NonePassedOver
<1>11. CASE (\E kind \in {"low", "high"} : Log(kind)) \/ Query \/ TimerFlush \/ VerifierFlush \/ TaskFlush \/ TaskFlushEmpty
  BY <1>0, <1>11 DEF Log, Query, TimerFlush, VerifierFlush, TaskFlush, TaskFlushEmpty, BeginFlush,
       DiskInv, Sorted, TornLast, FloorHolds, NonePassedOver
<1>12. CASE SaveStore \/ BeginStop \/ StopFlush \/ StopFlushEmpty \/ ClockMoves
  BY <1>0, <1>12 DEF SaveStore, BeginStop, StopFlush, StopFlushEmpty, ClockMoves, BeginFlush,
       DiskInv, Sorted, TornLast, FloorHolds, NonePassedOver
<1>13. CASE UNCHANGED vars
  BY <1>0, <1>13 DEF vars, DiskInv, Sorted, TornLast, FloorHolds, NonePassedOver
<1> QED
  BY <1>1, <1>2, <1>3, <1>4, <1>5, <1>6, <1>7, <1>8, <1>9, <1>10, <1>11, <1>12, <1>13
     DEF Next, FlushStep, IOError, StartStep, StopStep

-----------------------------------------------------------------------------
(* The log without hashes and files                                        *)

\* The first n numbers of a sequence.
LEMMA NumberFront ==
  ASSUME NEW s \in Seq(Nat), NEW n \in 0 .. Len(s)
  PROVE  /\ SubSeq(s, 1, n) \in Seq(Nat) /\ Len(SubSeq(s, 1, n)) = n
         /\ \A i \in 1 .. n : SubSeq(s, 1, n)[i] = s[i]
  OBVIOUS

\* The numbers after the first n.
LEMMA NumberRest ==
  ASSUME NEW s \in Seq(Nat), NEW n \in 0 .. Len(s)
  PROVE  /\ SubSeq(s, n + 1, Len(s)) \in Seq(Nat) /\ Len(SubSeq(s, n + 1, Len(s))) = Len(s) - n
         /\ \A i \in 1 .. Len(s) - n : SubSeq(s, n + 1, Len(s))[i] = s[n + i]
  OBVIOUS

\* Sequences of the same elements are equal.
LEMMA SameSeq ==
  ASSUME NEW S, NEW s \in Seq(S), NEW t \in Seq(S), Len(s) = Len(t), \A i \in 1 .. Len(s) : s[i] = t[i]
  PROVE  s = t
  OBVIOUS

\* The numbers of acceptance of a sequence of records.
LEMMA IdsFacts ==
  ASSUME NEW S, NEW rs \in Seq(S), \A r \in S : r.id \in Nat
  PROVE  /\ Ids(rs) \in Seq(Nat) /\ Len(Ids(rs)) = Len(rs)
         /\ \A i \in 1 .. Len(rs) : Ids(rs)[i] = rs[i].id
<1>1. \A i \in 1 .. Len(rs) : rs[i].id \in Nat
  OBVIOUS
<1>2. Ids(rs) = [i \in 1 .. Len(rs) |-> rs[i].id]
  BY DEF Ids
<1> QED BY <1>1, <1>2

\* What waits in memory.
LEMMA PendingFacts ==
  ASSUME TypeOK, PreparedFollowsBuffer
  PROVE  /\ Pending \in Seq(Records) /\ Len(Pending) = Len(buffer) - written
         /\ written \in 0 .. Len(buffer) /\ written <= Len(batch) /\ Len(batch) <= Len(buffer)
         /\ \A i \in 1 .. Len(Pending) : Pending[i] = buffer[written + i]
         /\ Ids(Pending) \in Seq(Nat) /\ Len(Ids(Pending)) = Len(Pending)
         /\ \A i \in 1 .. Len(Pending) : Ids(Pending)[i] = buffer[written + i].id
<1>1. /\ buffer \in Seq(Records) /\ prepared \in Seq(Prepared) /\ batch \in Seq(Prepared)
      /\ written \in 0 .. Len(batch) /\ Len(batch) <= Len(prepared) /\ Len(prepared) <= Len(buffer)
  BY DEF TypeOK, MemType, FlushType, PreparedFollowsBuffer
<1>2. written \in 0 .. Len(buffer) /\ written <= Len(batch) /\ Len(batch) <= Len(buffer)
  BY <1>1
<1>3. /\ Pending \in Seq(Records) /\ Len(Pending) = Len(buffer) - written
      /\ \A i \in 1 .. Len(buffer) - written : Pending[i] = buffer[written + i]
  BY <1>1, <1>2, RestType DEF Pending
<1>4. \A r \in Records : r.id \in Nat
  BY DEF Records
<1>5. /\ Ids(Pending) \in Seq(Nat) /\ Len(Ids(Pending)) = Len(Pending)
      /\ \A i \in 1 .. Len(Pending) : Ids(Pending)[i] = Pending[i].id
  BY <1>3, <1>4, IdsFacts
<1> QED BY <1>2, <1>3, <1>5

\* The whole lines of a disk.
LEMMA IntactIds ==
  ASSUME NEW d \in Seq(Lines)
  PROVE  /\ Ids(Intact(d)) \in Seq(Nat) /\ Len(Ids(Intact(d))) = Len(Intact(d))
         /\ \A i \in 1 .. Len(Intact(d)) : Ids(Intact(d))[i] = d[i].id
<1>1. \A l \in Lines : l.id \in Nat
  BY DEF Lines
<1>2. Intact(d) \in Seq(Lines) /\ \A i \in 1 .. Len(Intact(d)) : Intact(d)[i] = d[i]
  BY IntactFacts
<1>3. /\ Ids(Intact(d)) \in Seq(Nat) /\ Len(Ids(Intact(d))) = Len(Intact(d))
      /\ \A i \in 1 .. Len(Intact(d)) : Ids(Intact(d))[i] = Intact(d)[i].id
  BY <1>1, <1>2, IdsFacts
<1> QED BY <1>2, <1>3

\* A disk whose last line is whole, or that has none.
LEMMA IntactWhole ==
  ASSUME NEW d \in Seq(Lines), \A i \in DOMAIN d : ~IsTorn(d[i])
  PROVE  Intact(d) = d
  BY IntactFacts

\* The whole lines after an append: those before it and those of the group.
LEMMA IntactAppended ==
  ASSUME TypeOK, NEW d, NEW n \in Nat, Appended(n, d), \A i \in DOMAIN disk : ~IsTorn(disk[i]),
         \A i \in 1 .. Len(disk) + n : i \in DOMAIN d /\ ~IsTorn(d[i]),
         \/ Len(d) = Len(disk) + n
         \/ Len(d) = Len(disk) + n + 1 /\ IsTorn(d[Len(d)])
  PROVE  /\ Intact(disk) = disk /\ Intact(d) \in Seq(Lines)
         /\ Len(Intact(d)) = Len(disk) + n
         /\ \A i \in 1 .. Len(disk) + n : Intact(d)[i] = d[i]
<1>1. disk \in Seq(Lines) /\ d \in Seq(Lines)
  BY DEF TypeOK, DiskType, Appended
<1>2. Intact(disk) = disk
  BY <1>1, IntactWhole
<1>3. CASE Len(d) = Len(disk) + n
  <2>1. \A i \in DOMAIN d : ~IsTorn(d[i])
    BY <1>1, <1>3
  <2> QED BY <1>1, <1>2, <1>3, <2>1, IntactWhole
<1>4. CASE Len(d) = Len(disk) + n + 1 /\ IsTorn(d[Len(d)])
  <2>1. d # <<>>
    BY <1>1, <1>4
  <2> QED BY SMTT(60), <1>1, <1>2, <1>4, <2>1, IntactFacts
<1> QED BY <1>3, <1>4

\* Writing a group, whole or in part, makes the records that waited longest
\* durable.
LEMMA DurableMaps ==
  ASSUME TypeOK, PreparedFollowsBuffer, NEW d, NEW n \in 0 .. Len(batch) - written,
         Appended(n, d), \A i \in DOMAIN disk : ~IsTorn(disk[i]),
         \A i \in 1 .. Len(disk) + n : i \in DOMAIN d /\ ~IsTorn(d[i]),
         \/ Len(d) = Len(disk) + n
         \/ Len(d) = Len(disk) + n + 1 /\ IsTorn(d[Len(d)])
  PROVE  n <= Len(Ids(Pending)) /\ Ids(Intact(d)) = Ids(Intact(disk)) \o SubSeq(Ids(Pending), 1, n)
<1>1. /\ disk \in Seq(Lines) /\ d \in Seq(Lines) /\ n \in Nat /\ batch \in Seq(Prepared)
      /\ written \in 0 .. Len(batch)
  BY DEF TypeOK, DiskType, FlushType, Appended
<1>2. /\ Intact(disk) = disk /\ Intact(d) \in Seq(Lines)
      /\ Len(Intact(d)) = Len(disk) + n
      /\ \A i \in 1 .. Len(disk) + n : Intact(d)[i] = d[i]
  BY <1>1, IntactAppended
<1>3. n \in 0 .. Len(Pending) /\ n \in 0 .. Len(Ids(Pending))
  BY <1>1, PendingFacts
<1>4. PICK w \in Seq(Nat) : w = SubSeq(Ids(Pending), 1, n)
  BY <1>3, PendingFacts, FrontType
<1>5. w \in Seq(Nat) /\ Len(w) = n /\ \A i \in 1 .. n : w[i] = buffer[written + i].id
  <2>1. /\ w \in Seq(Nat) /\ Len(w) = n /\ \A i \in 1 .. n : w[i] = Ids(Pending)[i]
    BY <1>3, <1>4, PendingFacts, FrontType
  <2>2. \A i \in 1 .. n : i \in 1 .. Len(Pending)
    BY <1>3, PendingFacts
  <2> QED BY <2>1, <2>2, PendingFacts
<1>6. PICK t \in Seq(Nat) : t = Ids(disk) /\ Len(t) = Len(disk) /\ \A i \in 1 .. Len(disk) : t[i] = disk[i].id
  BY <1>1, <1>2, IntactIds
<1>7. PICK u : u = Ids(Intact(d)) /\ u \in Seq(Nat) /\ Len(u) = Len(disk) + n
               /\ \A i \in 1 .. Len(disk) + n : u[i] = d[i].id
  BY <1>1, <1>2, IntactIds
<1>8. /\ t \o w \in Seq(Nat) /\ Len(t \o w) = Len(disk) + n
      /\ \A i \in 1 .. Len(disk) : (t \o w)[i] = disk[i].id
      /\ \A i \in 1 .. n : (t \o w)[Len(disk) + i] = buffer[written + i].id
  <2>1. Len(t) = Len(disk) /\ Len(w) = n
    BY <1>5, <1>6
  <2>2. /\ t \o w \in Seq(Nat)
        /\ Len(t \o w) = Len(t) + Len(w)
        /\ \A i \in 1 .. Len(t) : (t \o w)[i] = t[i]
        /\ \A i \in 1 .. Len(w) : (t \o w)[Len(t) + i] = w[i]
    OBVIOUS
  <2> QED BY SMTT(60), <1>5, <1>6, <2>1, <2>2
<1>9. ASSUME NEW i \in 1 .. Len(disk) + n
      PROVE  u[i] = (t \o w)[i]
  <2>1. CASE i \in 1 .. Len(disk)
    BY <1>7, <1>8, <2>1 DEF Appended
  <2>2. CASE i \notin 1 .. Len(disk)
    <3>1. PICK j \in 1 .. n : i = Len(disk) + j
      <4>1. i - Len(disk) \in 1 .. n /\ i = Len(disk) + (i - Len(disk))
        BY <1>1, <2>2
      <4> QED BY <4>1
    <3>2. written + j \in DOMAIN batch
      BY <1>1
    <3>3. d[i].id = batch[written + j].id /\ batch[written + j].id = buffer[written + j].id
      BY <3>1, <3>2, BatchNumbers DEF Appended
    <3> QED BY <1>7, <1>8, <3>1, <3>3
  <2> QED BY <2>1, <2>2
<1>10. u = t \o w
  <2>1. \A i \in 1 .. Len(u) : u[i] = (t \o w)[i]
    BY <1>7, <1>9
  <2>2. Len(u) = Len(t \o w) /\ u \in Seq(Nat) /\ t \o w \in Seq(Nat)
    BY <1>7, <1>8
  <2> QED BY <2>1, <2>2, SameSeq
<1> QED BY <1>1, <1>2, <1>3, <1>4, <1>6, <1>7, <1>10

\* The same of any buffer, as a step leaves one.
LEMMA WaitingFacts ==
  ASSUME NEW b \in Seq(Records), NEW w \in 0 .. Len(b)
  PROVE  \E v \in Seq(Nat) :
           /\ v = Ids(SubSeq(b, w + 1, Len(b))) /\ Len(v) = Len(b) - w
           /\ \A i \in 1 .. Len(v) : v[i] = b[w + i].id
<1>1. PICK p \in Seq(Records) : /\ p = SubSeq(b, w + 1, Len(b)) /\ Len(p) = Len(b) - w
                                /\ \A i \in 1 .. Len(b) - w : p[i] = b[w + i]
  <2>1. /\ SubSeq(b, w + 1, Len(b)) \in Seq(Records)
        /\ Len(SubSeq(b, w + 1, Len(b))) = Len(b) - w
        /\ \A i \in 1 .. Len(b) - w : SubSeq(b, w + 1, Len(b))[i] = b[w + i]
    BY RestType
  <2> QED BY <2>1, Zenon
<1>2. \A r \in Records : r.id \in Nat
  BY DEF Records
<1>3. /\ Ids(p) \in Seq(Nat) /\ Len(Ids(p)) = Len(p)
      /\ \A i \in 1 .. Len(p) : Ids(p)[i] = p[i].id
  BY <1>2, IdsFacts
<1>4. /\ Ids(p) = Ids(SubSeq(b, w + 1, Len(b))) /\ Len(Ids(p)) = Len(b) - w
      /\ \A i \in 1 .. Len(Ids(p)) : Ids(p)[i] = b[w + i].id
  BY <1>1, <1>3
<1> QED BY <1>3, <1>4, Zenon

\* The mapped variables after a step.
LEMMA Primes ==
  /\ Ids(Intact(disk))' = Ids(Intact(disk'))
  /\ Ids(Pending)' = Ids(SubSeq(buffer', written' + 1, Len(buffer')))
  BY DEF Ids, Intact, IsTorn, Pending

\* Adding to the end of what waits is accepting records.
LEMMA AcceptMaps ==
  ASSUME TypeOK, PreparedFollowsBuffer, disk' = disk, phase # "down", phase' # "down",
         buffer' \in Seq(Records), written' \in 0 .. Len(buffer'),
         Len(buffer') - written' >= Len(buffer) - written,
         \A i \in 1 .. Len(buffer) - written : buffer'[written' + i] = buffer[written + i]
  PROVE  [Promise!Step]_(Promise!logVars)
<1>1. PICK w \in Seq(Nat) : w = Ids(Pending)
  BY PendingFacts
<1>2. Len(w) = Len(buffer) - written /\ Len(w) \in Nat /\ \A i \in 1 .. Len(w) : w[i] = buffer[written + i].id
  BY <1>1, PendingFacts
<1>3. PICK v \in Seq(Nat) : /\ v = Ids(SubSeq(buffer', written' + 1, Len(buffer')))
                            /\ Len(v) = Len(buffer') - written'
                            /\ \A i \in 1 .. Len(v) : v[i] = buffer'[written' + i].id
  BY WaitingFacts
<1>4. Len(w) \in 0 .. Len(v)
  BY <1>2, <1>3
<1>5. Len(w) \in 0 .. Len(v) /\ \A i \in 1 .. Len(w) : v[i] = w[i]
  <2>1. ASSUME NEW i \in 1 .. Len(w)
        PROVE  v[i] = w[i]
    <3>1. i \in 1 .. Len(v) /\ i \in 1 .. Len(buffer) - written
      BY <1>2, <1>4
    <3>2. v[i] = buffer'[written' + i].id /\ w[i] = buffer[written + i].id
      BY <1>2, <1>3, <3>1
    <3>3. buffer'[written' + i] = buffer[written + i]
      BY <3>1
    <3> QED BY <3>2, <3>3
  <2> QED BY <1>4, <2>1
<1>6. SubSeq(v, 1, Len(w)) = w
  <2>1. PICK u \in Seq(Nat) : u = SubSeq(v, 1, Len(w)) /\ Len(u) = Len(w) /\ \A i \in 1 .. Len(w) : u[i] = v[i]
    BY <1>5, NumberFront
  <2> QED BY <1>5, <2>1, SameSeq
<1>7. Ids(Intact(disk))' = Ids(Intact(disk)) /\ Ids(Pending)' = v
  BY <1>3, Primes
<1>8. CASE Len(v) = Len(w)
  <2>1. v = w
    BY <1>5, <1>8, SameSeq
  <2> QED BY <1>1, <1>7, <2>1 DEF Promise!logVars
<1>9. CASE Len(v) # Len(w)
  <2>1. Len(v) > Len(w)
    BY <1>5, <1>9
  <2>2. Promise!Accept
    BY <1>1, <1>6, <1>7, <2>1 DEF Promise!Accept
  <2> QED BY <2>2 DEF Promise!Step
<1> QED BY <1>8, <1>9

\* The end of the process, after a leading part of what waited became durable.
LEMMA FailMaps ==
  ASSUME TypeOK, PreparedFollowsBuffer, phase' = "down", buffer' = <<>>, written' = 0,
         NEW n \in Nat, n <= Len(Ids(Pending)),
         Ids(Intact(disk')) = Ids(Intact(disk)) \o SubSeq(Ids(Pending), 1, n)
  PROVE  Promise!Step
<1>1. Ids(Pending)' = <<>>
  <2>1. SubSeq(buffer', written' + 1, Len(buffer')) = <<>>
    BY DEF Pending
  <2>2. Ids(<<>>) = <<>>
    BY DEF Ids
  <2> QED BY <2>1, <2>2, Primes
<1>2. n \in 0 .. Len(Ids(Pending))
  BY PendingFacts
<1>3. Promise!Fail
  BY <1>1, <1>2, Primes DEF Promise!Fail, Promise!Durable
<1> QED BY <1>3 DEF Promise!Step

\* Every step of the writer is a step of the DurableLog it maps to, or none.
LEMMA StepMaps ==
  ASSUME ~TrimMayFail, ~RemoveMayFail, MaxWipes = 0, AuditInv, AuditInv', DiskInv, [Next]_vars
  PROVE  [Promise!Step]_(Promise!logVars)
<1> USE DEF memVars, flushVars, diskVars, storeVars, envVars
<1>0. /\ TypeOK /\ FlushInv /\ PreparedFollowsBuffer /\ disk \in Seq(Lines)
      /\ Sorted(disk) /\ TornLast /\ FloorHolds /\ NonePassedOver
      /\ buffer' \in Seq(Records)
      /\ written \in 0 .. Len(buffer) /\ written \in Nat
  <2>1. written \in 0 .. Len(buffer)
    BY PendingFacts DEF AuditInv
  <2> QED BY <2>1 DEF AuditInv, DiskInv, TypeOK, DiskType, MemType
<1>a. flushPc # "idle" =>
        /\ phase \in {"up", "stopping", "stopped"}
        /\ \A i \in DOMAIN disk : disk[i].day <= floor /\ ~IsTorn(disk[i])
  BY <1>0 DEF FlushInv, TypeOK, MemType, TornLast, FloorHolds
<1>b. ASSUME disk' = disk, UNCHANGED <<buffer, written>>, phase' = phase \/ (phase # "down" /\ phase' # "down")
      PROVE  UNCHANGED Promise!logVars
  BY <1>b, Primes DEF Promise!logVars, Pending
<1>1. CASE AppendGroup
  <2>1. PICK n \in 1 .. Len(batch) - written, seg \in 0 .. Len(disk) :
          /\ IsTarget(disk, GroupDay, seg)
          /\ AppendLines(disk, <<GroupDay, seg>>, GroupLines(n, seg), disk')
          /\ written' = written + n
    BY <1>1 DEF AppendGroup
  <2>2. /\ written < Len(batch) /\ n \in 0 .. Len(batch) - written /\ seg \in Nat
        /\ written \in 0 .. Len(batch) /\ batch \in Seq(Prepared) /\ n \in Nat \ {0}
        /\ written + n <= Len(buffer)
    BY SMTT(60), <1>0, <1>1, PendingFacts DEF AppendGroup, FlushInv, TypeOK, FlushType
  <2>3. Appended(n, disk') /\ Len(disk') = Len(disk) + n
    BY <1>0, <1>1, <1>a, <2>1, <2>2, GroupAppended DEF AppendGroup
  <2>4. \A i \in 1 .. Len(disk) + n : i \in DOMAIN disk' /\ ~IsTorn(disk'[i])
    <3>1. DiskInv' /\ phase' \in {"up", "stopping", "stopped"}
      BY <1>1, <1>a, DiskStep DEF AppendGroup
    <3>2. \A i \in DOMAIN disk' : ~IsTorn(disk'[i])
      BY <3>1 DEF DiskInv, TornLast
    <3>3. disk' \in Seq(Lines)
      BY <2>3 DEF Appended
    <3> QED BY <2>3, <3>2, <3>3
  <2>5. n <= Len(Ids(Pending)) /\ Ids(Intact(disk')) = Ids(Intact(disk)) \o SubSeq(Ids(Pending), 1, n)
    BY <1>0, <1>1, <1>a, <2>2, <2>3, <2>4, DurableMaps DEF AppendGroup
  <2>6. PICK w \in Seq(Nat) : w = Ids(Pending)
    BY <1>0, PendingFacts
  <2>7. Len(w) = Len(buffer) - written /\ \A i \in 1 .. Len(w) : w[i] = buffer[written + i].id
    BY <1>0, <2>6, PendingFacts
  <2>8. n \in 1 .. Len(w) /\ n \in 0 .. Len(w)
    BY <1>0, <2>2, <2>7
  <2>9. PICK v \in Seq(Nat) : v = Ids(SubSeq(buffer, written + n + 1, Len(buffer)))
                              /\ Len(v) = Len(buffer) - (written + n)
                              /\ \A i \in 1 .. Len(v) : v[i] = buffer[written + n + i].id
    <3>1. buffer \in Seq(Records) /\ written + n \in 0 .. Len(buffer)
      BY <1>0, <2>2 DEF TypeOK, MemType
    <3> QED BY <3>1, WaitingFacts
  <2>10. v = SubSeq(w, n + 1, Len(w))
    <3>1. PICK u \in Seq(Nat) : /\ u = SubSeq(w, n + 1, Len(w)) /\ Len(u) = Len(w) - n
                                /\ \A i \in 1 .. Len(w) - n : u[i] = w[n + i]
      BY <2>8, NumberRest
    <3>2. Len(u) = Len(v)
      BY <1>0, <2>2, <2>7, <2>9, <3>1
    <3>3. ASSUME NEW i \in 1 .. Len(u)
          PROVE  u[i] = v[i]
      <4>1. n + i \in 1 .. Len(w) /\ written + (n + i) = written + n + i
        BY <1>0, <2>2, <2>8, <3>1
      <4> QED BY <2>7, <2>9, <3>1, <3>2, <4>1
    <3> QED BY <3>1, <3>2, <3>3, SameSeq
  <2>11. Ids(Pending)' = v
    BY <1>1, <2>1, <2>9, Primes DEF AppendGroup
  <2>12. phase' = phase /\ phase # "down"
    BY <1>1, <1>a DEF AppendGroup
  <2>13. Promise!Write
    BY <2>5, <2>6, <2>8, <2>10, <2>11, <2>12, Primes DEF Promise!Write, Promise!Durable
  <2> QED BY <2>13 DEF Promise!Step
<1>2. CASE RemoveFile
  <2>1. PICK b \in 1 .. Len(disk) : disk' = SubSeq(disk, b + 1, Len(disk))
    BY <1>0, <1>2, RemoveFileFacts
  <2>2. phase' = phase /\ phase # "down" /\ UNCHANGED <<buffer, written>>
        /\ \A i \in DOMAIN disk : ~IsTorn(disk[i])
    BY <1>2, <1>a DEF RemoveFile
  <2>3. b \in 0 .. Len(disk) /\ b \in Nat
    BY <1>0
  <2>4. PICK e \in Seq(Lines) : e = disk' /\ Len(e) = Len(disk) - b
                                /\ \A i \in 1 .. Len(disk) - b : e[i] = disk[b + i]
    <3>1. /\ SubSeq(disk, b + 1, Len(disk)) \in Seq(Lines)
          /\ Len(SubSeq(disk, b + 1, Len(disk))) = Len(disk) - b
          /\ \A i \in 1 .. Len(disk) - b : SubSeq(disk, b + 1, Len(disk))[i] = disk[b + i]
      BY <1>0, <2>3, RestType
    <3> QED BY <2>1, <3>1, Zenon
  <2>5. /\ DOMAIN e = 1 .. Len(disk) - b
        /\ \A i \in 1 .. Len(disk) - b : b + i \in 1 .. Len(disk) /\ e[i] = disk[b + i]
    <3>1. DOMAIN e = 1 .. Len(disk) - b
      BY <2>4
    <3>2. \A i \in 1 .. Len(disk) - b : b + i \in 1 .. Len(disk)
      BY <1>0, <2>3
    <3> QED BY <2>4, <3>1, <3>2
  <2>6. Intact(disk) = disk /\ Intact(e) = e
    <3>1. \A i \in DOMAIN e : ~IsTorn(e[i])
      <4> SUFFICES ASSUME NEW i \in DOMAIN e PROVE ~IsTorn(e[i])
        OBVIOUS
      <4>1. b + i \in DOMAIN disk /\ e[i] = disk[b + i]
        BY <1>0, <2>5
      <4> QED BY <2>2, <4>1
    <3> QED BY <1>0, <2>2, <3>1, IntactWhole
  <2>7. PICK t \in Seq(Nat) : t = Ids(Intact(disk)) /\ Len(t) = Len(disk) /\ \A i \in 1 .. Len(disk) : t[i] = disk[i].id
    BY <1>0, <2>6, IntactIds
  <2>8. PICK u \in Seq(Nat) : u = Ids(Intact(e)) /\ Len(u) = Len(disk) - b /\ \A i \in 1 .. Len(disk) - b : u[i] = e[i].id
    <3>1. /\ Ids(Intact(e)) \in Seq(Nat) /\ Len(Ids(Intact(e))) = Len(Intact(e))
          /\ \A i \in 1 .. Len(Intact(e)) : Ids(Intact(e))[i] = e[i].id
      BY IntactIds
    <3>2. Len(Intact(e)) = Len(disk) - b
      BY <2>4, <2>6
    <3> QED BY <3>1, <3>2
  <2>9. u = SubSeq(t, b + 1, Len(t))
    <3>1. PICK v \in Seq(Nat) : /\ v = SubSeq(t, b + 1, Len(t)) /\ Len(v) = Len(t) - b
                                /\ \A i \in 1 .. Len(t) - b : v[i] = t[b + i]
      <4>1. b \in 0 .. Len(t)
        BY <2>3, <2>7
      <4>2. /\ SubSeq(t, b + 1, Len(t)) \in Seq(Nat) /\ Len(SubSeq(t, b + 1, Len(t))) = Len(t) - b
            /\ \A i \in 1 .. Len(t) - b : SubSeq(t, b + 1, Len(t))[i] = t[b + i]
        BY <4>1, NumberRest
      <4> QED BY <4>2, Zenon
    <3>2. ASSUME NEW i \in 1 .. Len(v)
          PROVE  v[i] = u[i]
      <4>1. i \in 1 .. Len(disk) - b /\ i \in 1 .. Len(t) - b
        BY <2>7, <3>1
      <4>2. b + i \in 1 .. Len(disk) /\ e[i] = disk[b + i]
        BY <2>5, <4>1
      <4> QED BY <2>7, <2>8, <3>1, <4>1, <4>2
    <3> QED BY <2>7, <2>8, <3>1, <3>2, SameSeq
  <2>10. Ids(Intact(disk))' = u /\ Ids(Pending)' = Ids(Pending)
    BY <2>2, <2>4, <2>8, Primes DEF Pending
  <2>11. b \in 1 .. Len(t)
    BY <2>7
  <2>12. Promise!Expire
    BY <2>2, <2>7, <2>9, <2>10, <2>11 DEF Promise!Expire
  <2> QED BY <2>12 DEF Promise!Step
<1>3. CASE RepairTornTail
  <2>1. phase # "down" /\ phase' # "down" /\ UNCHANGED <<buffer, written>>
    BY <1>3 DEF RepairTornTail
  <2>2. CASE disk' = disk
    BY <1>b, <2>1, <2>2
  <2>3. CASE disk' # disk
    <3>1. PICK i \in TornTails : disk' = Repaired(i)
      BY <1>3, <2>3 DEF RepairTornTail
    <3>2. i = Len(disk) /\ i \in DOMAIN disk /\ IsTorn(disk[Len(disk)]) /\ disk # <<>>
      BY <1>0, <3>1 DEF TornTails, TornLast
    <3>3. disk' = SubSeq(disk, 1, Len(disk) - 1)
      BY <1>0, <3>1, <3>2, CutLast
    <3>4. Intact(disk) = disk'
      BY <1>0, <3>2, <3>3, IntactFacts
    <3>5. Intact(disk') = disk'
      <4>1. Len(disk) - 1 \in 0 .. Len(disk)
        BY <1>0, <3>2
      <4>2. /\ disk' \in Seq(Lines) /\ Len(disk') = Len(disk) - 1
            /\ \A j \in 1 .. Len(disk) - 1 : j \in DOMAIN disk /\ disk'[j] = disk[j]
        BY <1>0, <3>3, <4>1, FrontType
      <4>3. DOMAIN disk' = 1 .. Len(disk) - 1 /\ Len(disk) \in Nat
        BY <1>0, <4>1, <4>2
      <4>5. \A j \in DOMAIN disk' : j \in DOMAIN disk /\ j # Len(disk) /\ disk'[j] = disk[j]
        BY <4>2, <4>3
      <4>4. \A j \in DOMAIN disk' : ~IsTorn(disk'[j])
        BY <1>0, <4>5 DEF TornLast
      <4> QED BY <4>2, <4>4, IntactWhole
    <3>6. Ids(Intact(disk))' = Ids(Intact(disk)) /\ Ids(Pending)' = Ids(Pending)
      BY <2>1, <3>4, <3>5, Primes DEF Pending
    <3> QED BY <2>1, <3>6 DEF Promise!logVars
  <2> QED BY <2>2, <2>3
<1>4. CASE LoadHead
  <2>1. phase' = "repair" /\ disk' = disk /\ UNCHANGED <<buffer, written>>
    BY <1>4 DEF LoadHead
  <2>2. Ids(Intact(disk))' = Ids(Intact(disk)) /\ Ids(Pending)' = Ids(Pending)
    BY <2>1, Primes DEF Pending
  <2>3. Promise!Restart
    BY <2>1, <2>2 DEF Promise!Restart
  <2> QED BY <2>3 DEF Promise!Step
<1>5. CASE Unload \/ Crash
  <2>1. phase' = "down" /\ buffer' = <<>> /\ written' = 0
    BY <1>5 DEF Unload, Crash, LoseMemory
  <2>2. CASE disk' = disk
    <3>1. PICK t \in Seq(Nat) : t = Ids(Intact(disk))
      BY <1>0, IntactIds
    <3>2. PICK w \in Seq(Nat) : w = Ids(Pending)
      BY <1>0, PendingFacts
    <3>3. SubSeq(w, 1, 0) = <<>> /\ t \o <<>> = t /\ 0 <= Len(w)
      OBVIOUS
    <3>4. 0 <= Len(Ids(Pending)) /\ Ids(Intact(disk')) = Ids(Intact(disk)) \o SubSeq(Ids(Pending), 1, 0)
      BY <2>2, <3>1, <3>2, <3>3
    <3> QED BY <1>0, <2>1, <3>4, FailMaps
  <2>3. CASE disk' # disk
    <3>1. flushPc = "append" /\ PartialAppend(disk')
      BY <1>5, <2>3 DEF Unload, Crash
    <3>2. written < Len(batch)
      BY <1>0, <3>1 DEF FlushInv
    <3>3. PICK n \in 0 .. Len(batch) - written :
            /\ Appended(n, disk') /\ Sorted(disk')
            /\ \A i \in 1 .. Len(disk) + n : i \in DOMAIN disk' /\ ~IsTorn(disk'[i])
            /\ \/ Len(disk') = Len(disk) + n
               \/ Len(disk') = Len(disk) + n + 1 /\ IsTorn(disk'[Len(disk')]) /\ ~disk'[Len(disk')].eol
      BY <1>0, <1>a, <3>1, <3>2, PartialKeeps
    <3>4. n <= Len(Ids(Pending)) /\ Ids(Intact(disk')) = Ids(Intact(disk)) \o SubSeq(Ids(Pending), 1, n)
      BY <1>0, <1>a, <3>1, <3>3, DurableMaps
    <3>5. n \in Nat
      BY <1>0 DEF TypeOK, FlushType
    <3> QED BY <1>0, <2>1, <3>4, <3>5, FailMaps
  <2> QED BY <2>2, <2>3
<1>6. CASE LoseDirectory
  BY <1>0, <1>6 DEF LoseDirectory, TypeOK, EnvType
<1>7. CASE EndFlush
  <2>1. phase # "down" /\ phase' # "down" /\ disk' = disk /\ written' = 0
    BY <1>7, <1>a DEF EndFlush
  <2>2. CASE written > 0
    <3>1. buffer' = Uncommitted(buffer) \/ buffer' = Append(Uncommitted(buffer), DroppedRecord)
      BY <1>7, <2>2 DEF EndFlush, CommitWritten
    <3>2. PICK q \in Seq(Records) : q = Uncommitted(buffer) /\ Len(q) = Len(buffer) - written
                                    /\ \A i \in 1 .. Len(q) : q[i] = buffer[written + i]
      <4>1. buffer \in Seq(Records)
        BY <1>0 DEF TypeOK, MemType
      <4>2. /\ Uncommitted(buffer) \in Seq(Records) /\ Len(Uncommitted(buffer)) = Len(buffer) - written
            /\ \A i \in 1 .. Len(buffer) - written : Uncommitted(buffer)[i] = buffer[written + i]
        BY <1>0, <4>1, RestType DEF Uncommitted
      <4> QED BY <4>2
    <3>3. DroppedRecord \in Records
      BY <1>0 DEF DroppedRecord, Records, Kinds, TypeOK, MemType, EnvType
    <3>4. Len(buffer') >= Len(q) /\ \A i \in 1 .. Len(q) : buffer'[i] = q[i]
      BY <3>1, <3>2, <3>3
    <3>5. /\ written' \in 0 .. Len(buffer') /\ Len(buffer') - written' >= Len(buffer) - written
          /\ \A i \in 1 .. Len(buffer) - written : buffer'[written' + i] = buffer[written + i]
      BY <1>0, <2>1, <3>2, <3>4
    <3> QED BY <1>0, <2>1, <3>5, AcceptMaps
  <2>3. CASE ~(written > 0)
    <3>1. buffer' = buffer /\ written' = written
      BY <1>0, <1>7, <2>1, <2>3 DEF EndFlush
    <3> QED BY <1>b, <2>1, <3>1
  <2> QED BY <2>2, <2>3
<1>8. CASE \E kind \in {"low", "high"} : Log(kind)
  <2>1. PICK kind \in {"low", "high"} : Log(kind)
    BY <1>8
  <2>2. <<kind>> \in Seq(Kinds) /\ AsyncLog(<<kind>>)
    BY <2>1 DEF Log, Kinds
  <2>3. Len(buffer) <= Len(buffer') /\ \A i \in 1 .. Len(buffer) : buffer'[i] = buffer[i]
    BY <1>0, <2>2, AsyncLogType
  <2>4. phase # "down" /\ phase' # "down" /\ disk' = disk /\ written' = written
    BY <2>1 DEF Log
  <2>5. /\ written' \in 0 .. Len(buffer') /\ Len(buffer') - written' >= Len(buffer) - written
        /\ \A i \in 1 .. Len(buffer) - written : buffer'[written' + i] = buffer[written + i]
    <3>1. buffer \in Seq(Records)
      BY <1>0 DEF TypeOK, MemType
    <3> QED BY <1>0, <2>3, <2>4, <3>1
  <2> QED BY <1>0, <2>4, <2>5, AcceptMaps
<1>9. CASE DetectReset
  <2> DEFINE kinds == (IF Lost THEN <<"reset">> ELSE <<>>) \o repairs
  <2>1. kinds \in Seq(Kinds) /\ AsyncLog(kinds)
    <3>1. "reset" \in Kinds /\ repairs \in Seq(Kinds)
      BY <1>0 DEF TypeOK, MemType, Kinds
    <3> QED BY <1>9, <3>1 DEF DetectReset
  <2> HIDE DEF kinds
  <2>3. Len(buffer) <= Len(buffer') /\ \A i \in 1 .. Len(buffer) : buffer'[i] = buffer[i]
    BY <1>0, <2>1, AsyncLogType
  <2>4. phase # "down" /\ phase' # "down" /\ disk' = disk /\ written' = written
    BY <1>9 DEF DetectReset
  <2>5. /\ written' \in 0 .. Len(buffer') /\ Len(buffer') - written' >= Len(buffer) - written
        /\ \A i \in 1 .. Len(buffer) - written : buffer'[written' + i] = buffer[written + i]
    <3>1. buffer \in Seq(Records)
      BY <1>0 DEF TypeOK, MemType
    <3> QED BY <1>0, <2>3, <2>4, <3>1
  <2> QED BY <1>0, <2>4, <2>5, AcceptMaps
<1>10. CASE TimerFlush \/ TaskFlush \/ StopFlush
  <2>1. /\ disk' = disk /\ buffer' = buffer /\ phase' = phase /\ flushPc = "idle" /\ written' = 0
    BY <1>10 DEF TimerFlush, TaskFlush, StopFlush, BeginFlush
  <2>2. written' = written
    BY <1>0, <2>1 DEF FlushInv
  <2> QED BY <1>b, <2>1, <2>2
<1>11. CASE AppendFails \/ WriteHead \/ WriteHeadFails \/ SkipRetention \/ BeginRetention
            \/ RemoveFileFails \/ EndRetention
  BY <1>b, <1>11 DEF AppendFails, WriteHead, WriteHeadFails, SkipRetention, BeginRetention,
       RemoveFileFails, EndRetention
<1>12. CASE RebuildHead \/ Query \/ TaskFlushEmpty
  BY <1>b, <1>12 DEF RebuildHead, Query, TaskFlushEmpty
<1>13. CASE SaveStore \/ BeginStop \/ StopFlushEmpty \/ ClockMoves
  BY <1>b, <1>13 DEF SaveStore, BeginStop, StopFlushEmpty, ClockMoves
<1>14. CASE UNCHANGED vars
  BY <1>b, <1>14 DEF vars
<1> QED
  BY <1>1, <1>2, <1>3, <1>4, <1>5, <1>6, <1>7, <1>8, <1>9, <1>10, <1>11, <1>12, <1>13, <1>14
     DEF Next, FlushStep, IOError, StartStep, StopStep

\* A fresh installation and one with a flushed record are in order.
LEMMA DiskInvInit ==
  ASSUME Init
  PROVE  DiskInv
<1>1. disk = <<>> \/ disk = <<FirstLine>>
  BY DEF Init
<1>2. \A i \in DOMAIN disk : i = 1 /\ disk[i] = FirstLine
  BY <1>1
<1>3. Sorted(disk)
  BY <1>2 DEF Sorted
<1>4. TornLast
  BY <1>2 DEF TornLast, IsTorn, FirstLine
<1> QED BY <1>3, <1>4 DEF Init, DiskInv, FloorHolds, NonePassedOver, NoPass

\* Without a second fault in an append or a removal, every reachable disk is in
\* order.
LEMMA DiskInvariant ==
  ASSUME ~TrimMayFail, ~RemoveMayFail
  PROVE  Spec => [](AuditInv /\ DiskInv)
<1>1. Init => DiskInv
  BY DiskInvInit
<1>2. AuditInv /\ DiskInv /\ [Next]_vars => DiskInv'
  BY DiskStep
<1> QED BY <1>1, <1>2, AuditInvariant, PTL DEF Spec

\* While the directory is not lost, and unless the trimming of a failed append or
\* the removal of an expired file fails as well, the log is a DurableLog: records
\* are appended in the order they were accepted, expire from the front and stay
\* what they are, through failed and partial flushes, clock steps, crashes and
\* the repairs at start-up.
THEOREM LogImplements ==
  ASSUME ~TrimMayFail, ~RemoveMayFail, MaxWipes = 0
  PROVE  Spec => ImplementsDurableLog
<1>1. Init => Promise!Start
  <2> SUFFICES ASSUME Init PROVE Promise!Start
    OBVIOUS
  <2>1. disk \in Seq(Lines)
    BY AuditInvInit DEF AuditInv, TypeOK, DiskType
  <2>2. Pending = <<>>
    BY DEF Init, Pending
  <2>3. Ids(Pending) = <<>>
    BY <2>2 DEF Ids
  <2> QED BY <2>1, <2>3, IntactIds DEF Init, Promise!Start
<1>2. AuditInv /\ DiskInv /\ AuditInv' /\ [Next]_vars => [Promise!Step]_(Promise!logVars)
  BY StepMaps
<1> QED BY <1>1, <1>2, DiskInvariant, PTL DEF Spec, ImplementsDurableLog, Promise!LogSpec

-----------------------------------------------------------------------------
(* The records are numbered in the order of acceptance                     *)

\* A table of numbers.
LEMMA NumberTable ==
  ASSUME NEW f, \A j \in Nat : f[j] \in Nat, NEW n \in Nat
  PROVE  \E a \in Seq(Nat) : a = [j \in 1 .. n |-> f[j]] /\ Len(a) = n /\ \A j \in 1 .. n : a[j] = f[j]
<1>1. \A j \in 1 .. n : f[j] \in Nat
  OBVIOUS
<1>2. [j \in 1 .. n |-> f[j]] \in Seq(Nat)
  BY <1>1
<1>3. Len([j \in 1 .. n |-> f[j]]) = n /\ \A i \in 1 .. n : [j \in 1 .. n |-> f[j]][i] = f[i]
  BY <1>1
<1> QED BY <1>2, <1>3, Zenon

\* One element more.
LEMMA TableAppend ==
  ASSUME NEW f, \A j \in Nat : f[j] \in Nat, NEW h \in Seq(Nat), NEW n \in Nat
  PROVE  h \o [j \in 1 .. n + 1 |-> f[j]] = Append(h \o [j \in 1 .. n |-> f[j]], f[n + 1])
<1>1. PICK a \in Seq(Nat) : a = [j \in 1 .. n |-> f[j]] /\ Len(a) = n /\ \A j \in 1 .. n : a[j] = f[j]
  BY NumberTable
<1>2. PICK b \in Seq(Nat) : b = [j \in 1 .. n + 1 |-> f[j]] /\ Len(b) = n + 1 /\ \A j \in 1 .. n + 1 : b[j] = f[j]
  <2>1. n + 1 \in Nat
    OBVIOUS
  <2> QED BY <2>1, NumberTable
<1>3. /\ h \o b \in Seq(Nat) /\ Len(h \o b) = Len(h) + n + 1
      /\ \A i \in 1 .. Len(h) : (h \o b)[i] = h[i]
      /\ \A i \in 1 .. n + 1 : (h \o b)[Len(h) + i] = f[i]
  BY <1>2
<1>4. /\ h \o a \in Seq(Nat) /\ Len(h \o a) = Len(h) + n
      /\ \A i \in 1 .. Len(h) : (h \o a)[i] = h[i]
      /\ \A i \in 1 .. n : (h \o a)[Len(h) + i] = f[i]
  BY <1>1
<1>5. PICK c \in Seq(Nat) : c = h \o a
  BY <1>4
<1>6. PICK e \in Seq(Nat) : e = Append(c, f[n + 1]) /\ Len(e) = Len(c) + 1
          /\ e[Len(c) + 1] = f[n + 1] /\ \A i \in 1 .. Len(c) : e[i] = c[i]
  <2>1. PICK x \in Nat : x = f[n + 1]
    BY SMTT(60)
  <2>2. /\ Append(c, x) \in Seq(Nat) /\ Len(Append(c, x)) = Len(c) + 1
        /\ Append(c, x)[Len(c) + 1] = x /\ \A i \in 1 .. Len(c) : Append(c, x)[i] = c[i]
    OBVIOUS
  <2> QED BY <2>1, <2>2, Zenon
<1>7. PICK g \in Seq(Nat) : g = h \o b
  BY <1>3
<1>8. Len(g) = Len(e) /\ Len(g) = Len(h) + n + 1 /\ Len(h) \in Nat
  BY <1>3, <1>4, <1>5, <1>6, <1>7
<1>9. ASSUME NEW i \in 1 .. Len(g)
      PROVE  g[i] = e[i]
  <2>1. CASE i \in 1 .. Len(h)
    <3>1. i \in 1 .. Len(c)
      BY <1>4, <1>5, <2>1, <1>8
    <3> QED BY <2>1, <3>1, <1>3, <1>4, <1>5, <1>6, <1>7
  <2>2. CASE i \notin 1 .. Len(h)
    <3>1. PICK j \in 1 .. n + 1 : i = Len(h) + j
      <4>1. i - Len(h) \in 1 .. n + 1 /\ i = Len(h) + (i - Len(h))
        BY <1>8, <2>2
      <4> QED BY <4>1
    <3>2. g[i] = f[j]
      BY <1>3, <1>7, <3>1
    <3>3. CASE j = n + 1
      <4>1. i = Len(c) + 1
        BY <1>4, <1>5, <3>1, <3>3
      <4> QED BY <1>6, <3>2, <3>3, <4>1
    <3>4. CASE j # n + 1
      <4>1. j \in 1 .. n /\ i \in 1 .. Len(c)
        BY <1>4, <1>5, <1>8, <3>1, <3>4
      <4>2. e[i] = f[j]
        BY <1>4, <1>5, <1>6, <3>1, <4>1
      <4> QED BY <3>2, <4>2
    <3> QED BY <3>3, <3>4
  <2> QED BY <2>1, <2>2
<1>10. g = e
  BY <1>8, <1>9, SameSeq
<1> QED BY <1>1, <1>2, <1>5, <1>6, <1>7, <1>10

\* The copies made now are chained to each other and to where numbering went
\* on, and commit to nothing else than those.
LEMMA ChainedFacts ==
  ASSUME TypeOK, PreparedFollowsBuffer
  PROVE  /\ Base.hash \in Seq(Nat)
         /\ \A i \in Len(prepared) + 1 .. Len(buffer) :
              /\ PrepareBuffered[i].hash = Append(PrepareBuffered[i].prev, buffer[i].id)
              /\ PrepareBuffered[i].prev =
                   IF i = Len(prepared) + 1 THEN Base.hash ELSE PrepareBuffered[i - 1].hash
              /\ \A x \in DOMAIN PrepareBuffered[i].hash :
                   \/ \E y \in DOMAIN Base.hash : PrepareBuffered[i].hash[x] = Base.hash[y]
                   \/ \E j \in Len(prepared) + 1 .. i : PrepareBuffered[i].hash[x] = buffer[j].id
<1> DEFINE new == SubSeq(buffer, Len(prepared) + 1, Len(buffer))
           f == [j \in Nat |-> IF j \in 1 .. Len(new) THEN new[j].id ELSE 0]
           H(k) == Base.hash \o [j \in 1 .. k |-> f[j]]
<1>0. /\ buffer \in Seq(Records) /\ prepared \in Seq(Prepared) /\ Len(prepared) <= Len(buffer)
      /\ chain \in Marks /\ Len(prepared) \in Nat /\ Len(buffer) \in Nat
  BY DEF TypeOK, MemType
<1>1. /\ new \in Seq(Records) /\ Len(new) = Len(buffer) - Len(prepared)
      /\ \A i \in 1 .. Len(new) : new[i] = buffer[Len(prepared) + i]
  BY <1>0, RestType
<1>2. Base.hash \in Seq(Nat)
  <2>1. CASE prepared = <<>>
    BY <2>1, <1>0 DEF Base, Marks, Hashes
  <2>2. CASE prepared # <<>>
    <3>1. prepared[Len(prepared)] \in Prepared
      BY <2>2, <1>0
    <3> QED BY <2>2, <3>1 DEF Base, Mark, Prepared, Hashes
  <2> QED BY <2>1, <2>2
<1>3. (\A j \in Nat : f[j] \in Nat) /\ \A j \in 1 .. Len(new) : f[j] = new[j].id /\ f[j] = buffer[Len(prepared) + j].id
  <2>1. \A j \in 1 .. Len(new) : new[j].id \in Nat
    BY <1>1 DEF Records
  <2>2. \A j \in 1 .. Len(new) : j \in Nat /\ new[j] = buffer[Len(prepared) + j]
    <3> HIDE DEF new
    <3> QED BY <1>1
  <2> HIDE DEF new
  <2> QED BY <2>1, <2>2
<1>4. ASSUME NEW i \in 0 .. Len(new)
      PROVE  ChainHash(Base.hash, new, i) = H(i)
  <2>1. \A j \in 1 .. i : j \in Nat /\ j \in 1 .. Len(new)
    <3> HIDE DEF new, f, H
    <3> QED BY <1>1
  <2>2. [j \in 1 .. i |-> new[j].id] = [j \in 1 .. i |-> f[j]]
    <3> HIDE DEF new, f
    <3> QED BY <1>3, <2>1
  <2> HIDE DEF new, f
  <2> QED BY <2>2 DEF ChainHash
<1>5. ASSUME NEW k \in Nat PROVE H(k + 1) = Append(H(k), f[k + 1])
  <2> HIDE DEF f
  <2> QED BY <1>2, <1>3, TableAppend
<1>6. ASSUME NEW i \in 1 .. Len(new)
      PROVE  /\ PrepareBuffered[Len(prepared) + i].prev = H(i - 1)
             /\ PrepareBuffered[Len(prepared) + i].hash = H(i)
  <2>1. /\ PrepareBuffered[Len(prepared) + i].prev = ChainHash(Base.hash, new, i - 1)
        /\ PrepareBuffered[Len(prepared) + i].hash = ChainHash(Base.hash, new, i)
    <3>1. i \in 1 .. Len(buffer) - Len(prepared)
      BY <1>1
    <3> QED BY <3>1, PrepareBufferedFacts
  <2>2. i \in 0 .. Len(new) /\ i - 1 \in 0 .. Len(new)
    BY <1>1
  <2> HIDE DEF new, H
  <2> QED BY <1>4, <2>1, <2>2
<1>7. H(0) = Base.hash
  <2>1. PICK h \in Seq(Nat) : h = Base.hash
    BY <1>2
  <2>2. [j \in 1 .. 0 |-> f[j]] = <<>>
    OBVIOUS
  <2>3. h \o <<>> = h
    OBVIOUS
  <2> HIDE DEF f
  <2> QED BY <2>1, <2>2, <2>3
<1>8. ASSUME NEW k \in 1 .. Len(new), NEW x \in DOMAIN H(k)
      PROVE  \/ \E y \in DOMAIN Base.hash : H(k)[x] = Base.hash[y]
             \/ \E j \in 1 .. k : H(k)[x] = f[j]
  <2>1. PICK h \in Seq(Nat) : h = Base.hash
    BY <1>2
  <2>2. k \in Nat
    <3> HIDE DEF new, H, f
    <3> QED BY <1>1
  <2>3. PICK a \in Seq(Nat) : a = [j \in 1 .. k |-> f[j]] /\ Len(a) = k /\ \A j \in 1 .. k : a[j] = f[j]
    <3> HIDE DEF f, new
    <3> QED BY <1>3, <2>2, NumberTable
  <2>4. /\ h \o a \in Seq(Nat) /\ Len(h \o a) = Len(h) + k
        /\ \A i \in 1 .. Len(h) : (h \o a)[i] = h[i]
        /\ \A i \in 1 .. k : (h \o a)[Len(h) + i] = a[i]
    <3> HIDE DEF f, new, H
    <3> QED BY <2>3
  <2>5. H(k) = h \o a
    <3> HIDE DEF f, new
    <3> QED BY <2>1, <2>3
  <2>6. x \in 1 .. Len(h) + k /\ Len(h) \in Nat
    <3> HIDE DEF f, new, H
    <3> QED BY <2>2, <2>4, <2>5
  <2>7. CASE x \in 1 .. Len(h)
    <3> HIDE DEF f, new, H
    <3> QED BY SMTT(60), <2>1, <2>4, <2>5, <2>7
  <2>8. CASE x \notin 1 .. Len(h)
    <3> HIDE DEF f, new, H
    <3>1. x - Len(h) \in 1 .. k /\ x = Len(h) + (x - Len(h))
      BY <2>2, <2>6, <2>8
    <3>2. H(k)[x] = f[x - Len(h)]
      BY <2>3, <2>4, <2>5, <3>1
    <3> QED BY <3>1, <3>2
  <2> QED BY <2>7, <2>8
<1>9. ASSUME NEW i \in Len(prepared) + 1 .. Len(buffer)
      PROVE  /\ PrepareBuffered[i].hash = Append(PrepareBuffered[i].prev, buffer[i].id)
             /\ PrepareBuffered[i].prev =
                  IF i = Len(prepared) + 1 THEN Base.hash ELSE PrepareBuffered[i - 1].hash
             /\ \A x \in DOMAIN PrepareBuffered[i].hash :
                  \/ \E y \in DOMAIN Base.hash : PrepareBuffered[i].hash[x] = Base.hash[y]
                  \/ \E j \in Len(prepared) + 1 .. i : PrepareBuffered[i].hash[x] = buffer[j].id
  <2> HIDE DEF new, H, f
  <2>1. PICK k \in 1 .. Len(new) : i = Len(prepared) + k
    <3>1. i - Len(prepared) \in 1 .. Len(new) /\ i = Len(prepared) + (i - Len(prepared))
      BY <1>0, <1>1
    <3> QED BY <3>1
  <2>2. PrepareBuffered[i].prev = H(k - 1) /\ PrepareBuffered[i].hash = H(k)
    BY <1>6, <2>1
  <2>3. PrepareBuffered[i].hash = Append(PrepareBuffered[i].prev, buffer[i].id)
    <3>1. k - 1 \in Nat /\ k - 1 + 1 = k
      BY <1>1
    <3>2. H(k) = Append(H(k - 1), f[k])
      BY <1>5, <3>1
    <3> QED BY <1>3, <2>1, <2>2, <3>2
  <2>4. PrepareBuffered[i].prev = IF i = Len(prepared) + 1 THEN Base.hash ELSE PrepareBuffered[i - 1].hash
    <3>1. CASE k = 1
      <4>1. i = Len(prepared) + 1 /\ k - 1 = 0
        BY <2>1, <3>1
      <4> QED BY <1>7, <2>2, <4>1
    <3>2. CASE k # 1
      <4>1. k - 1 \in 1 .. Len(new) /\ i - 1 = Len(prepared) + (k - 1) /\ i # Len(prepared) + 1
        BY <1>0, <1>1, <2>1, <3>2
      <4>2. PrepareBuffered[i - 1].hash = H(k - 1)
        BY <1>6, <4>1
      <4> QED BY <2>2, <4>1, <4>2
    <3> QED BY <3>1, <3>2
  <2>5. ASSUME NEW x \in DOMAIN PrepareBuffered[i].hash
        PROVE  \/ \E y \in DOMAIN Base.hash : PrepareBuffered[i].hash[x] = Base.hash[y]
               \/ \E j \in Len(prepared) + 1 .. i : PrepareBuffered[i].hash[x] = buffer[j].id
    <3>1. \/ \E y \in DOMAIN Base.hash : H(k)[x] = Base.hash[y]
          \/ \E j \in 1 .. k : H(k)[x] = f[j]
      BY <1>8, <2>2
    <3>2. ASSUME NEW j \in 1 .. k
          PROVE  Len(prepared) + j \in Len(prepared) + 1 .. i /\ f[j] = buffer[Len(prepared) + j].id
      <4>1. j \in 1 .. Len(new)
        BY <1>0, <1>1
      <4>2. Len(prepared) + j \in Len(prepared) + 1 .. i
        BY <1>0, <1>1, <2>1
      <4> QED BY <1>3, <4>1, <4>2
    <3> QED BY <2>2, <3>1, <3>2
  <2> QED BY <2>3, <2>4, <2>5
<1> QED BY <1>2, <1>9

\* A hash commits to no record later than n.
Upto(h, n) == \A i \in DOMAIN h : h[i] <= n

\* The newest record that is on disk.
Newest == accepted - (Len(buffer) - written)

\* The whole lines of d carry the numbers of acceptance up to n, and no line
\* commits to a later record than its own.
WholeNumbered(d, n) ==
  /\ \A i \in 1 .. Len(Intact(d)) : Intact(d)[i].id = n - Len(Intact(d)) + i
  /\ \A i \in DOMAIN d : Upto(d[i].hash, d[i].id) /\ (IsTorn(d[i]) => d[i].id = 0)

BufferNumbered == \A i \in DOMAIN buffer : buffer[i].id = accepted - Len(buffer) + i
CopiesBounded == \A i \in DOMAIN prepared : Upto(prepared[i].hash, prepared[i].id)
MarksBounded ==
  /\ Upto(chain.hash, accepted - Len(buffer))
  /\ Upto(head.hash, Newest) /\ Upto(saved.hash, Newest) /\ Upto(mirror.hash, Newest)

IdsInv == WholeNumbered(disk, Newest) /\ BufferNumbered /\ CopiesBounded /\ MarksBounded

\* A later bound is a bound.
LEMMA UptoLater ==
  ASSUME NEW h \in Seq(Nat), NEW n \in Int, NEW m \in Int, Upto(h, n), n <= m
  PROVE  Upto(h, m)
<1>1. \A i \in DOMAIN h : h[i] \in Nat
  OBVIOUS
<1> QED BY <1>1 DEF Upto

\* The types of the hashes and numbers the invariant speaks about.
LEMMA HashTypes ==
  ASSUME TypeOK, PreparedFollowsBuffer
  PROVE  /\ chain.hash \in Seq(Nat) /\ head.hash \in Seq(Nat) /\ saved.hash \in Seq(Nat)
         /\ mirror.hash \in Seq(Nat)
         /\ \A i \in DOMAIN disk : disk[i].hash \in Seq(Nat) /\ disk[i].id \in Nat
         /\ \A i \in DOMAIN prepared : prepared[i].hash \in Seq(Nat) /\ prepared[i].id \in Nat
         /\ \A i \in DOMAIN buffer : buffer[i].id \in Nat
         /\ Newest \in Int /\ accepted \in Nat /\ Len(buffer) \in Nat /\ Len(prepared) \in Nat
         /\ Len(prepared) <= Len(buffer) /\ accepted - Len(buffer) \in Int
         /\ written \in Nat /\ written <= Len(batch) /\ written <= Len(buffer) /\ written <= Len(prepared)
<1>1. /\ chain \in Marks /\ head \in Heads /\ saved \in Marks /\ mirror \in Marks
      /\ disk \in Seq(Lines) /\ prepared \in Seq(Prepared) /\ buffer \in Seq(Records)
      /\ batch \in Seq(Prepared) /\ written \in 0 .. Len(batch) /\ accepted \in Nat
      /\ Len(batch) <= Len(prepared) /\ Len(prepared) <= Len(buffer)
  BY DEF TypeOK, MemType, FlushType, DiskType, EnvType, PreparedFollowsBuffer
<1>2. /\ chain.hash \in Seq(Nat) /\ head.hash \in Seq(Nat) /\ saved.hash \in Seq(Nat)
      /\ mirror.hash \in Seq(Nat)
  BY <1>1 DEF Marks, Heads, Hashes
<1>3. ASSUME NEW i \in DOMAIN disk
      PROVE  disk[i].hash \in Seq(Nat) /\ disk[i].id \in Nat
  BY <1>1, LineFacts DEF Hashes
<1>4. ASSUME NEW i \in DOMAIN prepared
      PROVE  prepared[i].hash \in Seq(Nat) /\ prepared[i].id \in Nat
  <2>1. prepared[i] \in Prepared
    BY <1>1
  <2> QED BY <2>1 DEF Prepared, Hashes
<1>5. ASSUME NEW i \in DOMAIN buffer
      PROVE  buffer[i].id \in Nat
  <2>1. buffer[i] \in Records
    BY <1>1
  <2> QED BY <2>1 DEF Records
<1>6. /\ accepted \in Nat /\ Len(buffer) \in Nat /\ Len(prepared) \in Nat
      /\ Len(prepared) <= Len(buffer)
      /\ written \in Nat /\ written <= Len(batch) /\ written <= Len(buffer) /\ written <= Len(prepared)
  BY <1>1
<1>7. Newest \in Int /\ accepted - Len(buffer) \in Int
  BY <1>6 DEF Newest
<1> QED BY <1>2, <1>3, <1>4, <1>5, <1>6, <1>7

\* Records are numbered as they are accepted.
LEMMA AsyncLogIds ==
  ASSUME TypeOK, NEW kinds \in Seq(Kinds), AsyncLog(kinds), BufferNumbered
  PROVE  /\ BufferNumbered'
         /\ accepted' - Len(buffer') = accepted - Len(buffer)
<1> DEFINE n == MinOf(Len(kinds), Room)
           F(i) == [id |-> accepted + i, ts |-> today, kind |-> kinds[i], count |-> 0]
           add == [i \in 1 .. n |-> F(i)]
<1>0. /\ buffer \in Seq(Records) /\ Len(buffer) <= BufferMax /\ BufferMax \in Nat
      /\ accepted \in Nat /\ today \in Days /\ Len(buffer) \in Nat
  BY SizesAssumption DEF TypeOK, MemType, EnvType
<1>1. n \in Nat /\ n <= Len(kinds)
  BY <1>0 DEF MinOf, Room
<1>2. \A i \in 1 .. n : F(i) \in Records
  BY <1>0, <1>1 DEF Records
<1>3. add \in Seq(Records) /\ Len(add) = n /\ \A i \in 1 .. n : add[i].id = accepted + i
  <2>1. add \in Seq(Records) /\ Len(add) = n
    <3> HIDE DEF F, n
    <3> QED BY <1>1, <1>2
  <2>2. \A i \in 1 .. n : add[i].id = accepted + i
    <3> HIDE DEF n
    <3> QED OBVIOUS
  <2> QED BY <2>1, <2>2
<1>4. buffer' = buffer \o add /\ accepted' = accepted + n
  BY DEF AsyncLog
<1> HIDE DEF add, n
<1>5. /\ buffer \o add \in Seq(Records) /\ Len(buffer \o add) = Len(buffer) + n
      /\ \A i \in 1 .. Len(buffer) : (buffer \o add)[i] = buffer[i]
      /\ \A i \in 1 .. n : (buffer \o add)[Len(buffer) + i].id = accepted + i
  <2>1. PICK x \in Seq(Records) : x = add
    BY <1>3
  <2>2. PICK b \in Seq(Records) : b = buffer
    BY <1>0
  <2>3. /\ b \o x \in Seq(Records) /\ Len(b \o x) = Len(b) + Len(x)
        /\ \A i \in 1 .. Len(b) : (b \o x)[i] = b[i]
        /\ \A i \in 1 .. Len(x) : (b \o x)[Len(b) + i] = x[i]
    BY ConcatType
  <2> QED BY <1>3, <2>1, <2>2, <2>3
<1>6. ASSUME NEW i \in DOMAIN buffer'
      PROVE  buffer'[i].id = accepted' - Len(buffer') + i
  <2>1. i \in 1 .. Len(buffer) + n
    BY <1>4, <1>5
  <2>2. CASE i \in 1 .. Len(buffer)
    <3>1. buffer'[i].id = accepted - Len(buffer) + i
      BY <1>0, <1>4, <1>5, <2>2 DEF BufferNumbered
    <3> QED BY <1>0, <1>1, <1>4, <1>5, <2>2, <3>1
  <2>3. CASE i \notin 1 .. Len(buffer)
    <3>1. i - Len(buffer) \in 1 .. n /\ i = Len(buffer) + (i - Len(buffer))
      BY <1>0, <1>1, <2>1, <2>3
    <3>2. buffer'[i].id = accepted + (i - Len(buffer))
      BY <1>4, <1>5, <3>1
    <3> QED BY <1>0, <1>1, <1>4, <1>5, <2>1, <3>2
  <2> QED BY <2>2, <2>3
<1> QED BY <1>0, <1>1, <1>4, <1>5, <1>6 DEF BufferNumbered

\* Numbering the buffer commits each copy to its own record and earlier ones.
LEMMA PreparedBounded ==
  ASSUME TypeOK, PreparedFollowsBuffer, BufferNumbered, CopiesBounded,
         Upto(chain.hash, accepted - Len(buffer)), prepared' = PrepareBuffered
  PROVE  CopiesBounded'
<1>1. /\ prepared' \in Seq(Prepared) /\ Len(prepared') = Len(buffer)
      /\ \A i \in 1 .. Len(prepared) : PrepareBuffered[i] = prepared[i]
      /\ \A i \in 1 .. Len(buffer) : PrepareBuffered[i].id = buffer[i].id
  BY PrepareBufferedFacts
<1>2. /\ Len(prepared) \in Nat /\ Len(buffer) \in Nat /\ accepted \in Nat /\ Len(prepared) <= Len(buffer)
      /\ DOMAIN prepared = 1 .. Len(prepared) /\ DOMAIN buffer = 1 .. Len(buffer)
  BY HashTypes DEF TypeOK, MemType
<1>3. \A y \in DOMAIN Base.hash : Base.hash[y] \in Nat /\ Base.hash[y] <= accepted - Len(buffer) + Len(prepared)
  <2>1. Base.hash \in Seq(Nat)
    BY ChainedFacts
  <2>2. CASE prepared = <<>>
    BY <1>2, <2>1, <2>2 DEF Base, Upto
  <2>3. CASE prepared # <<>>
    <3>1. Len(prepared) \in DOMAIN prepared
      BY <1>2, <2>3
    <3>2. Base.hash = prepared[Len(prepared)].hash
      BY <2>3 DEF Base, Mark
    <3>3. prepared[Len(prepared)].id = accepted - Len(buffer) + Len(prepared)
      <4>1. prepared[Len(prepared)].id = buffer[Len(prepared)].id /\ Len(prepared) \in DOMAIN buffer
        BY <1>2, <3>1 DEF PreparedFollowsBuffer
      <4> QED BY <4>1 DEF BufferNumbered
    <3> QED BY <2>1, <3>1, <3>2, <3>3 DEF CopiesBounded, Upto
  <2> QED BY <2>2, <2>3
<1>4. ASSUME NEW i \in 1 .. Len(buffer)
      PROVE  Upto(PrepareBuffered[i].hash, PrepareBuffered[i].id)
  <2>1. CASE i \in 1 .. Len(prepared)
    BY <1>1, <1>2, <2>1 DEF CopiesBounded
  <2>2. CASE i \notin 1 .. Len(prepared)
    <3>1. i \in Len(prepared) + 1 .. Len(buffer)
      BY <1>2, <2>2
    <3>2. PrepareBuffered[i].id = accepted - Len(buffer) + i
      BY <1>1, <1>2 DEF BufferNumbered
    <3>3. ASSUME NEW x \in DOMAIN PrepareBuffered[i].hash
          PROVE  PrepareBuffered[i].hash[x] <= accepted - Len(buffer) + i
      <4>1. \/ \E y \in DOMAIN Base.hash : PrepareBuffered[i].hash[x] = Base.hash[y]
            \/ \E j \in Len(prepared) + 1 .. i : PrepareBuffered[i].hash[x] = buffer[j].id
        BY <3>1, ChainedFacts
      <4>2. CASE \E y \in DOMAIN Base.hash : PrepareBuffered[i].hash[x] = Base.hash[y]
        BY <1>2, <1>3, <3>1, <4>2
      <4>3. CASE \E j \in Len(prepared) + 1 .. i : PrepareBuffered[i].hash[x] = buffer[j].id
        <5>1. PICK j \in Len(prepared) + 1 .. i : PrepareBuffered[i].hash[x] = buffer[j].id
          BY <4>3
        <5>2. j \in DOMAIN buffer /\ j <= i
          BY <1>2, <3>1
        <5>3. buffer[j].id = accepted - Len(buffer) + j
          BY <5>2 DEF BufferNumbered
        <5> QED BY <1>2, <5>1, <5>2, <5>3
      <4> QED BY <4>1, <4>2, <4>3
    <3> QED BY <3>2, <3>3 DEF Upto
  <2> QED BY <2>1, <2>2
<1>5. DOMAIN prepared' = 1 .. Len(buffer)
  BY <1>1
<1> QED BY <1>4, <1>5 DEF CopiesBounded, Upto

\* Nothing is taken away.
LEMMA LessNone ==
  ASSUME NEW a \in Nat, NEW b, NEW c, b = 0, c = 0
  PROVE  a - (b - c) = a /\ a - b = a
<1>1. a - (0 - 0) = a /\ a - 0 = a
  OBVIOUS
<1> QED BY <1>1, Zenon

\* A new object goes on numbering after the newest record on disk.
LEMMA LoseMemoryIds ==
  ASSUME LoseMemory, accepted \in Nat, head.hash \in Seq(Nat), saved'.hash \in Seq(Nat),
         disk' \in Seq(Lines), \A i \in DOMAIN disk' : IsTorn(disk'[i]) => i = Len(disk'),
         NEW n \in Int, WholeNumbered(disk', n), Upto(head.hash, n), Upto(saved'.hash, n)
  PROVE  WholeNumbered(disk', accepted') /\ Upto(head.hash, accepted') /\ Upto(saved'.hash, accepted')
<1> DEFINE durable == {disk'[i].id : i \in DOMAIN disk'} \cup ToSet(head.hash) \cup ToSet(saved'.hash)
<1>1. accepted' \in Nat /\ accepted' \in durable \cup {0} /\ \A m \in durable : m <= accepted'
  BY DEF LoseMemory
<1>2. Upto(head.hash, accepted') /\ Upto(saved'.hash, accepted')
  BY <1>1 DEF Upto, ToSet
<1>3. /\ \A i \in 1 .. Len(Intact(disk')) : i \in DOMAIN disk' /\ Intact(disk')[i] = disk'[i]
      /\ Intact(disk') \in Seq(Lines)
      /\ \A i \in DOMAIN disk' : i \in 1 .. Len(Intact(disk')) \/ IsTorn(disk'[i])
  <2>1. /\ \A i \in 1 .. Len(Intact(disk')) : i \in DOMAIN disk' /\ Intact(disk')[i] = disk'[i]
        /\ Intact(disk') \in Seq(Lines)
        /\ (disk' = <<>> \/ ~IsTorn(disk'[Len(disk')])) => Intact(disk') = disk'
        /\ (disk' # <<>> /\ IsTorn(disk'[Len(disk')])) => Len(Intact(disk')) = Len(disk') - 1
    BY IntactFacts
  <2>2. ASSUME NEW i \in DOMAIN disk', i \notin 1 .. Len(Intact(disk'))
        PROVE  IsTorn(disk'[i])
    <3>1. CASE disk' = <<>> \/ ~IsTorn(disk'[Len(disk')])
      BY <2>1, <2>2, <3>1
    <3>2. CASE disk' # <<>> /\ IsTorn(disk'[Len(disk')])
      <4>1. i = Len(disk')
        BY <2>1, <2>2, <3>2
      <4> QED BY <3>2, <4>1
    <3> QED BY <3>1, <3>2
  <2> QED BY <2>1, <2>2
<1>4. CASE Intact(disk') = <<>>
  <2>1. Len(Intact(disk')) = 0
    BY <1>4
  <2>2. \A i \in 1 .. Len(Intact(disk')) : Intact(disk')[i].id = accepted' - Len(Intact(disk')) + i
    BY <2>1
  <2> QED BY <1>2, <2>2 DEF WholeNumbered
<1>5. CASE Intact(disk') # <<>>
  <2> DEFINE top == Len(Intact(disk'))
  <2>1. top \in 1 .. top /\ top \in Nat
    BY <1>3, <1>5
  <2> HIDE DEF top
  <2>2. ASSUME NEW i \in 1 .. top
        PROVE  i \in DOMAIN disk' /\ disk'[i].id = n - top + i
    <3>1. i \in DOMAIN disk' /\ Intact(disk')[i] = disk'[i]
      BY <1>3 DEF top
    <3>2. Intact(disk')[i].id = n - top + i
      BY DEF WholeNumbered, top
    <3> QED BY <3>1, <3>2
  <2>c. top \in DOMAIN disk' /\ disk'[top].id = n
    <3>1. top \in DOMAIN disk' /\ disk'[top].id = n - top + top
      BY <2>1, <2>2
    <3> QED BY <2>1, <3>1
  <2>3. n \in durable
    BY <2>c
  <2>4. n \in Nat
    BY <2>c, LineFacts
  <2>5. ASSUME NEW m \in durable
        PROVE  m <= n
    <3>1. CASE m \in {disk'[i].id : i \in DOMAIN disk'}
      <4>1. PICK i \in DOMAIN disk' : m = disk'[i].id
        BY <3>1
      <4>2. CASE i \in 1 .. top
        BY <2>1, <2>2, <2>4, <4>1, <4>2
      <4>3. CASE i \notin 1 .. top
        <5>1. IsTorn(disk'[i])
          BY <1>3, <4>3 DEF top
        <5> QED BY <2>4, <4>1, <5>1 DEF WholeNumbered
      <4> QED BY <4>2, <4>3
    <3>2. CASE m \in ToSet(head.hash) \cup ToSet(saved'.hash)
      BY <3>2 DEF ToSet, Upto
    <3> QED BY <3>1, <3>2
  <2>6. accepted' = n
    <3> HIDE DEF durable
    <3> QED BY <1>1, <2>3, <2>4, <2>5
  <2> QED BY <1>2, <2>6
<1> QED BY <1>2, <1>4, <1>5 DEF WholeNumbered

\* What is appended carries the next numbers.
LEMMA WholeAppended ==
  ASSUME TypeOK, PreparedFollowsBuffer, IdsInv, NEW d, NEW n \in 0 .. Len(batch) - written,
         Appended(n, d), \A i \in DOMAIN disk : ~IsTorn(disk[i]),
         \A i \in 1 .. Len(disk) + n : i \in DOMAIN d /\ ~IsTorn(d[i]),
         \/ Len(d) = Len(disk) + n
         \/ /\ Len(d) = Len(disk) + n + 1 /\ IsTorn(d[Len(d)])
            /\ d[Len(d)].id = 0 /\ d[Len(d)].hash = Genesis
  PROVE  WholeNumbered(d, Newest + n)
<1>1. /\ disk \in Seq(Lines) /\ d \in Seq(Lines) /\ n \in Nat /\ batch \in Seq(Prepared)
      /\ written \in 0 .. Len(batch) /\ Len(disk) \in Nat
      /\ Newest \in Int /\ accepted \in Nat /\ Len(buffer) \in Nat /\ written \in Nat
  BY HashTypes DEF TypeOK, DiskType, FlushType, Appended
<1>2. /\ Intact(disk) = disk /\ Intact(d) \in Seq(Lines)
      /\ Len(Intact(d)) = Len(disk) + n
      /\ \A i \in 1 .. Len(disk) + n : Intact(d)[i] = d[i]
  BY <1>1, IntactAppended
<1>3. ASSUME NEW i \in 1 .. Len(disk) + n
      PROVE  d[i].id = Newest + n - (Len(disk) + n) + i /\ Upto(d[i].hash, d[i].id)
  <2>1. CASE i \in 1 .. Len(disk)
    <3>1. disk[i].id = Newest - Len(disk) + i /\ Upto(disk[i].hash, disk[i].id)
      BY <1>1, <1>2, <2>1 DEF IdsInv, WholeNumbered
    <3>2. d[i].id = disk[i].id /\ d[i].hash = disk[i].hash
      BY <2>1 DEF Appended
    <3> QED BY <1>1, <3>1, <3>2
  <2>2. CASE i \notin 1 .. Len(disk)
    <3>1. PICK j \in 1 .. n : i = Len(disk) + j
      <4>1. i - Len(disk) \in 1 .. n /\ i = Len(disk) + (i - Len(disk))
        BY <1>1, <2>2
      <4> QED BY <4>1
    <3>2. written + j \in DOMAIN batch
      BY <1>1
    <3>3. /\ d[i].id = batch[written + j].id /\ d[i].hash = batch[written + j].hash
          /\ batch[written + j] = prepared[written + j] /\ batch[written + j].id = buffer[written + j].id
          /\ written + j \in DOMAIN prepared /\ written + j \in DOMAIN buffer
      BY <3>1, <3>2, BatchNumbers DEF Appended
    <3>4. buffer[written + j].id = accepted - Len(buffer) + (written + j)
      BY <3>3 DEF IdsInv, BufferNumbered
    <3>5. d[i].id = Newest + j
      BY <1>1, <3>3, <3>4 DEF Newest
    <3>6. Upto(d[i].hash, d[i].id)
      BY <3>3 DEF IdsInv, CopiesBounded
    <3> QED BY <1>1, <3>1, <3>5, <3>6
  <2> QED BY <2>1, <2>2
<1>4. ASSUME NEW i \in DOMAIN d
      PROVE  Upto(d[i].hash, d[i].id) /\ (IsTorn(d[i]) => d[i].id = 0)
  <2>1. CASE i \in 1 .. Len(disk) + n
    BY <1>3, <2>1
  <2>2. CASE i \notin 1 .. Len(disk) + n
    <3>1. i = Len(d) /\ d[i].id = 0 /\ d[i].hash = Genesis
      BY <1>1, <2>2
    <3> QED BY <3>1 DEF Upto, Genesis
  <2> QED BY <2>1, <2>2
<1>5. ASSUME NEW i \in 1 .. Len(Intact(d))
      PROVE  Intact(d)[i].id = (Newest + n) - Len(Intact(d)) + i
  <2>1. i \in 1 .. Len(disk) + n /\ Intact(d)[i] = d[i]
    BY <1>2
  <2>2. d[i].id = Newest + n - (Len(disk) + n) + i
    BY <1>3, <2>1
  <2> QED BY <1>1, <1>2, <2>1, <2>2
<1> QED BY <1>4, <1>5, Zenon DEF WholeNumbered

\* The head a flush writes commits to nothing that is not on disk.
LEMMA FlushHeadBounded ==
  ASSUME TypeOK, PreparedFollowsBuffer, IdsInv
  PROVE  Upto(FlushHead.hash, Newest)
<1>1. /\ accepted \in Nat /\ Len(buffer) \in Nat /\ written \in 0 .. Len(batch) /\ batch \in Seq(Prepared)
  BY HashTypes DEF TypeOK, FlushType
<1>2. CASE written > 0
  <2>1. written \in DOMAIN batch
    BY <1>1, <1>2
  <2>2. /\ written \in DOMAIN prepared /\ written \in DOMAIN buffer
        /\ batch[written] = prepared[written] /\ batch[written].id = buffer[written].id
    BY <2>1, BatchNumbers
  <2>3. buffer[written].id = accepted - Len(buffer) + written
    BY <2>2 DEF IdsInv, BufferNumbered
  <2>4. batch[written].id = Newest
    BY <1>1, <2>2, <2>3 DEF Newest
  <2>5. Upto(batch[written].hash, batch[written].id)
    BY <2>2 DEF IdsInv, CopiesBounded
  <2> QED BY <1>2, <2>4, <2>5 DEF FlushHead
<1>3. CASE ~(written > 0)
  <2>1. Newest = accepted - Len(buffer)
    BY <1>1, <1>3 DEF Newest
  <2> QED BY <1>3, <2>1 DEF FlushHead, IdsInv, MarksBounded
<1> QED BY <1>2, <1>3

\* Committing leaves the rest of the buffer numbered, also with a record of the
\* refused ones added.
LEMMA CommitIds ==
  ASSUME TypeOK, PreparedFollowsBuffer, IdsInv, written > 0, written' = 0, CommitWritten
  PROVE  /\ BufferNumbered' /\ CopiesBounded'
         /\ Newest' = Newest /\ Upto(chain'.hash, accepted' - Len(buffer'))
<1>1. /\ accepted \in Nat /\ Len(buffer) \in Nat /\ Len(prepared) \in Nat /\ written \in 0 .. Len(buffer)
      /\ written \in 0 .. Len(prepared)
      /\ buffer \in Seq(Records) /\ prepared \in Seq(Prepared) /\ dropped \in Nat /\ today \in Days
  BY HashTypes DEF TypeOK, MemType, EnvType
<1>2. PICK q \in Seq(Records) : /\ q = Uncommitted(buffer) /\ Len(q) = Len(buffer) - written
                                /\ \A i \in 1 .. Len(buffer) - written : q[i] = buffer[written + i]
  <2>1. /\ Uncommitted(buffer) \in Seq(Records) /\ Len(Uncommitted(buffer)) = Len(buffer) - written
        /\ \A i \in 1 .. Len(buffer) - written : Uncommitted(buffer)[i] = buffer[written + i]
    BY <1>1, RestType DEF Uncommitted
  <2> QED BY <2>1
<1>3. PICK p \in Seq(Prepared) : /\ p = Uncommitted(prepared) /\ Len(p) = Len(prepared) - written
                                 /\ \A i \in 1 .. Len(prepared) - written : p[i] = prepared[written + i]
  <2>1. /\ Uncommitted(prepared) \in Seq(Prepared) /\ Len(Uncommitted(prepared)) = Len(prepared) - written
        /\ \A i \in 1 .. Len(prepared) - written : Uncommitted(prepared)[i] = prepared[written + i]
    BY <1>1, RestType DEF Uncommitted
  <2> QED BY <2>1
<1>4. CopiesBounded'
  <2>1. ASSUME NEW i \in DOMAIN p
        PROVE  Upto(p[i].hash, p[i].id)
    <3>1. i \in 1 .. Len(prepared) - written /\ written + i \in DOMAIN prepared
      BY <1>1, <1>3
    <3> QED BY <1>3, <3>1 DEF IdsInv, CopiesBounded
  <2>2. prepared' = p
    BY <1>3 DEF CommitWritten
  <2> QED BY <2>1, <2>2 DEF CopiesBounded, Upto
<1>5. ASSUME NEW i \in 1 .. Len(q)
      PROVE  q[i].id = accepted - Len(q) + i
  <2>1. i \in 1 .. Len(buffer) - written /\ written + i \in DOMAIN buffer
    BY <1>1, <1>2
  <2>2. buffer[written + i].id = accepted - Len(buffer) + (written + i)
    BY <2>1 DEF IdsInv, BufferNumbered
  <2> QED BY <1>1, <1>2, <2>1, <2>2
<1>6. /\ BufferNumbered'
      /\ accepted' - Len(buffer') = Newest /\ Len(buffer') \in Nat /\ accepted' \in Nat
  <2>1. CASE ReportDue
    <3>1. DroppedRecord \in Records /\ DroppedRecord.id = accepted + 1
      BY <1>1 DEF DroppedRecord, Records, Kinds
    <3>2. PICK e \in Records : e = DroppedRecord
      BY <3>1
    <3>3. buffer' = Append(q, e) /\ accepted' = accepted + 1
      BY <1>2, <2>1, <3>2 DEF CommitWritten
    <3>4. /\ Len(Append(q, e)) = Len(q) + 1 /\ Append(q, e)[Len(q) + 1] = e
          /\ \A i \in 1 .. Len(q) : Append(q, e)[i] = q[i] /\ DOMAIN Append(q, e) = 1 .. Len(q) + 1
      OBVIOUS
    <3>5. ASSUME NEW i \in 1 .. Len(q) + 1
          PROVE  buffer'[i].id = accepted' - Len(buffer') + i
      <4>1. CASE i \in 1 .. Len(q)
        BY <1>1, <1>5, <3>3, <3>4, <4>1
      <4>2. CASE i \notin 1 .. Len(q)
        <5>1. i = Len(q) + 1
          BY <4>2
        <5> QED BY <1>1, <3>1, <3>2, <3>3, <3>4, <5>1
      <4> QED BY <4>1, <4>2
    <3>6. DOMAIN buffer' = 1 .. Len(q) + 1
      BY <3>3
    <3>7. BufferNumbered'
      BY <3>5, <3>6 DEF BufferNumbered
    <3>8. accepted' - Len(buffer') = Newest /\ Len(buffer') \in Nat /\ accepted' \in Nat
      BY <1>1, <1>2, <3>3, <3>4 DEF Newest
    <3> QED BY <3>7, <3>8
  <2>2. CASE ~ReportDue
    <3>1. buffer' = q /\ accepted' = accepted
      BY <1>2, <2>2 DEF CommitWritten
    <3>2. BufferNumbered'
      BY <1>5, <3>1 DEF BufferNumbered
    <3>3. accepted' - Len(buffer') = Newest /\ Len(buffer') \in Nat /\ accepted' \in Nat
      <4>1. Len(buffer') = Len(buffer) - written /\ accepted' = accepted
        BY <1>2, <3>1
      <4>2. Len(buffer') \in Nat
        BY <3>1
      <4> QED BY <1>1, <4>1, <4>2 DEF Newest
    <3> QED BY <3>2, <3>3
  <2> QED BY <2>1, <2>2
<1>7. Newest' = Newest
  BY <1>6 DEF Newest
<1>8. chain'.hash = FlushHead.hash
  BY DEF CommitWritten, Mark, FlushHead
<1> QED BY <1>4, <1>6, <1>7, <1>8, FlushHeadBounded

\* While the directory is not lost, every step keeps the numbers.
LEMMA IdsStep ==
  ASSUME ~TrimMayFail, ~RemoveMayFail, AuditInv, AuditInv', DiskInv, DiskInv', wipes' = 0,
         IdsInv, [Next]_vars \/ VerifierFlush
  PROVE  IdsInv'
<1> USE DEF memVars, flushVars, diskVars, storeVars, envVars
<1>0. /\ TypeOK /\ FlushInv /\ PreparedFollowsBuffer /\ disk \in Seq(Lines) /\ disk' \in Seq(Lines)
      /\ Sorted(disk) /\ TornLast /\ FloorHolds /\ NonePassedOver
      /\ WholeNumbered(disk, Newest) /\ BufferNumbered /\ CopiesBounded /\ MarksBounded
  BY DEF AuditInv, DiskInv, TypeOK, DiskType, IdsInv
<1>t. /\ chain.hash \in Seq(Nat) /\ head.hash \in Seq(Nat) /\ saved.hash \in Seq(Nat)
      /\ mirror.hash \in Seq(Nat)
      /\ Newest \in Int /\ accepted \in Nat /\ Len(buffer) \in Nat
      /\ written \in Nat /\ written <= Len(buffer) /\ accepted - Len(buffer) \in Int
  BY <1>0, HashTypes
<1>a. flushPc # "idle" =>
        /\ phase \in {"up", "stopping", "stopped"}
        /\ \A i \in DOMAIN disk : disk[i].day <= floor /\ ~IsTorn(disk[i])
  BY <1>0 DEF FlushInv, TypeOK, MemType, TornLast, FloorHolds
<1>b. ASSUME UNCHANGED <<disk, buffer, prepared, accepted, written, chain, head, saved, mirror>>
      PROVE  IdsInv'
  <2>1. Newest' = Newest
    BY <1>b DEF Newest
  <2>2. WholeNumbered(disk, Newest)' <=> WholeNumbered(disk', Newest')
    BY DEF WholeNumbered, Intact, IsTorn, Upto
  <2>3. BufferNumbered' /\ CopiesBounded' /\ MarksBounded'
    BY <1>0, <1>b, <2>1 DEF BufferNumbered, CopiesBounded, MarksBounded, Upto
  <2> QED BY <1>0, <1>b, <2>1, <2>2, <2>3 DEF IdsInv
<1>c. WholeNumbered(disk, Newest)' <=> WholeNumbered(disk', Newest')
  BY DEF WholeNumbered, Intact, IsTorn, Upto
<1>1. CASE AppendGroup
  <2>1. PICK n \in 1 .. Len(batch) - written, seg \in 0 .. Len(disk) :
          /\ IsTarget(disk, GroupDay, seg)
          /\ AppendLines(disk, <<GroupDay, seg>>, GroupLines(n, seg), disk')
          /\ written' = written + n
    BY <1>1 DEF AppendGroup
  <2>2. /\ written < Len(batch) /\ n \in 0 .. Len(batch) - written /\ seg \in Nat
        /\ written \in 0 .. Len(batch) /\ batch \in Seq(Prepared) /\ n \in Nat \ {0}
    BY <1>0, <1>1 DEF AppendGroup, FlushInv, TypeOK, FlushType
  <2>3. Appended(n, disk') /\ Len(disk') = Len(disk) + n
    BY <1>0, <1>1, <1>a, <2>1, <2>2, GroupAppended DEF AppendGroup
  <2>4. \A i \in 1 .. Len(disk) + n : i \in DOMAIN disk' /\ ~IsTorn(disk'[i])
    <3>1. phase' \in {"up", "stopping", "stopped"}
      BY <1>1, <1>a DEF AppendGroup
    <3>2. \A i \in DOMAIN disk' : ~IsTorn(disk'[i])
      BY <3>1 DEF DiskInv, TornLast, IsTorn
    <3> QED BY <1>0, <2>3, <3>2
  <2>5. WholeNumbered(disk', Newest + n)
    BY <1>0, <1>1, <1>a, <2>2, <2>3, <2>4, WholeAppended DEF AppendGroup, IdsInv
  <2>6. UNCHANGED <<buffer, prepared, accepted, chain, head, saved, mirror>>
    BY <1>1 DEF AppendGroup
  <2>7. Newest' = Newest + n
    BY <1>t, <2>1, <2>2, <2>6 DEF Newest
  <2>8. Upto(head.hash, Newest + n) /\ Upto(saved.hash, Newest + n) /\ Upto(mirror.hash, Newest + n)
    <3>1. Newest + n \in Int /\ Newest <= Newest + n
      BY <1>t, <2>2
    <3> QED BY <1>0, <1>t, <3>1, UptoLater DEF MarksBounded
  <2>9. BufferNumbered' /\ CopiesBounded'
    BY <1>0, <2>6 DEF BufferNumbered, CopiesBounded, Upto
  <2>10. MarksBounded'
    BY <1>0, <2>6, <2>7, <2>8 DEF MarksBounded, Upto
  <2> QED BY <1>c, <2>5, <2>7, <2>9, <2>10 DEF IdsInv
<1>2. CASE RemoveFile
  <2>1. PICK b \in 1 .. Len(disk) : disk' = SubSeq(disk, b + 1, Len(disk))
    BY <1>0, <1>2, RemoveFileFacts
  <2>2. UNCHANGED <<buffer, prepared, accepted, written, chain, head, saved, mirror>>
        /\ \A i \in DOMAIN disk : ~IsTorn(disk[i])
    BY <1>2, <1>a DEF RemoveFile
  <2>3. b \in 0 .. Len(disk) /\ b \in Nat /\ Len(disk) \in Nat
    BY <1>0
  <2>4. PICK e \in Seq(Lines) : e = disk' /\ Len(e) = Len(disk) - b
                                /\ \A i \in 1 .. Len(disk) - b : e[i] = disk[b + i]
    <3>1. /\ SubSeq(disk, b + 1, Len(disk)) \in Seq(Lines)
          /\ Len(SubSeq(disk, b + 1, Len(disk))) = Len(disk) - b
          /\ \A i \in 1 .. Len(disk) - b : SubSeq(disk, b + 1, Len(disk))[i] = disk[b + i]
      BY <1>0, <2>3, RestType
    <3> QED BY <2>1, <3>1, Zenon
  <2>5. ASSUME NEW i \in DOMAIN e
        PROVE  b + i \in DOMAIN disk /\ e[i] = disk[b + i]
    BY <1>0, <2>3, <2>4
  <2>6. Intact(disk) = disk /\ Intact(e) = e
    <3>1. \A i \in DOMAIN e : ~IsTorn(e[i])
      BY <2>2, <2>5
    <3> QED BY <1>0, <2>2, <3>1, IntactWhole
  <2>7. ASSUME NEW i \in 1 .. Len(Intact(e))
        PROVE  Intact(e)[i].id = Newest - Len(Intact(e)) + i
    <3>1. i \in DOMAIN e /\ Len(Intact(e)) = Len(disk) - b /\ Intact(e)[i] = e[i]
      BY <2>4, <2>6
    <3>2. b + i \in 1 .. Len(disk) /\ e[i] = disk[b + i]
      BY <1>0, <2>5, <3>1
    <3>3. disk[b + i].id = Newest - Len(disk) + (b + i)
      BY <1>0, <2>6, <3>2 DEF WholeNumbered
    <3> QED BY <1>t, <2>3, <3>1, <3>2, <3>3
  <2>8. \A i \in DOMAIN e : Upto(e[i].hash, e[i].id) /\ (IsTorn(e[i]) => e[i].id = 0)
    BY <1>0, <2>5 DEF WholeNumbered
  <2>9. WholeNumbered(disk', Newest)
    BY <2>4, <2>7, <2>8 DEF WholeNumbered
  <2>10. Newest' = Newest
    BY <2>2 DEF Newest
  <2>11. BufferNumbered' /\ CopiesBounded' /\ MarksBounded'
    BY <1>0, <2>2, <2>10 DEF BufferNumbered, CopiesBounded, MarksBounded, Upto
  <2> QED BY <1>c, <2>9, <2>10, <2>11 DEF IdsInv
<1>3. CASE WriteHead \/ EndRetention
  <2>1. UNCHANGED <<disk, buffer, prepared, accepted, written, chain, saved, mirror>>
    BY <1>3 DEF WriteHead, EndRetention
  <2>2. head' = head \/ head'.hash = FlushHead.hash
    BY <1>3 DEF WriteHead, EndRetention, HeadPayload
  <2>3. Newest' = Newest
    BY <2>1 DEF Newest
  <2>4. Upto(head'.hash, Newest)
    BY <1>0, <2>2, FlushHeadBounded DEF MarksBounded, IdsInv
  <2>5. BufferNumbered' /\ CopiesBounded' /\ MarksBounded'
    BY <1>0, <2>1, <2>3, <2>4 DEF BufferNumbered, CopiesBounded, MarksBounded, Upto
  <2> QED BY <1>0, <1>c, <2>1, <2>3, <2>5 DEF IdsInv
<1>4. CASE EndFlush
  <2>1. written' = 0 /\ UNCHANGED <<disk, head, saved>>
    BY <1>4 DEF EndFlush
  <2>2. CASE ~(written > 0)
    <3>1. written = 0
      BY <1>t, <2>2
    <3>2. UNCHANGED <<buffer, prepared, chain, accepted, mirror>>
      BY <1>4, <2>2 DEF EndFlush
    <3> QED BY <1>b, <2>1, <3>1, <3>2
  <2>3. CASE written > 0
    <3>1. CommitWritten /\ SetAuditHead
      BY <1>4, <2>3 DEF EndFlush
    <3>2. /\ BufferNumbered' /\ CopiesBounded'
          /\ Newest' = Newest /\ Upto(chain'.hash, accepted' - Len(buffer'))
      BY <1>0, <2>1, <2>3, <3>1, CommitIds DEF IdsInv
    <3>3. mirror' = mirror \/ mirror'.hash = FlushHead.hash
      BY <2>3, <3>1 DEF SetAuditHead, Mark, FlushHead
    <3>4. Upto(mirror'.hash, Newest)
      BY <1>0, <3>3, FlushHeadBounded DEF MarksBounded, IdsInv
    <3>5. MarksBounded'
      BY <1>0, <2>1, <3>2, <3>4 DEF MarksBounded, Upto
    <3> QED BY <1>0, <1>c, <2>1, <3>2, <3>5 DEF IdsInv
  <2> QED BY <2>2, <2>3
<1>5. CASE LoadHead
  <2>1. UNCHANGED <<disk, buffer, prepared, accepted, written, head, saved, mirror>>
        /\ chain'.hash = head.hash /\ buffer = <<>> /\ written = 0
    BY <1>0, <1>5 DEF LoadHead, Mark, FlushInv
  <2>2. Newest' = Newest /\ Newest = accepted' - Len(buffer')
    BY <1>t, <2>1 DEF Newest
  <2>3. BufferNumbered' /\ CopiesBounded' /\ MarksBounded'
    BY <1>0, <2>1, <2>2 DEF BufferNumbered, CopiesBounded, MarksBounded, Upto
  <2> QED BY <1>0, <1>c, <2>1, <2>2, <2>3 DEF IdsInv
<1>6. CASE RepairTornTail
  <2>1. UNCHANGED <<buffer, prepared, accepted, written, chain, head, saved, mirror>>
    BY <1>6 DEF RepairTornTail
  <2>2. CASE disk' = disk
    BY <1>b, <2>1, <2>2
  <2>3. CASE disk' # disk
    <3>1. PICK i \in TornTails : disk' = Repaired(i)
      BY <1>6, <2>3 DEF RepairTornTail
    <3>2. i = Len(disk) /\ i \in DOMAIN disk /\ IsTorn(disk[Len(disk)]) /\ disk # <<>>
      BY <1>0, <3>1 DEF TornTails, TornLast
    <3>3. disk' = SubSeq(disk, 1, Len(disk) - 1)
      BY <1>0, <3>1, <3>2, CutLast
    <3>4. Intact(disk) = disk'
      BY <1>0, <3>2, <3>3, IntactFacts
    <3>5. ASSUME NEW j \in DOMAIN disk'
          PROVE  j \in DOMAIN disk /\ disk'[j] = disk[j] /\ ~IsTorn(disk'[j])
      <4>1. Len(disk) - 1 \in 0 .. Len(disk) /\ Len(disk) \in Nat
        BY <1>0, <3>2
      <4>2. /\ Len(disk') = Len(disk) - 1
            /\ \A k \in 1 .. Len(disk) - 1 : k \in DOMAIN disk /\ disk'[k] = disk[k]
        BY <1>0, <3>3, <4>1, FrontType
      <4>3. j \in 1 .. Len(disk) - 1
        BY <1>0, <4>2
      <4>4. j # Len(disk)
        BY <4>1, <4>3
      <4> QED BY <1>0, <4>2, <4>3, <4>4 DEF TornLast
    <3>6. Intact(disk') = disk'
      BY <1>0, <3>5, IntactWhole
    <3>7. WholeNumbered(disk', Newest)
      BY <1>0, <3>4, <3>5, <3>6 DEF WholeNumbered
    <3>8. Newest' = Newest
      BY <2>1 DEF Newest
    <3>9. BufferNumbered' /\ CopiesBounded' /\ MarksBounded'
      BY <1>0, <2>1, <3>8 DEF BufferNumbered, CopiesBounded, MarksBounded, Upto
    <3> QED BY <1>c, <3>7, <3>8, <3>9 DEF IdsInv
  <2> QED BY <2>2, <2>3
<1>7. CASE RebuildHead
  <2>1. UNCHANGED <<disk, buffer, prepared, accepted, written, saved, mirror>>
        /\ buffer = <<>> /\ written = 0 /\ \A i \in DOMAIN disk : ~IsTorn(disk[i])
    BY <1>0, <1>7 DEF RebuildHead, FlushInv, TornLast
  <2>2. Newest' = Newest /\ Newest = accepted' - Len(buffer')
    BY <1>t, <2>1 DEF Newest
  <2>3. CASE UNCHANGED <<chain, head>>
    BY <1>b, <2>1, <2>3
  <2>4. CASE \E top \in DOMAIN disk : chain' = Mark(disk[top])
                                      /\ (head' = HeadPayload(chain', anchor, reset) \/ UNCHANGED head)
    <3>1. PICK top \in DOMAIN disk : chain' = Mark(disk[top])
                                     /\ (head' = HeadPayload(chain', anchor, reset) \/ UNCHANGED head)
      BY <2>4
    <3>2. Intact(disk) = disk /\ top \in 1 .. Len(disk) /\ Len(disk) \in Nat
      BY <1>0, <2>1, IntactWhole
    <3>3. disk[top].id = Newest - Len(disk) + top /\ Upto(disk[top].hash, disk[top].id)
      BY <1>0, <3>2 DEF WholeNumbered
    <3>4. disk[top].id <= Newest /\ disk[top].id \in Int /\ disk[top].hash \in Seq(Nat)
      BY SMTT(60), <1>0, <1>t, <3>2, <3>3, LineFacts DEF Hashes
    <3>5. Upto(disk[top].hash, Newest)
      BY <1>t, <3>3, <3>4, UptoLater
    <3>6. chain'.hash = disk[top].hash /\ (head'.hash = disk[top].hash \/ head' = head)
      BY <3>1 DEF Mark, HeadPayload
    <3>7. Upto(chain'.hash, Newest) /\ Upto(head'.hash, Newest)
      BY <1>0, <3>5, <3>6 DEF MarksBounded
    <3>8. BufferNumbered' /\ CopiesBounded' /\ MarksBounded'
      BY <1>0, <2>1, <2>2, <3>7 DEF BufferNumbered, CopiesBounded, MarksBounded, Upto
    <3> QED BY <1>0, <1>c, <2>1, <2>2, <3>8 DEF IdsInv
  <2> QED BY <1>7, <2>3, <2>4 DEF RebuildHead
<1>8. CASE DetectReset
  <2> DEFINE kinds == (IF Lost THEN <<"reset">> ELSE <<>>) \o repairs
  <2>1. kinds \in Seq(Kinds) /\ AsyncLog(kinds)
    <3>1. "reset" \in Kinds /\ repairs \in Seq(Kinds)
      BY <1>0 DEF TypeOK, MemType, Kinds
    <3> QED BY <1>8, <3>1 DEF DetectReset
  <2> HIDE DEF kinds
  <2>2. BufferNumbered' /\ accepted' - Len(buffer') = accepted - Len(buffer)
    BY <1>0, <2>1, AsyncLogIds
  <2>3. UNCHANGED <<disk, prepared, written, head, saved, mirror>> /\ buffer = <<>> /\ written = 0
        /\ (chain' = mirror \/ chain' = chain)
    BY <1>0, <1>8 DEF DetectReset, FlushInv
  <2>4. Len(buffer') \in Nat /\ accepted' \in Nat
    BY DEF AuditInv, TypeOK, MemType, EnvType
  <2>5. Newest' = Newest /\ Newest = accepted' - Len(buffer')
    BY <1>t, <2>2, <2>3, <2>4 DEF Newest
  <2>6. Upto(chain'.hash, Newest)
    <3>1. Newest = accepted - Len(buffer)
      BY <2>2, <2>5
    <3> QED BY <1>0, <2>3, <3>1 DEF MarksBounded
  <2>7. CopiesBounded' /\ MarksBounded'
    BY <1>0, <2>3, <2>5, <2>6 DEF CopiesBounded, MarksBounded, Upto
  <2> QED BY <1>0, <1>c, <2>2, <2>3, <2>5, <2>7 DEF IdsInv
<1>9. CASE \E kind \in {"low", "high"} : Log(kind)
  <2>1. PICK kind \in {"low", "high"} : Log(kind)
    BY <1>9
  <2>2. <<kind>> \in Seq(Kinds) /\ AsyncLog(<<kind>>)
    BY <2>1 DEF Log, Kinds
  <2>3. BufferNumbered' /\ accepted' - Len(buffer') = accepted - Len(buffer)
    BY <1>0, <2>2, AsyncLogIds
  <2>4. UNCHANGED <<disk, prepared, written, head, saved, mirror, chain>>
    BY <2>1 DEF Log
  <2>5. Len(buffer') \in Nat /\ accepted' \in Nat
    BY DEF AuditInv, TypeOK, MemType, EnvType
  <2>6. Newest' = Newest
    <3>1. /\ Newest' = accepted' - (Len(buffer') - written') /\ Newest = accepted - (Len(buffer) - written)
          /\ written' = written
      BY <2>4 DEF Newest
    <3>2. PICK a \in Int, b \in Int, w \in Int : a = accepted /\ b = Len(buffer) /\ w = written
      BY <1>t
    <3>3. PICK a2 \in Int, b2 \in Int : a2 = accepted' /\ b2 = Len(buffer')
      BY <2>5
    <3>4. a2 - b2 = a - b /\ Newest' = a2 - (b2 - w) /\ Newest = a - (b - w)
      BY <2>3, <3>1, <3>2, <3>3, Zenon
    <3>5. a2 - (b2 - w) = a - (b - w)
      BY <3>4
    <3> HIDE DEF Newest
    <3> QED BY <3>4, <3>5, Zenon
  <2>7. CopiesBounded' /\ MarksBounded'
    BY <1>0, <2>3, <2>4, <2>6 DEF CopiesBounded, MarksBounded, Upto
  <2> QED BY <1>0, <1>c, <2>3, <2>4, <2>6, <2>7 DEF IdsInv
<1>10. CASE Query \/ TimerFlush \/ TaskFlush \/ StopFlush \/ VerifierFlush
  <2>1. /\ UNCHANGED <<disk, buffer, accepted, chain, head, saved, mirror>>
        /\ prepared' = PrepareBuffered /\ (written' = written \/ (flushPc = "idle" /\ written' = 0))
    BY <1>10 DEF Query, TimerFlush, TaskFlush, StopFlush, VerifierFlush, BeginFlush
  <2>2. written' = written
    BY <1>0, <2>1 DEF FlushInv
  <2>3. CopiesBounded'
    BY <1>0, <2>1, PreparedBounded DEF MarksBounded
  <2>4. Newest' = Newest
    BY <2>1, <2>2 DEF Newest
  <2>5. BufferNumbered' /\ MarksBounded'
    BY <1>0, <2>1, <2>4 DEF BufferNumbered, MarksBounded, Upto
  <2> QED BY <1>0, <1>c, <2>1, <2>3, <2>4, <2>5 DEF IdsInv
<1>11. CASE SaveStore
  <2>1. UNCHANGED <<disk, buffer, prepared, accepted, written, chain, head, mirror>> /\ saved' = mirror
    BY <1>11 DEF SaveStore
  <2>2. Newest' = Newest
    BY <2>1 DEF Newest
  <2>3. BufferNumbered' /\ CopiesBounded' /\ MarksBounded'
    BY <1>0, <2>1, <2>2 DEF BufferNumbered, CopiesBounded, MarksBounded, Upto
  <2> QED BY <1>0, <1>c, <2>1, <2>2, <2>3 DEF IdsInv
<1>12. CASE Unload \/ Crash
  <2>1. /\ LoseMemory /\ mirror' = saved' /\ (saved' = saved \/ saved' = mirror) /\ head' = head
    BY <1>12 DEF Unload, Crash
  <2>2. Upto(saved'.hash, Newest) /\ Upto(head.hash, Newest) /\ saved'.hash \in Seq(Nat)
    BY <1>0, <1>t, <2>1 DEF MarksBounded
  <2>3. \E n \in Int : WholeNumbered(disk', n) /\ Upto(head.hash, n) /\ Upto(saved'.hash, n)
    <3>1. CASE disk' = disk
      BY <1>0, <1>t, <2>2, <3>1
    <3>2. CASE disk' # disk
      <4>1. flushPc = "append" /\ PartialAppend(disk')
        BY <1>12, <3>2 DEF Unload, Crash
      <4>2. written < Len(batch)
        BY <1>0, <4>1 DEF FlushInv
      <4>3. PICK n \in 0 .. Len(batch) - written :
              /\ Appended(n, disk') /\ Sorted(disk')
              /\ \A i \in 1 .. Len(disk) + n : i \in DOMAIN disk' /\ ~IsTorn(disk'[i])
              /\ \/ Len(disk') = Len(disk) + n
                 \/ /\ Len(disk') = Len(disk) + n + 1 /\ IsTorn(disk'[Len(disk')]) /\ ~disk'[Len(disk')].eol
                    /\ disk'[Len(disk')].id = 0 /\ disk'[Len(disk')].hash = Genesis
        BY <1>0, <1>a, <4>1, <4>2, PartialKeeps
      <4>4. WholeNumbered(disk', Newest + n)
        BY <1>0, <1>a, <4>1, <4>3, WholeAppended DEF IdsInv
      <4>5. Newest + n \in Int /\ Newest <= Newest + n
        <5>1. n \in Nat
          BY <1>0 DEF TypeOK, FlushType
        <5> QED BY <1>t, <5>1
      <4>6. Upto(head.hash, Newest + n) /\ Upto(saved'.hash, Newest + n)
        BY <1>t, <2>2, <4>5, UptoLater
      <4> QED BY <4>4, <4>5, <4>6
    <3> QED BY <3>1, <3>2
  <2>4. \A i \in DOMAIN disk' : IsTorn(disk'[i]) => i = Len(disk')
    BY DEF DiskInv, TornLast, IsTorn
  <2>5. WholeNumbered(disk', accepted') /\ Upto(head.hash, accepted') /\ Upto(saved'.hash, accepted')
    <3>1. PICK n \in Int : WholeNumbered(disk', n) /\ Upto(head.hash, n) /\ Upto(saved'.hash, n)
      BY <2>3
    <3> QED BY <1>0, <1>t, <2>1, <2>2, <2>4, <3>1, LoseMemoryIds
  <2>6. /\ buffer' = <<>> /\ prepared' = <<>> /\ written' = 0 /\ chain' = NoMark /\ accepted' \in Nat
    BY <1>t, <2>1 DEF LoseMemory
  <2>7. Newest' = accepted' /\ accepted' - Len(buffer') = accepted'
    <3>1. Newest' = accepted' - (Len(buffer') - written') /\ Len(buffer') = 0
      BY <2>6 DEF Newest
    <3>2. written' = 0 /\ accepted' \in Nat
      BY <2>6
    <3>3. accepted' - (Len(buffer') - written') = accepted' /\ accepted' - Len(buffer') = accepted'
      BY <3>1, <3>2, LessNone
    <3> QED BY <3>1, <3>3
  <2>8. BufferNumbered' /\ CopiesBounded'
    BY <2>6 DEF BufferNumbered, CopiesBounded
  <2>9. MarksBounded'
    <3>1. Upto(chain'.hash, accepted')
      BY <2>6 DEF NoMark, Genesis, Upto
    <3> QED BY <2>1, <2>5, <2>7, <3>1 DEF MarksBounded, Upto
  <2> QED BY <1>c, <2>5, <2>7, <2>8, <2>9 DEF IdsInv
<1>13. CASE LoseDirectory
  BY <1>0, <1>13 DEF LoseDirectory, TypeOK, EnvType
<1>14. CASE AppendFails \/ WriteHeadFails \/ SkipRetention \/ BeginRetention \/ RemoveFileFails
  BY <1>14, <1>b DEF AppendFails, WriteHeadFails, SkipRetention, BeginRetention, RemoveFileFails
<1>15. CASE TaskFlushEmpty \/ BeginStop \/ StopFlushEmpty \/ ClockMoves
  BY <1>15, <1>b DEF TaskFlushEmpty, BeginStop, StopFlushEmpty, ClockMoves
<1>16. CASE UNCHANGED vars
  BY <1>16, <1>b DEF vars
<1> QED
  BY <1>1, <1>2, <1>3, <1>4, <1>5, <1>6, <1>7, <1>8, <1>9, <1>10, <1>11, <1>12, <1>13, <1>14, <1>15, <1>16
     DEF Next, FlushStep, IOError, StartStep, StopStep

\* A fresh installation and one with a flushed record are numbered.
LEMMA IdsInit ==
  ASSUME Init
  PROVE  IdsInv
<1>1. buffer = <<>> /\ prepared = <<>> /\ written = 0 /\ chain = NoMark /\ mirror = saved
  BY DEF Init
<1>2. Len(buffer) = 0
  BY <1>1
<1>3. CASE disk = <<>> /\ head = NoHead /\ saved = NoMark /\ accepted = 0
  <2>1. Newest = 0 /\ accepted - Len(buffer) = 0
    <3>1. written = 0 /\ accepted = 0
      BY <1>1, <1>3
    <3>2. accepted - (Len(buffer) - written) = 0 /\ accepted - Len(buffer) = 0
      BY <1>2, <3>1
    <3> QED BY <3>2 DEF Newest
  <2>2. Intact(disk) = <<>>
    BY <1>3 DEF Intact
  <2>3. Len(Intact(disk)) = 0
    BY <2>2
  <2>4. WholeNumbered(disk, Newest)
    BY <1>3, <2>3 DEF WholeNumbered
  <2>5. Upto(Genesis, 0)
    BY DEF Upto, Genesis
  <2>6. MarksBounded
    BY <1>1, <1>3, <2>1, <2>5 DEF MarksBounded, NoMark, NoHead
  <2> QED BY <1>1, <2>4, <2>6 DEF IdsInv, BufferNumbered, CopiesBounded
<1>4. CASE /\ disk = <<FirstLine>> /\ accepted = 1
           /\ head = HeadPayload(FirstLine, NoMark, NoMark) /\ saved = Mark(FirstLine)
  <2>1. Newest = 1 /\ accepted - Len(buffer) = 1
    <3>1. written = 0 /\ accepted = 1
      BY <1>1, <1>4
    <3>2. accepted - (Len(buffer) - written) = 1 /\ accepted - Len(buffer) = 1
      BY <1>2, <3>1
    <3> QED BY <3>2 DEF Newest
  <2>2. Intact(disk) = disk /\ Len(disk) = 1 /\ disk[1] = FirstLine
    <3>1. Len(<<FirstLine>>) = 1 /\ <<FirstLine>>[1] = FirstLine
      OBVIOUS
    <3>2. ~IsTorn(FirstLine)
      BY DEF IsTorn, FirstLine
    <3> QED BY <1>4, <3>1, <3>2, Zenon DEF Intact
  <2>3. FirstLine.id = 1 /\ FirstLine.hash = <<1>> /\ FirstLine.seq = 1
    BY DEF FirstLine
  <2>4. Upto(<<1>>, 1) /\ Upto(Genesis, 1)
    BY DEF Upto, Genesis
  <2>5. \A i \in DOMAIN disk : disk[i] = FirstLine
    BY <1>4
  <2>6. WholeNumbered(disk, Newest)
    BY <2>1, <2>2, <2>3, <2>4, <2>5 DEF WholeNumbered, IsTorn
  <2>7. MarksBounded
    BY <1>1, <1>4, <2>1, <2>3, <2>4 DEF MarksBounded, NoMark, HeadPayload, Mark
  <2> QED BY <1>1, <2>6, <2>7 DEF IdsInv, BufferNumbered, CopiesBounded
<1> QED BY <1>3, <1>4 DEF Init

\* Numbered lines and a numbered buffer are the records up to the last accepted.
LEMMA NumbersImply ==
  ASSUME TypeOK, PreparedFollowsBuffer, IdsInv
  PROVE  NothingLost
<1>1. /\ accepted \in Nat /\ Len(buffer) \in Nat /\ written \in Nat /\ written <= Len(buffer)
      /\ disk \in Seq(Lines) /\ Newest \in Int
  BY HashTypes DEF TypeOK, DiskType
<1>2. PICK t \in Seq(Nat) : /\ t = Ids(Intact(disk)) /\ Len(t) = Len(Intact(disk))
                            /\ \A i \in 1 .. Len(t) : t[i] = Intact(disk)[i].id
  <2>1. Ids(Intact(disk)) \in Seq(Nat) /\ Len(Ids(Intact(disk))) = Len(Intact(disk))
    BY <1>1, IntactIds
  <2>2. \A i \in 1 .. Len(Intact(disk)) : Ids(Intact(disk))[i] = disk[i].id /\ Intact(disk)[i] = disk[i]
    BY <1>1, IntactIds, IntactFacts
  <2> QED BY <2>1, <2>2
<1>3. PICK w \in Seq(Nat) : /\ w = Ids(Pending) /\ Len(w) = Len(buffer) - written
                            /\ \A i \in 1 .. Len(w) : w[i] = buffer[written + i].id
  BY PendingFacts
<1>4. PICK u \in Seq(Nat) : /\ u = t \o w /\ Len(u) = Len(t) + Len(w)
                            /\ \A i \in 1 .. Len(t) : u[i] = t[i]
                            /\ \A i \in 1 .. Len(w) : u[Len(t) + i] = w[i]
  <2>1. /\ t \o w \in Seq(Nat) /\ Len(t \o w) = Len(t) + Len(w)
        /\ \A i \in 1 .. Len(t) : (t \o w)[i] = t[i]
        /\ \A i \in 1 .. Len(w) : (t \o w)[Len(t) + i] = w[i]
    OBVIOUS
  <2> QED BY <2>1, Zenon
<1>5. ASSUME NEW i \in 1 .. Len(u)
      PROVE  u[i] = accepted - Len(u) + i
  <2>0. Len(u) = Len(t) + Len(w) /\ Len(w) = Len(buffer) - written /\ Len(t) \in Nat
    BY <1>3, <1>4
  <2>1. CASE i \in 1 .. Len(t)
    <3>1. u[i] = Intact(disk)[i].id
      BY <1>2, <1>4, <2>1
    <3>2. Intact(disk)[i].id = Newest - Len(t) + i
      BY <1>2, <2>1 DEF IdsInv, WholeNumbered
    <3>3. Newest = accepted - (Len(buffer) - written)
      BY DEF Newest
    <3> QED BY <1>1, <2>0, <3>1, <3>2, <3>3
  <2>2. CASE i \notin 1 .. Len(t)
    <3>1. PICK j \in 1 .. Len(w) : i = Len(t) + j
      <4>1. i - Len(t) \in 1 .. Len(w) /\ i = Len(t) + (i - Len(t))
        BY <2>0, <2>2
      <4> QED BY <4>1
    <3>2. u[i] = buffer[written + j].id
      BY <1>3, <1>4, <3>1
    <3>3. written + j \in DOMAIN buffer
      <4>1. buffer \in Seq(Records)
        BY DEF TypeOK, MemType
      <4> QED BY <1>1, <2>0, <4>1
    <3>4. buffer[written + j].id = accepted - Len(buffer) + (written + j)
      BY <3>3 DEF IdsInv, BufferNumbered
    <3>5. j \in Int /\ Len(w) \in Int
      BY <1>3
    <3>6. i = Len(t) + j /\ u[i] = accepted - Len(buffer) + (written + j)
      BY <3>1, <3>2, <3>4
    <3> QED BY <1>1, <2>0, <3>5, <3>6
  <2> QED BY <2>1, <2>2
<1>6. \A i \in 1 .. Len(u) - 1 : u[i + 1] = u[i] + 1
  <2> SUFFICES ASSUME NEW i \in 1 .. Len(u) - 1
               PROVE  u[i + 1] = u[i] + 1
    OBVIOUS
  <2>1. i \in 1 .. Len(u) /\ i + 1 \in 1 .. Len(u)
    OBVIOUS
  <2> QED BY <1>1, <1>5, <2>1
<1>7. u # <<>> => u[Len(u)] = accepted
  <2> SUFFICES ASSUME u # <<>>
               PROVE  u[Len(u)] = accepted
    OBVIOUS
  <2>1. Len(u) \in 1 .. Len(u) /\ Len(u) \in Nat
    OBVIOUS
  <2>2. u[Len(u)] = accepted - Len(u) + Len(u)
    BY <1>5, <2>1
  <2> QED BY <1>1, <2>1, <2>2
<1>8. Ids(Intact(disk)) \o Ids(Pending) = u
  BY <1>2, <1>3, <1>4
<1> QED BY <1>6, <1>7, <1>8 DEF NothingLost

\* A lost directory stays known.
LEMMA WipesGrow ==
  ASSUME TypeOK, [Next]_vars \/ VerifierFlush, wipes' = 0
  PROVE  wipes = 0
<1>1. wipes' = wipes \/ wipes' = wipes + 1
  BY DEF Next, vars, envVars, memVars, flushVars, diskVars, storeVars, FlushStep, IOError,
     StartStep, StopStep, Log, Query, TimerFlush, VerifierFlush, TaskFlush, TaskFlushEmpty, BeginFlush, AppendGroup,
     WriteHead, SkipRetention, BeginRetention, RemoveFile, EndRetention, EndFlush, AppendFails,
     WriteHeadFails, RemoveFileFails, SaveStore, LoadHead, RepairTornTail, RebuildHead, DetectReset,
     BeginStop, StopFlush, StopFlushEmpty, Unload, Crash, LoseDirectory, ClockMoves
<1>2. wipes \in Nat
  BY DEF TypeOK, EnvType
<1> QED BY <1>1, <1>2

\* The inductive invariant as long as the directory was not lost.
LEMMA IdsInvariant ==
  ASSUME ~TrimMayFail, ~RemoveMayFail
  PROVE  Spec => [](AuditInv /\ DiskInv /\ (wipes = 0 => IdsInv))
<1>1. Init => IdsInv
  BY IdsInit
<1>2. ASSUME AuditInv, AuditInv', DiskInv, DiskInv', wipes = 0 => IdsInv, [Next]_vars, wipes' = 0
      PROVE  IdsInv'
  <2>1. wipes = 0
    BY <1>2, WipesGrow DEF AuditInv
  <2> QED BY <1>2, <2>1, IdsStep
<1>3. AuditInv /\ DiskInv /\ AuditInv' /\ DiskInv' /\ (wipes = 0 => IdsInv) /\ [Next]_vars
        => (wipes = 0 => IdsInv)'
  BY <1>2
<1> QED BY <1>1, <1>3, DiskInvariant, PTL DEF Spec

\* Accepted records are on disk or still buffered, once each and in the order of
\* acceptance, whatever fails and wherever a crash falls, unless what follows a
\* failed write or the removal of an expired file fails as well.
THEOREM NothingIsLost ==
  ASSUME ~TrimMayFail, ~RemoveMayFail
  PROVE  Spec => []NothingLost
<1>1. AuditInv /\ DiskInv /\ (wipes = 0 => IdsInv) => NothingLost
  <2>1. wipes # 0 => NothingLost
    BY DEF NothingLost
  <2> QED BY <2>1, NumbersImply DEF AuditInv
<1> QED BY <1>1, IdsInvariant, PTL

-----------------------------------------------------------------------------
(* The chain                                                               *)

\* Each line follows the one before it and carries the hash of its content.
Chained(ls) ==
  \A i \in 1 .. Len(ls) :
    /\ HashOk(ls[i]) /\ ls[i].seq = ls[Len(ls)].seq - Len(ls) + i
    /\ i > 1 => ls[i].prev = ls[i - 1].hash

\* The lines end at a point of the chain, or go on from it.
EndsAt(ls, q, h) == ls # <<>> => ls[Len(ls)].seq = q /\ ls[Len(ls)].hash = h
Reaches(ls, q, h) ==
  ls # <<>> => q <= ls[Len(ls)].seq /\ \A i \in 1 .. Len(ls) : ls[i].seq = q => ls[i].hash = h

\* The copies in memory go on from the committed head.
CopiesChained ==
  \A i \in DOMAIN prepared :
    HashOk(prepared[i]) /\ prepared[i].prev = IF i = 1 THEN chain.hash ELSE prepared[i - 1].hash

\* Start-up begins at the head file, and from its end on the disk ends where
\* the next record goes on.
TipKnown ==
  /\ phase \in {"repair", "rebuild"} => chain = Mark(head)
  /\ phase \in {"detect", "up", "stopping", "stopped"} =>
       EndsAt(Intact(disk), chain.seq + written, FlushHead.hash)

ChainInv ==
  /\ Chained(Intact(disk)) /\ Reaches(Intact(disk), head.seq, head.hash)
  /\ CopiesChained /\ TipKnown

\* The head file can be caught up at start-up: when it lags, the record it names
\* is in one of the files that are read.
Recoverable ==
  phase = "rebuild" /\ (\E i \in DOMAIN disk : disk[i].seq > head.seq) =>
    head.found /\ \E i \in DOMAIN disk : disk[i].seq = head.seq /\ Key(disk[i]) \in RecentFiles(disk)

\* What ends at a point of the chain goes on from it.
LEMMA EndReaches ==
  ASSUME NEW ls \in Seq(Lines), Chained(ls), NEW q \in Nat, NEW h, EndsAt(ls, q, h)
  PROVE  Reaches(ls, q, h)
<1> SUFFICES ASSUME ls # <<>>
             PROVE  q <= ls[Len(ls)].seq /\ \A i \in 1 .. Len(ls) : ls[i].seq = q => ls[i].hash = h
  BY DEF Reaches
<1>1. ls[Len(ls)].seq = q /\ ls[Len(ls)].hash = h /\ Len(ls) \in Nat
  BY DEF EndsAt
<1>2. ASSUME NEW i \in 1 .. Len(ls), ls[i].seq = q
      PROVE  i = Len(ls)
  <2>1. ls[i].seq = q - Len(ls) + i
    BY <1>1 DEF Chained
  <2> QED BY <1>1, <1>2, <2>1
<1> QED BY <1>1, <1>2

\* Expiry from the front leaves a chain.
LEMMA RestChained ==
  ASSUME NEW ls \in Seq(Lines), Chained(ls), NEW b \in 0 .. Len(ls), NEW e \in Seq(Lines),
         Len(e) = Len(ls) - b, \A i \in 1 .. Len(e) : e[i] = ls[b + i]
  PROVE  /\ Chained(e)
         /\ \A q, h : Reaches(ls, q, h) => Reaches(e, q, h)
         /\ \A q, h : EndsAt(ls, q, h) => EndsAt(e, q, h)
<1>1. Len(ls) \in Nat /\ Len(e) \in Nat /\ b \in Nat
  OBVIOUS
<1>2. e # <<>> => Len(e) \in 1 .. Len(e) /\ ls # <<>> /\ e[Len(e)] = ls[Len(ls)]
  <2> SUFFICES ASSUME e # <<>>
               PROVE  Len(e) \in 1 .. Len(e) /\ ls # <<>> /\ e[Len(e)] = ls[Len(ls)]
    OBVIOUS
  <2>1. Len(e) \in 1 .. Len(e) /\ b + Len(e) = Len(ls) /\ Len(ls) # 0
    BY <1>1
  <2>2. e[Len(e)] = ls[b + Len(e)]
    BY <2>1
  <2> QED BY <2>1, <2>2
<1>3. ASSUME NEW i \in 1 .. Len(e)
      PROVE  /\ HashOk(e[i]) /\ e[i].seq = e[Len(e)].seq - Len(e) + i
             /\ i > 1 => e[i].prev = e[i - 1].hash
  <2>1. b + i \in 1 .. Len(ls) /\ e[i] = ls[b + i] /\ e[Len(e)] = ls[Len(ls)]
    BY <1>1, <1>2
  <2>2. /\ HashOk(ls[b + i]) /\ ls[b + i].seq = ls[Len(ls)].seq - Len(ls) + (b + i)
        /\ b + i > 1 => ls[b + i].prev = ls[(b + i) - 1].hash
    BY <2>1 DEF Chained
  <2>3. ls[Len(ls)].seq \in Nat
    <3>1. Len(ls) \in DOMAIN ls
      BY <1>1, <2>1
    <3> QED BY <3>1, LineFacts
  <2>4. e[i].seq = e[Len(e)].seq - Len(e) + i
    BY <1>1, <2>1, <2>2, <2>3
  <2>5. i > 1 => e[i].prev = e[i - 1].hash
    <3> SUFFICES ASSUME i > 1 PROVE e[i].prev = e[i - 1].hash
      OBVIOUS
    <3>1. i - 1 \in 1 .. Len(e) /\ b + (i - 1) = (b + i) - 1 /\ b + i > 1
      BY <1>1
    <3> QED BY <2>1, <2>2, <3>1
  <2> QED BY <2>1, <2>2, <2>4, <2>5
<1>4. Chained(e)
  BY <1>3 DEF Chained
<1>5. ASSUME NEW q, NEW h, Reaches(ls, q, h)
      PROVE  Reaches(e, q, h)
  <2>1. \A i \in 1 .. Len(e) : b + i \in 1 .. Len(ls) /\ e[i] = ls[b + i]
    BY <1>1
  <2> QED BY <1>2, <1>5, <2>1 DEF Reaches
<1>6. ASSUME NEW q, NEW h, EndsAt(ls, q, h)
      PROVE  EndsAt(e, q, h)
  BY <1>2, <1>6 DEF EndsAt
<1> QED BY <1>4, <1>5, <1>6

\* What a flush appends goes on from the last line.
LEMMA AppendChained ==
  ASSUME TypeOK, PreparedFollowsBuffer, Chained(disk), CopiesChained,
         EndsAt(disk, chain.seq + written, FlushHead.hash), head.seq <= chain.seq + written,
         Reaches(disk, head.seq, head.hash), NEW n \in 0 .. Len(batch) - written,
         NEW d, Appended(n, d), NEW e \in Seq(Lines), Len(e) = Len(disk) + n,
         \A i \in 1 .. Len(e) : e[i] = d[i]
  PROVE  /\ Chained(e) /\ Reaches(e, head.seq, head.hash)
         /\ EndsAt(e, chain.seq + (written + n), IF written + n > 0 THEN batch[written + n].hash ELSE chain.hash)
<1>1. /\ disk \in Seq(Lines) /\ batch \in Seq(Prepared) /\ written \in Nat /\ written <= Len(batch)
      /\ n \in Nat /\ Len(disk) \in Nat /\ Len(batch) \in Nat /\ chain.seq \in Nat /\ head.seq \in Nat
  BY HeadNumbers DEF TypeOK, DiskType, FlushType
<1>2. ASSUME NEW i \in 1 .. Len(disk)
      PROVE  e[i].seq = disk[i].seq /\ e[i].prev = disk[i].prev /\ e[i].hash = disk[i].hash /\ e[i].id = disk[i].id
  <2>1. i \in 1 .. Len(e)
    BY <1>1
  <2> QED BY <2>1 DEF Appended
<1>3. ASSUME NEW j \in 1 .. n
      PROVE  /\ e[Len(disk) + j].seq = chain.seq + (written + j)
             /\ e[Len(disk) + j].prev = prepared[written + j].prev
             /\ e[Len(disk) + j].hash = batch[written + j].hash
             /\ batch[written + j] = prepared[written + j]
             /\ HashOk(e[Len(disk) + j])
             /\ written + j \in DOMAIN batch
             /\ prepared[written + j].prev =
                  IF written + j = 1 THEN chain.hash ELSE batch[written + (j - 1)].hash
  <2>1. Len(disk) + j \in 1 .. Len(e) /\ written + j \in DOMAIN batch
    BY SMTT(60), <1>1
  <2>2. /\ written + j \in DOMAIN prepared /\ batch[written + j] = prepared[written + j]
        /\ batch[written + j].seq = chain.seq + (written + j)
    BY <2>1, BatchNumbers
  <2>3. /\ e[Len(disk) + j].seq = batch[written + j].seq /\ e[Len(disk) + j].id = batch[written + j].id
        /\ e[Len(disk) + j].prev = batch[written + j].prev /\ e[Len(disk) + j].hash = batch[written + j].hash
    BY <2>1 DEF Appended
  <2>4. HashOk(prepared[written + j])
        /\ prepared[written + j].prev = IF written + j = 1 THEN chain.hash ELSE prepared[(written + j) - 1].hash
    BY <2>2 DEF CopiesChained
  <2>5. HashOk(e[Len(disk) + j])
    BY <2>2, <2>3, <2>4 DEF HashOk
  <2>6. written + j # 1 => written + (j - 1) \in DOMAIN batch /\ (written + j) - 1 = written + (j - 1)
    BY SMTT(60), <1>1, <2>1
  <2>7. written + j # 1 => prepared[(written + j) - 1].hash = batch[written + (j - 1)].hash
    BY <2>6, BatchNumbers
  <2> QED BY <2>1, <2>2, <2>3, <2>4, <2>5, <2>7
<1>4. EndsAt(e, chain.seq + (written + n), IF written + n > 0 THEN batch[written + n].hash ELSE chain.hash)
  <2>1. CASE n > 0
    <3>1. n \in 1 .. n /\ written + n > 0
      BY <1>1, <2>1
    <3> QED BY <1>3, <3>1 DEF EndsAt
  <2>2. CASE n = 0
    <3>1. Len(e) = Len(disk) /\ written + n = written
      BY <1>1, <2>2
    <3>2. e # <<>> => disk # <<>> /\ Len(disk) \in 1 .. Len(disk)
      BY <1>1, <3>1
    <3>3. FlushHead.hash = IF written > 0 THEN batch[written].hash ELSE chain.hash
      BY DEF FlushHead
    <3> QED BY <1>2, <3>1, <3>2, <3>3 DEF EndsAt
  <2> QED BY <1>1, <2>1, <2>2
<1>5. ASSUME NEW i \in 1 .. Len(e)
      PROVE  /\ HashOk(e[i]) /\ e[i].seq = e[Len(e)].seq - Len(e) + i
             /\ i > 1 => e[i].prev = e[i - 1].hash
  <2>0. e[Len(e)].seq = chain.seq + (written + n)
    <3>1. e # <<>>
      BY <1>1
    <3> QED BY <1>4, <3>1 DEF EndsAt
  <2>1. CASE i \in 1 .. Len(disk)
    <3>1. HashOk(disk[i]) /\ disk[i].seq = disk[Len(disk)].seq - Len(disk) + i
          /\ (i > 1 => disk[i].prev = disk[i - 1].hash)
      BY <2>1 DEF Chained
    <3>2. disk[Len(disk)].seq = chain.seq + written
      <4>1. disk # <<>>
        BY <1>1, <2>1
      <4> QED BY <4>1 DEF EndsAt
    <3>3. e[i].seq = e[Len(e)].seq - Len(e) + i
      BY <1>1, <1>2, <2>0, <2>1, <3>1, <3>2
    <3>4. HashOk(e[i])
      BY <1>2, <2>1, <3>1 DEF HashOk
    <3>5. i > 1 => e[i].prev = e[i - 1].hash
      <4> SUFFICES ASSUME i > 1 PROVE e[i].prev = e[i - 1].hash
        OBVIOUS
      <4>1. i - 1 \in 1 .. Len(disk)
        BY <1>1, <2>1
      <4> QED BY <1>2, <2>1, <3>1, <4>1
    <3> QED BY <3>3, <3>4, <3>5
  <2>2. CASE i \notin 1 .. Len(disk)
    <3>1. PICK j \in 1 .. n : i = Len(disk) + j
      <4>1. i - Len(disk) \in 1 .. n /\ i = Len(disk) + (i - Len(disk))
        BY <1>1, <2>2
      <4> QED BY <4>1
    <3>2. e[i].seq = chain.seq + (written + j) /\ HashOk(e[i]) /\ e[i].prev = prepared[written + j].prev
      BY <1>3, <3>1
    <3>3. e[i].seq = e[Len(e)].seq - Len(e) + i
      BY SMTT(60), <1>1, <2>0, <3>1, <3>2
    <3>4. i > 1 => e[i].prev = e[i - 1].hash
      <4> SUFFICES ASSUME i > 1 PROVE e[i].prev = e[i - 1].hash
        OBVIOUS
      <4>1. CASE j > 1
        <5>1. j - 1 \in 1 .. n /\ i - 1 = Len(disk) + (j - 1) /\ written + j # 1
          BY SMTT(60), <1>1, <3>1, <4>1
        <5>2. e[i - 1].hash = batch[written + (j - 1)].hash
          BY <1>3, <5>1
        <5> QED BY <1>3, <3>2, <5>1, <5>2
      <4>2. CASE ~(j > 1)
        <5>1. j = 1 /\ i - 1 = Len(disk) /\ Len(disk) \in 1 .. Len(disk) /\ disk # <<>>
              /\ written + (j - 1) = written
          BY <1>1, <3>1, <4>2
        <5>2. e[i - 1].hash = FlushHead.hash
          BY <1>2, <5>1 DEF EndsAt
        <5>3. prepared[written + j].prev = IF written = 0 THEN chain.hash ELSE batch[written].hash
          BY <1>1, <1>3, <5>1
        <5>4. FlushHead.hash = IF written = 0 THEN chain.hash ELSE batch[written].hash
          BY <1>1 DEF FlushHead
        <5> QED BY <3>2, <5>2, <5>3, <5>4
      <4> QED BY <4>1, <4>2
    <3> QED BY <3>2, <3>3, <3>4
  <2> QED BY <2>1, <2>2
<1>6. Chained(e)
  BY <1>5 DEF Chained
<1>7. Reaches(e, head.seq, head.hash)
  <2> SUFFICES ASSUME e # <<>>
               PROVE  /\ head.seq <= e[Len(e)].seq
                      /\ \A i \in 1 .. Len(e) : e[i].seq = head.seq => e[i].hash = head.hash
    BY DEF Reaches
  <2>1. head.seq <= e[Len(e)].seq
    BY <1>1, <1>4 DEF EndsAt
  <2>2. ASSUME NEW i \in 1 .. Len(e), e[i].seq = head.seq
        PROVE  e[i].hash = head.hash
    <3>1. CASE i \in 1 .. Len(disk)
      <4>1. disk # <<>>
        BY <1>1, <3>1
      <4> QED BY <1>2, <2>2, <3>1, <4>1 DEF Reaches
    <3>2. CASE i \notin 1 .. Len(disk)
      <4>1. PICK j \in 1 .. n : i = Len(disk) + j
        <5>1. i - Len(disk) \in 1 .. n /\ i = Len(disk) + (i - Len(disk))
          BY <1>1, <3>2
        <5> QED BY <5>1
      <4>2. e[i].seq = chain.seq + (written + j)
        BY <1>3, <4>1
      <4> QED BY <1>1, <2>2, <4>1, <4>2
    <3> QED BY <3>1, <3>2
  <2> QED BY <2>1, <2>2
<1> QED BY <1>4, <1>6, <1>7

\* From a file that is read on, every newer file is read.
LEMMA NewerAreRecent ==
  ASSUME NEW d \in Seq(Lines), Sorted(d), NEW k \in DOMAIN d, NEW i \in DOMAIN d, k <= i,
         Key(d[k]) \in RecentFiles(d)
  PROVE  Key(d[i]) \in RecentFiles(d)
<1> DEFINE After(m) == {f \in FileKeys(d) : KeyBefore(m, f)}
<1>1. FileKeys(d) \subseteq Nat \X Nat /\ Key(d[i]) \in FileKeys(d) /\ Key(d[k]) \in FileKeys(d)
  BY LineFacts DEF FileKeys
<1>2. IsFiniteSet(FileKeys(d))
  <2>1. DOMAIN d = 1 .. Len(d) /\ Len(d) \in Nat
    OBVIOUS
  <2>2. IsFiniteSet(1 .. Len(d))
    BY <2>1, FS_Interval
  <2>3. PICK f : f = [j \in 1 .. Len(d) |-> Key(d[j])]
    OBVIOUS
  <2>4. f \in Surjection(1 .. Len(d), FileKeys(d))
    BY <2>1, <2>3 DEF Surjection, FileKeys
  <2> QED BY <2>2, <2>4, FS_Surjection
<1>3. ~KeyBefore(Key(d[i]), Key(d[k]))
  <2>1. CASE i = k
    BY <2>1, LineFacts DEF KeyBefore
  <2>2. CASE i # k
    BY <2>2 DEF Sorted
  <2> QED BY <2>1, <2>2
<1>4. After(Key(d[i])) \subseteq After(Key(d[k]))
  <2> SUFFICES ASSUME NEW f \in FileKeys(d), KeyBefore(Key(d[i]), f)
               PROVE  KeyBefore(Key(d[k]), f)
    OBVIOUS
  <2>1. /\ Key(d[i])[1] \in Nat /\ Key(d[i])[2] \in Nat /\ Key(d[k])[1] \in Nat /\ Key(d[k])[2] \in Nat
        /\ f[1] \in Nat /\ f[2] \in Nat
    BY <1>1
  <2> QED BY <1>3, <2>1 DEF KeyBefore
<1>5. After(Key(d[k])) \subseteq FileKeys(d)
  OBVIOUS
<1> HIDE DEF After
<1>6. IsFiniteSet(After(Key(d[k])))
  BY <1>2, <1>5, FS_Subset
<1>7. /\ IsFiniteSet(After(Key(d[i]))) /\ Cardinality(After(Key(d[i]))) <= Cardinality(After(Key(d[k])))
  BY <1>4, <1>6, FS_Subset
<1>8. Cardinality(After(Key(d[i]))) \in Nat /\ Cardinality(After(Key(d[k]))) \in Nat
  BY <1>6, <1>7, FS_CardinalityType
<1>9. Cardinality(After(Key(d[k]))) < RecoveryFiles
  BY DEF RecentFiles, After
<1>10. Cardinality(After(Key(d[i]))) < RecoveryFiles
  BY <1>7, <1>8, <1>9, SizesAssumption
<1> QED BY <1>1, <1>10 DEF RecentFiles, After

\* Start-up continues exactly to the last line.
LEMMA RebuildsToTheEnd ==
  ASSUME TypeOK, Sorted(disk), \A i \in DOMAIN disk : ~IsTorn(disk[i]), Chained(disk),
         Reaches(disk, chain.seq, chain.hash), disk # <<>>,
         NEW k \in DOMAIN disk, disk[k].seq = chain.seq, Key(disk[k]) \in RecentFiles(disk),
         chain.seq < disk[Len(disk)].seq
  PROVE  /\ Continues(Len(disk))
         /\ \A top \in DOMAIN disk : Continues(top) => top = Len(disk)
<1> DEFINE found == RecordsAfter(chain.seq)
           at(q) == CHOOSE i \in found : disk[i].seq = q /\ \A j \in found : disk[j].seq = q => i <= j
           has(q) == \E i \in found : disk[i].seq = q
           top == Len(disk)
<1>0. /\ disk \in Seq(Lines) /\ chain.seq \in Nat /\ Len(disk) \in Nat /\ Len(disk) \in DOMAIN disk
      /\ DOMAIN disk = 1 .. Len(disk) /\ k \in Nat /\ 1 <= k /\ k <= Len(disk)
  BY DEF TypeOK, DiskType, MemType, Marks
<1>1. ASSUME NEW i \in DOMAIN disk
      PROVE  /\ disk[i].seq = chain.seq + (i - k) /\ HashOk(disk[i]) /\ i \in Nat
             /\ i > 1 => disk[i].prev = disk[i - 1].hash
  <2>1. /\ disk[i].seq = disk[Len(disk)].seq - Len(disk) + i
        /\ disk[k].seq = disk[Len(disk)].seq - Len(disk) + k
        /\ HashOk(disk[i]) /\ (i > 1 => disk[i].prev = disk[i - 1].hash)
    BY <1>0 DEF Chained
  <2>2. disk[Len(disk)].seq \in Nat /\ i \in Nat
    BY <1>0, LineFacts
  <2> QED BY <1>0, <2>1, <2>2
<1>2. found = k .. Len(disk)
  <2>1. ASSUME NEW i \in found
        PROVE  i \in k .. Len(disk)
    <3>1. i \in DOMAIN disk /\ disk[i].seq >= chain.seq
      BY <1>0 DEF RecordsAfter
    <3> QED BY <1>0, <1>1, <3>1
  <2>2. ASSUME NEW i \in k .. Len(disk)
        PROVE  i \in found
    <3>1. i \in DOMAIN disk /\ k <= i
      BY <1>0
    <3>2. Key(disk[i]) \in RecentFiles(disk)
      BY <1>0, <3>1, NewerAreRecent
    <3>3. ASSUME NEW j \in DOMAIN disk, j >= i
          PROVE  ~IsTorn(disk[j]) /\ disk[j].seq >= chain.seq
      BY <1>0, <1>1, <3>1, <3>3
    <3> QED BY <3>1, <3>2, <3>3 DEF RecordsAfter
  <2> QED BY <2>1, <2>2
<1>3. disk[top].seq = chain.seq + (top - k) /\ top \in found /\ top > k
  BY <1>0, <1>1, <1>2
<1> HIDE DEF found
<1>4. ASSUME NEW q \in chain.seq .. disk[top].seq
      PROVE  /\ at(q) = k + (q - chain.seq) /\ has(q)
             /\ at(q) \in DOMAIN disk /\ disk[at(q)].seq = q
  <2> DEFINE i == k + (q - chain.seq)
  <2>1. i \in found /\ i \in DOMAIN disk
    BY <1>0, <1>1, <1>2, <1>3
  <2>2. disk[i].seq = q
    BY <1>0, <1>1, <2>1
  <2>3. ASSUME NEW j \in found, disk[j].seq = q PROVE j = i
    <3>1. j \in DOMAIN disk
      BY <1>0, <1>2
    <3>2. disk[j].seq = chain.seq + (j - k) /\ j \in Nat
      BY <1>1, <3>1
    <3> QED BY <1>0, <2>3, <3>2
  <2>a. i \in Int /\ i <= i
    BY <1>0
  <2> HIDE DEF i
  <2>4. at(q) = i
    <3>1. disk[i].seq = q /\ \A j \in found : disk[j].seq = q => i <= j
      BY <2>2, <2>3, <2>a
    <3>2. \E x \in found : disk[x].seq = q /\ \A j \in found : disk[j].seq = q => x <= j
      BY <2>1, <3>1
    <3>3. at(q) \in found /\ disk[at(q)].seq = q
      BY <3>2
    <3> HIDE DEF at
    <3> QED BY <2>3, <3>3
  <2>5. has(q)
    BY SMTT(60), <2>1, <2>2
  <2> QED BY <2>1, <2>2, <2>4, <2>5 DEF i
<1>5. /\ \A j \in found : disk[j].seq <= disk[top].seq
      /\ disk[top].seq > chain.seq
      /\ top = at(disk[top].seq)
  <2>1. disk[top].seq \in chain.seq .. disk[top].seq
    BY <1>0, <1>3
  <2>2. at(disk[top].seq) = k + (disk[top].seq - chain.seq)
    BY <1>4, <2>1
  <2>3. top = at(disk[top].seq)
    <3> HIDE DEF at
    <3> QED BY <1>0, <1>3, <2>2
  <2>4. ASSUME NEW j \in found PROVE disk[j].seq <= disk[top].seq
    <3>1. j \in DOMAIN disk /\ j <= top
      BY <1>0, <1>2
    <3>2. disk[j].seq = chain.seq + (j - k) /\ j \in Nat
      BY <1>1, <3>1
    <3> QED BY <1>0, <1>3, <3>1, <3>2
  <2> QED BY <1>0, <1>3, <2>3, <2>4
<1>6. has(chain.seq) /\ disk[at(chain.seq)].hash = chain.hash
  <2>1. chain.seq \in chain.seq .. disk[top].seq
    BY <1>0, <1>3
  <2>2. has(chain.seq) /\ at(chain.seq) = k + (chain.seq - chain.seq)
    BY <1>4, <2>1
  <2>3. at(chain.seq) = k
    <3> HIDE DEF at
    <3> QED BY <1>0, <2>2
  <2>4. disk[k].hash = chain.hash
    BY <1>0 DEF Reaches
  <2> HIDE DEF at, has
  <2> QED BY <2>2, <2>3, <2>4
<1>7. ASSUME NEW q \in chain.seq + 1 .. disk[top].seq
      PROVE  /\ has(q)
             /\ disk[at(q)].prev = IF q = chain.seq + 1 THEN chain.hash ELSE disk[at(q - 1)].hash
             /\ HashOk(disk[at(q)])
  <2>1. q \in chain.seq .. disk[top].seq /\ q - 1 \in chain.seq .. disk[top].seq /\ q \in Int
    BY <1>0, <1>3
  <2>2. /\ at(q) = k + (q - chain.seq) /\ has(q) /\ at(q) \in DOMAIN disk
        /\ at(q - 1) = k + ((q - 1) - chain.seq)
    BY <1>4, <2>1
  <2> HIDE DEF at, has
  <2>3. at(q) > 1 /\ at(q) - 1 = at(q - 1)
    <3>1. PICK x \in Int : x = q - chain.seq
      BY <1>0, <2>1
    <3>2. x >= 1 /\ (q - 1) - chain.seq = x - 1
      BY SMTT(60), <1>0, <2>1, <3>1
    <3>3. at(q) = k + x /\ at(q - 1) = k + (x - 1)
      BY <2>2, <3>1, <3>2
    <3> QED BY <1>0, <3>2, <3>3
  <2>4. disk[at(q)].prev = disk[at(q - 1)].hash /\ HashOk(disk[at(q)])
    BY <1>1, <2>2, <2>3
  <2>5. q = chain.seq + 1 => at(q - 1) = at(chain.seq)
    BY <1>0
  <2> QED BY <1>6, <2>2, <2>4, <2>5
<1>8. Continues(top)
  BY <1>3, <1>5, <1>6, <1>7 DEF Continues, found
<1>9. ASSUME NEW t \in DOMAIN disk, Continues(t)
      PROVE  t = Len(disk)
  <2>1. disk[top].seq <= disk[t].seq
    BY <1>3, <1>9 DEF Continues, found
  <2>2. disk[t].seq = chain.seq + (t - k) /\ t \in Nat /\ t <= top
    BY <1>0, <1>1
  <2> QED BY <1>0, <1>3, <2>1, <2>2
<1> QED BY <1>8, <1>9

\* Numbering the buffer chains the new copies on.
LEMMA PreparedChained ==
  ASSUME TypeOK, PreparedFollowsBuffer, CopiesChained, prepared' = PrepareBuffered, chain' = chain
  PROVE  CopiesChained'
<1>1. /\ prepared' \in Seq(Prepared) /\ Len(prepared') = Len(buffer)
      /\ \A i \in 1 .. Len(prepared) : PrepareBuffered[i] = prepared[i]
      /\ \A i \in 1 .. Len(buffer) : PrepareBuffered[i].id = buffer[i].id
  BY PrepareBufferedFacts
<1>2. /\ Len(prepared) \in Nat /\ Len(buffer) \in Nat /\ Len(prepared) <= Len(buffer)
      /\ DOMAIN prepared = 1 .. Len(prepared) /\ DOMAIN buffer = 1 .. Len(buffer)
  BY HashTypes DEF TypeOK, MemType
<1>3. ASSUME NEW i \in 1 .. Len(buffer)
      PROVE  /\ HashOk(PrepareBuffered[i])
             /\ PrepareBuffered[i].prev = IF i = 1 THEN chain.hash ELSE PrepareBuffered[i - 1].hash
  <2>1. CASE i \in 1 .. Len(prepared)
    <3>1. HashOk(prepared[i]) /\ prepared[i].prev = IF i = 1 THEN chain.hash ELSE prepared[i - 1].hash
      BY <1>2, <2>1 DEF CopiesChained
    <3>2. i # 1 => i - 1 \in 1 .. Len(prepared)
      BY <1>2, <2>1
    <3> QED BY <1>1, <2>1, <3>1, <3>2
  <2>2. CASE i \notin 1 .. Len(prepared)
    <3>1. i \in Len(prepared) + 1 .. Len(buffer)
      BY <1>2, <2>2
    <3>2. /\ PrepareBuffered[i].hash = Append(PrepareBuffered[i].prev, buffer[i].id)
          /\ PrepareBuffered[i].prev =
               IF i = Len(prepared) + 1 THEN Base.hash ELSE PrepareBuffered[i - 1].hash
      BY <3>1, ChainedFacts
    <3>3. HashOk(PrepareBuffered[i])
      BY <1>1, <3>2 DEF HashOk
    <3>4. CASE prepared = <<>>
      BY <1>2, <3>1, <3>2, <3>3, <3>4 DEF Base
    <3>5. CASE prepared # <<>>
      <4>1. Len(prepared) \in 1 .. Len(prepared) /\ i # 1
        BY <1>2, <3>1, <3>5
      <4>2. Base.hash = PrepareBuffered[Len(prepared)].hash
        BY <1>1, <3>5, <4>1 DEF Base, Mark
      <4>3. i = Len(prepared) + 1 => i - 1 = Len(prepared)
        BY <1>2
      <4> QED BY <3>2, <3>3, <4>1, <4>2, <4>3
    <3> QED BY <3>4, <3>5
  <2> QED BY <2>1, <2>2
<1>4. DOMAIN prepared' = 1 .. Len(buffer)
  BY <1>1
<1> QED BY <1>3, <1>4 DEF CopiesChained, HashOk

\* What a commit leaves goes on from the new head.
LEMMA CommitChained ==
  ASSUME TypeOK, PreparedFollowsBuffer, CopiesChained, written > 0, CommitWritten
  PROVE  CopiesChained' /\ chain'.seq = chain.seq + written /\ chain'.hash = FlushHead.hash
<1>1. /\ written \in 0 .. Len(prepared) /\ written \in DOMAIN batch /\ prepared \in Seq(Prepared)
      /\ Len(prepared) \in Nat /\ batch \in Seq(Prepared)
  BY HashTypes DEF TypeOK, MemType, FlushType
<1>2. PICK p \in Seq(Prepared) : /\ p = Uncommitted(prepared) /\ Len(p) = Len(prepared) - written
                                 /\ \A i \in 1 .. Len(prepared) - written : p[i] = prepared[written + i]
  <2>1. /\ Uncommitted(prepared) \in Seq(Prepared) /\ Len(Uncommitted(prepared)) = Len(prepared) - written
        /\ \A i \in 1 .. Len(prepared) - written : Uncommitted(prepared)[i] = prepared[written + i]
    BY <1>1, RestType DEF Uncommitted
  <2> QED BY <2>1
<1>3. batch[written] = prepared[written] /\ batch[written].seq = chain.seq + written
  BY <1>1, BatchNumbers
<1>4. chain'.seq = chain.seq + written /\ chain'.hash = batch[written].hash /\ FlushHead = batch[written]
      /\ prepared' = p
  BY <1>2, <1>3 DEF CommitWritten, Mark, FlushHead
<1>5. ASSUME NEW i \in DOMAIN p
      PROVE  HashOk(p[i]) /\ p[i].prev = IF i = 1 THEN chain'.hash ELSE p[i - 1].hash
  <2>1. i \in 1 .. Len(prepared) - written /\ written + i \in DOMAIN prepared /\ written + i # 1 /\ i \in Nat
    BY <1>1, <1>2
  <2>2. HashOk(prepared[written + i]) /\ prepared[written + i].prev = prepared[(written + i) - 1].hash
    BY <2>1 DEF CopiesChained
  <2>3. CASE i = 1
    <3>1. (written + i) - 1 = written
      BY <1>1, <2>3
    <3> QED BY <1>2, <1>3, <1>4, <2>1, <2>2, <2>3, <3>1
  <2>4. CASE i # 1
    <3>0. /\ i \in Int /\ written \in Int /\ Len(prepared) \in Int
          /\ 1 <= i /\ i <= Len(prepared) - written /\ i # 1
      BY <1>1, <2>1, <2>4
    <3>1. (written + i) - 1 = written + (i - 1) /\ i - 1 \in 1 .. Len(prepared) - written
      BY <3>0
    <3> QED BY <1>2, <2>1, <2>2, <2>4, <3>1
  <2> QED BY <2>3, <2>4
<1> QED BY <1>4, <1>5 DEF CopiesChained, HashOk

\* Cutting off the fragment leaves the lines there are without it.
LEMMA RepairKeeps ==
  ASSUME disk \in Seq(Lines), TornLast, RepairTornTail
  PROVE  Intact(disk') = Intact(disk)
<1>1. CASE disk' = disk
  BY <1>1
<1>2. CASE disk' # disk
  <2>1. PICK i \in TornTails : disk' = Repaired(i)
    BY <1>2 DEF RepairTornTail
  <2>2. i = Len(disk) /\ i \in DOMAIN disk /\ IsTorn(disk[Len(disk)]) /\ disk # <<>>
    BY <2>1 DEF TornTails, TornLast
  <2>3. disk' = SubSeq(disk, 1, Len(disk) - 1)
    BY <2>1, <2>2, CutLast
  <2>4. Intact(disk) = disk'
    BY <2>2, <2>3, IntactFacts
  <2>5. ASSUME NEW j \in DOMAIN disk'
        PROVE  ~IsTorn(disk'[j])
    <3>1. Len(disk) - 1 \in 0 .. Len(disk) /\ Len(disk) \in Nat
      BY <2>2
    <3>2. /\ Len(disk') = Len(disk) - 1
          /\ \A k \in 1 .. Len(disk) - 1 : k \in DOMAIN disk /\ disk'[k] = disk[k]
      BY <2>3, <3>1, FrontType
    <3>3. j \in 1 .. Len(disk) - 1
      BY <3>2
    <3>4. j # Len(disk)
      BY <3>1, <3>3
    <3> QED BY <3>2, <3>3, <3>4 DEF TornLast
  <2>6. disk' \in Seq(Lines)
    BY <2>4, IntactFacts
  <2> QED BY <2>4, <2>5, <2>6, IntactWhole
<1> QED BY <1>1, <1>2

\* While the directory is not lost and the head file can be caught up, every step
\* keeps the chain.
LEMMA ChainStep ==
  ASSUME ~TrimMayFail, ~RemoveMayFail, AuditInv, AuditInv', DiskInv, DiskInv', wipes = 0, wipes' = 0,
         Recoverable, ChainInv, [Next]_vars \/ VerifierFlush
  PROVE  ChainInv'
<1> USE DEF memVars, flushVars, diskVars, storeVars, envVars
<1>0. /\ TypeOK /\ FlushInv /\ PreparedFollowsBuffer /\ disk \in Seq(Lines) /\ disk' \in Seq(Lines)
      /\ Sorted(disk) /\ TornLast /\ FloorHolds /\ NonePassedOver
      /\ Chained(Intact(disk)) /\ Reaches(Intact(disk), head.seq, head.hash)
      /\ CopiesChained /\ TipKnown
  BY DEF AuditInv, DiskInv, TypeOK, DiskType, ChainInv
<1>t. /\ written \in Nat /\ chain.seq \in Nat /\ head.seq \in Nat /\ mirror.seq \in Nat
      /\ phase # "down" => head.seq <= chain.seq + written
      /\ mirror.seq <= head.seq
      /\ phase \in {"down", "repair", "rebuild", "detect", "up", "stopping", "stopped"}
      /\ Intact(disk) \in Seq(Lines) /\ FlushHead.seq = chain.seq + written
      /\ (\A i \in DOMAIN disk : ~IsTorn(disk[i])) => Intact(disk) = disk
      /\ chain \in Marks
  BY <1>0, HeadNumbers, IntactFacts, IntactWhole DEF AuditInv, HeadInv, TypeOK, MemType
<1>a. flushPc # "idle" =>
        /\ phase \in {"up", "stopping", "stopped"}
        /\ \A i \in DOMAIN disk : disk[i].day <= floor /\ ~IsTorn(disk[i])
        /\ Intact(disk) = disk /\ EndsAt(disk, chain.seq + written, FlushHead.hash)
  <2>1. flushPc # "idle" =>
        /\ phase \in {"up", "stopping", "stopped"}
        /\ \A i \in DOMAIN disk : disk[i].day <= floor /\ ~IsTorn(disk[i])
    BY <1>0 DEF FlushInv, TypeOK, MemType, TornLast, FloorHolds
  <2> QED BY <1>0, <1>t, <2>1 DEF TipKnown
<1>c. Chained(Intact(disk))' <=> Chained(Intact(disk'))
  BY DEF Chained, HashOk, Intact, IsTorn
<1>d. Reaches(Intact(disk), head.seq, head.hash)' <=> Reaches(Intact(disk'), head'.seq, head'.hash)
  BY DEF Reaches, Intact, IsTorn
<1>e. EndsAt(Intact(disk), chain.seq + written, FlushHead.hash)'
        <=> EndsAt(Intact(disk'), chain'.seq + written', FlushHead'.hash)
  BY DEF EndsAt, Intact, IsTorn
(* Steps that touch neither the disk nor what has been written of a flush. *)
<1>b. ASSUME UNCHANGED <<disk, head, prepared, chain>>,
             \/ UNCHANGED <<batch, written>>
             \/ written = 0 /\ written' = 0,
             phase' = phase \/ (phase \in {"detect", "up", "stopping", "stopped"}
                                 /\ phase' \in {"detect", "up", "stopping", "stopped"})
      PROVE  ChainInv'
  <2>1. FlushHead' = FlushHead /\ written' = written
    BY <1>b DEF FlushHead
  <2>2. CopiesChained'
    BY <1>0, <1>b DEF CopiesChained, HashOk
  <2>3. TipKnown'
    <3>1. phase' \in {"repair", "rebuild"} => chain' = Mark(head)'
      BY <1>0, <1>b DEF TipKnown, Mark
    <3>2. phase' \in {"detect", "up", "stopping", "stopped"} =>
            EndsAt(Intact(disk'), chain'.seq + written', FlushHead'.hash)
      BY <1>0, <1>b, <2>1 DEF TipKnown
    <3> QED BY <1>e, <3>1, <3>2 DEF TipKnown
  <2> QED BY <1>0, <1>b, <1>c, <1>d, <2>2, <2>3 DEF ChainInv
<1>1. CASE AppendGroup
  <2>1. PICK n \in 1 .. Len(batch) - written, seg \in 0 .. Len(disk) :
          /\ IsTarget(disk, GroupDay, seg)
          /\ AppendLines(disk, <<GroupDay, seg>>, GroupLines(n, seg), disk')
          /\ written' = written + n
    BY <1>1 DEF AppendGroup
  <2>2. /\ written < Len(batch) /\ n \in 0 .. Len(batch) - written /\ seg \in Nat
        /\ written \in 0 .. Len(batch) /\ batch \in Seq(Prepared) /\ n \in Nat \ {0}
    BY <1>0, <1>1 DEF AppendGroup, FlushInv, TypeOK, FlushType
  <2>3. Appended(n, disk') /\ Len(disk') = Len(disk) + n
    BY <1>0, <1>1, <1>a, <2>1, <2>2, GroupAppended DEF AppendGroup
  <2>4. Intact(disk') = disk'
    <3>1. phase' \in {"up", "stopping", "stopped"}
      BY <1>1, <1>a DEF AppendGroup
    <3>2. \A i \in DOMAIN disk' : ~IsTorn(disk'[i])
      BY <3>1 DEF DiskInv, TornLast, IsTorn
    <3> QED BY <1>0, <3>2, IntactWhole
  <2>5. /\ Chained(disk') /\ Reaches(disk', head.seq, head.hash)
        /\ EndsAt(disk', chain.seq + (written + n), IF written + n > 0 THEN batch[written + n].hash ELSE chain.hash)
    BY <1>0, <1>1, <1>a, <1>t, <2>2, <2>3, AppendChained DEF AppendGroup
  <2>6. UNCHANGED <<phase, prepared, chain, head, batch>> /\ phase \notin {"repair", "rebuild"}
    BY <1>1, <1>a DEF AppendGroup
  <2>7. FlushHead'.hash = batch[written + n].hash /\ written + n > 0 /\ written' = written + n
    BY <1>t, <2>1, <2>2, <2>6 DEF FlushHead
  <2>8. CopiesChained'
    BY <1>0, <2>6 DEF CopiesChained, HashOk
  <2>9. TipKnown'
    BY <1>e, <2>4, <2>5, <2>6, <2>7 DEF TipKnown
  <2> QED BY <1>c, <1>d, <2>4, <2>5, <2>6, <2>8, <2>9 DEF ChainInv
<1>2. CASE RemoveFile
  <2>1. PICK b \in 1 .. Len(disk) : disk' = SubSeq(disk, b + 1, Len(disk))
    BY <1>0, <1>2, RemoveFileFacts
  <2>2. UNCHANGED <<phase, prepared, chain, head, batch, written>> /\ phase \notin {"repair", "rebuild"}
    BY <1>2, <1>a DEF RemoveFile
  <2>3. b \in 0 .. Len(disk) /\ b \in Nat /\ Len(disk) \in Nat
    BY <1>0
  <2>4. /\ Len(disk') = Len(disk) - b
        /\ \A i \in 1 .. Len(disk) - b : disk'[i] = disk[b + i]
    BY <1>0, <2>1, <2>3, RestType
  <2>5. ASSUME NEW i \in DOMAIN disk'
        PROVE  b + i \in DOMAIN disk /\ disk'[i] = disk[b + i]
    BY <1>0, <2>3, <2>4
  <2>6. Intact(disk') = disk'
    <3>1. \A i \in DOMAIN disk' : ~IsTorn(disk'[i])
      BY <1>2, <1>a, <2>5 DEF RemoveFile
    <3> QED BY <1>0, <3>1, IntactWhole
  <2>7. /\ Chained(disk') /\ Reaches(disk', head.seq, head.hash)
        /\ EndsAt(disk', chain.seq + written, FlushHead.hash)
    <3>1. \A i \in 1 .. Len(disk') : disk'[i] = disk[b + i]
      BY <2>4
    <3>2. Chained(disk) /\ Reaches(disk, head.seq, head.hash) /\ EndsAt(disk, chain.seq + written, FlushHead.hash)
      BY <1>0, <1>2, <1>a DEF RemoveFile
    <3> QED BY <1>0, <2>3, <2>4, <3>1, <3>2, RestChained
  <2>8. FlushHead'.hash = FlushHead.hash
    BY <2>2 DEF FlushHead
  <2>9. CopiesChained'
    BY <1>0, <2>2 DEF CopiesChained, HashOk
  <2>10. TipKnown'
    BY <1>e, <2>2, <2>6, <2>7, <2>8 DEF TipKnown
  <2> QED BY <1>c, <1>d, <2>2, <2>6, <2>7, <2>9, <2>10 DEF ChainInv
<1>3. CASE WriteHead \/ EndRetention
  <2>1. UNCHANGED <<phase, disk, prepared, chain, batch, written>> /\ phase \notin {"repair", "rebuild"}
    BY <1>3, <1>a DEF WriteHead, EndRetention
  <2>2. head' = head \/ (head'.seq = FlushHead.seq /\ head'.hash = FlushHead.hash)
    BY <1>3 DEF WriteHead, EndRetention, HeadPayload
  <2>3. Intact(disk) = disk /\ EndsAt(disk, chain.seq + written, FlushHead.hash)
    BY <1>3, <1>a DEF WriteHead, EndRetention
  <2>4. Reaches(disk, chain.seq + written, FlushHead.hash)
    <3>1. chain.seq + written \in Nat
      BY <1>t
    <3> QED BY <1>0, <2>3, <3>1, EndReaches
  <2>5. Reaches(Intact(disk'), head'.seq, head'.hash)
    BY <1>0, <1>t, <2>1, <2>2, <2>3, <2>4
  <2>6. FlushHead' = FlushHead
    BY <2>1 DEF FlushHead
  <2>7. CopiesChained'
    BY <1>0, <2>1 DEF CopiesChained, HashOk
  <2>8. TipKnown'
    BY <1>e, <2>1, <2>3, <2>6 DEF TipKnown
  <2> QED BY <1>0, <1>c, <1>d, <2>1, <2>5, <2>7, <2>8 DEF ChainInv
<1>4. CASE EndFlush
  <2>1. /\ written' = 0 /\ UNCHANGED <<disk, head>>
        /\ phase \in {"up", "stopping", "stopped"} /\ phase' \in {"up", "stopping", "stopped"}
        /\ Intact(disk) = disk /\ EndsAt(disk, chain.seq + written, FlushHead.hash)
    BY <1>4, <1>a DEF EndFlush
  <2>2. CASE ~(written > 0)
    <3>1. written = 0
      BY <1>t, <2>2
    <3>2. UNCHANGED <<prepared, chain>>
      BY <1>4, <2>2 DEF EndFlush
    <3> QED BY <1>b, <2>1, <3>1, <3>2
  <2>3. CASE written > 0
    <3>1. CopiesChained' /\ chain'.seq = chain.seq + written /\ chain'.hash = FlushHead.hash
      BY <1>0, <1>4, <2>3, CommitChained DEF EndFlush
    <3>2. FlushHead'.hash = FlushHead.hash /\ chain'.seq + written' = chain.seq + written
      BY <1>t, <2>1, <3>1 DEF FlushHead
    <3>3. TipKnown'
      BY <1>e, <2>1, <3>2 DEF TipKnown
    <3> QED BY <1>0, <1>c, <1>d, <2>1, <3>1, <3>3 DEF ChainInv
  <2> QED BY <2>2, <2>3
<1>5. CASE LoadHead
  <2>1. UNCHANGED <<disk, head, prepared>> /\ chain' = Mark(head) /\ phase' = "repair" /\ prepared = <<>>
    BY <1>0, <1>5 DEF LoadHead, FlushInv
  <2>2. CopiesChained'
    BY <2>1 DEF CopiesChained
  <2>3. TipKnown'
    BY <2>1 DEF TipKnown, Mark
  <2> QED BY <1>0, <1>c, <1>d, <2>1, <2>2, <2>3 DEF ChainInv
<1>6. CASE RepairTornTail
  <2>1. /\ UNCHANGED <<head, prepared, chain>> /\ phase \in {"repair", "rebuild"} /\ phase' \in {"repair", "rebuild"}
    BY <1>6 DEF RepairTornTail
  <2>2. Intact(disk') = Intact(disk)
    BY <1>0, <1>6, RepairKeeps
  <2>3. CopiesChained'
    BY <1>0, <2>1 DEF CopiesChained, HashOk
  <2>4. TipKnown'
    BY <1>0, <2>1 DEF TipKnown, Mark
  <2> QED BY <1>0, <1>c, <1>d, <2>1, <2>2, <2>3, <2>4 DEF ChainInv
<1>7. CASE RebuildHead
  <2>1. /\ UNCHANGED <<disk, prepared, written>> /\ written = 0 /\ prepared = <<>>
        /\ phase = "rebuild" /\ phase' = "detect" /\ chain = Mark(head)
        /\ \A i \in DOMAIN disk : ~IsTorn(disk[i])
    BY <1>0, <1>7 DEF RebuildHead, FlushInv, TornLast, TipKnown
  <2>2. Intact(disk) = disk /\ Intact(disk') = disk' /\ chain.seq = head.seq /\ chain.hash = head.hash
        /\ Chained(disk) /\ Reaches(disk, chain.seq, chain.hash)
    BY <1>0, <1>t, <2>1 DEF Mark
  <2>3. EndsAt(disk, chain'.seq, chain'.hash) /\ (head' = head \/ (head'.seq = chain'.seq /\ head'.hash = chain'.hash))
    <3>1. CASE disk = <<>>
      <4>1. head' = head \/ head' = HeadPayload(chain', anchor, reset)
        BY <1>7 DEF RebuildHead
      <4> QED BY <3>1, <4>1 DEF EndsAt, HeadPayload
    <3>2. CASE disk # <<>> /\ chain.seq < disk[Len(disk)].seq
      <4>1. Len(disk) \in DOMAIN disk /\ disk[Len(disk)].seq > head.seq
        BY <1>0, <1>t, <2>2, <3>2, LineFacts
      <4>2. head.found /\ \E i \in DOMAIN disk : disk[i].seq = head.seq /\ Key(disk[i]) \in RecentFiles(disk)
        BY <2>1, <4>1 DEF Recoverable
      <4>3. PICK k \in DOMAIN disk : disk[k].seq = chain.seq /\ Key(disk[k]) \in RecentFiles(disk)
        BY <2>2, <4>2
      <4>4. /\ Continues(Len(disk))
            /\ \A top \in DOMAIN disk : Continues(top) => top = Len(disk)
        BY <1>0, <2>1, <2>2, <3>2, <4>3, RebuildsToTheEnd
      <4>5. chain' = Mark(disk[Len(disk)]) /\ (head' = HeadPayload(chain', anchor, reset) \/ head' = head)
        BY <1>7, <4>1, <4>2, <4>4 DEF RebuildHead
      <4> QED BY <4>5 DEF EndsAt, Mark, HeadPayload
    <3>3. CASE disk # <<>> /\ ~(chain.seq < disk[Len(disk)].seq)
      <4>1. Len(disk) \in DOMAIN disk /\ disk[Len(disk)].seq \in Nat /\ Len(disk) \in Nat
        BY <1>0, <3>3, LineFacts
      <4>2. disk[Len(disk)].seq = chain.seq
        BY <1>t, <2>2, <3>3, <4>1 DEF Reaches
      <4>3. disk[Len(disk)].hash = chain.hash
        <5>1. Len(disk) \in 1 .. Len(disk)
          BY <1>0, <4>1
        <5> QED BY <2>2, <3>3, <4>2, <5>1 DEF Reaches
      <4>4. ASSUME NEW top \in DOMAIN disk
            PROVE  ~Continues(top)
        <5>1. disk[top].seq = disk[Len(disk)].seq - Len(disk) + top /\ top \in 1 .. Len(disk)
          BY <1>0, <2>2 DEF Chained
        <5>2. ~(disk[top].seq > chain.seq)
          BY <4>1, <4>2, <5>1
        <5> QED BY <5>2 DEF Continues
      <4>5. UNCHANGED <<chain, head>>
        BY <1>7, <4>4 DEF RebuildHead
      <4> QED BY <4>2, <4>3, <4>5 DEF EndsAt
    <3> QED BY <3>1, <3>2, <3>3
  <2>4. chain' \in Marks
    BY DEF AuditInv, TypeOK, MemType
  <2>5. Reaches(disk, head'.seq, head'.hash)
    <3>1. chain'.seq \in Nat
      BY <2>4 DEF Marks
    <3>2. Reaches(disk, chain'.seq, chain'.hash)
      BY <1>0, <2>2, <2>3, <3>1, EndReaches
    <3> QED BY <2>2, <2>3, <3>2
  <2>6. FlushHead'.hash = chain'.hash /\ chain'.seq + written' = chain'.seq
    <3>1. chain'.seq \in Nat
      BY <2>4 DEF Marks
    <3> QED BY <2>1, <3>1 DEF FlushHead
  <2>7. CopiesChained'
    BY <2>1 DEF CopiesChained
  <2>8. TipKnown'
    BY <1>e, <2>1, <2>2, <2>3, <2>6 DEF TipKnown
  <2> QED BY <1>c, <1>d, <2>1, <2>2, <2>5, <2>7, <2>8 DEF ChainInv
<1>8. CASE DetectReset
  <2>1. written = 0 /\ phase = "detect"
    BY <1>0, <1>8 DEF DetectReset, FlushInv
  <2>2. ~Lost
    BY <1>t, <2>1 DEF Lost
  <2> QED BY <1>8, <1>b, <2>1, <2>2 DEF DetectReset
<1>9. CASE Query \/ TimerFlush \/ TaskFlush \/ StopFlush \/ VerifierFlush
  <2>1. /\ UNCHANGED <<phase, disk, chain, head>> /\ prepared' = PrepareBuffered
        /\ \/ UNCHANGED <<batch, written>>
           \/ flushPc = "idle" /\ written' = 0
    BY <1>9 DEF Query, TimerFlush, TaskFlush, StopFlush, VerifierFlush, BeginFlush
  <2>2. CopiesChained'
    BY <1>0, <2>1, PreparedChained
  <2>3. FlushHead' = FlushHead /\ written' = written
    BY <1>0, <2>1 DEF FlushHead, FlushInv
  <2>4. TipKnown'
    <3>1. phase' \in {"repair", "rebuild"} => chain' = Mark(head)'
      BY <1>0, <2>1 DEF TipKnown, Mark
    <3>2. phase' \in {"detect", "up", "stopping", "stopped"} =>
            EndsAt(Intact(disk'), chain'.seq + written', FlushHead'.hash)
      BY <1>0, <2>1, <2>3 DEF TipKnown
    <3> QED BY <1>e, <3>1, <3>2 DEF TipKnown
  <2> QED BY <1>0, <1>c, <1>d, <2>1, <2>2, <2>4 DEF ChainInv
<1>10. CASE Unload \/ Crash
  <2>1. /\ phase' = "down" /\ prepared' = <<>> /\ UNCHANGED head
    BY <1>10 DEF Unload, Crash, LoseMemory
  <2>2. Chained(Intact(disk')) /\ Reaches(Intact(disk'), head.seq, head.hash)
    <3>1. CASE disk' = disk
      BY <1>0, <3>1
    <3>2. CASE disk' # disk
      <4>1. flushPc = "append" /\ PartialAppend(disk')
        BY <1>10, <3>2 DEF Unload, Crash
      <4>2. written < Len(batch)
        BY <1>0, <4>1 DEF FlushInv
      <4>3. PICK n \in 0 .. Len(batch) - written :
              /\ Appended(n, disk') /\ Sorted(disk')
              /\ \A i \in 1 .. Len(disk) + n : i \in DOMAIN disk' /\ ~IsTorn(disk'[i])
              /\ \/ Len(disk') = Len(disk) + n
                 \/ Len(disk') = Len(disk) + n + 1 /\ IsTorn(disk'[Len(disk')])
        BY <1>0, <1>a, <4>1, <4>2, PartialKeeps
      <4>4. n \in Nat
        BY <1>0 DEF TypeOK, FlushType
      <4>5. /\ Intact(disk') \in Seq(Lines) /\ Len(Intact(disk')) = Len(disk) + n
            /\ \A i \in 1 .. Len(disk) + n : Intact(disk')[i] = disk'[i]
        BY <1>0, <1>a, <4>1, <4>3, <4>4, IntactAppended
      <4> QED BY <1>0, <1>a, <1>t, <4>1, <4>3, <4>5, AppendChained
    <3> QED BY <3>1, <3>2
  <2>3. CopiesChained' /\ TipKnown'
    BY <2>1 DEF CopiesChained, TipKnown
  <2> QED BY <1>c, <1>d, <2>1, <2>2, <2>3 DEF ChainInv
<1>11. CASE LoseDirectory
  BY <1>0, <1>11 DEF LoseDirectory, TypeOK, EnvType
<1>12. CASE AppendFails \/ WriteHeadFails \/ SkipRetention \/ BeginRetention \/ RemoveFileFails
  BY <1>12, <1>b DEF AppendFails, WriteHeadFails, SkipRetention, BeginRetention, RemoveFileFails
<1>13. CASE TaskFlushEmpty \/ BeginStop \/ StopFlushEmpty \/ ClockMoves \/ SaveStore
  BY <1>13, <1>b DEF TaskFlushEmpty, BeginStop, StopFlushEmpty, ClockMoves, SaveStore
<1>14. CASE UNCHANGED vars \/ \E kind \in {"low", "high"} : Log(kind)
  BY <1>14, <1>b DEF vars, Log
<1> QED
  BY <1>1, <1>2, <1>3, <1>4, <1>5, <1>6, <1>7, <1>8, <1>9, <1>10, <1>11, <1>12, <1>13, <1>14
     DEF Next, FlushStep, IOError, StartStep, StopStep

\* The empty log and the log of one record are chains.
LEMMA ChainInit ==
  ASSUME Init
  PROVE  ChainInv
<1>1. prepared = <<>> /\ phase = "down"
  BY DEF Init
<1>2. CopiesChained /\ TipKnown
  BY <1>1 DEF CopiesChained, TipKnown
<1>3. CASE disk = <<>>
  <2>1. Intact(disk) = <<>> /\ Len(Intact(disk)) = 0
    BY <1>3 DEF Intact
  <2> QED BY <1>2, <2>1 DEF ChainInv, Chained, Reaches
<1>4. CASE disk = <<FirstLine>> /\ head = HeadPayload(FirstLine, NoMark, NoMark)
  <2>1. Len(<<FirstLine>>) = 1 /\ <<FirstLine>>[1] = FirstLine
    OBVIOUS
  <2>2. ~IsTorn(FirstLine)
    BY DEF IsTorn, FirstLine
  <2>3. Intact(disk) = disk /\ Len(disk) = 1 /\ disk[1] = FirstLine
    BY <1>4, <2>1, <2>2, Zenon DEF Intact
  <2>4. Append(<<>>, 1) = <<1>>
    OBVIOUS
  <2>5. HashOk(FirstLine) /\ FirstLine.seq = 1 /\ head.seq = 1 /\ head.hash = FirstLine.hash
    BY <1>4, <2>4 DEF HashOk, FirstLine, Genesis, HeadPayload
  <2>6. Chained(disk) /\ Reaches(disk, head.seq, head.hash)
    BY <2>3, <2>5 DEF Chained, Reaches
  <2> QED BY <1>2, <2>3, <2>6 DEF ChainInv
<1> QED BY <1>3, <1>4 DEF Init

\* A chain on disk that the copies in memory go on from is one chain.
LEMMA ChainImplies ==
  ASSUME TypeOK, PreparedFollowsBuffer, FlushInv, ChainInv
  PROVE  ChainIntact
<1> DEFINE t == Intact(disk)
<1>1. /\ t \in Seq(Lines) /\ Len(t) \in Nat /\ written \in Nat /\ Len(prepared) \in Nat
      /\ written <= Len(prepared) /\ prepared \in Seq(Prepared) /\ chain.seq \in Nat
      /\ batch \in Seq(Prepared) /\ Chained(t)
  BY IntactFacts, HashTypes DEF TypeOK, DiskType, MemType, FlushType, Marks, ChainInv
<1> HIDE DEF t
<1>2. PICK p \in Seq(Prepared) : /\ p = PendingPrepared /\ Len(p) = Len(prepared) - written
                                 /\ \A i \in 1 .. Len(prepared) - written : p[i] = prepared[written + i]
  <2>1. /\ PendingPrepared \in Seq(Prepared) /\ Len(PendingPrepared) = Len(prepared) - written
        /\ \A i \in 1 .. Len(prepared) - written : PendingPrepared[i] = prepared[written + i]
    BY <1>1, RestType DEF PendingPrepared
  <2> QED BY <2>1
<1>3. PICK u \in Seq(Lines \cup Prepared) :
        /\ u = t \o p /\ Len(u) = Len(t) + Len(p)
        /\ \A i \in 1 .. Len(t) : u[i] = t[i]
        /\ \A i \in 1 .. Len(p) : u[Len(t) + i] = p[i]
  <2>1. t \in Seq(Lines \cup Prepared) /\ p \in Seq(Lines \cup Prepared)
    BY <1>1
  <2>2. /\ t \o p \in Seq(Lines \cup Prepared) /\ Len(t \o p) = Len(t) + Len(p)
        /\ \A i \in 1 .. Len(t) : (t \o p)[i] = t[i]
        /\ \A i \in 1 .. Len(p) : (t \o p)[Len(t) + i] = p[i]
    BY <2>1
  <2> QED BY <2>2, Zenon
<1>4. ASSUME NEW i \in 1 .. Len(p)
      PROVE  /\ p[i].seq = chain.seq + (written + i)
             /\ p[i].prev = IF i = 1 THEN FlushHead.hash ELSE p[i - 1].hash
  <2>1. /\ i \in Int /\ 1 <= i /\ i <= Len(prepared) - written /\ p[i] = prepared[written + i]
        /\ written + i \in DOMAIN prepared
    BY <1>1, <1>2
  <2>2. /\ prepared[written + i].seq = chain.seq + (written + i)
        /\ prepared[written + i].prev =
             IF written + i = 1 THEN chain.hash ELSE prepared[(written + i) - 1].hash
    BY <2>1 DEF PreparedFollowsBuffer, ChainInv, CopiesChained
  <2>3. CASE i = 1
    <3>1. (written + i) - 1 = written /\ (written + i = 1 <=> ~(written > 0))
      BY <1>1, <2>3
    <3>2. written > 0 => written \in DOMAIN batch /\ batch[written] = prepared[written]
      BY <1>1 DEF TypeOK, FlushType, PreparedFollowsBuffer
    <3> QED BY <2>1, <2>2, <2>3, <3>1, <3>2 DEF FlushHead
  <2>4. CASE i # 1
    <3>1. /\ (written + i) - 1 = written + (i - 1) /\ written + i # 1
          /\ i - 1 \in 1 .. Len(prepared) - written
      BY <1>1, <2>1, <2>4
    <3> QED BY <1>2, <2>1, <2>2, <2>4, <3>1
  <2> QED BY <2>3, <2>4
<1>5. Len(p) # 0 => EndsAt(t, chain.seq + written, FlushHead.hash)
  <2> SUFFICES ASSUME Len(p) # 0
               PROVE  EndsAt(t, chain.seq + written, FlushHead.hash)
    OBVIOUS
  <2>1. prepared # <<>>
    BY <1>1, <1>2
  <2>2. phase \in {"up", "stopping", "stopped"}
    BY <2>1 DEF FlushInv, TypeOK, MemType
  <2> QED BY <2>2 DEF ChainInv, TipKnown, t
<1>6. ASSUME NEW i \in 1 .. Len(u) - 1
      PROVE  u[i + 1].seq = u[i].seq + 1 /\ u[i + 1].prev = u[i].hash
  <2>1. i \in Int /\ 1 <= i /\ i + 1 <= Len(t) + Len(p) /\ Len(p) \in Nat
    BY <1>1, <1>2, <1>3
  <2>2. CASE i + 1 <= Len(t)
    <3>1. i \in 1 .. Len(t) /\ i + 1 \in 1 .. Len(t) /\ Len(t) \in 1 .. Len(t)
      BY <1>1, <2>1, <2>2
    <3>2. /\ t[i].seq = t[Len(t)].seq - Len(t) + i /\ t[i + 1].seq = t[Len(t)].seq - Len(t) + (i + 1)
          /\ t[i + 1].prev = t[i].hash
      <4>1. i + 1 > 1 /\ (i + 1) - 1 = i
        BY <2>1
      <4>2. \A k \in 1 .. Len(t) :
              /\ t[k].seq = t[Len(t)].seq - Len(t) + k
              /\ k > 1 => t[k].prev = t[k - 1].hash
        BY <1>1 DEF Chained
      <4> QED BY <3>1, <4>1, <4>2
    <3>3. t[Len(t)].seq \in Nat
      <4>1. Len(t) \in DOMAIN t
        BY <1>1, <3>1
      <4> QED BY <1>1, <4>1, LineFacts
    <3>4. t[i + 1].seq = t[i].seq + 1
      <4>1. PICK q \in Nat, n \in Nat : q = t[Len(t)].seq /\ n = Len(t)
        BY <1>1, <3>3
      <4>2. t[i].seq = q - n + i /\ t[i + 1].seq = q - n + (i + 1)
        BY <3>2, <4>1
      <4> QED BY <2>1, <4>2
    <3> QED BY <1>3, <3>1, <3>2, <3>4
  <2>3. CASE i = Len(t)
    <3>1. /\ Len(t) + 1 = i + 1 /\ 1 \in 1 .. Len(p) /\ Len(t) \in 1 .. Len(t) /\ Len(p) # 0 /\ t # <<>>
      BY <1>1, <2>1, <2>3
    <3>2. t[Len(t)].seq = chain.seq + written /\ t[Len(t)].hash = FlushHead.hash
      BY <1>5, <3>1 DEF EndsAt
    <3>3. p[1].seq = chain.seq + (written + 1) /\ p[1].prev = FlushHead.hash
      BY <1>4, <3>1
    <3>4. u[i] = t[Len(t)] /\ u[i + 1] = p[1]
      BY <1>3, <2>3, <3>1
    <3>5. chain.seq + (written + 1) = (chain.seq + written) + 1
      <4>1. \A a, b \in Nat : a + (b + 1) = (a + b) + 1
        OBVIOUS
      <4> QED BY <1>1, <4>1, Zenon
    <3> QED BY <3>2, <3>3, <3>4, <3>5
  <2>4. CASE ~(i + 1 <= Len(t)) /\ i # Len(t)
    <3>1. PICK j \in Int : j = i - Len(t)
      <4>1. i - Len(t) \in Int
        BY <1>1, <2>1
      <4> QED BY <4>1
    <3>2. /\ i = Len(t) + j /\ i + 1 = Len(t) + (j + 1) /\ j \in 1 .. Len(p) /\ j + 1 \in 1 .. Len(p)
          /\ j + 1 # 1 /\ (j + 1) - 1 = j
      BY <1>1, <2>1, <2>4, <3>1
    <3>3. u[i] = p[j] /\ u[i + 1] = p[j + 1]
      BY <1>3, <3>2
    <3>4. /\ p[j].seq = chain.seq + (written + j) /\ p[j + 1].seq = chain.seq + (written + (j + 1))
          /\ p[j + 1].prev = p[j].hash
      BY <1>4, <3>2
    <3> QED BY <1>1, <3>1, <3>3, <3>4
  <2> QED BY <2>1, <2>2, <2>3, <2>4
<1>7. Intact(disk) \o PendingPrepared = u
  BY <1>2, <1>3 DEF t
<1> QED BY <1>6, <1>7 DEF ChainIntact, Linked

\* The lines on disk in file order, followed by the records already numbered in
\* memory, form one chain of consecutive numbers in which each record names the
\* hash of the one before it.
THEOREM ChainHolds ==
  ASSUME ~TrimMayFail, ~RemoveMayFail
  PROVE  Spec /\ []Recoverable => []ChainIntact
<1>1. Init => ChainInv
  BY ChainInit
<1>2. ASSUME AuditInv, AuditInv', DiskInv, DiskInv', Recoverable, wipes = 0 => ChainInv, [Next]_vars, wipes' = 0
      PROVE  ChainInv'
  BY <1>2, WipesGrow, ChainStep DEF AuditInv
<1>3. AuditInv /\ DiskInv /\ AuditInv' /\ DiskInv' /\ Recoverable /\ (wipes = 0 => ChainInv) /\ [Next]_vars
        => (wipes = 0 => ChainInv)'
  BY <1>2
<1>4. AuditInv /\ (wipes = 0 => ChainInv) => ChainIntact
  <2>1. wipes # 0 => ChainIntact
    BY DEF ChainIntact
  <2> QED BY <2>1, ChainImplies DEF AuditInv
<1> QED BY <1>1, <1>3, <1>4, DiskInvariant, PTL DEF Spec
=============================================================================
