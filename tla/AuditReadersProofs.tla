------------------------- MODULE AuditReadersProofs -------------------------
(***************************************************************************)
(* Theorems about what the readers of module AuditReaders are told of the  *)
(* writer's files, for every value of the constants: a lost directory is   *)
(* reported under every fault the modules allow, and a chain nobody touched*)
(* is called whole where a second fault does not meet the handling of a    *)
(* first one.                                                              *)
(***************************************************************************)
EXTENDS AuditReaders, AuditLogProofs, NaturalsInduction, WellFoundedInduction

-----------------------------------------------------------------------------
(* The loss of the directory                                               *)

\* A hash commits to as many records as its number says.
Counted(m) == Len(m.hash) = m.seq
Whole(r) == Counted(r) /\ Len(r.prev) = r.seq - 1

MarksCounted ==
  /\ Counted(chain) /\ Counted(anchor) /\ Counted(reset) /\ Counted(mirror) /\ Counted(saved)
  /\ Counted(pass.best) /\ Counted(head) /\ Counted(head.anchor) /\ Counted(head.reset)

\* What the directory holds since it was lost last came after the head that had
\* been saved by then.
Beyond(d, w) == \A i \in DOMAIN d : ~IsTorn(d[i]) => d[i].seq > w /\ Whole(d[i])

LossInv ==
  /\ MarksCounted
  /\ \A i \in DOMAIN prepared : Whole(prepared[i])
  /\ Beyond(disk, wipedAt)
  /\ wipedAt <= saved.seq /\ saved.seq <= mirror.seq
  /\ phase \in {"up", "stopping", "stopped"} => mirror.seq <= chain.seq

\* The copies made now are counted on from the last ones.
LEMMA PreparedCounted ==
  ASSUME TypeOK, PreparedFollowsBuffer, Counted(chain), \A i \in DOMAIN prepared : Whole(prepared[i])
  PROVE  \A i \in DOMAIN PrepareBuffered : Whole(PrepareBuffered[i])
<1> DEFINE new == SubSeq(buffer, Len(prepared) + 1, Len(buffer))
<1>0. /\ buffer \in Seq(Records) /\ prepared \in Seq(Prepared) /\ Len(prepared) <= Len(buffer)
      /\ Len(prepared) \in Nat /\ Len(buffer) \in Nat /\ chain.seq \in Nat /\ chain \in Marks
  BY DEF TypeOK, MemType, Marks
<1>1. /\ PrepareBuffered \in Seq(Prepared) /\ Len(PrepareBuffered) = Len(buffer)
      /\ \A i \in 1 .. Len(prepared) : PrepareBuffered[i] = prepared[i]
      /\ \A i \in 1 .. Len(buffer) : PrepareBuffered[i].seq = chain.seq + i
      /\ \A i \in 1 .. Len(buffer) - Len(prepared) :
           /\ PrepareBuffered[Len(prepared) + i].prev = ChainHash(Base.hash, new, i - 1)
           /\ PrepareBuffered[Len(prepared) + i].hash = ChainHash(Base.hash, new, i)
  BY PrepareBufferedFacts
<1>2. new \in Seq(Records) /\ Len(new) = Len(buffer) - Len(prepared)
  BY <1>0, RestType
<1>3. Base.hash \in Seq(Nat) /\ Len(Base.hash) = chain.seq + Len(prepared)
  <2>1. Base.hash \in Seq(Nat)
    BY ChainedFacts
  <2>2. CASE prepared = <<>>
    BY <1>0, <2>1, <2>2 DEF Base, Counted
  <2>3. CASE prepared # <<>>
    <3>1. Len(prepared) \in DOMAIN prepared
      BY <1>0, <2>3
    <3>2. prepared[Len(prepared)].seq = chain.seq + Len(prepared)
      BY <3>1 DEF PreparedFollowsBuffer
    <3>3. Base.hash = prepared[Len(prepared)].hash
      BY <2>3 DEF Base, Mark
    <3> QED BY <2>1, <3>1, <3>2, <3>3 DEF Whole, Counted
  <2> QED BY <2>2, <2>3, <2>1
<1>4. ASSUME NEW k \in 0 .. Len(buffer) - Len(prepared)
      PROVE  Len(ChainHash(Base.hash, new, k)) = chain.seq + Len(prepared) + k
  <2>1. k \in Nat /\ \A j \in 1 .. k : new[j].id \in Nat
    <3>1. k \in Nat
      BY <1>0
    <3>2. ASSUME NEW j \in 1 .. k PROVE new[j] \in Records
      <4>1. j \in 1 .. Len(new)
        BY <1>0, <1>2
      <4> HIDE DEF new
      <4> QED BY <1>2, <4>1
    <3> QED BY <3>1, <3>2 DEF Records
  <2> HIDE DEF new
  <2>2. PICK a \in Seq(Nat) : a = [j \in 1 .. k |-> new[j].id] /\ Len(a) = k
    <3>1. [j \in 1 .. k |-> new[j].id] \in Seq(Nat) /\ Len([j \in 1 .. k |-> new[j].id]) = k
      BY <2>1
    <3> QED BY <3>1
  <2>3. Len(Base.hash \o a) = Len(Base.hash) + Len(a)
    BY <1>3
  <2>4. ChainHash(Base.hash, new, k) = Base.hash \o a
    BY <2>2, Zenon DEF ChainHash
  <2> QED BY <1>3, <2>2, <2>3, <2>4
<1>5. ASSUME NEW i \in 1 .. Len(buffer)
      PROVE  Whole(PrepareBuffered[i])
  <2>1. CASE i \in 1 .. Len(prepared)
    <3>1. i \in DOMAIN prepared /\ PrepareBuffered[i] = prepared[i]
      <4> HIDE DEF new
      <4> QED BY <1>0, <1>1, <2>1
    <3> QED BY <3>1
  <2>2. CASE i \notin 1 .. Len(prepared)
    <3>1. PICK k \in 1 .. Len(buffer) - Len(prepared) : i = Len(prepared) + k
      <4>1. i - Len(prepared) \in 1 .. Len(buffer) - Len(prepared) /\ i = Len(prepared) + (i - Len(prepared))
        BY <1>0, <2>2
      <4> QED BY <4>1
    <3>2. k - 1 \in 0 .. Len(buffer) - Len(prepared) /\ k \in 0 .. Len(buffer) - Len(prepared)
      BY <1>0, <3>1
    <3>3. /\ Len(PrepareBuffered[i].prev) = chain.seq + Len(prepared) + (k - 1)
          /\ Len(PrepareBuffered[i].hash) = chain.seq + Len(prepared) + k
          /\ PrepareBuffered[i].seq = chain.seq + i
      <4> HIDE DEF new
      <4> QED BY <1>1, <1>4, <3>1, <3>2
    <3> QED BY <1>0, <3>1, <3>3 DEF Whole, Counted
  <2> QED BY <2>1, <2>2
<1> QED BY <1>1, <1>5

\* Appending adds its lines and takes nothing from what was there.
LEMMA AppendBeyond ==
  ASSUME NEW d \in Seq(Lines), NEW w \in Nat, Beyond(d, w), NEW k, NEW ls \in Seq(Lines), Beyond(ls, w),
         NEW e, AppendLines(d, k, ls, e)
  PROVE  Beyond(e, w)
<1> DEFINE ended == [i \in 1 .. Len(d) |-> IF Key(d[i]) = k THEN [d[i] EXCEPT !.eol = TRUE] ELSE d[i]]
<1>1. ended \in Seq(Lines) /\ Len(ended) = Len(d)
  <2>1. \A l \in Lines : [l EXCEPT !.eol = TRUE] \in Lines
    BY DEF Lines
  <2>2. \A i \in 1 .. Len(d) : ended[i] \in Lines
    BY <2>1
  <2> QED BY <2>2
<1>2. Beyond(ended, w)
  <2>1. ASSUME NEW i \in 1 .. Len(d)
        PROVE  ended[i].seq = d[i].seq /\ ended[i].hash = d[i].hash /\ ended[i].prev = d[i].prev
    <3>1. d[i] \in Lines
      OBVIOUS
    <3>2. CASE Key(d[i]) = k
      <4>1. ended[i] = [d[i] EXCEPT !.eol = TRUE]
        BY <3>2
      <4> QED BY <3>1, <4>1 DEF Lines
    <3>3. CASE Key(d[i]) # k
      BY <3>3
    <3> QED BY <3>2, <3>3
  <2> HIDE DEF ended
  <2> QED BY <1>1, <2>1 DEF Beyond, IsTorn, Whole, Counted
<1>3. PICK p \in 0 .. Len(d) : e = SubSeq(ended, 1, p) \o ls \o SubSeq(ended, p + 1, Len(d))
  BY DEF AppendLines
<1> HIDE DEF ended
<1>4. PICK a \in Seq(Lines) : a = SubSeq(ended, 1, p) /\ Len(a) = p /\ \A i \in 1 .. p : a[i] = ended[i] /\ i \in DOMAIN ended
  <2>1. /\ SubSeq(ended, 1, p) \in Seq(Lines) /\ Len(SubSeq(ended, 1, p)) = p
        /\ \A i \in 1 .. p : i \in DOMAIN ended /\ SubSeq(ended, 1, p)[i] = ended[i]
    BY <1>1, FrontType
  <2> QED BY <2>1
<1>5. PICK b \in Seq(Lines) : /\ b = SubSeq(ended, p + 1, Len(d)) /\ Len(b) = Len(d) - p
                              /\ \A i \in 1 .. Len(d) - p : b[i] = ended[p + i]
  <2>1. /\ SubSeq(ended, p + 1, Len(d)) \in Seq(Lines) /\ Len(SubSeq(ended, p + 1, Len(d))) = Len(d) - p
        /\ \A i \in 1 .. Len(d) - p : SubSeq(ended, p + 1, Len(d))[i] = ended[p + i]
    BY <1>1, RestType
  <2> QED BY <2>1
<1>6. Beyond(a, w) /\ Beyond(b, w)
  <2>1. \A i \in DOMAIN a : \E j \in DOMAIN ended : a[i] = ended[j]
    BY <1>1, <1>4
  <2>2. \A i \in DOMAIN b : \E j \in DOMAIN ended : b[i] = ended[j]
    <3>1. ASSUME NEW i \in DOMAIN b PROVE \E j \in DOMAIN ended : b[i] = ended[j]
      <4>1. p + i \in DOMAIN ended /\ b[i] = ended[p + i]
        BY <1>1, <1>5
      <4> QED BY <4>1
    <3> QED BY <3>1
  <2> QED BY <1>2, <2>1, <2>2 DEF Beyond
<1>7. ASSUME NEW s \in Seq(Lines), NEW t \in Seq(Lines), Beyond(s, w), Beyond(t, w)
      PROVE  s \o t \in Seq(Lines) /\ Beyond(s \o t, w)
  <2>1. /\ s \o t \in Seq(Lines) /\ Len(s \o t) = Len(s) + Len(t)
        /\ \A i \in 1 .. Len(s) : (s \o t)[i] = s[i]
        /\ \A i \in 1 .. Len(t) : (s \o t)[Len(s) + i] = t[i]
    BY ConcatType
  <2>2. PICK u \in Seq(Lines) : u = s \o t
    BY <2>1
  <2>3. ASSUME NEW i \in DOMAIN u
        PROVE  (\E j \in DOMAIN s : u[i] = s[j]) \/ (\E j \in DOMAIN t : u[i] = t[j])
    <3>1. CASE i \in 1 .. Len(s)
      BY <2>1, <2>2, <3>1
    <3>2. CASE i \notin 1 .. Len(s)
      <4>1. PICK j \in 1 .. Len(t) : i = Len(s) + j
        <5>1. i - Len(s) \in 1 .. Len(t) /\ i = Len(s) + (i - Len(s))
          BY <2>1, <2>2, <3>2
        <5> QED BY <5>1
      <4>2. u[i] = t[j] /\ j \in DOMAIN t
        BY <2>1, <2>2, <4>1
      <4> QED BY <4>2
    <3> QED BY <3>1, <3>2
  <2> QED BY <1>7, <2>2, <2>3 DEF Beyond
<1>8. PICK c \in Seq(Lines) : c = a \o ls /\ Beyond(c, w)
  BY <1>6, <1>7
<1>9. e = c \o b
  <2>1. PICK x, y : x = SubSeq(ended, 1, p) /\ y = SubSeq(ended, p + 1, Len(d)) /\ e = x \o ls \o y
    BY <1>3, Zenon
  <2>2. x = a /\ y = b
    BY <1>4, <1>5, <2>1, Zenon
  <2>3. e = a \o ls \o b
    BY <2>1, <2>2, Zenon
  <2>4. c = a \o ls
    BY <1>8, Zenon
  <2> QED BY <2>3, <2>4, Zenon
<1> QED BY <1>6, <1>7, <1>8, <1>9

\* What a flush appends, in whole or in part, came after the head that had been
\* saved.
LEMMA GroupBeyond ==
  ASSUME TypeOK, PreparedFollowsBuffer, written < Len(batch), NEW w \in Nat, w <= chain.seq,
         \A i \in DOMAIN prepared : Whole(prepared[i]),
         NEW n \in 0 .. Len(batch) - written, NEW seg \in Nat
  PROVE  /\ GroupLines(n, seg) \in Seq(Lines) /\ Beyond(GroupLines(n, seg), w)
         /\ Append(GroupLines(n, seg), Torn(GroupDay, seg)) \in Seq(Lines)
         /\ Beyond(Append(GroupLines(n, seg), Torn(GroupDay, seg)), w)
<1>1. PICK g \in Seq(Lines) : g = GroupLines(n, seg) /\ Len(g) = n
  BY GroupLineFacts
<1>2. ASSUME NEW i \in 1 .. n
      PROVE  g[i].seq > w /\ Whole(g[i])
  <2>1. /\ written + i \in DOMAIN batch /\ g[i].seq = batch[written + i].seq
        /\ g[i].prev = batch[written + i].prev /\ g[i].hash = batch[written + i].hash
    <3>1. batch \in Seq(Prepared) /\ seg \in Nat
      BY DEF TypeOK, FlushType
    <3>2. \A j \in 1 .. n : /\ written + j \in 1 .. Len(batch)
                            /\ GroupLines(n, seg)[j].seq = batch[written + j].seq
                            /\ GroupLines(n, seg)[j].prev = batch[written + j].prev
                            /\ GroupLines(n, seg)[j].hash = batch[written + j].hash
      BY GroupLineFacts, Zenon
    <3> QED BY <1>1, <3>1, <3>2
  <2>2. /\ written + i \in DOMAIN prepared /\ batch[written + i] = prepared[written + i]
        /\ batch[written + i].seq = chain.seq + (written + i)
    BY <2>1, BatchNumbers
  <2>3. chain.seq + (written + i) > w
    <3>1. chain.seq \in Nat /\ written \in Nat /\ i \in Nat \ {0}
      BY HashTypes DEF TypeOK, MemType, Marks
    <3> QED BY <3>1
  <2> QED BY <2>1, <2>2, <2>3 DEF Whole, Counted
<1>3. Beyond(g, w)
  BY <1>1, <1>2 DEF Beyond
<1>4. PICK t \in Lines : t = Torn(GroupDay, seg) /\ IsTorn(t)
  <2>1. GroupDay \in Nat
    BY GroupLineFacts
  <2>2. Torn(GroupDay, seg) \in Lines /\ IsTorn(Torn(GroupDay, seg))
    BY <2>1 DEF Torn, Lines, Genesis, Hashes, IsTorn
  <2> QED BY <2>2
<1>5. /\ Append(g, t) \in Seq(Lines) /\ Len(Append(g, t)) = Len(g) + 1
      /\ \A i \in 1 .. Len(g) : Append(g, t)[i] = g[i]
      /\ Append(g, t)[Len(g) + 1] = t
  OBVIOUS
<1>6. Beyond(Append(g, t), w)
  <2>1. ASSUME NEW i \in 1 .. Len(g) + 1, ~IsTorn(Append(g, t)[i])
        PROVE  i \in 1 .. Len(g)
    BY <1>1, <1>4, <1>5, <2>1
  <2>2. PICK u \in Seq(Lines) : u = Append(g, t)
    BY <1>5
  <2>3. ASSUME NEW i \in DOMAIN u, ~IsTorn(u[i])
        PROVE  u[i].seq > w /\ Whole(u[i])
    <3>1. i \in 1 .. Len(g) /\ i \in DOMAIN g /\ u[i] = g[i]
      BY <1>5, <2>1, <2>2, <2>3
    <3> QED BY <1>3, <2>3, <3>1 DEF Beyond
  <2> QED BY <2>2, <2>3, Zenon DEF Beyond
<1> QED BY <1>1, <1>3, <1>4, <1>5, <1>6

LEMMA PartialBeyond ==
  ASSUME TypeOK, PreparedFollowsBuffer, written < Len(batch), NEW w \in Nat, w <= chain.seq,
         \A i \in DOMAIN prepared : Whole(prepared[i]), Beyond(disk, w), NEW d, PartialAppend(d)
  PROVE  Beyond(d, w)
<1>1. PICK n \in 0 .. Len(batch) - written, seg \in 0 .. Len(disk), torn \in BOOLEAN :
        AppendLines(disk, <<GroupDay, seg>>,
          IF torn THEN Append(GroupLines(n, seg), Torn(GroupDay, seg)) ELSE GroupLines(n, seg), d)
  BY DEF PartialAppend
<1>2. seg \in Nat /\ disk \in Seq(Lines)
  BY DEF TypeOK, DiskType
<1>3. /\ (IF torn THEN Append(GroupLines(n, seg), Torn(GroupDay, seg)) ELSE GroupLines(n, seg)) \in Seq(Lines)
      /\ Beyond(IF torn THEN Append(GroupLines(n, seg), Torn(GroupDay, seg)) ELSE GroupLines(n, seg), w)
  <2>1. CASE torn = TRUE
    BY <1>2, <2>1, GroupBeyond
  <2>2. CASE torn = FALSE
    BY <1>2, <2>2, GroupBeyond
  <2> QED BY <2>1, <2>2
<1> QED BY <1>1, <1>2, <1>3, AppendBeyond

\* Cutting a stretch out adds no lines.
LEMMA CutBeyond ==
  ASSUME NEW d \in Seq(Lines), NEW w, Beyond(d, w), NEW a \in DOMAIN d, NEW b \in DOMAIN d
  PROVE  Beyond(Cut(d, a, b), w)
<1>1. a - 1 \in 0 .. Len(d) /\ b \in 0 .. Len(d) /\ b \in Nat
  OBVIOUS
<1>2. PICK s \in Seq(Lines) : /\ s = SubSeq(d, 1, a - 1) /\ Len(s) = a - 1
                              /\ \A i \in 1 .. a - 1 : i \in DOMAIN d /\ s[i] = d[i]
  <2>1. /\ SubSeq(d, 1, a - 1) \in Seq(Lines) /\ Len(SubSeq(d, 1, a - 1)) = a - 1
        /\ \A i \in 1 .. a - 1 : i \in DOMAIN d /\ SubSeq(d, 1, a - 1)[i] = d[i]
    BY <1>1, FrontType
  <2> QED BY <2>1
<1>3. PICK t \in Seq(Lines) : /\ t = SubSeq(d, b + 1, Len(d)) /\ Len(t) = Len(d) - b
                              /\ \A i \in 1 .. Len(d) - b : t[i] = d[b + i]
  <2>1. /\ SubSeq(d, b + 1, Len(d)) \in Seq(Lines) /\ Len(SubSeq(d, b + 1, Len(d))) = Len(d) - b
        /\ \A i \in 1 .. Len(d) - b : SubSeq(d, b + 1, Len(d))[i] = d[b + i]
    BY <1>1, RestType
  <2> QED BY <2>1
<1>4. PICK u \in Seq(Lines) : /\ u = s \o t /\ Len(u) = Len(s) + Len(t)
                              /\ \A i \in 1 .. Len(s) : u[i] = s[i]
                              /\ \A i \in 1 .. Len(t) : u[Len(s) + i] = t[i]
  <2>1. /\ s \o t \in Seq(Lines) /\ Len(s \o t) = Len(s) + Len(t)
        /\ \A i \in 1 .. Len(s) : (s \o t)[i] = s[i]
        /\ \A i \in 1 .. Len(t) : (s \o t)[Len(s) + i] = t[i]
    BY ConcatType
  <2> QED BY <2>1
<1>5. ASSUME NEW i \in DOMAIN u
      PROVE  \E j \in DOMAIN d : u[i] = d[j]
  <2>1. CASE i \in 1 .. Len(s)
    BY <1>1, <1>2, <1>4, <2>1
  <2>2. CASE i \notin 1 .. Len(s)
    <3>1. PICK j \in 1 .. Len(t) : i = Len(s) + j
      <4>1. i - Len(s) \in 1 .. Len(t) /\ i = Len(s) + (i - Len(s))
        BY <1>4, <2>2
      <4> QED BY <4>1
    <3>2. j \in 1 .. Len(d) - b /\ b + j \in DOMAIN d
      <4>1. j \in 1 .. Len(d) - b /\ Len(d) \in Nat /\ b \in Nat /\ DOMAIN d = 1 .. Len(d)
        BY <1>1, <1>3, <3>1
      <4> QED BY <4>1
    <3>3. u[i] = t[j] /\ t[j] = d[b + j]
      BY <1>3, <1>4, <3>1, <3>2
    <3> QED BY <3>2, <3>3
  <2> QED BY <2>1, <2>2
<1>6. Cut(d, a, b) = u
  BY <1>2, <1>3, <1>4, Zenon DEF Cut
<1>7. Beyond(u, w)
  BY <1>5 DEF Beyond
<1> QED BY <1>6, <1>7, Zenon

\* Every step keeps the hashes counted and the lines beyond the saved head.
LEMMA LossStep ==
  ASSUME AuditInv, AuditInv', LossInv, [Next]_vars \/ VerifierFlush
  PROVE  LossInv'
<1> USE DEF memVars, flushVars, diskVars, storeVars, envVars
<1>0. /\ TypeOK /\ FlushInv /\ PreparedFollowsBuffer /\ disk \in Seq(Lines) /\ wipedAt \in Nat
      /\ MarksCounted /\ (\A i \in DOMAIN prepared : Whole(prepared[i])) /\ Beyond(disk, wipedAt)
      /\ wipedAt <= saved.seq /\ saved.seq <= mirror.seq
      /\ phase \in {"up", "stopping", "stopped"} => mirror.seq <= chain.seq
  BY DEF AuditInv, TypeOK, DiskType, EnvType, LossInv
<1>t. /\ chain.seq \in Nat /\ saved.seq \in Nat /\ mirror.seq \in Nat /\ written \in Nat
      /\ FlushHead.seq = chain.seq + written
      /\ written > 0 => batch[written].seq = chain.seq + written
      /\ phase \in {"down", "repair", "rebuild", "detect", "up", "stopping", "stopped"}
  BY <1>0, HeadNumbers DEF TypeOK, MemType
<1>a. flushPc # "idle" => phase \in {"up", "stopping", "stopped"} /\ wipedAt <= chain.seq
  <2>1. flushPc # "idle" => phase \in {"up", "stopping", "stopped"}
    BY <1>0, <1>t DEF FlushInv
  <2> QED BY <1>0, <1>t, <2>1
<1>f. Counted(FlushHead) /\ (written > 0 => Counted(batch[written]))
  <2>1. CASE written > 0
    <3>1. written \in DOMAIN batch
      BY <1>0, <2>1 DEF TypeOK, FlushType
    <3>2. written \in DOMAIN prepared /\ batch[written] = prepared[written]
      BY <1>0, <3>1, BatchNumbers
    <3> QED BY <1>0, <2>1, <3>2 DEF FlushHead, Whole
  <2>2. CASE ~(written > 0)
    BY <1>0, <2>2 DEF FlushHead, MarksCounted
  <2> QED BY <2>1, <2>2
<1>n. Counted(NoMark) /\ Counted(NoHead) /\ NoHead.anchor = NoMark /\ NoHead.reset = NoMark
      /\ NoPass.best = NoMark
  BY DEF Counted, NoMark, NoHead, Genesis, NoPass
<1>m. MarksCounted' <=> /\ Counted(chain') /\ Counted(anchor') /\ Counted(reset') /\ Counted(mirror')
                        /\ Counted(saved') /\ Counted(pass'.best) /\ Counted(head')
                        /\ Counted(head'.anchor) /\ Counted(head'.reset)
  BY DEF MarksCounted, Counted
<1>p. (\A i \in DOMAIN prepared : Whole(prepared[i]))' <=> \A i \in DOMAIN prepared' : Whole(prepared'[i])
  BY DEF Whole, Counted
<1>d. Beyond(disk, wipedAt)' <=> Beyond(disk', wipedAt')
  BY DEF Beyond, IsTorn, Whole, Counted
<1>h. \A m, a, r : /\ HeadPayload(m, a, r).anchor = a /\ HeadPayload(m, a, r).reset = r
                   /\ Counted(m) => Counted(HeadPayload(m, a, r))
  BY DEF HeadPayload, Counted
<1>k. \A r : Counted(r) => Counted(Mark(r))
  BY DEF Counted, Mark
(* Steps that leave the chain, the heads and the disk alone. *)
<1>b. ASSUME UNCHANGED <<chain, anchor, reset, mirror, saved, pass, head, disk, wipedAt, prepared>>,
             phase' \in {"up", "stopping", "stopped"} => phase \in {"up", "stopping", "stopped"}
      PROVE  LossInv'
  BY <1>0, <1>b, <1>m, <1>p, <1>d DEF LossInv, MarksCounted
(* Steps of a flush that change the disk only. *)
<1>c. ASSUME UNCHANGED <<phase, chain, anchor, reset, mirror, saved, head, wipedAt, prepared>>,
             Counted(pass'.best), Beyond(disk', wipedAt)
      PROVE  LossInv'
  BY <1>0, <1>c, <1>m, <1>p, <1>d DEF LossInv, MarksCounted
<1>1. CASE AppendGroup
  <2>1. PICK n \in 1 .. Len(batch) - written, seg \in 0 .. Len(disk) :
          AppendLines(disk, <<GroupDay, seg>>, GroupLines(n, seg), disk')
    BY <1>1 DEF AppendGroup
  <2>2. written < Len(batch) /\ n \in 0 .. Len(batch) - written /\ seg \in Nat
    BY <1>0, <1>1 DEF AppendGroup, FlushInv, TypeOK, FlushType
  <2>3. wipedAt <= chain.seq
    BY <1>1, <1>a DEF AppendGroup
  <2>4. GroupLines(n, seg) \in Seq(Lines) /\ Beyond(GroupLines(n, seg), wipedAt)
    BY <1>0, <2>2, <2>3, GroupBeyond
  <2>5. Beyond(disk', wipedAt)
    BY <1>0, <2>1, <2>4, AppendBeyond
  <2> QED BY <1>0, <1>1, <1>c, <2>5 DEF AppendGroup, MarksCounted
<1>2. CASE AppendFails
  <2>1. Beyond(disk', wipedAt)
    <3>1. CASE disk' = disk
      BY <1>0, <3>1
    <3>2. CASE disk' # disk
      <4>1. PartialAppend(disk') /\ written < Len(batch) /\ wipedAt <= chain.seq
        BY <1>0, <1>2, <1>a, <3>2 DEF AppendFails, FlushInv
      <4> QED BY <1>0, <4>1, PartialBeyond
    <3> QED BY <3>1, <3>2
  <2> QED BY <1>0, <1>2, <1>c, <2>1 DEF AppendFails, MarksCounted
<1>3. CASE RemoveFile
  <2>1. PICK i \in DOMAIN disk, a \in DOMAIN disk, b \in DOMAIN disk :
          /\ disk' = Cut(disk, a, b)
          /\ pass' = IF disk[i].seq > pass.best.seq THEN [pass EXCEPT !.best = Mark(disk[i])] ELSE pass
    BY <1>3 DEF RemoveFile
  <2>2. Beyond(disk', wipedAt)
    BY <1>0, <2>1, CutBeyond
  <2>3. Counted(pass'.best)
    <3>1. pass \in Passes /\ pass.best.seq \in Nat /\ disk[i].seq \in Nat
      BY <1>0, HeadNumbers, LineFacts DEF TypeOK, FlushType
    <3>2. CASE disk[i].seq > pass.best.seq
      <4>1. ~IsTorn(disk[i])
        BY <3>1, <3>2 DEF IsTorn
      <4>2. Counted(disk[i])
        BY <1>0, <4>1 DEF Beyond, Whole
      <4>3. pass'.best = Mark(disk[i])
        BY <2>1, <3>1, <3>2 DEF Passes
      <4> QED BY <1>k, <4>2, <4>3
    <3>3. CASE ~(disk[i].seq > pass.best.seq)
      BY <1>0, <2>1, <3>3 DEF MarksCounted
    <3> QED BY <3>2, <3>3
  <2> QED BY <1>3, <1>c, <2>2, <2>3 DEF RemoveFile
<1>4. CASE WriteHead
  <2>1. Counted(head') /\ Counted(head'.anchor) /\ Counted(head'.reset)
    BY <1>0, <1>4, <1>f, <1>h DEF WriteHead, MarksCounted
  <2>2. UNCHANGED <<phase, chain, anchor, reset, mirror, saved, pass, disk, wipedAt, prepared>>
    BY <1>4 DEF WriteHead
  <2> QED BY <1>0, <1>m, <1>p, <1>d, <2>1, <2>2 DEF LossInv, MarksCounted
<1>5. CASE EndRetention
  <2>1. Counted(anchor') /\ Counted(reset')
    BY <1>0, <1>5, <1>n DEF EndRetention, MarksCounted
  <2>2. Counted(head') /\ Counted(head'.anchor) /\ Counted(head'.reset)
    BY <1>0, <1>5, <1>f, <1>h, <2>1 DEF EndRetention, MarksCounted
  <2>3. Counted(pass'.best) /\ UNCHANGED <<phase, chain, mirror, saved, disk, wipedAt, prepared>>
    BY <1>5, <1>n DEF EndRetention
  <2> QED BY <1>0, <1>m, <1>p, <1>d, <2>1, <2>2, <2>3 DEF LossInv, MarksCounted
<1>6. CASE EndFlush
  <2>1. /\ UNCHANGED <<anchor, reset, pass, disk, head, saved, wipedAt>>
        /\ phase \in {"up", "stopping", "stopped"} /\ phase' \in {"up", "stopping", "stopped"}
    BY <1>6, <1>a DEF EndFlush
  <2>2. CASE ~(written > 0)
    <3>1. UNCHANGED <<prepared, chain, mirror>>
      BY <1>6, <2>2 DEF EndFlush
    <3> QED BY <1>b, <2>1, <3>1
  <2>3. CASE written > 0
    <3>1. /\ chain' = Mark(batch[written]) /\ prepared' = Uncommitted(prepared)
          /\ mirror' = mirror \/ mirror' = Mark(batch[written])
      BY <1>6, <2>3 DEF EndFlush, CommitWritten, SetAuditHead
    <3>2. Counted(chain') /\ Counted(mirror') /\ chain'.seq = chain.seq + written
      BY <1>0, <1>f, <1>k, <1>t, <2>3, <3>1 DEF MarksCounted, Mark
    <3>3. \A i \in DOMAIN prepared' : Whole(prepared'[i])
      <4>1. prepared \in Seq(Prepared) /\ written \in 0 .. Len(prepared) /\ Len(prepared) \in Nat
        BY <1>0, HashTypes DEF TypeOK, MemType
      <4>2. PICK q \in Seq(Prepared) : /\ q = SubSeq(prepared, written + 1, Len(prepared))
                                       /\ Len(q) = Len(prepared) - written
                                       /\ \A i \in 1 .. Len(prepared) - written : q[i] = prepared[written + i]
        <5>1. /\ SubSeq(prepared, written + 1, Len(prepared)) \in Seq(Prepared)
              /\ Len(SubSeq(prepared, written + 1, Len(prepared))) = Len(prepared) - written
              /\ \A i \in 1 .. Len(prepared) - written :
                   SubSeq(prepared, written + 1, Len(prepared))[i] = prepared[written + i]
          BY <4>1, RestType
        <5> QED BY <5>1
      <4>3. ASSUME NEW i \in DOMAIN q
            PROVE  Whole(q[i])
        <5>1. i \in 1 .. Len(prepared) - written /\ written + i \in DOMAIN prepared
          BY <4>1, <4>2
        <5> QED BY <1>0, <4>2, <5>1
      <4>4. prepared' = q
        BY <3>1, <4>2 DEF Uncommitted
      <4> QED BY <4>3, <4>4
    <3>4. mirror'.seq <= chain'.seq /\ saved.seq <= mirror'.seq
      <4>1. mirror.seq <= chain.seq
        BY <1>0, <2>1
      <4>2. mirror' = mirror \/ mirror'.seq = chain.seq + written
        BY <1>t, <2>3, <3>1 DEF Mark
      <4> QED BY <1>0, <1>t, <3>2, <4>1, <4>2
    <3> QED BY <1>0, <1>m, <1>p, <1>d, <2>1, <3>2, <3>3, <3>4 DEF LossInv, MarksCounted
  <2> QED BY <2>2, <2>3
<1>7. CASE LoadHead
  <2>1. Counted(chain') /\ Counted(anchor') /\ Counted(reset')
    BY <1>0, <1>7, <1>k DEF LoadHead, MarksCounted
  <2>2. UNCHANGED <<mirror, saved, pass, head, disk, wipedAt, prepared>> /\ phase' = "repair"
    BY <1>7 DEF LoadHead
  <2> QED BY <1>0, <1>m, <1>p, <1>d, <2>1, <2>2 DEF LossInv, MarksCounted
<1>8. CASE RepairTornTail
  <2>1. Beyond(disk', wipedAt)
    <3>1. CASE disk' = disk
      BY <1>0, <3>1
    <3>2. CASE disk' # disk
      <4>1. PICK i \in TornTails : disk' = Repaired(i)
        BY <1>8, <3>2 DEF RepairTornTail
      <4> QED BY <1>0, <4>1, CutBeyond DEF TornTails, Repaired
    <3> QED BY <3>1, <3>2
  <2>2. UNCHANGED <<chain, anchor, reset, mirror, saved, pass, head, wipedAt, prepared>>
        /\ phase' \notin {"up", "stopping", "stopped"}
    BY <1>8 DEF RepairTornTail
  <2> QED BY <1>0, <1>m, <1>p, <1>d, <2>1, <2>2 DEF LossInv, MarksCounted
<1>9. CASE RebuildHead
  <2>1. Counted(chain')
    <3>1. ASSUME NEW top \in DOMAIN disk, Continues(top)
          PROVE  Counted(disk[top])
      <4>1. disk[top].seq \in Nat /\ disk[top].seq > chain.seq
        BY <1>0, <3>1, LineFacts DEF Continues
      <4>2. ~IsTorn(disk[top])
        BY <1>t, <4>1 DEF IsTorn
      <4> QED BY <1>0, <4>2 DEF Beyond, Whole
    <3> QED BY <1>0, <1>9, <1>k, <3>1 DEF RebuildHead, MarksCounted
  <2>2. head' = head \/ head' = HeadPayload(chain', anchor, reset)
    BY <1>9 DEF RebuildHead
  <2>3. Counted(head') /\ Counted(head'.anchor) /\ Counted(head'.reset)
    BY <1>0, <1>h, <2>1, <2>2 DEF MarksCounted
  <2>4. UNCHANGED <<anchor, reset, mirror, saved, pass, disk, wipedAt, prepared>> /\ phase' = "detect"
    BY <1>9 DEF RebuildHead
  <2> QED BY <1>0, <1>m, <1>p, <1>d, <2>1, <2>3, <2>4 DEF LossInv, MarksCounted
<1>10. CASE DetectReset
  <2>1. /\ chain' = IF Lost THEN mirror ELSE chain
        /\ reset' = IF Lost THEN mirror ELSE reset
        /\ UNCHANGED <<anchor, mirror, saved, pass, head, disk, wipedAt, prepared>>
    BY <1>10 DEF DetectReset
  <2>2. Counted(chain') /\ Counted(reset') /\ mirror.seq <= chain'.seq
    BY <1>0, <1>t, <2>1 DEF MarksCounted, Lost
  <2> QED BY <1>0, <1>m, <1>p, <1>d, <2>1, <2>2 DEF LossInv, MarksCounted
<1>11. CASE Query \/ TimerFlush \/ TaskFlush \/ StopFlush \/ VerifierFlush
  <2>1. /\ UNCHANGED <<phase, chain, anchor, reset, mirror, saved, pass, head, disk, wipedAt>>
        /\ prepared' = PrepareBuffered
    BY <1>11 DEF Query, TimerFlush, TaskFlush, StopFlush, VerifierFlush, BeginFlush
  <2>2. \A i \in DOMAIN prepared' : Whole(prepared'[i])
    BY <1>0, <2>1, PreparedCounted DEF MarksCounted
  <2> QED BY <1>0, <1>m, <1>p, <1>d, <2>1, <2>2 DEF LossInv, MarksCounted
<1>12. CASE Unload \/ Crash
  <2>1. /\ phase' = "down" /\ prepared' = <<>> /\ chain' = NoMark /\ anchor' = NoMark /\ reset' = NoMark
        /\ pass' = NoPass /\ UNCHANGED <<head, wipedAt>>
        /\ \/ saved' = saved /\ mirror' = saved
           \/ saved' = mirror /\ mirror' = mirror
    BY <1>12 DEF Unload, Crash, LoseMemory
  <2>2. Beyond(disk', wipedAt)
    <3>1. CASE disk' = disk
      BY <1>0, <3>1
    <3>2. CASE disk' # disk
      <4>1. PartialAppend(disk') /\ written < Len(batch) /\ wipedAt <= chain.seq
        BY <1>0, <1>12, <1>a, <3>2 DEF Unload, Crash, FlushInv
      <4> QED BY <1>0, <4>1, PartialBeyond
    <3> QED BY <3>1, <3>2
  <2>3. DOMAIN prepared' = {}
    BY <2>1
  <2> QED BY <1>0, <1>t, <1>m, <1>n, <1>p, <1>d, <2>1, <2>2, <2>3 DEF LossInv, MarksCounted
<1>13. CASE LoseDirectory
  <2>1. /\ UNCHANGED <<phase, chain, anchor, reset, mirror, saved, pass, prepared>>
        /\ wipedAt' = saved.seq /\ disk' = <<>> /\ head' = NoHead
    BY <1>13 DEF LoseDirectory
  <2>2. Beyond(disk', wipedAt')
    BY <2>1 DEF Beyond
  <2> QED BY <1>0, <1>t, <1>m, <1>n, <1>p, <1>d, <2>1, <2>2 DEF LossInv, MarksCounted
<1>14. CASE SaveStore
  <2>1. saved' = mirror /\ UNCHANGED <<phase, chain, anchor, reset, mirror, pass, head, disk, wipedAt, prepared>>
    BY <1>14 DEF SaveStore
  <2> QED BY <1>0, <1>t, <1>m, <1>p, <1>d, <2>1 DEF LossInv, MarksCounted
<1>15. CASE BeginRetention
  <2>1. pass'.best = NoMark /\ UNCHANGED <<phase, chain, anchor, reset, mirror, saved, head, disk, wipedAt, prepared>>
    BY <1>15 DEF BeginRetention, NoPass
  <2> QED BY <1>0, <1>n, <1>c, <2>1
<1>16. CASE RemoveFileFails
  <2>1. pass'.best = pass.best /\ UNCHANGED <<phase, chain, anchor, reset, mirror, saved, head, disk, wipedAt, prepared>>
    <3>1. pass \in Passes
      BY <1>0 DEF TypeOK, FlushType
    <3> QED BY <1>16, <3>1 DEF RemoveFileFails, Passes
  <2> QED BY <1>0, <1>c, <2>1 DEF MarksCounted
<1>17. CASE WriteHeadFails \/ SkipRetention \/ TaskFlushEmpty \/ StopFlushEmpty \/ ClockMoves \/ BeginStop
  BY <1>17, <1>b DEF WriteHeadFails, SkipRetention, TaskFlushEmpty, StopFlushEmpty, ClockMoves, BeginStop
<1>18. CASE UNCHANGED vars \/ \E kind \in {"low", "high"} : Log(kind)
  BY <1>18, <1>b DEF vars, Log
<1> QED
  BY <1>1, <1>2, <1>3, <1>4, <1>5, <1>6, <1>7, <1>8, <1>9, <1>10, <1>11, <1>12, <1>13, <1>14, <1>15,
     <1>16, <1>17, <1>18 DEF Next, FlushStep, IOError, StartStep, StopStep

LEMMA LossInit ==
  ASSUME Init
  PROVE  LossInv
<1>1. Counted(NoMark) /\ Counted(NoHead) /\ NoHead.anchor = NoMark /\ NoHead.reset = NoMark
      /\ NoPass.best = NoMark /\ NoMark.seq = 0
  BY DEF Counted, NoMark, NoHead, Genesis, NoPass
<1>2. DOMAIN prepared = {} /\ phase = "down" /\ wipedAt = 0 /\ mirror = saved
      /\ Counted(chain) /\ Counted(anchor) /\ Counted(reset) /\ Counted(pass.best)
  BY <1>1 DEF Init
<1>3. CASE disk = <<>> /\ head = NoHead /\ saved = NoMark
  BY <1>1, <1>2, <1>3 DEF LossInv, MarksCounted, Beyond
<1>4. CASE disk = <<FirstLine>> /\ head = HeadPayload(FirstLine, NoMark, NoMark) /\ saved = Mark(FirstLine)
  <2>1. Len(<<1>>) = 1 /\ Len(<<>>) = 0
    OBVIOUS
  <2>2. Whole(FirstLine) /\ FirstLine.seq = 1
    BY <2>1 DEF Whole, Counted, FirstLine, Genesis
  <2>3. Counted(head) /\ head.anchor = NoMark /\ head.reset = NoMark /\ Counted(saved) /\ saved.seq = 1
    BY <1>4, <2>2 DEF HeadPayload, Whole, Counted, Mark
  <2>4. DOMAIN disk = {1} /\ disk[1] = FirstLine
    BY <1>4
  <2>5. Beyond(disk, 0)
    BY <2>2, <2>4 DEF Beyond
  <2> QED BY <1>1, <1>2, <2>3, <2>5 DEF LossInv, MarksCounted
<1> QED BY <1>3, <1>4 DEF Init

-----------------------------------------------------------------------------
(* Verification                                                            *)

\* A set of numbers has a least one.
LEMMA LeastOf ==
  ASSUME NEW T, T \subseteq Nat, T # {}
  PROVE  \E x \in T : \A y \in T : x <= y
<1> DEFINE R == OpToRel(<, Nat)
<1>1. IsWellFoundedOn(R, Nat)
  BY NatLessThanWellFounded
<1>2. \A x, y \in Nat : x < y => <<x, y>> \in R
  BY DEF OpToRel
<1> HIDE DEF R
<1>3. PICK x \in T : \A y \in T : <<y, x>> \notin R
  BY <1>1, WFMin
<1>4. x \in Nat /\ \A y \in T : y \in Nat /\ ~(y < x)
  BY <1>2, <1>3
<1> QED BY <1>4

\* Lines that parse have one that comes before every other.
LEMMA FirstByNumber ==
  ASSUME NEW d \in Seq(Lines), d # <<>>
  PROVE  \E i \in DOMAIN d : \A j \in DOMAIN d : ~(d[j].seq < d[i].seq \/ (d[j].seq = d[i].seq /\ j < i))
<1> DEFINE S == {d[i].seq : i \in DOMAIN d}
<1>1. S \subseteq Nat /\ S # {} /\ DOMAIN d \subseteq Nat
  <2>1. \A i \in DOMAIN d : d[i].seq \in Nat
    BY LineFacts
  <2> QED BY <2>1
<1>2. PICK s \in S : \A y \in S : s <= y
  BY <1>1, LeastOf
<1> DEFINE I == {i \in DOMAIN d : d[i].seq = s}
<1>3. I \subseteq Nat /\ I # {}
  BY <1>1, <1>2
<1>4. PICK i \in I : \A y \in I : i <= y
  BY <1>3, LeastOf
<1>5. ASSUME NEW j \in DOMAIN d
      PROVE  ~(d[j].seq < d[i].seq \/ (d[j].seq = d[i].seq /\ j < i))
  <2>1. d[j].seq \in S /\ s <= d[j].seq /\ d[i].seq = s /\ s \in Nat /\ d[j].seq \in Nat /\ i \in Nat /\ j \in Nat
    BY <1>1, <1>2
  <2>2. d[j].seq = s => j \in I /\ i <= j
    BY <1>4
  <2> QED BY <2>1, <2>2
<1>6. i \in DOMAIN d
  OBVIOUS
<1> QED BY <1>5, <1>6

\* A mirror that is beyond the anchor, and lines that are all beyond it, make a
\* verification find a fault.
LEMMA LossSeen ==
  ASSUME NEW hd \in Heads, NEW d \in Seq(Lines), NEW m \in Marks, NEW w \in Nat, w > 0, w <= m.seq,
         hd.anchor.seq < w, Counted(hd.anchor), Beyond(d, w)
  PROVE  Verdict(hd, d, m) # "ok"
<1> SUFFICES ASSUME Verdict(hd, d, m) = "ok"
             PROVE  FALSE
  OBVIOUS
<1>0. /\ hd.anchor \in Marks /\ hd.reset \in Marks /\ hd.anchor.seq \in Nat /\ hd.reset.seq \in Nat
      /\ hd.seq \in Nat /\ m.seq \in Nat /\ hd.anchor.hash \in Seq(Nat)
  <2>1. hd.anchor \in Marks /\ hd.reset \in Marks /\ hd.seq \in Nat
    BY DEF Heads
  <2>2. \A x \in Marks : x.seq \in Nat /\ x.hash \in Seq(Nat)
    BY DEF Marks, Hashes
  <2> QED BY <2>1, <2>2
<1>1. \A i : LineFault(hd, d, i) # "ok"
  BY DEF LineFault
<1>2. /\ ~(m.seq > 0 /\ (~hd.found \/ hd.seq < m.seq)) /\ WalkFaults(hd, d) = {}
      /\ ~(hd.found /\ (WalkEnd(hd, d).seq < hd.seq \/ WalkEnd(hd, d).hash # hd.hash))
      /\ ~(hd.reset.seq > 0)
  BY <1>1 DEF Verdict
<1>3. hd.found /\ hd.seq >= w /\ WalkStart(hd) = hd.anchor
  BY <1>0, <1>2 DEF WalkStart, FromReset
<1>4. CASE d = <<>>
  <2>1. WalkEnd(hd, d) = hd.anchor
    BY <1>3, <1>4 DEF WalkEnd
  <2> QED BY <1>0, <1>2, <1>3, <2>1
<1>5. CASE d # <<>>
  <2>1. \A i \in DOMAIN d : LineFault(hd, d, i) = "none"
    BY <1>2 DEF WalkFaults
  <2>2. \A i \in DOMAIN d : ~IsTorn(d[i]) /\ ~OffStart(hd, d, i) /\ d[i].prev = PrevRead(hd, d, i)
    BY <2>1 DEF LineFault
  <2>3. \A i \in DOMAIN d : ReadKey(d, i) = d[i].seq
    BY <2>2 DEF ReadKey
  <2>4. PICK i \in DOMAIN d : \A j \in DOMAIN d : ~(d[j].seq < d[i].seq \/ (d[j].seq = d[i].seq /\ j < i))
    BY <1>5, FirstByNumber
  <2>5. ReadEarlier(d, i) = {}
    BY <2>3, <2>4 DEF ReadEarlier, ReadsBefore
  <2>6. d[i].seq > w /\ Whole(d[i]) /\ d[i].seq \in Nat /\ d[i].prev \in Seq(Nat)
    BY <2>2, LineFacts DEF Beyond, Hashes
  <2>7. d[i].prev = hd.anchor.hash
    BY <1>3, <2>2, <2>5 DEF PrevRead
  <2>8. hd.anchor.seq = 0
    <3>1. ~(hd.anchor.seq > 0 /\ d[i].seq # hd.anchor.seq + 1)
      BY <1>3, <2>2, <2>5, Zenon DEF OffStart
    <3> QED BY <1>0, <2>6, <3>1
  <2>9. d[i].seq - 1 = 0
    BY <2>6, <2>7, <2>8 DEF Whole, Counted
  <2> QED BY <2>6, <2>9
<1> QED BY <1>4, <1>5

\* A directory whose saved head had been mirrored is not lost unnoticed: until
\* retention has expired the place of the loss, no verification of what is there
\* since calls the chain whole, whatever fails and however often it happens.
THEOREM LossIsReported == Spec => []LossReported
<1>1. Init => LossInv
  BY LossInit
<1>2. AuditInv /\ AuditInv' /\ LossInv /\ [Next]_vars => LossInv'
  BY LossStep
<1>3. AuditInv /\ LossInv => LossReported
  <2> SUFFICES ASSUME AuditInv, LossInv, wipedAt > 0, head.anchor.seq < wipedAt
               PROVE  Verdict(head, disk, mirror) # "ok"
    BY DEF LossReported
  <2>1. head \in Heads /\ disk \in Seq(Lines) /\ mirror \in Marks /\ wipedAt \in Nat
        /\ saved.seq \in Nat /\ mirror.seq \in Nat
    BY HeadNumbers DEF AuditInv, TypeOK, DiskType, EnvType
  <2>2. wipedAt <= mirror.seq /\ Counted(head.anchor) /\ Beyond(disk, wipedAt)
    BY <2>1 DEF LossInv, MarksCounted
  <2> QED BY <2>1, <2>2, LossSeen
<1> QED BY <1>1, <1>2, <1>3, AuditInvariant, PTL DEF Spec

-----------------------------------------------------------------------------
(* What verification says of a chain nobody touched                        *)

\* The lines go on from mark m, or, where there are none, m is their end.
Follows(ls, m, q, h) ==
  IF ls = <<>> THEN m.seq = q /\ m.hash = h ELSE ls[1].seq = m.seq + 1 /\ ls[1].prev = m.hash

\* A chain of lines between the anchor and the head that both are in the head
\* file is called whole.
LEMMA CleanSeen ==
  ASSUME NEW hd \in Heads, NEW d \in Seq(Lines), NEW m \in Marks,
         \A i \in DOMAIN d : ~IsTorn(d[i]), Chained(d), hd.reset.seq = 0,
         m.seq <= hd.seq, hd.seq > 0 => hd.found,
         Follows(d, hd.anchor, hd.seq, hd.hash), EndsAt(d, hd.seq, hd.hash)
  PROVE  Verdict(hd, d, m) = "ok"
<1>0. /\ hd.anchor \in Marks /\ hd.anchor.seq \in Nat /\ hd.seq \in Nat /\ m.seq \in Nat
  <2>1. hd.anchor \in Marks /\ hd.seq \in Nat
    BY DEF Heads
  <2> QED BY <2>1 DEF Marks
<1>1. PICK n \in Nat : n = Len(d) /\ DOMAIN d = 1 .. n /\ (d = <<>> <=> n = 0)
  OBVIOUS
<1>2. /\ \A i \in 1 .. n : d[i].seq \in Nat /\ d[i].seq = hd.anchor.seq + i /\ HashOk(d[i])
      /\ \A i \in 1 .. n : d[i].prev = IF i = 1 THEN hd.anchor.hash ELSE d[i - 1].hash
  <2> SUFFICES ASSUME NEW i \in 1 .. n
               PROVE  /\ d[i].seq \in Nat /\ d[i].seq = hd.anchor.seq + i /\ HashOk(d[i])
                      /\ d[i].prev = IF i = 1 THEN hd.anchor.hash ELSE d[i - 1].hash
    BY Zenon
  <2>1. n # 0 /\ d # <<>> /\ 1 \in 1 .. n /\ n \in 1 .. n
    BY <1>1
  <2>2. d[1].seq = hd.anchor.seq + 1 /\ d[1].prev = hd.anchor.hash
    BY <2>1 DEF Follows
  <2>3. d[i].seq \in Nat /\ d[n].seq \in Nat
    BY <1>1, <2>1, LineFacts
  <2>4. /\ d[1].seq = d[n].seq - n + 1 /\ d[i].seq = d[n].seq - n + i /\ HashOk(d[i])
        /\ i > 1 => d[i].prev = d[i - 1].hash
    BY <1>1, <2>1 DEF Chained
  <2>5. d[i].seq = hd.anchor.seq + i
    <3>1. PICK y \in Int, a \in Int : y = d[n].seq /\ a = hd.anchor.seq
      BY <1>0, <2>3
    <3>2. a + 1 = y - n + 1 /\ d[i].seq = y - n + i
      BY <2>2, <2>4, <3>1, Zenon
    <3>3. y - n + i = a + i
      BY <3>2
    <3> QED BY <3>1, <3>2, <3>3, Zenon
  <2>6. d[i].prev = IF i = 1 THEN hd.anchor.hash ELSE d[i - 1].hash
    <3>1. CASE i = 1
      BY <2>2, <3>1
    <3>2. CASE i # 1
      <4>1. i > 1
        BY <3>2
      <4> QED BY <2>4, <3>2, <4>1
    <3> QED BY <3>1, <3>2
  <2> QED BY <2>3, <2>4, <2>5, <2>6, Zenon
<1>3. WalkStart(hd) = hd.anchor
  BY <1>0 DEF WalkStart, FromReset
<1>4. \A i, j \in 1 .. n : ReadsBefore(d, i, j) <=> i < j
  <2>1. \A i \in 1 .. n : ReadKey(d, i) = d[i].seq
    BY <1>1 DEF ReadKey
  <2>2. \A i, j \in 1 .. n : (d[i].seq < d[j].seq <=> i < j) /\ (d[i].seq = d[j].seq <=> i = j)
    BY <1>0, <1>2
  <2> QED BY <2>1, <2>2 DEF ReadsBefore
<1>5. ASSUME NEW i \in 1 .. n
      PROVE  LastRead(d, 1 .. i) = i
  <2>1. i \in 1 .. i /\ \A j \in 1 .. i : j = i \/ ReadsBefore(d, j, i)
    BY <1>4
  <2>2. ASSUME NEW k \in 1 .. i, \A j \in 1 .. i : j = k \/ ReadsBefore(d, j, k)
        PROVE  k = i
    BY <1>4, <2>1, <2>2
  <2> QED BY <2>1, <2>2 DEF LastRead
<1>6. ASSUME NEW i \in 1 .. n
      PROVE  PrevRead(hd, d, i) = d[i].prev /\ (ReadEarlier(d, i) = {} <=> i = 1)
  <2>1. ReadEarlier(d, i) = 1 .. i - 1
    BY <1>1, <1>4 DEF ReadEarlier
  <2>2. CASE i = 1
    BY <1>2, <1>3, <2>1, <2>2 DEF PrevRead
  <2>3. CASE i # 1
    <3>1. i - 1 \in 1 .. n /\ 1 .. i - 1 # {}
      <4>1. i - 1 \in 1 .. n /\ 1 \in 1 .. i - 1
        BY <2>3
      <4> QED BY <4>1
    <3>2. LastRead(d, ReadEarlier(d, i)) = i - 1
      BY <1>5, <2>1, <3>1
    <3> QED BY <1>2, <2>1, <2>3, <3>1, <3>2 DEF PrevRead
  <2> QED BY <2>2, <2>3
<1>7. ASSUME NEW i \in DOMAIN d
      PROVE  LineFault(hd, d, i) = "none"
  <2>1. i \in 1 .. n /\ ~IsTorn(d[i]) /\ HashOk(d[i]) /\ d[i].prev = PrevRead(hd, d, i)
    BY <1>1, <1>2, <1>6
  <2>2. ~OffStart(hd, d, i)
    BY <1>0, <1>2, <1>3, <1>6, <2>1 DEF OffStart
  <2> QED BY <2>1, <2>2 DEF LineFault
<1>8. WalkFaults(hd, d) = {}
  BY <1>7 DEF WalkFaults
<1>9. WalkEnd(hd, d).seq = hd.seq /\ WalkEnd(hd, d).hash = hd.hash
  <2>1. CASE d = <<>>
    BY <1>3, <2>1 DEF Follows, WalkEnd
  <2>2. CASE d # <<>>
    <3>1. LastRead(d, DOMAIN d) = n /\ d[n].seq = hd.seq /\ d[n].hash = hd.hash
      BY <1>1, <1>5, <2>2 DEF EndsAt
    <3> QED BY <2>2, <3>1 DEF Mark, WalkEnd
  <2> QED BY <2>1, <2>2
<1>10. ~(m.seq > 0 /\ (~hd.found \/ hd.seq < m.seq)) /\ ~(hd.reset.seq > 0)
  BY <1>0
<1> QED BY <1>0, <1>8, <1>9, <1>10 DEF Verdict

\* Where the oldest line goes on from: the newest record this retention pass has
\* deleted, or the anchor.
Edge == IF pass.best.seq > anchor.seq THEN pass.best ELSE anchor

\* What verification relies on while the directory is not lost: the lines go on
\* from the anchor, and a head file that names the last record has its hash.
FrontInv ==
  /\ phase # "down" =>
       /\ Follows(Intact(disk), Edge, chain.seq + written, FlushHead.hash)
       /\ head.seq = chain.seq + written => head.hash = FlushHead.hash
  /\ flushPc # "prune" => pass.best = NoMark
  /\ head.seq > 0 => head.found

\* At start-up the head file's anchor is the one the files go on from: no crash
\* fell between the removal of an expired file and the write of the head.
Anchored == phase = "down" => Follows(Intact(disk), head.anchor, head.seq, head.hash)

\* Each step keeps the lines going on from the anchor.
LEMMA FrontStep ==
  ASSUME ~TrimMayFail, ~RemoveMayFail, AuditInv, AuditInv', DiskInv, DiskInv', wipes = 0, wipes' = 0,
         Anchored, ChainInv, FrontInv, [Next]_vars \/ VerifierFlush
  PROVE  FrontInv'
<1> USE DEF memVars, flushVars, diskVars, storeVars, envVars
<1>0. /\ TypeOK /\ FlushInv /\ PreparedFollowsBuffer /\ disk \in Seq(Lines) /\ disk' \in Seq(Lines)
      /\ Sorted(disk) /\ TornLast /\ FloorHolds /\ NonePassedOver
      /\ Chained(Intact(disk)) /\ CopiesChained /\ TipKnown
  BY DEF AuditInv, DiskInv, TypeOK, DiskType, ChainInv
<1>t. /\ written \in Nat /\ chain.seq \in Nat /\ head.seq \in Nat /\ mirror.seq \in Nat
      /\ anchor.seq \in Nat /\ pass.best.seq \in Nat
      /\ phase # "down" => head.seq <= chain.seq + written
      /\ mirror.seq <= head.seq
      /\ phase \in {"down", "repair", "rebuild", "detect", "up", "stopping", "stopped"}
      /\ Intact(disk) \in Seq(Lines) /\ FlushHead.seq = chain.seq + written
      /\ (\A i \in DOMAIN disk : ~IsTorn(disk[i])) => Intact(disk) = disk
  BY <1>0, HeadNumbers, IntactFacts, IntactWhole DEF AuditInv, HeadInv, TypeOK, MemType
<1>a. flushPc # "idle" =>
        /\ phase \in {"up", "stopping", "stopped"}
        /\ \A i \in DOMAIN disk : disk[i].day <= floor /\ ~IsTorn(disk[i])
        /\ Intact(disk) = disk /\ EndsAt(disk, chain.seq + written, FlushHead.hash)
        /\ Follows(disk, Edge, chain.seq + written, FlushHead.hash)
        /\ head.seq = chain.seq + written => head.hash = FlushHead.hash
  <2>1. flushPc # "idle" =>
        /\ phase \in {"up", "stopping", "stopped"}
        /\ \A i \in DOMAIN disk : disk[i].day <= floor /\ ~IsTorn(disk[i])
    BY <1>0 DEF FlushInv, TypeOK, MemType, TornLast, FloorHolds
  <2>2. flushPc # "idle" => phase # "down" /\ Intact(disk) = disk
    BY <1>t, <2>1
  <2> QED BY <1>0, <2>1, <2>2 DEF TipKnown, FrontInv
<1>e. Follows(Intact(disk), Edge, chain.seq + written, FlushHead.hash)'
        <=> Follows(Intact(disk'), Edge', chain'.seq + written', FlushHead'.hash)
  BY DEF Follows, Intact, IsTorn
(* Steps that touch neither the disk, the anchor nor what a flush has written. *)
<1>b. ASSUME UNCHANGED <<disk, head, chain, anchor>>, pass'.best = pass.best,
             \/ UNCHANGED <<batch, written>>
             \/ written = 0 /\ written' = 0,
             phase' = phase \/ (phase # "down" /\ phase' # "down"),
             flushPc' # "prune" => flushPc # "prune" \/ pass.best = NoMark
      PROVE  FrontInv'
  <2>1. FlushHead' = FlushHead /\ written' = written
    BY <1>b DEF FlushHead
  <2>2. Edge' = Edge
    BY <1>b DEF Edge
  <2>3. phase' # "down" => Follows(Intact(disk'), Edge', chain'.seq + written', FlushHead'.hash)
    BY <1>b, <2>1, <2>2 DEF FrontInv
  <2>4. (head.seq > 0 => head.found)' /\ (flushPc' # "prune" => pass'.best = NoMark)
    BY <1>b DEF FrontInv
  <2>5. phase' # "down" /\ head'.seq = chain'.seq + written' => head'.hash = FlushHead'.hash
    BY <1>b, <2>1 DEF FrontInv
  <2> QED BY <1>e, <2>3, <2>4, <2>5 DEF FrontInv
<1>1. CASE AppendGroup
  <2>1. PICK n \in 1 .. Len(batch) - written, seg \in 0 .. Len(disk) :
          /\ IsTarget(disk, GroupDay, seg)
          /\ AppendLines(disk, <<GroupDay, seg>>, GroupLines(n, seg), disk')
          /\ written' = written + n
    BY <1>1 DEF AppendGroup
  <2>2. /\ written < Len(batch) /\ n \in 0 .. Len(batch) - written /\ seg \in Nat
        /\ written \in 0 .. Len(batch) /\ batch \in Seq(Prepared) /\ n \in Nat \ {0}
    BY <1>0, <1>1 DEF AppendGroup, FlushInv, TypeOK, FlushType
  <2>3. Appended(n, disk') /\ Len(disk') = Len(disk) + n
    BY <1>0, <1>1, <1>a, <2>1, <2>2, GroupAppended DEF AppendGroup
  <2>4. Intact(disk') = disk' /\ disk' # <<>>
    <3>1. phase' \in {"up", "stopping", "stopped"}
      BY <1>1, <1>a DEF AppendGroup
    <3>2. \A i \in DOMAIN disk' : ~IsTorn(disk'[i])
      BY <3>1 DEF DiskInv, TornLast, IsTorn
    <3>3. Len(disk') # 0
      BY <1>0, <2>2, <2>3
    <3> QED BY <1>0, <3>2, <3>3, IntactWhole
  <2>5. disk'[1].seq = Edge.seq + 1 /\ disk'[1].prev = Edge.hash
    <3>1. Follows(disk, Edge, chain.seq + written, FlushHead.hash)
      BY <1>1, <1>a DEF AppendGroup
    <3>2. CASE disk = <<>>
      <4>1. Edge.seq = chain.seq + written /\ Edge.hash = FlushHead.hash
        BY <3>1, <3>2 DEF Follows
      <4>2. disk'[1].seq = batch[written + 1].seq /\ disk'[1].prev = batch[written + 1].prev
        <5>1. Len(disk) = 0 /\ Len(disk) + 1 = 1 /\ 1 \in 1 .. n
          BY <2>2, <3>2
        <5> QED BY <2>3, <5>1 DEF Appended
      <4>3. /\ written + 1 \in DOMAIN batch /\ written + 1 \in DOMAIN prepared /\ written + 1 \in Nat
            /\ batch[written + 1] = prepared[written + 1] /\ batch[written + 1].seq = chain.seq + (written + 1)
        BY <1>0, <2>2, BatchNumbers
      <4>4. batch[written + 1].prev = IF written + 1 = 1 THEN chain.hash ELSE prepared[(written + 1) - 1].hash
        BY <1>0, <4>3 DEF CopiesChained
      <4>5. chain.seq + (written + 1) = (chain.seq + written) + 1 /\ (written + 1) - 1 = written
            /\ (written + 1 = 1 <=> ~(written > 0))
        <5>1. \A a, w \in Nat : a + (w + 1) = (a + w) + 1 /\ (w + 1) - 1 = w /\ (w + 1 = 1 <=> ~(w > 0))
          OBVIOUS
        <5> QED BY <1>t, <5>1, Zenon
      <4>6. written > 0 => written \in DOMAIN batch /\ batch[written] = prepared[written]
        BY <1>0, <2>2, BatchNumbers
      <4> QED BY <4>1, <4>2, <4>3, <4>4, <4>5, <4>6 DEF FlushHead
    <3>3. CASE disk # <<>>
      <4>1. 1 \in 1 .. Len(disk)
        BY <1>0, <3>3
      <4> QED BY <2>3, <3>1, <3>3, <4>1 DEF Follows, Appended
    <3> QED BY <3>2, <3>3
  <2>6. UNCHANGED <<phase, chain, head, batch, anchor, pass>> /\ flushPc = "append"
        /\ flushPc' \in {"head", "append"} /\ phase # "down"
    BY <1>1, <1>a DEF AppendGroup
  <2>7. Edge' = Edge
    BY <2>6 DEF Edge
  <2>8. Follows(Intact(disk'), Edge', chain'.seq + written', FlushHead'.hash)
    BY <2>4, <2>5, <2>7 DEF Follows
  <2>9. head'.seq # chain'.seq + written'
    BY <1>t, <2>1, <2>2, <2>6
  <2>10. (head.seq > 0 => head.found)' /\ pass'.best = NoMark
    BY <2>6 DEF FrontInv
  <2> QED BY <1>e, <2>8, <2>9, <2>10 DEF FrontInv
<1>2. CASE RemoveFile
  <2>1. PICK b \in 1 .. Len(disk) :
          /\ disk' = SubSeq(disk, b + 1, Len(disk))
          /\ pass' = IF disk[b].seq > pass.best.seq THEN [pass EXCEPT !.best = Mark(disk[b])] ELSE pass
    BY <1>0, <1>2, RemoveFileFacts
  <2>2. UNCHANGED <<phase, chain, head, batch, written, anchor, flushPc>> /\ phase # "down" /\ flushPc = "prune"
    BY <1>2, <1>a DEF RemoveFile
  <2>3. b \in 0 .. Len(disk) /\ b \in Nat /\ Len(disk) \in Nat /\ b \in DOMAIN disk /\ disk # <<>>
        /\ Len(disk) \in DOMAIN disk /\ 1 \in 1 .. Len(disk)
    BY <1>0
  <2>4. /\ Len(disk') = Len(disk) - b
        /\ \A i \in 1 .. Len(disk) - b : disk'[i] = disk[b + i]
    BY <1>0, <2>1, <2>3, RestType
  <2>5. /\ Chained(disk) /\ EndsAt(disk, chain.seq + written, FlushHead.hash)
        /\ Follows(disk, Edge, chain.seq + written, FlushHead.hash)
    BY <1>0, <1>a, <2>2
  <2>6. disk[b].seq \in Nat /\ disk[Len(disk)].seq \in Nat /\ disk[1].seq \in Nat
    BY <1>0, <2>3, LineFacts
  <2>7. disk[b].seq = disk[Len(disk)].seq - Len(disk) + b /\ disk[1].seq = disk[Len(disk)].seq - Len(disk) + 1
    BY <2>3, <2>5 DEF Chained
  <2>8. disk[1].seq = Edge.seq + 1 /\ disk[b].seq >= disk[1].seq
    <3>1. disk[1].seq = Edge.seq + 1
      BY <2>3, <2>5 DEF Follows
    <3>2. \A y, l, k \in Int : k >= 1 => y - l + k >= y - l + 1
      OBVIOUS
    <3>3. b \in Int /\ b >= 1 /\ Len(disk) \in Int /\ disk[Len(disk)].seq \in Int
      BY <2>3, <2>6
    <3> QED BY <2>7, <3>1, <3>2, <3>3
  <2>9. disk[b].seq > pass.best.seq /\ disk[b].seq > anchor.seq
    BY <1>t, <2>6, <2>8 DEF Edge
  <2>10. Edge' = Mark(disk[b])
    <3>1. pass' = [pass EXCEPT !.best = Mark(disk[b])]
      BY <2>1, <2>9
    <3>2. pass'.best = Mark(disk[b])
      BY <1>0, <3>1 DEF TypeOK, FlushType, Passes
    <3> QED BY <2>2, <2>9, <3>2 DEF Edge, Mark
  <2>11. Intact(disk') = disk'
    <3>1. \A i \in DOMAIN disk' : ~IsTorn(disk'[i])
      <4>1. phase' \in {"up", "stopping", "stopped"}
        BY <1>a, <2>2
      <4> QED BY <4>1 DEF DiskInv, TornLast, IsTorn
    <3> QED BY <1>0, <3>1, IntactWhole
  <2>12. FlushHead' = FlushHead
    BY <2>2 DEF FlushHead
  <2>13. Follows(disk', Mark(disk[b]), chain.seq + written, FlushHead.hash)
    <3>1. CASE disk' = <<>>
      <4>1. b = Len(disk)
        BY <2>3, <2>4, <3>1
      <4> QED BY <2>3, <2>5, <3>1, <4>1 DEF EndsAt, Follows, Mark
    <3>2. CASE disk' # <<>>
      <4>1. b + 1 \in 1 .. Len(disk) /\ 1 \in 1 .. Len(disk) - b /\ b + 1 > 1 /\ (b + 1) - 1 = b
        BY <1>0, <2>3, <2>4, <3>2
      <4>2. disk'[1] = disk[b + 1]
        BY <2>4, <4>1
      <4>3. disk[b + 1].seq = disk[Len(disk)].seq - Len(disk) + (b + 1) /\ disk[b + 1].prev = disk[b].hash
        BY <2>5, <4>1 DEF Chained
      <4>4. disk[b + 1].seq = disk[b].seq + 1
        <5>1. \A y, l, k \in Int : y - l + (k + 1) = (y - l + k) + 1
          OBVIOUS
        <5>2. b \in Int /\ Len(disk) \in Int /\ disk[Len(disk)].seq \in Int
          BY <2>3, <2>6
        <5> QED BY <2>7, <4>3, <5>1, <5>2
      <4> QED BY <3>2, <4>2, <4>3, <4>4 DEF Follows, Mark
    <3> QED BY <3>1, <3>2
  <2>14. Follows(Intact(disk'), Edge', chain'.seq + written', FlushHead'.hash)
    BY <2>2, <2>10, <2>11, <2>12, <2>13
  <2>15. (head.seq > 0 => head.found)' /\ (head'.seq = chain'.seq + written' => head'.hash = FlushHead'.hash)
    BY <2>2, <2>12 DEF FrontInv
  <2> QED BY <1>e, <2>2, <2>14, <2>15 DEF FrontInv
<1>3. CASE WriteHead
  <2>1. UNCHANGED <<phase, disk, chain, batch, written, anchor, pass>> /\ phase # "down" /\ flushPc = "head"
        /\ head' = HeadPayload(FlushHead, anchor, reset) /\ flushPc' = "retain"
    BY <1>3, <1>a DEF WriteHead
  <2>2. FlushHead' = FlushHead /\ Edge' = Edge
    BY <2>1 DEF FlushHead, Edge
  <2>3. head'.hash = FlushHead'.hash /\ head'.found
    BY <2>1, <2>2 DEF HeadPayload
  <2>4. Follows(Intact(disk'), Edge', chain'.seq + written', FlushHead'.hash) /\ pass'.best = NoMark
    BY <2>1, <2>2 DEF FrontInv
  <2> QED BY <1>e, <2>3, <2>4 DEF FrontInv
<1>4. CASE EndRetention
  <2>1. UNCHANGED <<phase, disk, chain, batch, written>> /\ phase # "down" /\ pass' = NoPass
        /\ anchor' = Edge /\ (head' = head \/ head' = HeadPayload(FlushHead, anchor', reset'))
    BY <1>4, <1>a DEF EndRetention, Edge
  <2>2. FlushHead' = FlushHead
    BY <2>1 DEF FlushHead
  <2>3. pass'.best = NoMark
    BY <2>1 DEF NoPass
  <2>4. Edge' = Edge
    <3>1. pass'.best.seq = 0 /\ anchor'.seq \in Nat
      BY <1>t, <2>1, <2>3 DEF NoMark, Edge
    <3>2. Edge' = anchor'
      BY <3>1 DEF Edge
    <3> QED BY <2>1, <3>2
  <2>5. (head'.seq = chain'.seq + written' => head'.hash = FlushHead'.hash) /\ (head'.seq > 0 => head'.found)
    BY <2>1, <2>2 DEF HeadPayload, FrontInv
  <2>6. Follows(Intact(disk'), Edge', chain'.seq + written', FlushHead'.hash)
    BY <2>1, <2>2, <2>4 DEF FrontInv
  <2> QED BY <1>e, <2>3, <2>5, <2>6 DEF FrontInv
<1>5. CASE EndFlush
  <2>1. /\ written' = 0 /\ UNCHANGED <<disk, head, anchor, pass>> /\ flushPc = "commit" /\ flushPc' = "idle"
        /\ phase # "down"
    BY <1>5, <1>a DEF EndFlush
  <2>2. CASE ~(written > 0)
    <3>1. written = 0 /\ UNCHANGED chain /\ phase' # "down"
      BY <1>5, <1>a, <1>t, <2>2 DEF EndFlush
    <3> QED BY <1>b, <2>1, <3>1
  <2>3. CASE written > 0
    <3>1. chain'.seq = chain.seq + written /\ chain'.hash = FlushHead.hash
      BY <1>0, <1>5, <2>3, CommitChained DEF EndFlush
    <3>2. FlushHead'.hash = FlushHead.hash /\ chain'.seq + written' = chain.seq + written
      BY <1>t, <2>1, <3>1 DEF FlushHead
    <3>3. Edge' = Edge
      BY <2>1 DEF Edge
    <3>4. Follows(Intact(disk'), Edge', chain'.seq + written', FlushHead'.hash) /\ pass'.best = NoMark
      BY <2>1, <3>2, <3>3 DEF FrontInv
    <3>5. (head'.seq = chain'.seq + written' => head'.hash = FlushHead'.hash) /\ (head'.seq > 0 => head'.found)
      BY <2>1, <3>2 DEF FrontInv
    <3> QED BY <1>e, <3>4, <3>5 DEF FrontInv
  <2> QED BY <2>2, <2>3
<1>6. CASE LoadHead
  <2>1. /\ UNCHANGED <<disk, head, written, pass, flushPc>> /\ chain' = Mark(head) /\ anchor' = head.anchor
        /\ phase = "down" /\ flushPc = "idle" /\ written = 0
    BY <1>0, <1>6 DEF LoadHead, FlushInv
  <2>2. chain'.seq = head.seq /\ chain'.hash = head.hash /\ pass'.best = NoMark
    BY <2>1 DEF Mark, FrontInv
  <2>3. FlushHead' = chain' /\ chain'.seq + written' = head.seq
    BY <1>t, <2>1, <2>2 DEF FlushHead
  <2>4. Edge' = head.anchor
    <3>1. pass'.best.seq = 0 /\ head.anchor.seq \in Nat
      BY <1>0, <2>2, HeadNumbers DEF NoMark
    <3> QED BY <2>1, <3>1 DEF Edge
  <2>5. Follows(Intact(disk'), Edge', chain'.seq + written', FlushHead'.hash)
    BY <2>1, <2>2, <2>3, <2>4 DEF Anchored
  <2>6. head'.hash = FlushHead'.hash /\ (head'.seq > 0 => head'.found)
    BY <2>1, <2>2, <2>3 DEF FrontInv
  <2> QED BY <1>e, <2>2, <2>5, <2>6 DEF FrontInv
<1>7. CASE RepairTornTail
  <2>1. UNCHANGED <<head, chain, anchor, pass, batch, written, flushPc>> /\ phase # "down"
    BY <1>7 DEF RepairTornTail
  <2>2. Intact(disk') = Intact(disk)
    BY <1>0, <1>7, RepairKeeps
  <2>3. FlushHead' = FlushHead /\ Edge' = Edge
    BY <2>1 DEF FlushHead, Edge
  <2>4. Follows(Intact(disk'), Edge', chain'.seq + written', FlushHead'.hash)
    BY <2>1, <2>2, <2>3 DEF FrontInv
  <2>5. /\ head'.seq = chain'.seq + written' => head'.hash = FlushHead'.hash
        /\ head'.seq > 0 => head'.found
        /\ flushPc' # "prune" => pass'.best = NoMark
    BY <2>1, <2>3 DEF FrontInv
  <2> QED BY <1>e, <2>4, <2>5 DEF FrontInv
<1>8. CASE RebuildHead
  <2>1. /\ UNCHANGED <<disk, anchor, pass, written, batch, flushPc>> /\ written = 0 /\ phase = "rebuild"
        /\ phase' # "down" /\ chain = Mark(head)
    BY <1>0, <1>8 DEF RebuildHead, FlushInv, TipKnown
  <2>2. Edge' = Edge /\ FlushHead' = chain' /\ FlushHead = chain
    BY <2>1 DEF Edge, FlushHead
  <2>3. CASE UNCHANGED <<chain, head>>
    BY <1>b, <2>1, <2>3
  <2>4. CASE ~UNCHANGED <<chain, head>>
    <3>1. PICK top \in DOMAIN disk :
            /\ Continues(top) /\ chain' = Mark(disk[top]) /\ head.found
            /\ head' = HeadPayload(chain', anchor, reset) \/ head' = head
      BY <1>8, <2>4 DEF RebuildHead
    <3>2. disk # <<>> /\ Intact(disk) = disk
      <4>1. \A i \in DOMAIN disk : ~IsTorn(disk[i])
        BY <1>0, <2>1 DEF TornLast
      <4> QED BY <1>0, <1>t, <3>1, <4>1
    <3>3. disk[1].seq = Edge.seq + 1 /\ disk[1].prev = Edge.hash
      BY <2>1, <3>2 DEF FrontInv, Follows
    <3>4. Follows(Intact(disk'), Edge', chain'.seq + written', FlushHead'.hash)
      BY <2>1, <2>2, <3>2, <3>3 DEF Follows
    <3>5. chain'.seq > chain.seq /\ chain'.seq \in Nat
      BY <1>0, <3>1, LineFacts DEF Continues, Mark
    <3>6. chain.seq = head.seq
      BY <2>1 DEF Mark
    <3>7. head'.seq = chain'.seq + written' => head'.hash = FlushHead'.hash
      BY <1>t, <2>1, <2>2, <3>1, <3>5, <3>6 DEF HeadPayload
    <3>8. head'.found /\ (flushPc' # "prune" => pass'.best = NoMark)
      BY <2>1, <3>1 DEF HeadPayload, FrontInv
    <3> QED BY <1>e, <3>4, <3>7, <3>8 DEF FrontInv
  <2> QED BY <2>3, <2>4
<1>9. CASE DetectReset
  <2>1. ~Lost /\ written = 0 /\ phase = "detect"
    BY <1>0, <1>9, <1>t DEF DetectReset, FlushInv, Lost
  <2> QED BY <1>9, <1>b, <2>1 DEF DetectReset
<1>10. CASE Query \/ TimerFlush \/ TaskFlush \/ StopFlush \/ VerifierFlush
  <2>1. /\ UNCHANGED <<phase, disk, chain, head, anchor, pass>>
        /\ \/ UNCHANGED <<batch, written, flushPc>>
           \/ flushPc = "idle" /\ written' = 0
    BY <1>10 DEF Query, TimerFlush, TaskFlush, StopFlush, VerifierFlush, BeginFlush
  <2>2. flushPc = "idle" => written = 0
    BY <1>0 DEF FlushInv
  <2> QED BY <1>b, <2>1, <2>2
<1>11. CASE Unload \/ Crash
  <2>1. phase' = "down" /\ pass' = NoPass /\ UNCHANGED head
    BY <1>11 DEF Unload, Crash, LoseMemory
  <2> QED BY <2>1 DEF FrontInv, NoPass
<1>12. CASE LoseDirectory
  BY <1>0, <1>12 DEF LoseDirectory, TypeOK, EnvType
<1>13. CASE AppendFails \/ WriteHeadFails \/ SkipRetention \/ BeginRetention \/ RemoveFileFails
  <2>1. CASE BeginRetention
    <3>1. pass' = [NoPass EXCEPT !.cutoff = today - RetentionDays] /\ flushPc = "retain"
      BY <2>1 DEF BeginRetention
    <3>2. pass'.best = NoMark /\ pass.best = NoMark
      BY <3>1 DEF NoPass, FrontInv
    <3> QED BY <1>b, <2>1, <3>2 DEF BeginRetention
  <2>2. CASE AppendFails \/ WriteHeadFails \/ SkipRetention
    BY <1>b, <2>2 DEF AppendFails, WriteHeadFails, SkipRetention
  <2> QED BY <1>13, <2>1, <2>2 DEF RemoveFileFails
<1>14. CASE TaskFlushEmpty \/ BeginStop \/ StopFlushEmpty \/ ClockMoves \/ SaveStore
  BY <1>14, <1>b DEF TaskFlushEmpty, BeginStop, StopFlushEmpty, ClockMoves, SaveStore
<1>15. CASE UNCHANGED vars \/ \E kind \in {"low", "high"} : Log(kind)
  BY <1>15, <1>b DEF vars, Log
<1> QED
  BY <1>1, <1>2, <1>3, <1>4, <1>5, <1>6, <1>7, <1>8, <1>9, <1>10, <1>11, <1>12, <1>13, <1>14, <1>15
     DEF Next, FlushStep, IOError, StartStep, StopStep

\* A chain whose head file is current is called whole.
LEMMA CleanImplies ==
  ASSUME AuditInv, DiskInv, ChainInv, FrontInv, wipes = 0, phase = "up", flushPc = "idle",
         head.seq = chain.seq, head.anchor = anchor
  PROVE  Verdict(head, disk, mirror) = "ok"
<1>1. /\ head \in Heads /\ disk \in Seq(Lines) /\ mirror \in Marks /\ TornLast /\ FlushInv
      /\ chain.seq \in Nat /\ head.reset = NoMark /\ mirror.seq <= head.seq
      /\ anchor.seq \in Nat
  BY HeadNumbers DEF AuditInv, TypeOK, DiskType, DiskInv, HeadInv
<1>2. written = 0 /\ FlushHead = chain /\ chain.seq + written = head.seq
  BY <1>1 DEF FlushInv, FlushHead
<1>3. \A i \in DOMAIN disk : ~IsTorn(disk[i])
  BY <1>1 DEF TornLast
<1>4. Intact(disk) = disk
  BY <1>1, <1>3, IntactWhole
<1>5. Edge = head.anchor
  <2>1. pass.best.seq = 0
    BY DEF FrontInv, NoMark
  <2> QED BY <1>1, <2>1 DEF Edge
<1>6. head.hash = chain.hash /\ (head.seq > 0 => head.found)
  BY <1>1, <1>2 DEF FrontInv
<1>7. Follows(disk, head.anchor, head.seq, head.hash)
  BY <1>2, <1>4, <1>5, <1>6 DEF FrontInv
<1>8. Chained(disk) /\ EndsAt(disk, head.seq, head.hash)
  BY <1>2, <1>4, <1>6 DEF ChainInv, TipKnown
<1>9. head.reset.seq = 0
  BY <1>1 DEF NoMark
<1> QED BY <1>1, <1>3, <1>6, <1>7, <1>8, <1>9, CleanSeen

\* The empty log and the log of one record go on from their anchor and end at
\* their head.
LEMMA FrontInit ==
  ASSUME Init
  PROVE  /\ FrontInv /\ Follows(Intact(disk), head.anchor, head.seq, head.hash)
         /\ EndsAt(Intact(disk), head.seq, head.hash)
<1>1. phase = "down" /\ pass.best = NoMark
  BY DEF Init, NoPass
<1>2. CASE disk = <<>> /\ head = NoHead
  <2>1. Intact(disk) = <<>> /\ head.seq = 0 /\ head.hash = Genesis /\ head.anchor = NoMark
    BY <1>2 DEF Intact, NoHead
  <2> QED BY <1>1, <2>1 DEF FrontInv, Follows, EndsAt, NoMark
<1>3. CASE disk = <<FirstLine>> /\ head = HeadPayload(FirstLine, NoMark, NoMark)
  <2>1. Len(<<FirstLine>>) = 1 /\ <<FirstLine>>[1] = FirstLine /\ <<FirstLine>> # <<>>
    OBVIOUS
  <2>2. ~IsTorn(FirstLine)
    BY DEF IsTorn, FirstLine
  <2>3. Intact(disk) = disk /\ Len(disk) = 1 /\ disk[1] = FirstLine /\ disk # <<>>
    BY <1>3, <2>1, <2>2, Zenon DEF Intact
  <2>4. head.found /\ head.seq = FirstLine.seq /\ head.hash = FirstLine.hash /\ head.anchor = NoMark
    BY <1>3 DEF HeadPayload
  <2>5. FirstLine.seq = NoMark.seq + 1 /\ FirstLine.prev = NoMark.hash
    BY DEF FirstLine, NoMark
  <2> QED BY <1>1, <2>3, <2>4, <2>5 DEF FrontInv, Follows, EndsAt
<1> QED BY <1>2, <1>3 DEF Init

\* Verification finds nothing wrong with a chain nobody touched, once the head
\* file is current, unless the trimming of a failed append or the removal of an
\* expired file fails as well, the head lags out of reach at start-up, or a crash
\* falls between the removal of a file and the write of the anchor.
THEOREM CleanChainVerifies ==
  ASSUME ~TrimMayFail, ~RemoveMayFail
  PROVE  Spec /\ []Recoverable /\ []Anchored => []CleanVerifies
<1>1. Init => ChainInv /\ FrontInv
  BY ChainInit, FrontInit
<1>2. ASSUME AuditInv, AuditInv', DiskInv, DiskInv', Recoverable, Anchored, wipes = 0 => ChainInv /\ FrontInv,
             [Next]_vars, wipes' = 0
      PROVE  ChainInv' /\ FrontInv'
  <2>1. wipes = 0
    BY <1>2, WipesGrow DEF AuditInv
  <2> QED BY <1>2, <2>1, ChainStep, FrontStep
<1>3. AuditInv /\ DiskInv /\ AuditInv' /\ DiskInv' /\ Recoverable /\ Anchored
        /\ (wipes = 0 => ChainInv /\ FrontInv) /\ [Next]_vars
        => (wipes = 0 => ChainInv /\ FrontInv)'
  BY <1>2
<1>4. AuditInv /\ DiskInv /\ (wipes = 0 => ChainInv /\ FrontInv) => CleanVerifies
  BY CleanImplies DEF CleanVerifies
<1> QED BY <1>1, <1>3, <1>4, DiskInvariant, PTL DEF Spec

-----------------------------------------------------------------------------
(* What async_verify_chain answers                                         *)

\* As long as nothing failed, stopped or was lost, the files end at the head
\* file until the first flush, and the head file follows every flush.
QuietInv ==
  /\ phase \notin {"stopping", "stopped"} /\ owner # "stop"
  /\ phase \in {"down", "repair", "rebuild"} => EndsAt(Intact(disk), head.seq, head.hash)
  /\ phase = "down" => Follows(Intact(disk), head.anchor, head.seq, head.hash)
  /\ phase # "down" =>
       /\ head.anchor = anchor
       /\ head.seq = chain.seq + (IF flushPc \in {"append", "head"} THEN 0 ELSE written)

\* A disk that ends at the head file needs no rebuilding.
LEMMA EndsHere ==
  ASSUME NEW ls \in Seq(Lines), Chained(ls), NEW q \in Nat, NEW h, EndsAt(ls, q, h), NEW i \in DOMAIN ls
  PROVE  ~(ls[i].seq > q)
<1>1. ls # <<>> /\ Len(ls) \in DOMAIN ls /\ i \in 1 .. Len(ls) /\ Len(ls) \in Nat
  OBVIOUS
<1>2. ls[Len(ls)].seq = q
  BY <1>1 DEF EndsAt
<1>3. ls[i].seq = q - Len(ls) + i
  BY <1>1, <1>2 DEF Chained
<1> QED BY <1>1, <1>3

LEMMA QuietSuffices ==
  ASSUME AuditInv, DiskInv, ChainInv, QuietInv
  PROVE  Recoverable /\ Anchored
<1>1. disk \in Seq(Lines) /\ head.seq \in Nat /\ TornLast
  BY HeadNumbers DEF AuditInv, TypeOK, DiskType, DiskInv
<1>2. Anchored
  BY DEF Anchored, QuietInv
<1>3. ASSUME phase = "rebuild", NEW i \in DOMAIN disk
      PROVE  ~(disk[i].seq > head.seq)
  <2>1. Intact(disk) = disk
    <3>1. \A j \in DOMAIN disk : ~IsTorn(disk[j])
      BY <1>1, <1>3 DEF TornLast
    <3> QED BY <1>1, <3>1, IntactWhole
  <2>2. Chained(disk) /\ EndsAt(disk, head.seq, head.hash)
    BY <1>3, <2>1 DEF ChainInv, QuietInv
  <2> QED BY <1>1, <1>3, <2>2, EndsHere
<1> QED BY <1>2, <1>3 DEF Recoverable

LEMMA QuietStep ==
  ASSUME AuditInv, AuditInv', DiskInv, ChainInv, FrontInv, QuietInv, Quiet, Quiet',
         [Next]_vars \/ VerifierFlush
  PROVE  QuietInv'
<1> USE DEF memVars, flushVars, diskVars, storeVars, envVars
<1>0. /\ TypeOK /\ FlushInv /\ PreparedFollowsBuffer /\ disk \in Seq(Lines) /\ TornLast
      /\ wipes = 0 /\ fails = 0 /\ restarts = 0 /\ wipes' = 0 /\ fails' = 0 /\ restarts' = 0
      /\ phase \notin {"stopping", "stopped"} /\ owner # "stop"
      /\ phase \in {"down", "repair", "rebuild", "detect", "up"}
  BY DEF AuditInv, DiskInv, TypeOK, DiskType, MemType, QuietInv, Quiet
<1>t. /\ written \in Nat /\ chain.seq \in Nat /\ head.seq \in Nat /\ mirror.seq \in Nat
      /\ FlushHead.seq = chain.seq + written /\ mirror.seq <= head.seq
      /\ phase # "down" => head.seq <= chain.seq + written
  BY <1>0, HeadNumbers DEF AuditInv, HeadInv
<1>c. /\ EndsAt(Intact(disk), head.seq, head.hash)' <=> EndsAt(Intact(disk'), head'.seq, head'.hash)
      /\ Follows(Intact(disk), head.anchor, head.seq, head.hash)'
           <=> Follows(Intact(disk'), head'.anchor, head'.seq, head'.hash)
  BY DEF EndsAt, Follows, Intact, IsTorn
<1>a. flushPc # "idle" => phase = "up"
  BY <1>0 DEF FlushInv
(* Steps of an object that runs. *)
<1>b. ASSUME phase \in {"detect", "up"}, phase' = "up", owner' # "stop", head'.anchor = anchor',
             head'.seq = chain'.seq + (IF flushPc' \in {"append", "head"} THEN 0 ELSE written')
      PROVE  QuietInv'
  BY <1>b DEF QuietInv
<1>d. ASSUME UNCHANGED <<phase, disk, head, anchor, chain, written, flushPc, owner>>
      PROVE  QuietInv'
  BY <1>0, <1>c, <1>d DEF QuietInv
<1>1. CASE AppendGroup
  <2>1. UNCHANGED <<phase, head, chain, anchor, owner>> /\ flushPc = "append" /\ flushPc' \in {"append", "head"}
        /\ phase = "up"
    BY <1>1, <1>a DEF AppendGroup
  <2> QED BY <1>0, <1>b, <2>1 DEF QuietInv
<1>2. CASE RemoveFile
  <2>1. UNCHANGED <<phase, head, chain, anchor, owner, flushPc, written>> /\ phase = "up"
    BY <1>2, <1>a DEF RemoveFile
  <2> QED BY <1>0, <1>b, <2>1 DEF QuietInv
<1>3. CASE WriteHead
  <2>1. UNCHANGED <<phase, chain, anchor, owner, written>> /\ phase = "up" /\ flushPc' = "retain"
        /\ head'.seq = FlushHead.seq /\ head'.anchor = anchor
    BY <1>3, <1>a DEF WriteHead, HeadPayload
  <2> QED BY <1>0, <1>b, <1>t, <2>1
<1>4. CASE EndRetention
  <2>1. /\ UNCHANGED <<phase, chain, owner, written>> /\ phase = "up" /\ flushPc' = "commit" /\ flushPc = "prune"
        /\ \/ UNCHANGED <<anchor, head>>
           \/ head' = HeadPayload(FlushHead, anchor', reset')
    <3>1. ~(fails' = fails + 1)
      BY <1>0
    <3> QED BY <1>4, <1>a, <3>1 DEF EndRetention
  <2>2. head'.anchor = anchor' /\ head'.seq = chain'.seq + written'
    BY <1>t, <2>1 DEF QuietInv, HeadPayload
  <2> QED BY <1>0, <1>b, <2>1, <2>2
<1>5. CASE EndFlush
  <2>1. /\ UNCHANGED <<head, anchor>> /\ written' = 0 /\ flushPc = "commit" /\ flushPc' = "idle"
        /\ owner' = "none" /\ phase = "up" /\ phase' = "up"
    BY <1>0, <1>5, <1>a DEF EndFlush
  <2>2. chain'.seq = chain.seq + written
    <3>1. CASE written > 0
      BY <1>0, <1>5, <1>t, <3>1, HeadNumbers DEF EndFlush, CommitWritten, Mark
    <3>2. CASE ~(written > 0)
      BY <1>5, <1>t, <3>2 DEF EndFlush
    <3> QED BY <3>1, <3>2
  <2>3. head'.seq = chain'.seq + written'
    BY <1>t, <2>1, <2>2 DEF QuietInv
  <2>4. head'.anchor = anchor'
    BY <2>1 DEF QuietInv
  <2> QED BY <1>b, <2>1, <2>3, <2>4
<1>6. CASE LoadHead
  <2>1. /\ UNCHANGED <<disk, head, written, flushPc, owner>> /\ chain' = Mark(head) /\ anchor' = head.anchor
        /\ phase = "down" /\ phase' = "repair" /\ flushPc = "idle" /\ written = 0
    BY <1>0, <1>6 DEF LoadHead, FlushInv
  <2>2. chain'.seq + written' = head'.seq
    BY <1>t, <2>1 DEF Mark
  <2> QED BY <1>0, <1>c, <2>1, <2>2 DEF QuietInv
<1>7. CASE RepairTornTail
  <2>1. UNCHANGED <<head, chain, anchor, written, flushPc, owner>> /\ phase = "repair"
        /\ phase' \in {"repair", "rebuild"}
    BY <1>7 DEF RepairTornTail
  <2>2. Intact(disk') = Intact(disk)
    BY <1>0, <1>7, RepairKeeps
  <2> QED BY <1>0, <1>c, <2>1, <2>2 DEF QuietInv
<1>8. CASE RebuildHead
  <2>1. /\ UNCHANGED <<anchor, written, flushPc, owner>> /\ phase = "rebuild" /\ phase' = "detect"
        /\ chain = Mark(head)
    BY <1>8 DEF RebuildHead, ChainInv, TipKnown
  <2>2. Intact(disk) = disk
    <3>1. \A i \in DOMAIN disk : ~IsTorn(disk[i])
      BY <1>0, <2>1 DEF TornLast
    <3> QED BY <1>0, <3>1, IntactWhole
  <2>3. Chained(disk) /\ EndsAt(disk, chain.seq, chain.hash)
    BY <2>1, <2>2 DEF ChainInv, QuietInv, Mark
  <2>4. \A top \in DOMAIN disk : ~Continues(top)
    BY <1>0, <1>t, <2>3, EndsHere DEF Continues
  <2>5. UNCHANGED <<chain, head>>
    BY <1>8, <2>4 DEF RebuildHead
  <2> QED BY <1>0, <2>1, <2>5 DEF QuietInv
<1>9. CASE DetectReset
  <2>1. written = 0 /\ phase = "detect" /\ ~Lost
    BY <1>0, <1>9, <1>t DEF DetectReset, FlushInv, Lost
  <2>2. UNCHANGED <<head, chain, anchor, written, flushPc, owner>> /\ phase' = "up"
    BY <1>9, <2>1 DEF DetectReset
  <2> QED BY <1>0, <1>b, <2>1, <2>2 DEF QuietInv
<1>10. CASE TimerFlush \/ TaskFlush \/ VerifierFlush
  <2>1. /\ UNCHANGED <<phase, chain, head, anchor>> /\ flushPc = "idle" /\ flushPc' = "append"
        /\ owner' # "stop" /\ phase = "up" /\ written = 0
    BY <1>0, <1>10 DEF TimerFlush, TaskFlush, VerifierFlush, BeginFlush, FlushInv
  <2> QED BY <1>b, <2>1 DEF QuietInv
<1>11. CASE Unload \/ StopFlush \/ StopFlushEmpty
  BY <1>0, <1>11 DEF Unload, StopFlush, StopFlushEmpty
<1>12. CASE Crash \/ BeginStop
  BY <1>0, <1>12 DEF Crash, BeginStop
<1>13. CASE LoseDirectory \/ IOError
  BY <1>0, <1>13 DEF LoseDirectory, IOError, AppendFails, WriteHeadFails, RemoveFileFails
<1>14. CASE SkipRetention \/ BeginRetention
  <2>1. UNCHANGED <<phase, head, chain, anchor, owner, written>> /\ flushPc = "retain" /\ phase = "up"
        /\ flushPc' \in {"prune", "commit"}
    BY <1>14, <1>a DEF SkipRetention, BeginRetention
  <2> QED BY <1>0, <1>b, <2>1 DEF QuietInv
<1>15. CASE Query \/ TaskFlushEmpty \/ ClockMoves \/ SaveStore
  BY <1>15, <1>d DEF Query, TaskFlushEmpty, ClockMoves, SaveStore
<1>16. CASE UNCHANGED vars \/ \E kind \in {"low", "high"} : Log(kind)
  BY <1>16, <1>d DEF vars, Log
<1> QED
  BY <1>1, <1>2, <1>3, <1>4, <1>5, <1>6, <1>7, <1>8, <1>9, <1>10, <1>11, <1>12, <1>13, <1>14, <1>15, <1>16
     DEF Next, FlushStep, StartStep, StopStep

\* What has failed, stopped or been lost stays counted.
LEMMA QuietBefore ==
  ASSUME AuditInv, Quiet', [Next]_vars \/ VerifierFlush
  PROVE  Quiet
<1>1. /\ wipes \in Nat /\ fails \in Nat /\ restarts \in Nat
  BY DEF AuditInv, TypeOK, EnvType
<1>2. /\ wipes' = wipes \/ wipes' = wipes + 1
      /\ fails' = fails \/ fails' = fails + 1
      /\ restarts' = restarts \/ restarts' = restarts + 1
  BY DEF Next, vars, envVars, memVars, flushVars, diskVars, storeVars, FlushStep, IOError,
     StartStep, StopStep, Log, Query, TimerFlush, VerifierFlush, TaskFlush, TaskFlushEmpty, BeginFlush, AppendGroup,
     WriteHead, SkipRetention, BeginRetention, RemoveFile, EndRetention, EndFlush, AppendFails,
     WriteHeadFails, RemoveFileFails, SaveStore, LoadHead, RepairTornTail, RebuildHead, DetectReset,
     BeginStop, StopFlush, StopFlushEmpty, Unload, Crash, LoseDirectory, ClockMoves
<1> QED BY <1>1, <1>2 DEF Quiet

\* The phases in which a verification can be under way.
Running == {"up", "stopping", "stopped"}

\* A verification nothing disturbed has read the head file and the mirror as they
\* still are, between two flushes.
ReadInv ==
  /\ vHead \in Heads /\ vMirror \in Marks /\ disturbed \in BOOLEAN /\ Counted(vHead.anchor)
  /\ vPc # "idle" => phase \in Running
  /\ vPc \in {"checkpoint", "walk"} /\ ~disturbed =>
       flushPc = "idle" /\ (wipes = 0 => vHead.anchor = head.anchor /\ vHead.reset = head.reset)
  /\ vPc = "walk" /\ ~disturbed => vMirror = mirror /\ (wipes = 0 => vHead = head)

\* A query numbers the buffer as the writer does.
LEMMA QuerySteps ==
  ASSUME AuditInv, phase = "up", prepared' = PrepareBuffered,
         UNCHANGED <<phase, buffer, dropped, chain, anchor, reset, floor, retentionDue, repairs, task,
                     flushVars, diskVars, storeVars, envVars>>
  PROVE  [Next]_vars
<1>1. TypeOK /\ PreparedFollowsBuffer /\ prepared \in Seq(Prepared) /\ buffer \in Seq(Records)
      /\ Len(prepared) <= Len(buffer)
  BY DEF AuditInv, TypeOK, MemType
<1>2. CASE Len(prepared) < Len(buffer)
  <2>1. Query
    BY <1>2 DEF Query
  <2> QED BY <2>1 DEF Next
<1>3. CASE ~(Len(prepared) < Len(buffer))
  <2>1. /\ PrepareBuffered \in Seq(Prepared) /\ Len(PrepareBuffered) = Len(prepared)
        /\ \A i \in 1 .. Len(prepared) : PrepareBuffered[i] = prepared[i]
    BY <1>1, <1>3, PrepareBufferedFacts
  <2>2. PICK p \in Seq(Prepared) : p = PrepareBuffered
    BY <2>1
  <2>3. p = prepared
    BY <1>1, <2>1, <2>2
  <2>4. UNCHANGED prepared
    BY <2>2, <2>3
  <2> QED BY <2>4 DEF vars, memVars
<1> QED BY <1>2, <1>3

\* Seen from the writer, the readers add the flush a verification begins with.
LEMMA ReadersSteps ==
  ASSUME AuditInv, [ReadersNext]_allVars
  PROVE  [Next]_vars \/ VerifierFlush
<1>1. CASE WriterStep
  BY <1>1 DEF WriterStep
<1>2. CASE VerifyFlush
  <2>1. CASE buffer # <<>> /\ BeginFlush("reader")
    BY <1>2, <2>1 DEF VerifyFlush, VerifierFlush
  <2>2. CASE ~(buffer # <<>> /\ BeginFlush("reader"))
    <3>1. UNCHANGED <<phase, task, buffer, prepared, dropped, chain, anchor, reset, floor, retentionDue,
                      repairs, flushVars, diskVars, storeVars, envVars>>
      BY <1>2, <2>2 DEF VerifyFlush
    <3> QED BY <3>1 DEF vars, memVars
  <2> QED BY <2>1, <2>2
<1>3. CASE QueryBuffered
  BY <1>3, QuerySteps DEF QueryBuffered
<1>4. CASE ReadMarkers \/ ReadCheckpoint \/ WalkFiles \/ QueryFiles \/ UNCHANGED allVars
  BY <1>4 DEF ReadMarkers, ReadCheckpoint, WalkFiles, QueryFiles, allVars
<1> QED BY <1>1, <1>2, <1>3, <1>4 DEF ReadersNext, ReaderStep

\* Between two flushes of a running object the mirror stays what it is, and so
\* does the head file unless the directory is lost.
LEMMA BetweenFlushes ==
  ASSUME AuditInv, Next, phase \in Running, phase' # "down"
  PROVE  /\ phase' \in Running
         /\ flushPc = "idle" /\ flushPc' = "idle" => mirror' = mirror /\ (wipes' = 0 => head' = head)
<1> USE DEF memVars, flushVars, diskVars, storeVars, envVars, Running
<1>0. wipes \in Nat
  BY DEF AuditInv, TypeOK, EnvType
<1>1. CASE FlushStep \/ AppendFails \/ WriteHeadFails \/ RemoveFileFails
  <2>1. flushPc # "idle"
    BY <1>1 DEF FlushStep, AppendGroup, WriteHead, SkipRetention, BeginRetention, RemoveFile,
       EndRetention, EndFlush, AppendFails, WriteHeadFails, RemoveFileFails
  <2>2. phase' \in {phase, "stopped"}
    BY <1>1 DEF FlushStep, AppendGroup, WriteHead, SkipRetention, BeginRetention, RemoveFile,
       EndRetention, EndFlush, AppendFails, WriteHeadFails, RemoveFileFails
  <2> QED BY <2>1, <2>2
<1>2. CASE StartStep \/ Unload \/ Crash
  BY <1>2 DEF StartStep, LoadHead, RepairTornTail, RebuildHead, DetectReset, Unload, Crash, LoseMemory
<1>3. CASE LoseDirectory
  BY <1>0, <1>3 DEF LoseDirectory
<1>4. CASE Query \/ TimerFlush \/ TaskFlush \/ TaskFlushEmpty \/ StopFlush \/ StopFlushEmpty
  BY <1>4 DEF Query, TimerFlush, TaskFlush, TaskFlushEmpty, StopFlush, StopFlushEmpty, BeginFlush
<1>5. CASE SaveStore \/ BeginStop \/ ClockMoves \/ \E kind \in {"low", "high"} : Log(kind)
  BY <1>5 DEF SaveStore, BeginStop, ClockMoves, Log
<1> QED BY <1>1, <1>2, <1>3, <1>4, <1>5 DEF Next, IOError, StopStep

LEMMA ReadStep ==
  ASSUME AuditInv, LossInv, ReadInv, [ReadersNext]_allVars
  PROVE  ReadInv'
<1>0. /\ head \in Heads /\ mirror \in Marks /\ Counted(head.anchor) /\ Counted(NoMark) /\ NoHead \in Heads
      /\ NoMark \in Marks /\ NoHead.anchor = NoMark
  <2>1. Len(Genesis) = 0 /\ Genesis \in Hashes
    BY DEF Genesis, Hashes
  <2> QED BY <2>1 DEF AuditInv, TypeOK, DiskType, LossInv, MarksCounted, Counted, NoHead, NoMark, Heads, Marks
<1>c. Counted(vHead.anchor)' <=> Counted(vHead'.anchor)
  BY DEF Counted
(* Steps that leave the verification and what it reads alone. *)
<1>b. ASSUME UNCHANGED <<phase, flushPc, head, mirror, wipes, vHead, vMirror, disturbed, vPc>>
      PROVE  ReadInv'
  BY <1>b, <1>c DEF ReadInv
<1>1. CASE WriterStep
  <2>1. /\ Next /\ UNCHANGED <<vHead, vMirror>>
        /\ disturbed' = (vPc \in {"checkpoint", "walk"} /\ (disturbed \/ flushPc' # "idle" \/ disk' # disk))
        /\ vPc' = IF phase' = "down" THEN "idle"
                  ELSE IF vPc = "flush" /\ owner' # "reader" THEN "markers" ELSE vPc
    BY <1>1 DEF WriterStep
  <2>2. disturbed' \in BOOLEAN /\ vHead' \in Heads /\ vMirror' \in Marks /\ Counted(vHead.anchor)'
    BY <1>c, <2>1 DEF ReadInv
  <2>3. vPc' # "idle" => vPc # "idle" /\ phase \in Running /\ phase' # "down"
    BY <2>1 DEF ReadInv
  <2>4. vPc' # "idle" => phase' \in Running
    BY <2>1, <2>3, BetweenFlushes
  <2>5. ASSUME vPc' \in {"checkpoint", "walk"}, ~disturbed'
        PROVE  /\ vPc = vPc' /\ ~disturbed /\ flushPc = "idle" /\ flushPc' = "idle"
               /\ mirror' = mirror /\ (wipes' = 0 => wipes = 0 /\ head' = head)
    <3>1. vPc = vPc' /\ vPc \in {"checkpoint", "walk"}
      BY <2>1, <2>5
    <3>2. ~disturbed /\ flushPc' = "idle"
      BY <2>1, <2>5, <3>1
    <3>3. flushPc = "idle"
      BY <3>1, <3>2 DEF ReadInv
    <3>4. wipes' = 0 => wipes = 0
      BY <2>1, WipesGrow DEF AuditInv
    <3> QED BY <2>1, <2>3, <2>5, <3>1, <3>2, <3>3, <3>4, BetweenFlushes
  <2>6. vPc' \in {"checkpoint", "walk"} /\ ~disturbed' =>
          flushPc' = "idle" /\ (wipes' = 0 => vHead'.anchor = head'.anchor /\ vHead'.reset = head'.reset)
    BY <2>1, <2>5 DEF ReadInv
  <2>7. vPc' = "walk" /\ ~disturbed' => vMirror' = mirror' /\ (wipes' = 0 => vHead' = head')
    BY <2>1, <2>5 DEF ReadInv
  <2> QED BY <2>2, <2>4, <2>6, <2>7 DEF ReadInv
<1>2. CASE VerifyFlush
  <2>1. /\ UNCHANGED <<phase, vHead, vMirror, disturbed>> /\ phase = "up" /\ vPc' \in {"flush", "markers"}
    BY <1>2 DEF VerifyFlush
  <2> QED BY <1>c, <2>1 DEF ReadInv, Running
<1>3. CASE ReadMarkers
  <2>1. /\ UNCHANGED <<phase, flushPc, head, wipes, vMirror>> /\ vPc = "markers" /\ vPc' = "checkpoint"
        /\ vHead' = [NoHead EXCEPT !.anchor = head.anchor, !.reset = head.reset]
        /\ disturbed' = (flushPc # "idle")
    BY <1>3 DEF ReadMarkers, vars, flushVars, diskVars, envVars
  <2>2. vHead' \in Heads /\ vHead'.anchor = head.anchor /\ vHead'.reset = head.reset
    BY <1>0, <2>1 DEF Heads
  <2>3. Counted(vHead.anchor)'
    BY <1>0, <1>c, <2>2
  <2> QED BY <2>1, <2>2, <2>3 DEF ReadInv
<1>4. CASE ReadCheckpoint
  <2>1. /\ UNCHANGED <<phase, flushPc, head, mirror, wipes, disturbed>> /\ vPc = "checkpoint" /\ vPc' = "walk"
        /\ vHead' = [vHead EXCEPT !.found = head.found, !.seq = head.seq, !.hash = head.hash]
        /\ vMirror' = mirror
    BY <1>4 DEF ReadCheckpoint, vars, flushVars, diskVars, storeVars, envVars
  <2>2. vHead \in Heads
    BY DEF ReadInv
  <2>3. /\ vHead' \in Heads /\ vHead'.anchor = vHead.anchor /\ vHead'.reset = vHead.reset
        /\ vHead'.found = head.found /\ vHead'.seq = head.seq /\ vHead'.hash = head.hash
    BY <1>0, <2>1, <2>2 DEF Heads
  <2>4. Counted(vHead.anchor)'
    BY <1>c, <2>3 DEF ReadInv
  <2>5. vHead.anchor = head.anchor /\ vHead.reset = head.reset => vHead' = head
    BY <1>0, <2>3 DEF Heads
  <2> QED BY <1>0, <2>1, <2>3, <2>4, <2>5 DEF ReadInv
<1>5. CASE WalkFiles
  <2>1. /\ UNCHANGED disturbed /\ vPc' = "idle" /\ vHead' = NoHead /\ vMirror' = NoMark
    BY <1>5 DEF WalkFiles
  <2> QED BY <1>0, <1>c, <2>1 DEF ReadInv
<1>6. CASE QueryBuffered \/ QueryFiles \/ UNCHANGED allVars
  <2>1. UNCHANGED <<phase, flushPc, head, mirror, wipes, vHead, vMirror, disturbed, vPc>>
    BY <1>6 DEF QueryBuffered, QueryFiles, allVars, readerVars, vars, flushVars, diskVars, storeVars, envVars
  <2> QED BY <1>b, <2>1
<1> QED BY <1>1, <1>2, <1>3, <1>4, <1>5, <1>6 DEF ReadersNext, ReaderStep

\* Nothing has read or judged anything yet.
LEMMA ReadInit ==
  ASSUME InitReaders
  PROVE  ReadInv
<1>1. Len(Genesis) = 0 /\ Genesis \in Hashes
  BY DEF Genesis, Hashes
<1> QED BY <1>1 DEF InitReaders, ReadInv, Counted, NoHead, NoMark, Heads, Marks

\* The verdict is that of the walk.
LEMMA JudgedWalk ==
  ASSUME [ReadersNext]_allVars, Judged
  PROVE  verdict' = Verdict(vHead, disk, vMirror)
<1>1. CASE WalkFiles
  BY <1>1 DEF WalkFiles
<1>2. CASE ~WalkFiles
  BY <1>2 DEF Judged, ReadersNext, ReaderStep, WriterStep, VerifyFlush, ReadMarkers, ReadCheckpoint,
     QueryBuffered, QueryFiles, allVars, readerVars
<1> QED BY <1>1, <1>2

\* The invariant of the log and its readers that needs no assumption.
LEMMA ReadersInvariant == ReadersSpec => [](AuditInv /\ LossInv /\ ReadInv)
<1>1. ReadersInit => AuditInv /\ LossInv /\ ReadInv
  BY AuditInvInit, LossInit, ReadInit DEF ReadersInit
<1>2. AuditInv /\ LossInv /\ ReadInv /\ [ReadersNext]_allVars => (AuditInv /\ LossInv /\ ReadInv)'
  <2> SUFFICES ASSUME AuditInv, LossInv, ReadInv, [ReadersNext]_allVars
               PROVE  AuditInv' /\ LossInv' /\ ReadInv'
    OBVIOUS
  <2>1. [Next]_vars \/ VerifierFlush
    BY ReadersSteps
  <2>2. AuditInv'
    BY <2>1, TypeStep, FlushStepInv, PreparedStep, HeadStep DEF AuditInv
  <2> QED BY <2>1, <2>2, LossStep, ReadStep
<1> QED BY <1>1, <1>2, PTL DEF ReadersSpec

\* A verification that nothing disturbed never calls a chain whole whose
\* directory was lost with its head mirrored, before retention has expired the
\* place of the loss: whatever fails, and however often it restarts.
THEOREM LossNeverCalledWhole == ReadersSpec => LossNeverOk
<1> DEFINE Reported == Judged /\ wipes > 0 /\ wipedAt > 0 /\ ~disturbed /\ vHead.anchor.seq < wipedAt
                       => verdict' # "ok"
<1>1. AuditInv /\ LossInv /\ ReadInv /\ [ReadersNext]_allVars => Reported
  <2> SUFFICES ASSUME AuditInv, LossInv, ReadInv, [ReadersNext]_allVars, Judged, wipedAt > 0,
                      ~disturbed, vHead.anchor.seq < wipedAt
               PROVE  Verdict(vHead, disk, vMirror) # "ok"
    BY JudgedWalk
  <2>1. /\ vHead \in Heads /\ vMirror \in Marks /\ Counted(vHead.anchor) /\ vMirror = mirror
    BY DEF ReadInv, Judged
  <2>2. disk \in Seq(Lines) /\ wipedAt \in Nat /\ saved.seq \in Nat /\ mirror.seq \in Nat
    BY HeadNumbers DEF AuditInv, TypeOK, DiskType, EnvType
  <2>3. wipedAt <= vMirror.seq /\ Beyond(disk, wipedAt)
    BY <2>1, <2>2 DEF LossInv
  <2> QED BY <2>1, <2>2, <2>3, LossSeen
<1>2. LossNeverOk <=> [][Reported]_allVars
  BY DEF LossNeverOk
<1> HIDE DEF Reported
<1> QED BY <1>1, <1>2, ReadersInvariant, PTL DEF ReadersSpec

\* What async_verify_chain answers is right whenever nothing moved under it: it
\* is clean for a chain nobody touched, whatever was logged and flushed before,
\* and never clean after a loss.
THEOREM VerdictIsRight ==
  ASSUME ~TrimMayFail, ~RemoveMayFail
  PROVE  ReadersSpec => VerdictRight
<1> DEFINE Calm == Quiet => ChainInv /\ FrontInv /\ QuietInv
           CleanAnswer == Judged /\ Quiet /\ ~disturbed => verdict' = "ok"
<1>1. ReadersInit => DiskInv /\ Calm
  BY DiskInvInit, ChainInit, FrontInit DEF ReadersInit, Init, QuietInv
<1>2. ASSUME AuditInv, AuditInv', DiskInv, Calm, [ReadersNext]_allVars
      PROVE  DiskInv' /\ Calm'
  <2>1. [Next]_vars \/ VerifierFlush
    BY <1>2, ReadersSteps
  <2>2. DiskInv'
    BY <1>2, <2>1, DiskStep
  <2>3. ASSUME Quiet'
        PROVE  ChainInv' /\ FrontInv' /\ QuietInv'
    <3>1. Quiet
      BY <1>2, <2>1, <2>3, QuietBefore
    <3>2. ChainInv /\ FrontInv /\ QuietInv /\ wipes = 0 /\ wipes' = 0
      BY <1>2, <2>3, <3>1 DEF Quiet
    <3>3. Recoverable /\ Anchored
      BY <1>2, <3>2, QuietSuffices
    <3> QED BY <1>2, <2>1, <2>2, <2>3, <3>1, <3>2, <3>3, ChainStep, FrontStep, QuietStep
  <2> QED BY <2>2, <2>3
<1>3. ASSUME AuditInv, DiskInv, ReadInv, Calm, [ReadersNext]_allVars
      PROVE  CleanAnswer
  <2> SUFFICES ASSUME Judged, Quiet, ~disturbed
               PROVE  Verdict(vHead, disk, vMirror) = "ok"
    BY <1>3, JudgedWalk
  <2>1. vHead = head /\ vMirror = mirror /\ flushPc = "idle" /\ phase \in Running /\ wipes = 0
    BY <1>3 DEF ReadInv, Judged, Quiet
  <2>2. ChainInv /\ FrontInv /\ QuietInv
    BY <1>3
  <2>3. phase = "up" /\ head.anchor = anchor /\ head.seq = chain.seq + written
    BY <2>1, <2>2 DEF QuietInv, Running
  <2>4. written = 0 /\ chain.seq \in Nat
    BY <1>3, <2>1, HeadNumbers DEF AuditInv, FlushInv
  <2>5. head.seq = chain.seq
    BY <2>3, <2>4
  <2> QED BY <1>3, <2>1, <2>2, <2>3, <2>5, CleanImplies
<1>4. UndisturbedVerdict <=> [][CleanAnswer]_allVars
  BY DEF UndisturbedVerdict
<1>5. ReadersSpec => [](AuditInv /\ DiskInv /\ ReadInv /\ Calm)
  <2>1. AuditInv /\ AuditInv' /\ DiskInv /\ Calm /\ [ReadersNext]_allVars => (DiskInv /\ Calm)'
    BY <1>2
  <2> HIDE DEF Calm
  <2> QED BY <1>1, <2>1, ReadersInvariant, PTL DEF ReadersSpec
<1>6. ReadersSpec => [][CleanAnswer]_allVars
  <2>1. AuditInv /\ DiskInv /\ ReadInv /\ Calm /\ [ReadersNext]_allVars => CleanAnswer
    BY <1>3
  <2> HIDE DEF Calm, CleanAnswer
  <2> QED BY <1>5, <2>1, PTL DEF ReadersSpec
<1> HIDE DEF CleanAnswer
<1> QED BY <1>4, <1>6, LossNeverCalledWhole DEF VerdictRight

=============================================================================
