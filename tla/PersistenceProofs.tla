-------------------------- MODULE PersistenceProofs --------------------------
(***************************************************************************)
(* What .frost keeps.  The journal forgets nothing it was told:             *)
(* ReportsSurvive and WritesCostNothing, for every set of actions and every *)
(* number of builds, crashes, short writes and damaged frames.  The content *)
(* store gives back what was asked for: RestoredIsAsked, for every number   *)
(* of clients, every layout of chunks and whatever rots or is collected.    *)
(***************************************************************************)
EXTENDS Journal, Store, FiniteSetTheorems, SequenceTheorems, WellFoundedInduction,
        NaturalsInduction, TLAPS

Frames == Record \cup {Unreadable}

-----------------------------------------------------------------------------
(* decode_prefix.                                                           *)

\* The naturals have no endless descent.
LEMMA LeastNumber ==
  ASSUME NEW S, S \subseteq Nat, S # {}
  PROVE  \E x \in S : \A y \in S : ~(y < x)
<1>. DEFINE Below == {pair \in Nat \X Nat : pair[1] < pair[2]}
<1>1. IsWellFoundedOn(Below, Nat)
  BY NatLessThanWellFounded DEF OpToRel
<1>2. PICK x \in S : \A y \in S : <<y, x>> \notin Below
  <2>. HIDE DEF Below
  <2>. QED
    BY <1>1, WFMin
<1>. QED
  BY <1>2

\* The greatest of some positions.
LEMMA MaxIsGreatest ==
  ASSUME NEW n \in Nat, NEW S, S \subseteq 1 .. n, S # {}
  PROVE  Max(S) \in S /\ \A i \in S : i <= Max(S)
<1>. DEFINE Gaps == {n - i : i \in S}
<1>1. \A i \in S : i \in Nat /\ i <= n
  OBVIOUS
<1>2. Gaps \subseteq Nat /\ Gaps # {}
  <2>1. \A i \in S : n - i \in Nat
    BY <1>1
  <2>2. PICK i \in S : TRUE
    OBVIOUS
  <2>3. n - i \in Gaps
    BY <2>2
  <2>. QED
    BY <2>1, <2>3
<1>3. PICK d \in Gaps : \A e \in Gaps : ~(e < d)
  <2>. HIDE DEF Gaps
  <2>. QED
    BY <1>2, LeastNumber
<1>4. PICK i \in S : d = n - i
  BY <1>3
<1>5. ASSUME NEW j \in S
      PROVE  j <= i
  <2>1. ~(n - j < n - i)
    BY <1>3, <1>4
  <2>. QED
    BY <1>1, <2>1
<1>6. \A j \in S : i >= j
  BY <1>1, <1>5
<1>7. Max(S) = CHOOSE x \in S : \A y \in S : x >= y
  BY DEF Max
<1>8. Max(S) \in S /\ \A j \in S : Max(S) >= j
  BY <1>6, <1>7
<1>. QED
  BY <1>1, <1>8

\* What can be read is a prefix.
LEMMA ReadableIsPrefix ==
  ASSUME NEW s \in Seq(Frames)
  PROVE  /\ ValidLen(s) \in 0 .. Len(s) /\ Readable(s) = 1 .. ValidLen(s)
         /\ \A i \in Readable(s) : i \in DOMAIN s /\ s[i] \in Record
         /\ ValidLen(s) = Len(s) \/ (ValidLen(s) + 1 \in DOMAIN s /\ s[ValidLen(s) + 1] = Unreadable)
<1>1. Len(s) \in Nat /\ DOMAIN s = 1 .. Len(s) /\ \A i \in DOMAIN s : s[i] \in Frames
  BY LenProperties, ElementOfSeq
<1>. DEFINE Holes == {i \in 1 .. Len(s) : s[i] = Unreadable}
<1>2. \A i \in Readable(s) : i \in DOMAIN s /\ s[i] \in Record
  BY <1>1 DEF Readable, Frames
<1>3. CASE Holes = {}
  <2>1. Readable(s) = 1 .. Len(s)
    BY <1>1, <1>3 DEF Readable
  <2>2. Cardinality(1 .. Len(s)) = Len(s)
    BY <1>1, FS_Interval
  <2>. QED
    BY <1>1, <1>2, <2>1, <2>2 DEF ValidLen
<1>4. CASE Holes # {}
  <2>1. PICK h \in Holes : \A i \in Holes : ~(i < h)
    <3>1. Holes \subseteq Nat
      BY <1>1
    <3>. HIDE DEF Holes
    <3>. QED
      BY <1>4, <3>1, LeastNumber
  <2>2. h \in 1 .. Len(s) /\ s[h] = Unreadable /\ \A i \in 1 .. h - 1 : s[i] # Unreadable
    BY <1>1, <2>1
  <2>3. Readable(s) = 1 .. h - 1
    <3>1. ASSUME NEW i \in 1 .. h - 1
          PROVE  i \in Readable(s)
      BY <1>1, <2>2 DEF Readable
    <3>2. ASSUME NEW i \in Readable(s)
          PROVE  i \in 1 .. h - 1
      <4>1. i \in 1 .. Len(s) /\ \A j \in 1 .. i : s[j] # Unreadable
        BY <1>1 DEF Readable
      <4>2. ~(h <= i)
        BY <1>1, <2>2, <4>1
      <4>. QED
        BY <1>1, <2>2, <4>1, <4>2
    <3>. QED
      BY <3>1, <3>2
  <2>4. Cardinality(1 .. h - 1) = h - 1
    BY <1>1, <2>2, FS_Interval
  <2>. QED
    BY <1>1, <1>2, <2>2, <2>3, <2>4 DEF ValidLen
<1>. QED
  BY <1>3, <1>4

\* Where the records of id are among those that can be read.
At(s, id) == {i \in Readable(s) : s[i].id = id}

\* The decoder finds the last of them.
LEMMA DecodedIsLast ==
  ASSUME NEW s \in Seq(Frames), NEW id
  PROVE  /\ At(s, id) = {} => Decoded("ours", s, id) = 0
         /\ At(s, id) # {} => /\ Max(At(s, id)) \in At(s, id)
                              /\ \A i \in At(s, id) : i <= Max(At(s, id))
                              /\ Decoded("ours", s, id) = s[Max(At(s, id))].run
<1>1. ValidLen(s) \in Nat /\ At(s, id) \subseteq 1 .. ValidLen(s)
  BY ReadableIsPrefix, LenProperties DEF At
<1>2. Decoded("ours", s, id) = IF At(s, id) = {} THEN 0 ELSE s[Max(At(s, id))].run
  BY DEF Decoded, At
<1>. QED
  BY <1>1, <1>2, MaxIsGreatest

LEMMA DecodedType ==
  ASSUME NEW h, NEW s \in Seq(Frames), NEW id
  PROVE  /\ Decoded(h, s, id) \in Runs
         /\ Decoded(h, s, id) # 0 => \E i \in DOMAIN s : /\ s[i] \in Record /\ s[i].id = id
                                                        /\ s[i].run = Decoded(h, s, id)
<1>1. CASE h # "ours"
  BY <1>1, BoundAssumption DEF Decoded, Runs
<1>2. CASE h = "ours" /\ At(s, id) = {}
  BY <1>2, BoundAssumption, DecodedIsLast DEF Runs
<1>3. CASE h = "ours" /\ At(s, id) # {}
  <2>1. Max(At(s, id)) \in At(s, id) /\ Decoded(h, s, id) = s[Max(At(s, id))].run
    BY <1>3, DecodedIsLast
  <2>2. PICK i \in DOMAIN s : s[i] \in Record /\ s[i].id = id /\ s[i].run = Decoded(h, s, id)
    BY <2>1, ReadableIsPrefix DEF At
  <2>. QED
    BY <2>2, BoundAssumption DEF Record, Runs
<1>. QED
  BY <1>1, <1>2, <1>3

\* The decoder sees nothing but what it can read.
LEMMA DecodedByPrefix ==
  ASSUME NEW s \in Seq(Frames), NEW t \in Seq(Frames), Readable(s) = Readable(t),
         \A i \in Readable(s) : s[i] = t[i], NEW h, NEW id
  PROVE  Decoded(h, s, id) = Decoded(h, t, id)
<1>1. At(s, id) = At(t, id)
  BY DEF At
<1>2. CASE h = "ours" /\ At(s, id) # {}
  <2>1. Max(At(s, id)) \in Readable(s)
    BY <1>2, DecodedIsLast DEF At
  <2>. QED
    BY <1>1, <1>2, <2>1, DecodedIsLast
<1>3. CASE h = "ours" /\ At(s, id) = {}
  BY <1>1, <1>3, DecodedIsLast
<1>. QED
  BY <1>2, <1>3 DEF Decoded

\* To cut off what cannot be read changes nothing that is read.
LEMMA CutIsClean ==
  ASSUME NEW s \in Seq(Frames)
  PROVE  LET t == SubSeq(s, 1, ValidLen(s))
         IN /\ t \in Seq(Frames) /\ ValidLen(t) = Len(t)
            /\ \A i \in DOMAIN t : i \in DOMAIN s /\ t[i] = s[i]
            /\ \A h, id : Decoded(h, t, id) = Decoded(h, s, id)
<1>. DEFINE n == ValidLen(s)
            t == SubSeq(s, 1, ValidLen(s))
<1>1. n \in Nat /\ Readable(s) = 1 .. n /\ \A i \in 1 .. n : i \in DOMAIN s /\ s[i] \in Record
  BY ReadableIsPrefix, LenProperties
<1>2. t \in Seq(Frames) /\ Len(t) = n /\ \A i \in 1 .. n : t[i] = s[i]
  <2>1. \A i \in 1 .. n : s[i] \in Frames
    BY <1>1 DEF Frames
  <2>. HIDE DEF n
  <2>2. 1 \in Int /\ n \in Int
    BY <1>1
  <2>3. t = SubSeq(s, 1, n)
    BY DEF n
  <2>4. /\ SubSeq(s, 1, n) \in Seq(Frames)
        /\ Len(SubSeq(s, 1, n)) = IF 1 <= n THEN n - 1 + 1 ELSE 0
        /\ \A i \in 1 .. n - 1 + 1 : SubSeq(s, 1, n)[i] = s[1 + i - 1]
    BY <2>1, <2>2, SubSeqProperties
  <2>. HIDE DEF t
  <2>. QED
    BY <1>1, <2>3, <2>4
<1>3. DOMAIN t = 1 .. n
  <2>. HIDE DEF t, n
  <2>. QED
    BY <1>2, LenProperties
<1>4. Readable(t) = 1 .. n
  <2>. HIDE DEF t, n
  <2>. QED
    BY <1>1, <1>2, <1>3, ValueAssumption DEF Readable
<1>5. ValidLen(t) = Len(t)
  <2>. HIDE DEF t, n
  <2>. QED
    BY <1>1, <1>2, <1>4, FS_Interval DEF ValidLen
<1>6. ASSUME NEW h, NEW id
      PROVE  Decoded(h, t, id) = Decoded(h, s, id)
  <2>. HIDE DEF t, n
  <2>. QED
    BY <1>1, <1>2, <1>4, DecodedByPrefix
<1>. QED
  BY <1>1, <1>2, <1>3, <1>5, <1>6

\* A torn frame hides nothing that was read before it.
LEMMA TornIsHarmless ==
  ASSUME NEW s \in Seq(Frames), NEW t \in Torn(s)
  PROVE  /\ t \in Seq(Frames)
         /\ \A i \in DOMAIN t : t[i] \in Record => i \in DOMAIN s /\ t[i] = s[i]
         /\ \A h, id : Decoded(h, t, id) = Decoded(h, s, id)
<1>1. CASE t = s
  BY <1>1
<1>2. CASE t = Append(s, Unreadable)
  <2>1. Len(s) \in Nat /\ DOMAIN s = 1 .. Len(s)
    BY LenProperties
  <2>2. /\ t \in Seq(Frames) /\ Len(t) = Len(s) + 1 /\ DOMAIN t = 1 .. Len(s) + 1
        /\ \A i \in 1 .. Len(s) : t[i] = s[i]
        /\ t[Len(s) + 1] = Unreadable
    BY <1>2, <2>1, AppendProperties, LenProperties DEF Frames
  <2>3. Readable(t) = Readable(s)
    BY <2>1, <2>2 DEF Readable
  <2>4. \A i \in Readable(s) : s[i] = t[i]
    BY <2>1, <2>2 DEF Readable
  <2>5. \A h, id : Decoded(h, t, id) = Decoded(h, s, id)
    BY <2>2, <2>3, <2>4, DecodedByPrefix
  <2>6. ASSUME NEW i \in DOMAIN t, t[i] \in Record
        PROVE  i \in DOMAIN s /\ t[i] = s[i]
    BY <2>1, <2>2, <2>6, ValueAssumption
  <2>. QED
    BY <2>2, <2>5, <2>6
<1>. QED
  BY <1>1, <1>2 DEF Torn

\* A whole frame is read where everything before it is, and nowhere else.
LEMMA AppendRecord ==
  ASSUME NEW s \in Seq(Frames), NEW r \in Record
  PROVE  LET t == Append(s, r)
         IN /\ t \in Seq(Frames)
            /\ \A i \in DOMAIN t : t[i] = r \/ (i \in DOMAIN s /\ t[i] = s[i])
            /\ ValidLen(s) # Len(s) => \A id : Decoded("ours", t, id) = Decoded("ours", s, id)
            /\ ValidLen(s) = Len(s) =>
                 /\ ValidLen(t) = Len(t)
                 /\ \A id : Decoded("ours", t, id) = IF id = r.id THEN r.run ELSE Decoded("ours", s, id)
<1>. DEFINE t == Append(s, r)
<1>1. Len(s) \in Nat /\ DOMAIN s = 1 .. Len(s)
  BY LenProperties
<1>2. /\ t \in Seq(Frames) /\ Len(t) = Len(s) + 1 /\ DOMAIN t = 1 .. Len(s) + 1
      /\ \A i \in 1 .. Len(s) : t[i] = s[i]
      /\ t[Len(s) + 1] = r
  BY <1>1, AppendProperties, LenProperties DEF Frames
<1>. HIDE DEF t
<1>3. ValidLen(s) \in 0 .. Len(s) /\ Readable(s) = 1 .. ValidLen(s)
  BY ReadableIsPrefix
<1>4. ASSUME ValidLen(s) # Len(s), NEW id
      PROVE  Decoded("ours", t, id) = Decoded("ours", s, id)
  <2>1. ValidLen(s) + 1 \in DOMAIN s /\ s[ValidLen(s) + 1] = Unreadable
    BY <1>4, ReadableIsPrefix
  <2>2. Readable(t) = Readable(s)
    <3>1. ASSUME NEW i \in Readable(t)
          PROVE  i \in Readable(s)
      <4>1. i \in 1 .. Len(s) + 1 /\ \A j \in 1 .. i : t[j] # Unreadable
        BY <1>2 DEF Readable
      <4>2. ~(ValidLen(s) + 1 <= i)
        BY <1>1, <1>2, <1>3, <2>1, <4>1
      <4>. QED
        BY <1>1, <1>3, <4>1, <4>2
    <3>2. ASSUME NEW i \in Readable(s)
          PROVE  i \in Readable(t)
      BY <1>1, <1>2 DEF Readable
    <3>. QED
      BY <3>1, <3>2
  <2>3. \A i \in Readable(s) : s[i] = t[i]
    BY <1>1, <1>2, <1>3
  <2>. QED
    BY <1>2, <2>2, <2>3, DecodedByPrefix
<1>5. ASSUME ValidLen(s) = Len(s)
      PROVE  /\ ValidLen(t) = Len(t)
             /\ Readable(t) = 1 .. Len(s) + 1
  <2>1. \A i \in 1 .. Len(s) : s[i] # Unreadable
    BY <1>1, <1>3, <1>5 DEF Readable
  <2>2. r # Unreadable
    BY ValueAssumption
  <2>3. \A i \in 1 .. Len(s) + 1 : t[i] # Unreadable
    BY <1>1, <1>2, <2>1, <2>2
  <2>4. Readable(t) = 1 .. Len(s) + 1
    BY <1>1, <1>2, <2>3 DEF Readable
  <2>. QED
    BY <1>1, <1>2, <2>4, FS_Interval DEF ValidLen
<1>6. ASSUME ValidLen(s) = Len(s), NEW id
      PROVE  Decoded("ours", t, id) = IF id = r.id THEN r.run ELSE Decoded("ours", s, id)
  <2>1. At(t, id) = IF id = r.id THEN At(s, id) \cup {Len(s) + 1} ELSE At(s, id)
    <3>1. ASSUME NEW i \in 1 .. Len(s) + 1
          PROVE  i \in At(t, id) <=> (i \in At(s, id) \/ (id = r.id /\ i = Len(s) + 1))
      <4>1. CASE i = Len(s) + 1
        BY <1>1, <1>2, <1>3, <1>5, <1>6, <4>1 DEF At
      <4>2. CASE i # Len(s) + 1
        <5>1. i \in 1 .. Len(s)
          BY <1>1, <4>2
        <5>. QED
          BY <1>1, <1>2, <1>3, <1>5, <1>6, <4>2, <5>1 DEF At
      <4>. QED
        BY <4>1, <4>2
    <3>2. At(t, id) \subseteq 1 .. Len(s) + 1 /\ At(s, id) \subseteq 1 .. Len(s) + 1
      BY <1>1, <1>3, <1>5, <1>6 DEF At
    <3>3. Len(s) + 1 \in 1 .. Len(s) + 1
      BY <1>1
    <3>4. CASE id = r.id
      <4>1. At(t, id) = At(s, id) \cup {Len(s) + 1}
        BY <3>1, <3>2, <3>3, <3>4
      <4>. QED
        BY <3>4, <4>1
    <3>5. CASE id # r.id
      <4>1. At(t, id) = At(s, id)
        BY <3>1, <3>2, <3>5
      <4>. QED
        BY <3>5, <4>1
    <3>. QED
      BY <3>4, <3>5
  <2>2. CASE id = r.id
    <3>1. Len(s) + 1 \in At(t, id)
      BY <2>1, <2>2
    <3>2. Max(At(t, id)) \in At(t, id) /\ \A i \in At(t, id) : i <= Max(At(t, id))
      BY <1>2, <3>1, DecodedIsLast
    <3>3. Max(At(t, id)) \in 1 .. Len(s) + 1
      BY <1>5, <1>6, <3>2 DEF At
    <3>4. Max(At(t, id)) = Len(s) + 1
      BY <1>1, <3>1, <3>2, <3>3
    <3>. QED
      BY <1>2, <2>2, <3>1, <3>4, DecodedIsLast
  <2>3. CASE id # r.id
    <3>1. At(t, id) = At(s, id)
      BY <2>1, <2>3
    <3>2. CASE At(s, id) = {}
      BY <1>2, <2>3, <3>1, <3>2, DecodedIsLast
    <3>3. CASE At(s, id) # {}
      <4>1. Max(At(s, id)) \in At(s, id)
        BY <3>3, DecodedIsLast
      <4>2. Max(At(s, id)) \in 1 .. Len(s)
        BY <1>3, <1>6, <4>1 DEF At
      <4>. QED
        BY <1>2, <2>3, <3>1, <3>3, <4>2, DecodedIsLast
    <3>. QED
      BY <3>2, <3>3
  <2>. QED
    BY <2>2, <2>3
<1>7. \A i \in DOMAIN t : t[i] = r \/ (i \in DOMAIN s /\ t[i] = s[i])
  BY <1>1, <1>2
<1>8. t = Append(s, r)
  BY DEF t
<1>. QED
  BY <1>2, <1>4, <1>5, <1>6, <1>7, <1>8

\* A sequence made from a finite set holds its elements and nothing else.
LEMMA SetToSeqHolds ==
  ASSUME NEW S, IsFiniteSet(S)
  PROVE  /\ SetToSeq(S) \in Seq(S)
         /\ \A x \in S : \E i \in DOMAIN SetToSeq(S) : SetToSeq(S)[i] = x
<1>. DEFINE n == Cardinality(S)
            f == SetToSeq(S)
<1>1. n \in Nat /\ ExistsBijection(1 .. n, S)
  BY FS_CardinalityType
<1>2. PICK g \in Bijection(1 .. n, S) : TRUE
  BY <1>1 DEF ExistsBijection
<1>3. g \in [1 .. n -> S] /\ IsInjective(g)
  BY <1>2 DEF Bijection, Injection
<1>4. f \in [1 .. n -> S] /\ IsInjective(f)
  BY <1>3 DEF SetToSeq
<1>. HIDE DEF f
<1>5. f \in Injection(1 .. n, S)
  BY <1>4 DEF Injection
<1>6. Cardinality(1 .. n) = n
  BY <1>1, FS_Interval
<1>7. f \in Surjection(1 .. n, S)
  BY <1>5, <1>6, FS_Injection
<1>8. f \in Seq(S)
  BY <1>1, <1>4, SeqDef
<1>9. \A x \in S : \E i \in DOMAIN f : f[i] = x
  BY <1>4, <1>7 DEF Surjection
<1>10. f = SetToSeq(S)
  BY DEF f
<1>. QED
  BY <1>8, <1>9, <1>10

\* A journal written from a map says what the map says.
LEMMA MapIsRead ==
  ASSUME NEW m \in [Ids -> Runs]
  PROVE  LET q == SetToSeq({[id |-> id, run |-> m[id]] : id \in {i \in Ids : m[i] # 0}})
         IN /\ q \in Seq(Frames)
            /\ \A i \in DOMAIN q : q[i] \in Record /\ q[i].run = m[q[i].id]
            /\ \A id \in Ids : Decoded("ours", q, id) = m[id]
<1>. DEFINE S == {[id |-> id, run |-> m[id]] : id \in {i \in Ids : m[i] # 0}}
            q == SetToSeq(S)
<1>1. \A r \in S : r \in Record /\ r.run = m[r.id] /\ r.run # 0
  <2>1. ASSUME NEW id \in Ids, m[id] # 0
        PROVE  [id |-> id, run |-> m[id]] \in Record
    BY <2>1, BoundAssumption DEF Record, Runs
  <2>. QED
    BY <2>1
<1>2. \A id \in Ids : m[id] # 0 => [id |-> id, run |-> m[id]] \in S
  OBVIOUS
<1>. HIDE DEF S
<1>3. IsFiniteSet(S)
  <2>. DEFINE f == [r \in S |-> r.id]
  <2>1. \A r \in S : r.id \in Ids /\ r = [id |-> r.id, run |-> r.run]
    BY <1>1 DEF Record
  <2>2. f \in [S -> Ids]
    BY <2>1
  <2>3. \A a, b \in S : f[a] = f[b] => a = b
    BY <1>1, <2>1
  <2>4. f \in Injection(S, Ids)
    BY <2>2, <2>3 DEF Injection, IsInjective
  <2>. HIDE DEF f
  <2>. QED
    BY <2>4, BoundAssumption, FS_Injection
<1>4. q \in Seq(S) /\ \A x \in S : \E i \in DOMAIN q : q[i] = x
  BY <1>3, SetToSeqHolds
<1>. HIDE DEF q
<1>5. q \in Seq(Frames)
  <2>1. S \subseteq Frames
    BY <1>1 DEF Frames
  <2>. QED
    BY <1>4, <2>1, SeqMonotonic
<1>6. \A i \in DOMAIN q : q[i] \in S
  BY <1>4, LenProperties, ElementOfSeq
<1>7. Readable(q) = DOMAIN q
  <2>1. \A i \in DOMAIN q : q[i] # Unreadable
    BY <1>1, <1>6, ValueAssumption
  <2>2. DOMAIN q = 1 .. Len(q) /\ Len(q) \in Nat
    BY <1>4, LenProperties
  <2>. QED
    BY <2>1, <2>2 DEF Readable
<1>8. ASSUME NEW id \in Ids
      PROVE  Decoded("ours", q, id) = m[id]
  <2>1. CASE m[id] = 0
    <3>1. At(q, id) = {}
      BY <1>1, <1>6, <1>7, <2>1 DEF At
    <3>. QED
      BY <1>5, <2>1, <3>1, DecodedIsLast
  <2>2. CASE m[id] # 0
    <3>1. PICK i \in DOMAIN q : q[i] = [id |-> id, run |-> m[id]]
      BY <1>2, <1>4, <2>2
    <3>2. i \in At(q, id)
      BY <1>7, <3>1 DEF At
    <3>3. Max(At(q, id)) \in At(q, id) /\ Decoded("ours", q, id) = q[Max(At(q, id))].run
      BY <1>5, <3>2, DecodedIsLast
    <3>. QED
      BY <1>1, <1>6, <1>7, <3>3 DEF At
  <2>. QED
    BY <2>1, <2>2
<1>9. \A i \in DOMAIN q : q[i] \in Record /\ q[i].run = m[q[i].id]
  BY <1>1, <1>6
<1>10. q = SetToSeq({[id |-> id, run |-> m[id]] : id \in {i \in Ids : m[i] # 0}})
  BY DEF q, S
<1>. QED
  BY <1>5, <1>8, <1>9, <1>10

-----------------------------------------------------------------------------
(* The inductive invariant.                                                 *)

\* No record is of a run that has not happened.
RecordsBound ==
  \A i \in DOMAIN frames : frames[i] \in Record => frames[i].run <= runs[frames[i].id]

\* Journal::record: what was loaded is still the file's extent when the first
\* append cuts it; an open file has our header and, unless an append was cut
\* short, nothing unreadable.
WriterInv ==
  /\ pc # "off" /\ ~open /\ loaded # None /\ header = "ours" => loaded = Extent
  /\ pc # "off" /\ open => header = "ours" /\ (short \/ ValidLen(frames) = Len(frames))
  /\ pc = "magic" => frames = <<>> /\ header = "foreign" /\ ~open
  /\ pc = "frame" => open
  /\ pc \in {"magic", "frame"} => runs[current] > 0

\* The engine's maps are never behind the file, and are the file where no torn
\* frame hides a record.
MemoryInv ==
  pc # "off" => \A id \in Ids : /\ Recovered(id) <= Kept(id) /\ Kept(id) <= runs[id]
                                /\ id \notin behind => Kept(id) = Recovered(id)

\* TypeOK, values and flags apart.
DataTypes ==
  /\ header \in {"absent", "foreign", "ours"}
  /\ frames \in Seq(Frames)
  /\ pc \in {"off", "idle", "magic", "frame", "compact"}
  /\ left \subseteq Ids /\ current \in Ids
  /\ previous \in [Ids -> Runs] /\ recorded \in [Ids -> Runs]
  /\ loaded \in {None} \cup [file : Nat, valid : Nat]
  /\ runs \in [Ids -> Runs] /\ reported \in [Ids -> Runs] /\ behind \subseteq Ids
  /\ crashes \in Nat /\ damages \in Nat

FlagTypes == open \in BOOLEAN /\ short \in BOOLEAN

JournalInv ==
  TypeOK /\ RecordsBound /\ WriterInv /\ MemoryInv /\ CleanReportsRecovered

LEMMA TypesApart ==
  (TypeOK <=> DataTypes /\ FlagTypes) /\ (TypeOK' <=> (DataTypes /\ FlagTypes)')
BY DEF TypeOK, DataTypes, FlagTypes, Frames

\* JournalInv is more than ReportsSurvive.
LEMMA InvIsEnough ==
  JournalInv => ReportsSurvive
BY DEF JournalInv, ReportsSurvive, MemoryInv, MemoryIsTheFile

\* What the decoder finds was run.
LEMMA RecoveredBound ==
  ASSUME TypeOK, RecordsBound, NEW id \in Ids
  PROVE  Recovered(id) \in Runs /\ Recovered(id) <= runs[id]
<1>1. frames \in Seq(Frames) /\ runs[id] \in Nat
  BY DEF TypeOK, Frames, Runs
<1>2. Recovered(id) \in Runs
  BY <1>1, DecodedType DEF Recovered
<1>3. CASE Recovered(id) = 0
  BY <1>1, <1>3, <1>2
<1>4. CASE Recovered(id) # 0
  <2>1. PICK i \in DOMAIN frames : frames[i] \in Record /\ frames[i].id = id
                                   /\ frames[i].run = Recovered(id)
    BY <1>1, <1>4, DecodedType DEF Recovered
  <2>. QED
    BY <1>2, <2>1 DEF RecordsBound
<1>. QED
  BY <1>2, <1>3, <1>4

\* The first append keeps what is readable and nothing else.
LEMMA CutKeepsReadable ==
  ASSUME TypeOK, WriterInv, pc # "off", ~open, header = "ours"
  PROVE  Cut(frames) = SubSeq(frames, 1, ValidLen(frames))
<1>1. loaded # None => loaded = Extent
  BY DEF WriterInv
<1>2. Extent.valid = ValidLen(frames)
  BY DEF Extent
<1>3. (IF loaded # None /\ loaded.file = Len(frames) THEN loaded.valid ELSE ValidLen(frames))
      = ValidLen(frames)
  BY <1>1, <1>2
<1>. QED
  BY <1>3 DEF Cut

LEMMA InitHolds ==
  Init => JournalInv
<1>. SUFFICES ASSUME Init
              PROVE  JournalInv
  OBVIOUS
<1>1. <<>> \in Seq(Frames) /\ frames = <<>> /\ DOMAIN frames = {}
  BY EmptySeq DEF Init
<1>2. TypeOK
  <2>1. DataTypes
    BY <1>1, BoundAssumption DEF Init, DataTypes, Nothing, Runs
  <2>2. FlagTypes
    BY DEF Init, FlagTypes
  <2>. QED
    BY <2>1, <2>2, TypesApart
<1>3. RecordsBound
  BY <1>1 DEF RecordsBound
<1>4. WriterInv /\ MemoryInv
  BY DEF Init, WriterInv, MemoryInv
<1>5. \A id \in Ids : reported[id] = 0 /\ Recovered(id) = 0
  BY DEF Init, Nothing, Recovered, Decoded
<1>6. CleanReportsRecovered
  BY <1>5 DEF CleanReportsRecovered
<1>. QED
  BY <1>2, <1>3, <1>4, <1>6 DEF JournalInv

\* A step that changes no frame and no run.
SameFile == header' = header /\ frames' = frames /\ runs' = runs

LEMMA SameFileKeeps ==
  ASSUME SameFile
  PROVE  /\ RecordsBound => RecordsBound'
         /\ \A id : Recovered(id)' = Recovered(id)
         /\ Extent' = Extent /\ ValidLen(frames') = ValidLen(frames)
BY DEF SameFile, RecordsBound, Recovered, Extent

\* What every step of the engine has to show.
StepHolds == JournalInv' /\ FirstAppendIsClean /\ EngineLosesNothing

LEMMA StartHolds ==
  JournalInv /\ Start => StepHolds
<1>. SUFFICES ASSUME JournalInv, Start
              PROVE  StepHolds
  OBVIOUS
<1>1. TypeOK /\ RecordsBound /\ CleanReportsRecovered
  BY DEF JournalInv
<1>2. SameFile /\ reported' = reported /\ behind' = behind
  BY DEF Start, SameFile, disk
<1>3. \A id \in Ids : Recovered(id) \in Runs /\ Recovered(id) <= runs[id]
  BY <1>1, RecoveredBound
<1>4. /\ RecordsBound' /\ \A id : Recovered(id)' = Recovered(id)
      /\ Extent' = Extent /\ ValidLen(frames') = ValidLen(frames)
  BY <1>1, <1>2, SameFileKeeps
<1>5. Extent \in [file : Nat, valid : Nat]
  <2>1. frames \in Seq(Frames)
    BY <1>1 DEF TypeOK, Frames
  <2>2. Len(frames) \in Nat /\ ValidLen(frames) \in Nat
    BY <2>1, LenProperties, ReadableIsPrefix
  <2>. QED
    BY <2>2 DEF Extent
<1>6. TypeOK'
  <2>1. DataTypes'
    <3>1. DataTypes
      BY <1>1, TypesApart
    <3>2. previous' \in [Ids -> Runs] /\ recorded' \in [Ids -> Runs]
      BY <1>3, BoundAssumption DEF Start, Nothing, Runs
    <3>3. loaded' \in {None} \cup [file : Nat, valid : Nat]
      BY <1>5 DEF Start
    <3>4. left' \subseteq Ids /\ pc' = "idle"
      BY DEF Start
    <3>5. UNCHANGED <<header, frames, current, runs, reported, behind, crashes, damages>>
      BY DEF Start, disk
    <3>. QED
      BY <3>1, <3>2, <3>3, <3>4, <3>5 DEF DataTypes
  <2>2. FlagTypes'
    BY DEF Start, FlagTypes
  <2>. QED
    BY <2>1, <2>2, TypesApart
<1>7. WriterInv'
  BY <1>2, <1>4 DEF Start, WriterInv, SameFile
<1>8. MemoryInv'
  <2>1. \A id \in Ids : Kept(id)' = Recovered(id)
    BY DEF Start, Kept, Nothing
  <2>2. \A id \in Ids : Recovered(id)' <= Kept(id)' /\ Kept(id)' <= runs'[id] /\ Kept(id)' = Recovered(id)'
    BY <1>2, <1>3, <1>4, <2>1 DEF SameFile, Runs
  <2>. QED
    BY <2>2 DEF MemoryInv
<1>9. CleanReportsRecovered'
  BY <1>1, <1>2, <1>4 DEF CleanReportsRecovered
<1>10. FirstAppendIsClean /\ EngineLosesNothing
  BY <1>3, <1>4 DEF Start, FirstAppendIsClean, EngineLosesNothing, Runs
<1>. QED
  BY <1>4, <1>6, <1>7, <1>8, <1>9, <1>10 DEF StepHolds, JournalInv

\* An append that finds the file open: no byte is written yet.
LEMMA OpenForHolds ==
  ASSUME NEW id \in Ids
  PROVE  JournalInv /\ OpenFor(id) => StepHolds
<1>. SUFFICES ASSUME JournalInv, OpenFor(id)
              PROVE  StepHolds
  OBVIOUS
<1>1. TypeOK /\ DataTypes /\ RecordsBound /\ WriterInv /\ MemoryInv /\ CleanReportsRecovered
  BY TypesApart DEF JournalInv
<1>2. frames \in Seq(Frames) /\ \A i \in Ids : Recovered(i) \in Runs /\ Recovered(i) <= runs[i]
  BY <1>1, RecoveredBound DEF DataTypes
<1>3. /\ pc = "idle" /\ current' = id /\ left' = left \ {id}
      /\ runs[id] < MaxRuns /\ runs' = [runs EXCEPT ![id] = @ + 1]
      /\ UNCHANGED <<previous, recorded, loaded, reported, short, behind, crashes, damages>>
  BY DEF OpenFor
<1>4. /\ runs' \in [Ids -> Runs] /\ runs'[current'] > 0
      /\ \A i \in Ids : runs[i] <= runs'[i] /\ runs[i] \in Nat /\ runs'[i] \in Nat
  <2>1. runs \in [Ids -> Runs]
    BY <1>1 DEF DataTypes
  <2>2. runs[id] \in Nat /\ runs[id] + 1 \in Runs /\ runs[id] + 1 > 0
    BY <1>3, <2>1, BoundAssumption DEF Runs
  <2>3. runs' \in [Ids -> Runs]
    BY <1>3, <2>1, <2>2
  <2>4. \A i \in Ids : runs'[i] = IF i = id THEN runs[id] + 1 ELSE runs[i]
    BY <1>3, <2>1
  <2>5. \A i \in Ids : runs[i] \in Nat
    BY <2>1 DEF Runs
  <2>. QED
    BY <1>3, <2>2, <2>3, <2>4, <2>5
<1>5. \A i \in Ids : Kept(i)' = Kept(i) /\ Kept(i) \in Nat
  BY <1>1, <1>3 DEF Kept, DataTypes, Runs
\* Whatever happens to the file, its records stay what they were.
<1>6. ASSUME /\ header' \in {"absent", "foreign", "ours"} /\ frames' \in Seq(Frames)
             /\ pc' \in {"magic", "frame"} /\ FlagTypes'
             /\ \A i \in DOMAIN frames' : i \in DOMAIN frames /\ frames'[i] = frames[i]
             /\ \A i \in Ids : Recovered(i)' = Recovered(i)
             /\ WriterInv' /\ FirstAppendIsClean
      PROVE  StepHolds
  <2>1. DataTypes'
    BY <1>1, <1>3, <1>4, <1>6 DEF DataTypes
  <2>2. RecordsBound'
    <3>1. ASSUME NEW i \in DOMAIN frames', frames'[i] \in Record
          PROVE  frames'[i].run <= runs'[frames'[i].id]
      <4>1. i \in DOMAIN frames /\ frames'[i] = frames[i]
        BY <1>6
      <4>2. frames[i].run <= runs[frames[i].id] /\ frames[i].id \in Ids /\ frames[i].run \in Nat
        BY <1>1, <3>1, <4>1 DEF RecordsBound, Record
      <4>. QED
        BY <1>4, <4>1, <4>2
    <3>. QED
      BY <3>1 DEF RecordsBound
  <2>3. MemoryInv'
    <3>1. ASSUME NEW i \in Ids
          PROVE  /\ Recovered(i)' <= Kept(i)' /\ Kept(i)' <= runs'[i]
                 /\ i \notin behind' => Kept(i)' = Recovered(i)'
      <4>1. Recovered(i) <= Kept(i) /\ Kept(i) <= runs[i] /\ (i \notin behind => Kept(i) = Recovered(i))
        BY <1>1, <1>3 DEF MemoryInv
      <4>2. Recovered(i) \in Nat
        BY <1>2 DEF Runs
      <4>. QED
        BY <1>3, <1>4, <1>5, <1>6, <4>1, <4>2
    <3>. QED
      BY <3>1 DEF MemoryInv
  <2>4. CleanReportsRecovered'
    BY <1>1, <1>3, <1>6 DEF CleanReportsRecovered
  <2>5. EngineLosesNothing
    BY <1>2, <1>6 DEF EngineLosesNothing, Runs
  <2>. QED
    BY <1>6, <2>1, <2>2, <2>3, <2>4, <2>5, TypesApart DEF StepHolds, JournalInv
<1>7. CASE open /\ pc' = "frame" /\ UNCHANGED <<disk, open>>
  <2>1. header = "ours" /\ (short \/ ValidLen(frames) = Len(frames))
    BY <1>1, <1>3, <1>7 DEF WriterInv
  <2>2. header' = header /\ frames' = frames /\ (open' <=> open) /\ (short' <=> short)
    BY <1>3, <1>7 DEF disk
  <2>3. WriterInv'
    BY <1>4, <1>7, <2>1, <2>2 DEF WriterInv
  <2>4. FlagTypes'
    BY <1>1, <1>3, <1>7, TypesApart DEF FlagTypes
  <2>5. \A i : Recovered(i)' = Recovered(i)
    BY <2>2 DEF Recovered
  <2>6. FirstAppendIsClean
    BY <1>7 DEF FirstAppendIsClean
  <2>. QED
    BY <1>1, <1>6, <1>7, <2>2, <2>3, <2>4, <2>5, <2>6 DEF DataTypes
<1>8. CASE ~open /\ header = "ours" /\ frames' = Cut(frames) /\ open' = TRUE /\ pc' = "frame" /\ header' = header
  <2>1. frames' = SubSeq(frames, 1, ValidLen(frames))
    BY <1>1, <1>3, <1>8, CutKeepsReadable
  <2>2. /\ frames' \in Seq(Frames) /\ ValidLen(frames') = Len(frames')
        /\ \A i \in DOMAIN frames' : i \in DOMAIN frames /\ frames'[i] = frames[i]
        /\ \A h, i : Decoded(h, frames', i) = Decoded(h, frames, i)
    BY <1>2, <2>1, CutIsClean
  <2>3. WriterInv'
    BY <1>4, <1>8, <2>2 DEF WriterInv
  <2>4. FlagTypes'
    BY <1>1, <1>3, <1>8, TypesApart DEF FlagTypes
  <2>5. \A i : Recovered(i)' = Recovered(i)
    BY <1>8, <2>2 DEF Recovered
  <2>6. FirstAppendIsClean
    BY <2>2 DEF FirstAppendIsClean
  <2>. QED
    BY <1>6, <1>8, <2>2, <2>3, <2>4, <2>5, <2>6
<1>9. CASE ~open /\ header # "ours" /\ header' = "foreign" /\ frames' = <<>> /\ pc' = "magic" /\ open' = open
  <2>1. frames' \in Seq(Frames) /\ DOMAIN frames' = {}
    BY <1>9, EmptySeq
  <2>2. WriterInv'
    BY <1>4, <1>9 DEF WriterInv
  <2>3. FlagTypes'
    BY <1>1, <1>3, <1>9, TypesApart DEF FlagTypes
  <2>4. \A i : Recovered(i)' = Recovered(i)
    BY <1>9 DEF Recovered, Decoded
  <2>5. FirstAppendIsClean
    BY <1>9 DEF FirstAppendIsClean
  <2>. QED
    BY <1>6, <1>9, <2>1, <2>2, <2>3, <2>4, <2>5
<1>. QED
  BY <1>7, <1>8, <1>9 DEF OpenFor

\* A created file gets its header: nothing was or is recovered from it.
LEMMA WriteMagicHolds ==
  JournalInv /\ WriteMagic => StepHolds
<1>. SUFFICES ASSUME JournalInv, WriteMagic
              PROVE  StepHolds
  OBVIOUS
<1>1. TypeOK /\ DataTypes /\ RecordsBound /\ WriterInv /\ MemoryInv /\ CleanReportsRecovered
  BY TypesApart DEF JournalInv
<1>2. /\ pc = "magic" /\ header' = "ours" /\ open' = TRUE /\ pc' = "frame"
      /\ UNCHANGED <<frames, left, previous, recorded, loaded, current>>
      /\ UNCHANGED <<runs, reported, behind, crashes, damages>> /\ short' = short
  BY DEF WriteMagic, history
<1>3. frames = <<>> /\ header = "foreign" /\ ~open /\ runs[current] > 0
  BY <1>1, <1>2 DEF WriterInv
<1>4. <<>> \in Seq(Frames) /\ Len(<<>>) = 0 /\ DOMAIN <<>> = {}
  BY EmptySeq
<1>5. Readable(<<>>) = {} /\ ValidLen(<<>>) = Len(<<>>)
  BY <1>4, FS_EmptySet DEF Readable, ValidLen
<1>6. \A id : Recovered(id) = 0 /\ Recovered(id)' = 0
  <2>1. \A id : Recovered(id) = 0
    BY <1>3 DEF Recovered, Decoded
  <2>2. \A id : At(<<>>, id) = {}
    BY <1>5 DEF At
  <2>3. \A id : Decoded("ours", <<>>, id) = 0
    BY <1>4, <2>2, DecodedIsLast
  <2>. QED
    BY <1>2, <1>3, <2>1, <2>3 DEF Recovered
<1>7. DataTypes'
  BY <1>1, <1>2 DEF DataTypes
<1>8. FlagTypes'
  BY <1>1, <1>2, TypesApart DEF FlagTypes
<1>9. RecordsBound'
  BY <1>2, <1>3, <1>4 DEF RecordsBound
<1>10. WriterInv'
  BY <1>2, <1>3, <1>5 DEF WriterInv
<1>11. MemoryInv'
  <2>1. \A id \in Ids : Kept(id)' = Kept(id)
    BY <1>2 DEF Kept
  <2>. QED
    BY <1>1, <1>2, <1>6, <2>1 DEF MemoryInv
<1>12. CleanReportsRecovered'
  BY <1>1, <1>2, <1>6 DEF CleanReportsRecovered
<1>13. FirstAppendIsClean /\ EngineLosesNothing
  BY <1>2, <1>3, <1>5, <1>6 DEF FirstAppendIsClean, EngineLosesNothing
<1>. QED
  BY <1>7, <1>8, <1>9, <1>10, <1>11, <1>12, <1>13, TypesApart DEF StepHolds, JournalInv

\* A whole frame: read at once, unless it lies behind a torn one.
LEMMA FrameIsRead ==
  ASSUME JournalInv, pc = "frame"
  PROVE  /\ header = "ours" /\ open /\ Frame \in Record /\ runs[current] > 0
         /\ short \/ ValidLen(frames) = Len(frames)
         /\ Appended(frames) \in Seq(Frames)
         /\ \A i \in DOMAIN Appended(frames) :
              Appended(frames)[i] = Frame \/ (i \in DOMAIN frames /\ Appended(frames)[i] = frames[i])
         /\ ValidLen(frames) = Len(frames) => ValidLen(Appended(frames)) = Len(Appended(frames))
         /\ \A id \in Ids : \/ /\ ValidLen(frames) # Len(frames) \/ id # current
                              /\ Decoded("ours", Appended(frames), id) = Recovered(id)
                           \/ /\ id = current
                              /\ Decoded("ours", Appended(frames), id) = runs[current]
<1>1. TypeOK /\ DataTypes /\ RecordsBound /\ WriterInv
  BY TypesApart DEF JournalInv
<1>2. header = "ours" /\ open /\ runs[current] > 0 /\ (short \/ ValidLen(frames) = Len(frames))
  BY <1>1 DEF WriterInv
<1>3. Frame \in Record /\ Frame.id = current /\ Frame.run = runs[current]
  BY <1>1, <1>2, BoundAssumption DEF Frame, Record, DataTypes, Runs
<1>4. frames \in Seq(Frames)
  BY <1>1 DEF DataTypes
<1>5. Appended(frames) = Append(frames, Frame)
  BY DEF Appended
<1>6. \A id : Recovered(id) = Decoded("ours", frames, id)
  BY <1>2 DEF Recovered
<1>. QED
  BY <1>2, <1>3, <1>4, <1>5, <1>6, AppendRecord

\* What was appended keeps the records within the runs.
LEMMA AppendedBound ==
  ASSUME JournalInv, pc = "frame"
  PROVE  \A i \in DOMAIN Appended(frames) : Appended(frames)[i] \in Record =>
           Appended(frames)[i].run <= runs[Appended(frames)[i].id]
<1>1. Frame.id = current /\ Frame.run = runs[current] /\ runs[current] \in Nat
  BY TypesApart DEF Frame, JournalInv, DataTypes, Runs
<1>2. ASSUME NEW i \in DOMAIN Appended(frames), Appended(frames)[i] \in Record
      PROVE  Appended(frames)[i].run <= runs[Appended(frames)[i].id]
  <2>1. CASE Appended(frames)[i] = Frame
    BY <1>1, <2>1
  <2>2. CASE i \in DOMAIN frames /\ Appended(frames)[i] = frames[i]
    BY <1>2, <2>2 DEF JournalInv, RecordsBound
  <2>. QED
    BY <2>1, <2>2, FrameIsRead
<1>. QED
  BY <1>2

LEMMA WriteFrameHolds ==
  JournalInv /\ WriteFrame => StepHolds
<1>. SUFFICES ASSUME JournalInv, WriteFrame
              PROVE  StepHolds
  OBVIOUS
<1>1. TypeOK /\ DataTypes /\ RecordsBound /\ WriterInv /\ MemoryInv /\ CleanReportsRecovered
  BY TypesApart DEF JournalInv
<1>2. /\ pc = "frame" /\ frames' = Appended(frames) /\ pc' = "idle"
      /\ recorded' = [recorded EXCEPT ![current] = runs[current]]
      /\ reported' = [reported EXCEPT ![current] = runs[current]]
      /\ UNCHANGED <<header, left, previous, loaded, current, runs, crashes, damages>>
  BY DEF WriteFrame
<1>3. (open' <=> open) /\ (short' <=> short) /\ FlagTypes'
  BY <1>1, TypesApart DEF WriteFrame, FlagTypes
<1>4. (short => current \in behind') /\ \A id : id # current => (id \in behind' <=> id \in behind)
  BY DEF WriteFrame
<1>5. behind' \subseteq Ids
  BY <1>1 DEF WriteFrame, DataTypes
<1>6. current \in Ids /\ runs[current] \in Runs /\ frames \in Seq(Frames)
  BY <1>1 DEF DataTypes
<1>7. \A id \in Ids : Recovered(id) \in Nat /\ Recovered(id) <= runs[id] /\ runs[id] \in Nat
  BY <1>1, RecoveredBound DEF DataTypes, Runs
<1>8. \A id \in Ids : \/ /\ ValidLen(frames) # Len(frames) \/ id # current
                         /\ Recovered(id)' = Recovered(id)
                      \/ id = current /\ Recovered(id)' = runs[current]
  BY <1>2, FrameIsRead DEF Recovered
<1>9. \A id \in Ids \ {current} : Recovered(id)' = Recovered(id) /\ Kept(id)' = Kept(id)
                                 /\ reported'[id] = reported[id]
  BY <1>1, <1>2, <1>8 DEF Kept, DataTypes
<1>10. \A id \in Ids : id = current => Kept(id)' = runs[id] /\ reported'[id] = runs[id]
  <2>1. recorded'[current] = runs[current] /\ runs[current] > 0
    BY <1>1, <1>2, <1>6, FrameIsRead DEF DataTypes
  <2>2. reported'[current] = runs[current]
    BY <1>1, <1>2, <1>6 DEF DataTypes
  <2>. QED
    BY <1>2, <1>7, <1>6, <2>1, <2>2 DEF Kept
<1>11. ASSUME NEW id \in Ids, id = current
       PROVE  /\ Recovered(id) <= Recovered(id)' /\ Recovered(id)' <= runs[id]
              /\ id \notin behind' => Recovered(id)' = runs[id]
  <2>1. ~short => ValidLen(frames) = Len(frames)
    BY <1>2, FrameIsRead
  <2>2. CASE ValidLen(frames) = Len(frames)
    <3>1. Recovered(id)' = runs[id]
      BY <1>8, <1>11, <2>2
    <3>. QED
      BY <1>7, <3>1
  <2>3. CASE ValidLen(frames) # Len(frames)
    <3>1. id \in behind'
      BY <1>4, <1>11, <2>1, <2>3
    <3>2. Recovered(id)' = Recovered(id) \/ Recovered(id)' = runs[id]
      BY <1>8, <1>11
    <3>. QED
      BY <1>7, <3>1, <3>2
  <2>. QED
    BY <2>2, <2>3
<1>12. DataTypes'
  <2>1. frames' \in Seq(Frames)
    BY <1>2, FrameIsRead
  <2>2. recorded' \in [Ids -> Runs] /\ reported' \in [Ids -> Runs]
    BY <1>1, <1>2, <1>6 DEF DataTypes
  <2>. QED
    BY <1>1, <1>2, <1>5, <2>1, <2>2 DEF DataTypes
<1>13. RecordsBound'
  BY <1>2, AppendedBound DEF RecordsBound
<1>14. WriterInv'
  <2>1. header' = "ours" /\ open' /\ pc' = "idle"
    BY <1>2, <1>3, FrameIsRead
  <2>2. short' \/ ValidLen(frames') = Len(frames')
    BY <1>2, <1>3, FrameIsRead
  <2>. QED
    BY <2>1, <2>2 DEF WriterInv
<1>15. MemoryInv'
  <2>1. ASSUME NEW id \in Ids
        PROVE  /\ Recovered(id)' <= Kept(id)' /\ Kept(id)' <= runs'[id]
               /\ id \notin behind' => Kept(id)' = Recovered(id)'
    <3>1. CASE id = current
      BY <1>2, <1>7, <1>10, <1>11, <3>1
    <3>2. CASE id # current
      BY <1>1, <1>2, <1>4, <1>9, <3>2 DEF MemoryInv
    <3>. QED
      BY <3>1, <3>2
  <2>. QED
    BY <2>1 DEF MemoryInv
<1>16. CleanReportsRecovered'
  <2>1. ASSUME NEW id \in Ids \ behind'
        PROVE  reported'[id] <= Recovered(id)'
    <3>1. CASE id = current
      BY <1>7, <1>10, <1>11, <2>1, <3>1
    <3>2. CASE id # current
      BY <1>1, <1>4, <1>9, <2>1, <3>2 DEF CleanReportsRecovered
    <3>. QED
      BY <3>1, <3>2
  <2>. QED
    BY <2>1 DEF CleanReportsRecovered
<1>17. FirstAppendIsClean
  BY <1>2, <1>3, FrameIsRead DEF FirstAppendIsClean
<1>18. EngineLosesNothing
  <2>1. ASSUME NEW id \in Ids
        PROVE  Recovered(id) <= Recovered(id)'
    <3>1. CASE id = current
      BY <1>11, <3>1
    <3>2. CASE id # current
      BY <1>7, <1>9, <3>2
    <3>. QED
      BY <3>1, <3>2
  <2>. QED
    BY <2>1 DEF EngineLosesNothing
<1>. QED
  BY <1>3, <1>12, <1>13, <1>14, <1>15, <1>16, <1>17, <1>18, TypesApart DEF StepHolds, JournalInv

\* A step that changes no record that can be read, no run and no report.
Quiet ==
  /\ \A id : Recovered(id)' = Recovered(id)
  /\ UNCHANGED <<previous, recorded, runs, reported, behind>>

\* What such a step keeps.
LEMMA QuietHolds ==
  ASSUME TypeOK, RecordsBound, CleanReportsRecovered, Quiet
  PROVE  /\ CleanReportsRecovered' /\ EngineLosesNothing
         /\ (MemoryInv /\ (pc' # "off" => pc # "off")) => MemoryInv'
<1>1. CleanReportsRecovered'
  BY DEF Quiet, CleanReportsRecovered
<1>2. \A id \in Ids : Recovered(id) \in Nat
  BY RecoveredBound DEF Runs
<1>3. EngineLosesNothing
  BY <1>2 DEF Quiet, EngineLosesNothing
<1>4. \A id : Kept(id)' = Kept(id)
  BY DEF Quiet, Kept
<1>5. ASSUME MemoryInv, pc' # "off" => pc # "off"
      PROVE  MemoryInv'
  BY <1>4, <1>5 DEF Quiet, MemoryInv
<1>. QED
  BY <1>1, <1>3, <1>5

\* A torn frame.
LEMMA TornKeeps ==
  ASSUME TypeOK, RecordsBound, frames' \in Torn(frames), header' = header, runs' = runs
  PROVE  /\ frames' \in Seq(Frames) /\ RecordsBound'
         /\ \A id : Recovered(id)' = Recovered(id)
<1>1. frames \in Seq(Frames)
  BY TypesApart DEF DataTypes
<1>2. /\ frames' \in Seq(Frames)
      /\ \A i \in DOMAIN frames' : frames'[i] \in Record => i \in DOMAIN frames /\ frames'[i] = frames[i]
      /\ \A h, id : Decoded(h, frames', id) = Decoded(h, frames, id)
  BY <1>1, TornIsHarmless
<1>3. RecordsBound'
  BY <1>2 DEF RecordsBound
<1>4. \A id : Recovered(id)' = Recovered(id)
  BY <1>2 DEF Recovered
<1>. QED
  BY <1>2, <1>3, <1>4

LEMMA ShortWriteHolds ==
  JournalInv /\ ShortWrite => StepHolds
<1>. SUFFICES ASSUME JournalInv, ShortWrite
              PROVE  StepHolds
  OBVIOUS
<1>1. TypeOK /\ DataTypes /\ RecordsBound /\ WriterInv /\ MemoryInv /\ CleanReportsRecovered
  BY TypesApart DEF JournalInv
<1>2. /\ (pc = "magic" /\ frames' = frames) \/ (pc = "frame" /\ frames' \in Torn(frames))
      /\ pc' = "idle" /\ (open' <=> open)
      /\ UNCHANGED <<header, left, previous, recorded, loaded, current,
                     runs, reported, behind, crashes, damages>>
  BY DEF ShortWrite
<1>3. FlagTypes'
  BY <1>1, TypesApart DEF ShortWrite, FlagTypes
<1>4. short' <=> (short \/ frames' # frames)
  BY DEF ShortWrite
<1>5. frames' \in Torn(frames)
  BY <1>2 DEF Torn
<1>6. frames' \in Seq(Frames) /\ RecordsBound' /\ \A id : Recovered(id)' = Recovered(id)
  BY <1>1, <1>2, <1>5, TornKeeps
<1>7. DataTypes'
  BY <1>1, <1>2, <1>6 DEF DataTypes
<1>8. WriterInv'
  <2>1. CASE pc = "magic"
    BY <1>1, <1>2, <2>1 DEF WriterInv
  <2>2. CASE pc = "frame"
    <3>1. open /\ header = "ours" /\ (short \/ ValidLen(frames) = Len(frames))
      BY <1>1, <2>2 DEF WriterInv
    <3>2. short' \/ ValidLen(frames') = Len(frames')
      BY <1>4, <3>1
    <3>. QED
      BY <1>2, <3>1, <3>2 DEF WriterInv
  <2>. QED
    BY <1>2, <2>1, <2>2
<1>9. CleanReportsRecovered' /\ EngineLosesNothing /\ MemoryInv'
  <2>1. Quiet
    BY <1>2, <1>6 DEF Quiet
  <2>. QED
    BY <1>1, <1>2, <2>1, QuietHolds
<1>10. FirstAppendIsClean
  BY <1>2 DEF FirstAppendIsClean
<1>. QED
  BY <1>3, <1>6, <1>7, <1>8, <1>9, <1>10, TypesApart DEF StepHolds, JournalInv

\* A step that only moves pc: the build ends, or save() fails.
LEMMA PcStepHolds ==
  ASSUME JournalInv, pc \in {"idle", "compact"}, pc' \in {"off", "compact"},
         UNCHANGED <<disk, left, previous, recorded, loaded, open, current, history>>
  PROVE  StepHolds
<1>1. TypeOK /\ DataTypes /\ RecordsBound /\ WriterInv /\ MemoryInv /\ CleanReportsRecovered
  BY TypesApart DEF JournalInv
<1>2. /\ UNCHANGED <<header, frames, left, previous, recorded, loaded, current,
                     runs, reported, behind, crashes, damages>>
      /\ (open' <=> open) /\ (short' <=> short)
  BY DEF disk, history
<1>3. FlagTypes'
  <2>1. open' = open /\ short' = short
    BY DEF history
  <2>. QED
    BY <1>1, <2>1, TypesApart DEF FlagTypes
<1>4. SameFile
  BY <1>2 DEF SameFile
<1>5. /\ RecordsBound' /\ \A id : Recovered(id)' = Recovered(id)
      /\ Extent' = Extent /\ ValidLen(frames') = ValidLen(frames)
  BY <1>1, <1>4, SameFileKeeps
<1>6. DataTypes'
  BY <1>1, <1>2 DEF DataTypes
<1>7. WriterInv'
  <2>1. pc # "off" /\ pc' \notin {"magic", "frame"}
    OBVIOUS
  <2>. QED
    BY <1>1, <1>2, <1>5, <2>1 DEF WriterInv
<1>8. CleanReportsRecovered' /\ EngineLosesNothing /\ MemoryInv'
  <2>1. Quiet
    BY <1>2, <1>5 DEF Quiet
  <2>. QED
    BY <1>1, <2>1, QuietHolds
<1>9. FirstAppendIsClean
  BY <1>2 DEF FirstAppendIsClean
<1>. QED
  BY <1>3, <1>5, <1>6, <1>7, <1>8, <1>9, TypesApart DEF StepHolds, JournalInv

LEMMA FinishHolds ==
  JournalInv /\ Finish => StepHolds
<1>. SUFFICES ASSUME JournalInv, Finish
              PROVE  StepHolds
  OBVIOUS
<1>1. pc \in {"idle", "compact"} /\ pc' \in {"off", "compact"}
  BY DEF Finish
<1>2. UNCHANGED <<disk, left, previous, recorded, loaded, open, current, history>>
  BY DEF Finish
<1>. QED
  BY <1>1, <1>2, PcStepHolds

LEMMA CompactFailsHolds ==
  JournalInv /\ CompactFails => StepHolds
<1>. SUFFICES ASSUME JournalInv, CompactFails
              PROVE  StepHolds
  OBVIOUS
<1>1. pc \in {"idle", "compact"} /\ pc' \in {"off", "compact"}
  BY DEF CompactFails
<1>2. UNCHANGED <<disk, left, previous, recorded, loaded, open, current, history>>
  BY DEF CompactFails
<1>. QED
  BY <1>1, <1>2, PcStepHolds

\* save() writes what the engine's maps say, and MemoryInv says that this is
\* what the file said, or more.
LEMMA CompactHolds ==
  JournalInv /\ Compact => StepHolds
<1>. SUFFICES ASSUME JournalInv, Compact
              PROVE  StepHolds
  OBVIOUS
<1>1. TypeOK /\ DataTypes /\ RecordsBound /\ WriterInv /\ MemoryInv /\ CleanReportsRecovered
  BY TypesApart DEF JournalInv
<1>2. /\ pc = "compact" /\ header' = "ours" /\ pc' = "off"
      /\ frames' = SetToSeq({[id |-> id, run |-> Kept(id)] : id \in {i \in Ids : Kept(i) # 0}})
      /\ behind' = {id \in behind : Kept(id) # reported[id]}
      /\ UNCHANGED <<left, previous, recorded, loaded, current, runs, reported, crashes, damages>>
      /\ (open' <=> open)
  BY DEF Compact
<1>3. FlagTypes'
  <2>1. open' = open /\ short' = short
    BY DEF Compact
  <2>. QED
    BY <1>1, <2>1, TypesApart DEF FlagTypes
<1>. DEFINE m == [id \in Ids |-> Kept(id)]
<1>4. m \in [Ids -> Runs]
  BY <1>1 DEF Kept, DataTypes
<1>5. frames' = SetToSeq({[id |-> id, run |-> m[id]] : id \in {i \in Ids : m[i] # 0}})
  <2>1. {i \in Ids : Kept(i) # 0} = {i \in Ids : m[i] # 0}
    OBVIOUS
  <2>2. \A i \in Ids : m[i] = Kept(i)
    OBVIOUS
  <2>. HIDE DEF m
  <2>3. {[id |-> id, run |-> Kept(id)] : id \in {i \in Ids : Kept(i) # 0}}
        = {[id |-> id, run |-> m[id]] : id \in {i \in Ids : m[i] # 0}}
    BY <2>1, <2>2
  <2>. QED
    BY <1>2, <2>3
<1>6. \A id \in Ids : m[id] = Kept(id)
  OBVIOUS
<1>. HIDE DEF m
<1>7. /\ frames' \in Seq(Frames)
      /\ \A i \in DOMAIN frames' : frames'[i] \in Record /\ frames'[i].run = m[frames'[i].id]
      /\ \A id \in Ids : Decoded("ours", frames', id) = m[id]
  BY <1>4, <1>5, MapIsRead
<1>8. \A id \in Ids : Recovered(id)' = Kept(id)
  BY <1>2, <1>6, <1>7 DEF Recovered
<1>9. \A id \in Ids : /\ Recovered(id) <= Kept(id) /\ Kept(id) <= runs[id]
                      /\ id \notin behind => Kept(id) = Recovered(id)
  BY <1>1, <1>2 DEF MemoryInv
<1>10. DataTypes'
  BY <1>1, <1>2, <1>7 DEF DataTypes
<1>11. RecordsBound'
  <2>1. ASSUME NEW i \in DOMAIN frames'
        PROVE  frames'[i].run <= runs'[frames'[i].id]
    <3>1. frames'[i].id \in Ids /\ frames'[i].run = Kept(frames'[i].id)
      BY <1>6, <1>7 DEF Record
    <3>. QED
      BY <1>2, <1>9, <3>1
  <2>. QED
    BY <2>1 DEF RecordsBound
<1>12. WriterInv' /\ MemoryInv'
  BY <1>2 DEF WriterInv, MemoryInv
<1>13. CleanReportsRecovered'
  <2>1. ASSUME NEW id \in Ids \ behind'
        PROVE  reported'[id] <= Recovered(id)'
    <3>1. Kept(id) \in Nat /\ reported[id] \in Nat /\ reported'[id] = reported[id]
      BY <1>1, <1>2, <1>4, <1>6 DEF DataTypes, Runs
    <3>2. CASE id \in behind
      BY <1>2, <1>8, <2>1, <3>1, <3>2
    <3>3. CASE id \notin behind
      BY <1>1, <1>8, <1>9, <2>1, <3>1, <3>3 DEF CleanReportsRecovered
    <3>. QED
      BY <3>2, <3>3
  <2>. QED
    BY <2>1 DEF CleanReportsRecovered
<1>14. FirstAppendIsClean /\ EngineLosesNothing
  BY <1>2, <1>8, <1>9 DEF FirstAppendIsClean, EngineLosesNothing
<1>. QED
  BY <1>3, <1>10, <1>11, <1>12, <1>13, <1>14, TypesApart DEF StepHolds, JournalInv

\* The process dies: at most a frame more, torn or whole.
LEMMA CrashHolds ==
  JournalInv /\ Crash => StepHolds
<1>. SUFFICES ASSUME JournalInv, Crash
              PROVE  StepHolds
  OBVIOUS
<1>1. TypeOK /\ DataTypes /\ RecordsBound /\ WriterInv /\ MemoryInv /\ CleanReportsRecovered
  BY TypesApart DEF JournalInv
<1>2. /\ pc # "off" /\ pc' = "off" /\ crashes' = crashes + 1 /\ (open' <=> open)
      /\ UNCHANGED <<header, left, previous, recorded, loaded, current, runs, reported, behind, damages>>
  BY DEF Crash, disk
<1>3. FlagTypes'
  <2>1. open' = open /\ short' = short
    BY DEF Crash
  <2>. QED
    BY <1>1, <2>1, TypesApart DEF FlagTypes
<1>4. WriterInv' /\ MemoryInv' /\ FirstAppendIsClean
  BY <1>2 DEF WriterInv, MemoryInv, FirstAppendIsClean
<1>5. ASSUME frames' \in Seq(Frames)
      PROVE  DataTypes'
  BY <1>1, <1>2, <1>5 DEF DataTypes
<1>6. CASE frames' \in Torn(frames)
  <2>1. frames' \in Seq(Frames) /\ RecordsBound' /\ \A id : Recovered(id)' = Recovered(id)
    BY <1>1, <1>2, <1>6, TornKeeps
  <2>2. Quiet
    BY <1>2, <2>1 DEF Quiet
  <2>3. CleanReportsRecovered' /\ EngineLosesNothing
    BY <1>1, <2>2, QuietHolds
  <2>. QED
    BY <1>3, <1>4, <1>5, <2>1, <2>3, TypesApart DEF StepHolds, JournalInv
<1>7. CASE pc = "frame" /\ frames' = Appended(frames)
  <2>1. frames' \in Seq(Frames)
    BY <1>7, FrameIsRead
  <2>2. RecordsBound'
    BY <1>2, <1>7, AppendedBound DEF RecordsBound
  <2>3. \A id \in Ids : Recovered(id)' = Recovered(id) \/ Recovered(id)' = runs[id]
    BY <1>2, <1>7, FrameIsRead DEF Recovered
  <2>4. \A id \in Ids : Recovered(id) \in Nat /\ Recovered(id) <= runs[id]
    BY <1>1, RecoveredBound DEF Runs
  <2>5. \A id \in Ids : Recovered(id) <= Recovered(id)' /\ Recovered(id)' \in Nat
    <3>1. \A id \in Ids : runs[id] \in Nat
      BY <1>1 DEF DataTypes, Runs
    <3>2. ASSUME NEW id \in Ids
          PROVE  Recovered(id) <= Recovered(id)' /\ Recovered(id)' \in Nat
      BY <2>3, <2>4, <3>1
    <3>. QED
      BY <3>2
  <2>6. CleanReportsRecovered'
    <3>1. ASSUME NEW id \in Ids \ behind
          PROVE  reported[id] <= Recovered(id)'
      <4>1. reported[id] <= Recovered(id) /\ reported[id] \in Nat
        BY <1>1, <3>1 DEF CleanReportsRecovered, DataTypes, Runs
      <4>. QED
        BY <2>4, <2>5, <3>1, <4>1
    <3>. QED
      BY <1>2, <3>1 DEF CleanReportsRecovered
  <2>7. EngineLosesNothing
    BY <2>5 DEF EngineLosesNothing
  <2>. QED
    BY <1>3, <1>4, <1>5, <2>1, <2>2, <2>6, <2>7, TypesApart DEF StepHolds, JournalInv
<1>8. frames' \in Torn(frames) \/ (pc = "frame" /\ frames' = Appended(frames))
  BY DEF Crash, disk, Torn
<1>. QED
  BY <1>6, <1>7, <1>8

\* Between builds a frame rots, a tail is lost or the file is replaced: what no
\* longer decodes is no longer owed.
LEMMA DamageHolds ==
  JournalInv /\ Damage => StepHolds
<1>. SUFFICES ASSUME JournalInv, Damage
              PROVE  StepHolds
  OBVIOUS
<1>1. TypeOK /\ DataTypes /\ RecordsBound /\ WriterInv /\ MemoryInv /\ CleanReportsRecovered
  BY TypesApart DEF JournalInv
<1>2. /\ pc = "off" /\ header = "ours" /\ damages' = damages + 1
      /\ reported' = [id \in Ids |-> IF Decoded(header', frames', id) < reported[id]
                                     THEN Decoded(header', frames', id) ELSE reported[id]]
      /\ UNCHANGED <<pc, left, previous, recorded, loaded, current, runs, behind, crashes>>
      /\ (open' <=> open)
  BY DEF Damage, memory
<1>3. FlagTypes'
  <2>1. open' = open /\ short' = short
    BY DEF Damage, memory
  <2>. QED
    BY <1>1, <2>1, TypesApart DEF FlagTypes
<1>4. frames \in Seq(Frames) /\ Len(frames) \in Nat /\ DOMAIN frames = 1 .. Len(frames)
  BY <1>1, LenProperties DEF DataTypes
<1>5. /\ header' \in {"foreign", "ours"} /\ frames' \in Seq(Frames)
      /\ \A i \in DOMAIN frames' : frames'[i] \in Record => i \in DOMAIN frames /\ frames'[i] = frames[i]
  <2>1. ASSUME NEW i \in DOMAIN frames, frames' = [frames EXCEPT ![i] = Unreadable], header' = header
        PROVE  /\ header' \in {"foreign", "ours"} /\ frames' \in Seq(Frames)
               /\ \A j \in DOMAIN frames' :
                    frames'[j] \in Record => j \in DOMAIN frames /\ frames'[j] = frames[j]
    <3>1. /\ frames' \in Seq(Frames) /\ Len(frames') = Len(frames)
          /\ \A j \in 1 .. Len(frames) : frames'[j] = IF j = i THEN Unreadable ELSE frames[j]
      BY <1>4, <2>1, ExceptSeq DEF Frames
    <3>2. DOMAIN frames' = 1 .. Len(frames)
      BY <3>1, LenProperties
    <3>. QED
      BY <1>2, <1>4, <2>1, <3>1, <3>2, ValueAssumption
  <2>2. ASSUME NEW n \in 0 .. Len(frames) - 1, frames' = SubSeq(frames, 1, n), header' = header
        PROVE  /\ header' \in {"foreign", "ours"} /\ frames' \in Seq(Frames)
               /\ \A j \in DOMAIN frames' :
                    frames'[j] \in Record => j \in DOMAIN frames /\ frames'[j] = frames[j]
    <3>1. n \in Nat /\ n <= Len(frames)
      BY <1>4
    <3>2. \A i \in 1 .. n : i \in DOMAIN frames /\ frames[i] \in Frames
      BY <1>4, <3>1, ElementOfSeq
    <3>3. 1 \in Int /\ n \in Int
      BY <3>1
    <3>4. /\ SubSeq(frames, 1, n) \in Seq(Frames)
          /\ Len(SubSeq(frames, 1, n)) = IF 1 <= n THEN n - 1 + 1 ELSE 0
          /\ \A i \in 1 .. n - 1 + 1 : SubSeq(frames, 1, n)[i] = frames[1 + i - 1]
      BY <3>2, <3>3, SubSeqProperties
    <3>5. frames' \in Seq(Frames) /\ Len(frames') = n /\ \A i \in 1 .. n : frames'[i] = frames[i]
      BY <2>2, <3>1, <3>4
    <3>6. DOMAIN frames' = 1 .. n
      BY <3>5, LenProperties
    <3>. QED
      BY <1>2, <2>2, <3>2, <3>5, <3>6
  <2>3. ASSUME header' = "foreign", frames' = frames
        PROVE  /\ header' \in {"foreign", "ours"} /\ frames' \in Seq(Frames)
               /\ \A j \in DOMAIN frames' :
                    frames'[j] \in Record => j \in DOMAIN frames /\ frames'[j] = frames[j]
    BY <1>4, <2>3
  <2>. QED
    BY <2>1, <2>2, <2>3 DEF Damage
<1>6. \A id \in Ids : Recovered(id)' = Decoded(header', frames', id) /\ Decoded(header', frames', id) \in Runs
  BY <1>5, DecodedType DEF Recovered
<1>7. \A id \in Ids : reported'[id] \in Runs /\ reported'[id] <= Recovered(id)'
  <2>1. ASSUME NEW id \in Ids
        PROVE  reported'[id] \in Runs /\ reported'[id] <= Recovered(id)'
    <3>1. reported[id] \in Runs /\ reported[id] \in Nat /\ Decoded(header', frames', id) \in Nat
      BY <1>1, <1>6 DEF DataTypes, Runs
    <3>2. reported'[id] = IF Decoded(header', frames', id) < reported[id]
                          THEN Decoded(header', frames', id) ELSE reported[id]
      BY <1>2
    <3>. QED
      BY <1>6, <3>1, <3>2
  <2>. QED
    BY <2>1
<1>8. DataTypes'
  <2>1. reported' \in [Ids -> Runs]
    BY <1>2, <1>7
  <2>. QED
    BY <1>1, <1>2, <1>5, <2>1 DEF DataTypes
<1>9. RecordsBound'
  BY <1>1, <1>2, <1>5 DEF RecordsBound
<1>10. WriterInv' /\ MemoryInv' /\ FirstAppendIsClean
  BY <1>2 DEF WriterInv, MemoryInv, FirstAppendIsClean
<1>11. CleanReportsRecovered'
  BY <1>7 DEF CleanReportsRecovered
<1>12. EngineLosesNothing
  BY <1>1, <1>2 DEF EngineLosesNothing, DataTypes
<1>. QED
  BY <1>3, <1>8, <1>9, <1>10, <1>11, <1>12, TypesApart DEF StepHolds, JournalInv

LEMMA StutterHolds ==
  JournalInv /\ UNCHANGED vars => StepHolds
<1>. SUFFICES ASSUME JournalInv, UNCHANGED vars
              PROVE  StepHolds
  OBVIOUS
<1>1. TypeOK /\ DataTypes /\ RecordsBound /\ WriterInv /\ MemoryInv /\ CleanReportsRecovered
  BY TypesApart DEF JournalInv
<1>2. /\ UNCHANGED <<header, frames, pc, left, previous, recorded, loaded, current>>
      /\ UNCHANGED <<runs, reported, behind, crashes, damages>>
      /\ (open' <=> open) /\ (short' <=> short)
  BY DEF vars, disk, memory, history
<1>3. FlagTypes'
  <2>1. open' = open /\ short' = short
    BY DEF vars, memory, history
  <2>. QED
    BY <1>1, <2>1, TypesApart DEF FlagTypes
<1>4. DataTypes'
  BY <1>1, <1>2 DEF DataTypes
<1>5. /\ RecordsBound' /\ \A id : Recovered(id)' = Recovered(id)
      /\ Extent' = Extent /\ ValidLen(frames') = ValidLen(frames)
  <2>1. SameFile
    BY <1>2 DEF SameFile
  <2>. QED
    BY <1>1, <2>1, SameFileKeeps
<1>6. WriterInv'
  BY <1>1, <1>2, <1>5 DEF WriterInv
<1>7. CleanReportsRecovered' /\ EngineLosesNothing /\ MemoryInv'
  <2>1. Quiet
    BY <1>2, <1>5 DEF Quiet
  <2>. QED
    BY <1>1, <1>2, <2>1, QuietHolds
<1>8. FirstAppendIsClean
  BY <1>2 DEF FirstAppendIsClean
<1>. QED
  BY <1>3, <1>4, <1>5, <1>6, <1>7, <1>8, TypesApart DEF StepHolds, JournalInv

LEMMA EveryStepHolds ==
  JournalInv /\ [Next]_vars => StepHolds
BY StartHolds, OpenForHolds, WriteMagicHolds, WriteFrameHolds, ShortWriteHolds, FinishHolds,
   CompactHolds, CompactFailsHolds, CrashHolds, DamageHolds, StutterHolds DEF Next

\* What is known of the file, of the writer's place in it and of the engine's maps
\* (journal.rs) holds after every append, cut, compaction, fault and crash.
THEOREM JournalInvHolds ==
  Spec => []JournalInv
<1>1. JournalInv /\ [Next]_vars => JournalInv'
  BY EveryStepHolds DEF StepHolds
<1>. QED
  BY <1>1, InitHolds, PTL DEF Spec

\* Journal::load recovers the reported run of every action, whatever processes
\* died, writes fell short and frames rotted before it, and the engine's two maps
\* are the file: for any set of actions and any number of such events.
THEOREM ReportsAlwaysSurvive ==
  Spec => []ReportsSurvive
BY JournalInvHolds, InvIsEnough, PTL

\* No step of the engine loses a record that could be read, and the first append
\* of every build leaves a file that can be read to its end.
THEOREM WritesNeverCost ==
  Spec => WritesCostNothing
<1>1. JournalInv /\ [Next]_vars => [FirstAppendIsClean /\ EngineLosesNothing]_vars
  BY EveryStepHolds DEF StepHolds
<1>. QED
  BY <1>1, JournalInvHolds, PTL DEF Spec, WritesCostNothing

-----------------------------------------------------------------------------
(* Store: a client that restores or puts knows which blob, and its calls end in  *)
(* what was verified.                                                         *)

Described ==
  [Blobs -> [kind : {"none", "right", "wrong", "bad"}, deltas : SUBSET Pairs]]
Results == {"none", "good", "missed", "failed", "stored"}

\* A client that restores or puts knows which blob, and a put what its output was before.
StoreInv ==
  /\ StoreTypeOK
  /\ DOMAIN step = Clients /\ DOMAIN todo = Clients /\ DOMAIN refs = Clients
  /\ blob \in [Clients -> Blobs \cup {NoBlob}] /\ earlier \in [Clients -> Blobs \cup {NoBlob}]
  /\ outcome \in [Clients -> Results]
  /\ \A p \in Clients : step[p] \notin {"idle", "scan", "sweep"} => blob[p] \in Blobs

\* The store begins empty.
LEMMA StoreStart == StoreInit => StoreInv
BY StoreAssumption
   DEF StoreInit, StoreInv, StoreTypeOK, Results, File, Absent, Manifest

\* A call that ends leaves its client idle, or with the blob to make.
LEMMA Ends ==
  ASSUME StoreInv, NEW p \in Clients, NEW result \in Results, Done(p, result),
         result = "missed" => blob[p] \in Blobs
  PROVE  /\ DOMAIN step' = Clients /\ outcome' \in [Clients -> Results]
         /\ blob' \in [Clients -> Blobs \cup {NoBlob}]
         /\ \A q \in Clients : step'[q] \notin {"idle", "scan", "sweep"} => blob'[q] \in Blobs
BY DEF StoreInv, Done

\* A call that goes on keeps its blob.
LEMMA Goes ==
  ASSUME StoreInv, NEW p \in Clients, NEW place, Goto(p, place),
         blob[p] \in Blobs \/ place \in {"idle", "scan", "sweep"}
  PROVE  /\ DOMAIN step' = Clients /\ outcome' \in [Clients -> Results]
         /\ blob' \in [Clients -> Blobs \cup {NoBlob}]
         /\ \A q \in Clients : step'[q] \notin {"idle", "scan", "sweep"} => blob'[q] \in Blobs
BY DEF StoreInv, Goto

\* The chunks that FastCDC cuts a blob into are chunks.
LEMMA LayoutChunks ==
  /\ \A b \in Blobs : ChunksOf(b) \subseteq ChunkIds
  /\ \A b \in Blobs : \A i \in DOMAIN Layout[b] : Layout[b][i] \in ChunkIds
BY DEF ChunksOf, ChunkIds

\* A patch is against a chunk of the version before, if there is one at that place.
LEMMA BaseIsChunk ==
  ASSUME StoreInv, NEW p \in Clients, NEW c
  PROVE  PositionalBase(p, c) \in ChunkIds \cup {NoBlob}
BY LayoutChunks DEF StoreInv, PositionalBase

\* materialize keeps StoreInv: from the object that is copied and verified, and from chunks.
LEMMA StoreRestores ==
  ASSUME StoreInv, NEW p \in Clients,
         \/ Restore(p) \/ CopyObject(p) \/ DiscardObject(p) \/ ReadManifest(p)
         \/ SpliceChunk(p) \/ Spliced(p)
  PROVE  StoreInv'
<1> USE DEF store, locals, bounds, StoreTypeOK, File, Described
<1>1. CASE Restore(p)
  BY <1>1 DEF Restore, StoreInv, Results
<1>2. CASE CopyObject(p)
  <2>1. step[p] = "copy" /\ blob[p] \in Blobs /\ UNCHANGED <<store, temp, locals, listed, bounds>>
    BY <1>2 DEF CopyObject, StoreInv
  <2>2. (\E result \in Results : Done(p, result)) \/ Goto(p, "discard")
    BY <1>2 DEF CopyObject, Verified, Results
  <2> QED BY <2>1, <2>2, Ends, Goes DEF StoreInv
<1>3. CASE DiscardObject(p)
  <2>1. blob[p] \in Blobs /\ Goto(p, "manifest")
    BY <1>3 DEF DiscardObject, StoreInv
  <2>2. objects' \in [Blobs -> File]
    BY <1>3 DEF DiscardObject, StoreInv, AfterDiscard
  <2> QED BY <1>3, <2>1, <2>2, Goes DEF StoreInv, DiscardObject
<1>4. CASE ReadManifest(p)
  <2>1. blob[p] \in Blobs
    BY <1>4 DEF ReadManifest, StoreInv
  <2>2. Goto(p, "splice") \/ Done(p, "missed")
    BY <1>4 DEF ReadManifest
  <2>3. manifests' \in Described
    BY <1>4, <2>1 DEF ReadManifest, StoreInv, Absent, Manifest
  <2>4. /\ DOMAIN todo' = Clients /\ DOMAIN refs' = Clients
        /\ \A q \in Clients : todo'[q] \subseteq ChunkIds /\ refs'[q] \subseteq Pairs
    BY <1>4, <2>1, LayoutChunks DEF ReadManifest, StoreInv
  <2> QED BY <1>4, <2>1, <2>2, <2>3, <2>4, Goes, Ends DEF StoreInv, ReadManifest, Results
<1>5. CASE SpliceChunk(p)
  <2>1. PICK c \in todo[p] :
          /\ UseChunk(p, c) \/ RebuildChunk(p, c)
          /\ todo' = [todo EXCEPT ![p] = @ \ {c}]
    BY <1>5 DEF SpliceChunk
  <2>2. c \in ChunkIds
    BY DEF StoreInv
  <2>3. \A d \in refs[p] : d \in Pairs /\ d[2] \in ChunkIds
    BY DEF StoreInv, Pairs
  <2>4. chunks' \in [ChunkIds -> File] /\ deltas' \in [Pairs -> File]
    <3>1. CASE UseChunk(p, c)
      BY <2>2, <3>1 DEF UseChunk, StoreInv
    <3>2. CASE RebuildChunk(p, c)
      BY <2>2, <2>3, <3>2 DEF RebuildChunk, StoreInv
    <3> QED BY <2>1, <3>1, <3>2
  <2> QED BY <1>5, <2>1, <2>4 DEF SpliceChunk, StoreInv
<1>6. CASE Spliced(p)
  <2>1. blob[p] \in Blobs /\ \E result \in Results : Done(p, result)
    BY <1>6 DEF Spliced, StoreInv, Results
  <2> QED BY <1>6, <2>1, Ends DEF Spliced, StoreInv
<1> QED BY <1>1, <1>2, <1>3, <1>4, <1>5, <1>6

\* put keeps StoreInv: the object, its chunks and patches, the manifest and the head.
LEMMA StorePuts ==
  ASSUME StoreInv, NEW p \in Clients,
         \/ PutObject(p) \/ Publish(p) \/ OpenObject(p) \/ CutChunk(p)
         \/ Describe(p) \/ PublishHead(p)
  PROVE  StoreInv'
<1> USE DEF store, locals, bounds, StoreTypeOK, File, Described
<1>1. CASE PutObject(p)
  <2>1. blob[p] \in Blobs /\ (Goto(p, "stat") \/ Goto(p, "publish"))
    BY <1>1 DEF PutObject, StoreInv
  <2>2. faults' \in 0 .. MaxFaults
    BY <1>1, StoreAssumption DEF PutObject, StoreInv
  <2> QED BY <1>1, <2>1, <2>2, Goes DEF PutObject, StoreInv
<1>2. CASE Publish(p)
  <2>1. blob[p] \in Blobs /\ (Goto(p, "stat") \/ Done(p, "failed"))
    BY <1>2 DEF Publish, StoreInv
  <2>2. objects' \in [Blobs -> File]
    BY <1>2, <2>1 DEF Publish, StoreInv, Verified
  <2> QED BY <1>2, <2>1, <2>2, Goes, Ends DEF Publish, StoreInv, Results
<1>3. CASE OpenObject(p)
  <2>1. blob[p] \in Blobs
    BY <1>3 DEF OpenObject, StoreInv
  <2>2. \/ \E result \in Results : Done(p, result) /\ result # "missed"
        \/ Goto(p, "describeWrong") \/ Goto(p, "cut")
    BY <1>3 DEF OpenObject, Results
  <2>3. /\ DOMAIN todo' = Clients /\ earlier' \in [Clients -> Blobs \cup {NoBlob}]
        /\ \A q \in Clients : todo'[q] \subseteq ChunkIds
    BY <1>3, <2>1, LayoutChunks DEF OpenObject, StoreInv
  <2> QED BY <1>3, <2>1, <2>2, <2>3, Goes, Ends DEF OpenObject, StoreInv
<1>4. CASE CutChunk(p)
  <2>1. PICK c \in todo[p] : LET base == PositionalBase(p, c) IN
       /\ todo' = [todo EXCEPT ![p] = @ \ {c}]
       /\ \/ chunks[c] # "none" /\ UNCHANGED <<chunks, deltas, refs>>
          \/ /\ chunks[c] = "none"
             /\ chunks' = [WithoutRotten(base) EXCEPT ![c] = "good"]
             /\ UNCHANGED <<deltas, refs>>
          \/ /\ chunks[c] = "none" /\ Patchable(base)
             /\ chunks' = [chunks EXCEPT ![c] = "good"]
             /\ deltas' = Patched(<<c, base>>)
             /\ refs' = [refs EXCEPT ![p] = @ \cup {<<c, base>>}]
    BY <1>4 DEF CutChunk
  <2> DEFINE base == PositionalBase(p, c)
  <2>2. c \in ChunkIds /\ base \in ChunkIds \cup {NoBlob}
    BY BaseIsChunk DEF StoreInv
  <2> HIDE DEF base
  <2>3. chunks' \in [ChunkIds -> File]
    BY <2>1, <2>2 DEF StoreInv, WithoutRotten, base
  <2>4. Patchable(base) => <<c, base>> \in Pairs
    BY <2>2 DEF Patchable, Pairs
  <2>5. /\ deltas' \in [Pairs -> File] /\ DOMAIN refs' = Clients
        /\ \A q \in Clients : refs'[q] \subseteq Pairs
    <3>1. CASE UNCHANGED <<chunks, deltas, refs>> \/ UNCHANGED <<deltas, refs>>
      BY <3>1 DEF StoreInv
    <3>2. CASE /\ Patchable(base) /\ deltas' = Patched(<<c, base>>)
               /\ refs' = [refs EXCEPT ![p] = @ \cup {<<c, base>>}]
      <4>1. <<c, base>> \in Pairs
        BY <2>4, <3>2
      <4>2. deltas' \in [Pairs -> File]
        BY <3>2 DEF StoreInv, Patched
      <4> QED BY <3>2, <4>1, <4>2 DEF StoreInv
    <3> QED BY <2>1, <3>1, <3>2 DEF base
  <2> QED BY <1>4, <2>1, <2>3, <2>5 DEF CutChunk, StoreInv
<1>5. CASE Describe(p)
  <2>1. blob[p] \in Blobs /\ Goto(p, "head")
    BY <1>5 DEF Describe, StoreInv
  <2>2. manifests' \in Described
    BY <1>5, <2>1 DEF Describe, StoreInv, Manifest
  <2> QED BY <1>5, <2>1, <2>2, Goes DEF Describe, StoreInv
<1>6. CASE PublishHead(p)
  <2>1. blob[p] \in Blobs /\ Done(p, "stored")
    BY <1>6 DEF PublishHead, StoreInv
  <2> QED BY <1>6, <2>1, Ends DEF PublishHead, StoreInv, Results
<1> QED BY <1>1, <1>2, <1>3, <1>4, <1>5, <1>6

\* gc keeps StoreInv.
LEMMA StoreCollects ==
  ASSUME StoreInv, NEW p \in Clients,
         Collect(p) \/ Scan(p) \/ Sweep(p) \/ EndCollection(p)
  PROVE  StoreInv'
<1> USE DEF store, locals, bounds, StoreTypeOK, File, Described
<1>1. CASE Collect(p)
  <2>1. collections' \in 0 .. MaxCollections
    BY <1>1, StoreAssumption DEF Collect, StoreInv
  <2> QED BY <1>1, <2>1, Goes DEF Collect, StoreInv
<1>2. CASE Scan(p)
  <2>1. Goto(p, "sweep") \/ Done(p, "failed")
    BY <1>2 DEF Scan
  <2> QED BY <1>2, <2>1, Goes, Ends DEF Scan, StoreInv, Results
<1>3. CASE Sweep(p)
  <2>1. /\ objects' \in [Blobs -> File] /\ chunks' \in [ChunkIds -> File]
        /\ deltas' \in [Pairs -> File]
        /\ manifests' \in Described
    BY <1>3 DEF Sweep, StoreInv, Absent, Manifest
  <2> QED BY <1>3, <2>1 DEF Sweep, StoreInv
<1>4. CASE EndCollection(p)
  BY <1>4, Ends DEF EndCollection, StoreInv, Results
<1> QED BY <1>1, <1>2, <1>3, <1>4

\* So does a file that rots.
LEMMA StoreRots == ASSUME StoreInv, Rot PROVE StoreInv'
<1> USE DEF StoreTypeOK, File, Described
<1>1. faults' \in 0 .. MaxFaults
  BY StoreAssumption DEF Rot, StoreInv
<1>2. objects' \in [Blobs -> File]
  BY DEF Rot, StoreInv
<1>3. chunks' \in [ChunkIds -> File]
  BY DEF Rot, StoreInv
<1>4. deltas' \in [Pairs -> File]
  BY DEF Rot, StoreInv
<1>5. manifests' \in Described
  BY DEF Rot, StoreInv, Manifest
<1> QED BY <1>1, <1>2, <1>3, <1>4, <1>5 DEF Rot, StoreInv, locals

\* Every step of every client, and of decay, keeps StoreInv.
LEMMA StoreStep == StoreInv /\ [StoreNext]_storeVars => StoreInv'
<1> SUFFICES ASSUME StoreInv, [StoreNext]_storeVars PROVE StoreInv'
  OBVIOUS
<1>1. CASE UNCHANGED storeVars
  BY <1>1 DEF storeVars, store, locals, bounds, StoreInv, StoreTypeOK
<1>2. CASE Rot
  BY <1>2, StoreRots
<1>3. CASE \E p \in Clients : Step(p) \/ Collect(p)
  BY <1>3, StoreRestores, StorePuts, StoreCollects DEF Step
<1> QED BY <1>1, <1>2, <1>3 DEF StoreNext

\* Cas (cas.rs): StoreInv holds for any clients, blobs, layouts, faults and collections.
THEOREM StoreInvHolds == StoreSpec => []StoreInv
BY StoreStart, StoreStep, PTL DEF StoreSpec

\* Cas::materialize publishes the blob that was asked for, whatever other clients and the
\* collector do between its steps, and whatever has rotted.
THEOREM RestoredIsAlwaysAsked == StoreSpec => []RestoredIsAsked
<1>1. StoreInv => RestoredIsAsked
  BY DEF StoreInv, RestoredIsAsked, Results
<1> QED BY <1>1, StoreInvHolds, PTL
=============================================================================
