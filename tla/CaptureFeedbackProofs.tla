------------------------ MODULE CaptureFeedbackProofs ------------------------
(***************************************************************************)
(* Theorems of CaptureFeedback, for any number of sessions, labels, times  *)
(* and revisions.  The rows of a session are those of one sound chain and  *)
(* its anchor (VerifiedIsSound); such rows are sorted the way the code     *)
(* expects (RowsSorted), so a revision extends the chain (RevisionExtends).*)
(***************************************************************************)
EXTENDS CaptureFeedback, TLAPS

FeedbackInv == TypeOK /\ FeedbackVerifies /\ LabelsFollowClosure

RowType(found) ==
    \A r \in found : /\ r.domain \in {"feedback_id", "feedback_anchor_id"}
                     /\ r.chain \in Seq(Verdicts) /\ r.at \in Nat

-----------------------------------------------------------------------------
(* Rows.                                                                   *)

\* A row that is newer than every other is the newest.
LEMMA NewestIs ==
    ASSUME NEW found, NEW r \in found, r.at \in Nat,
           \A q \in found : q.at \in Nat /\ (q # r => q.at < r.at)
    PROVE  Newest(found) = r
  <1> DEFINE P(x) == x \in found /\ \A q \in found : q.at <= x.at
  <1>1. P(r)
    <2> SUFFICES ASSUME NEW q \in found PROVE q.at <= r.at
      OBVIOUS
    <2>1. CASE q = r  BY <2>1
    <2>2. CASE q # r  BY <2>2
    <2> QED  BY <2>1, <2>2
  <1>2. ASSUME NEW x, P(x) PROVE x = r
    <2>1. r.at <= x.at  BY <1>2
    <2>2. x \in found  BY <1>2
    <2>3. x # r => x.at < r.at  BY <2>2
    <2>4. x.at \in Nat  BY <2>2
    <2> QED  BY <2>1, <2>3, <2>4
  <1>3. Newest(found) = CHOOSE x : P(x)  BY DEF Newest
  <1> HIDE DEF P
  <1> QED  BY <1>1, <1>2, <1>3

\* The prefixes of a chain that is extended.
LEMMA PrefixKept ==
    ASSUME NEW chain \in Seq(Verdicts), NEW v \in Verdicts, NEW k \in DOMAIN chain
    PROVE  RevisionRow(Append(chain, v), k) = RevisionRow(chain, k)
  <1> DEFINE longer == Append(chain, v)
  <1>1. longer \in Seq(Verdicts) /\ Len(longer) = Len(chain) + 1
    OBVIOUS
  <1>2. k \in 1..Len(chain) /\ k \in Nat
    OBVIOUS
  <1>3. \A i \in 1..k : longer[i] = chain[i]
    BY <1>2
  <1>4. SubSeq(longer, 1, k) = SubSeq(chain, 1, k)
    <2>1. SubSeq(longer, 1, k) = [i \in 1..k |-> longer[i]]
      BY <1>1, <1>2
    <2>2. SubSeq(chain, 1, k) = [i \in 1..k |-> chain[i]]
      BY <1>2
    <2> QED  BY <1>3, <2>1, <2>2
  <1>5. longer[k].at = chain[k].at
    BY <1>2, <1>3
  <1> QED  BY <1>4, <1>5 DEF RevisionRow

LEMMA WholePrefix ==
    ASSUME NEW chain \in Seq(Verdicts), chain # <<>>
    PROVE  /\ Len(chain) \in DOMAIN chain
           /\ RevisionRow(chain, Len(chain)).chain = chain
  <1>1. Len(chain) \in 1..Len(chain)  OBVIOUS
  <1>2. SubSeq(chain, 1, Len(chain)) = chain  OBVIOUS
  <1> QED  BY <1>1, <1>2 DEF RevisionRow

\* The rows of a sound chain, as the code sorts them.
LEMMA RowsSorted ==
    ASSUME NEW chain \in Seq(Verdicts), NEW at \in Nat, Sound(chain, at)
    PROVE  /\ Anchor(RowsOf(chain, at)) = AnchorRow(chain, at)
           /\ Revisions(RowsOf(chain, at)) = {RevisionRow(chain, k) : k \in DOMAIN chain}
           /\ Latest(RowsOf(chain, at)) = RevisionRow(chain, Len(chain))
           /\ History(RowsOf(chain, at)) = chain
           /\ \A r \in RowsOf(chain, at) : r.at <= at
  <1> DEFINE found == RowsOf(chain, at)
             revs == {RevisionRow(chain, k) : k \in DOMAIN chain}
             n == Len(chain)
  <1>1. n \in DOMAIN chain /\ n \in Nat /\ chain # <<>>
    BY WholePrefix DEF Sound
  <1>2. \A k \in DOMAIN chain : /\ chain[k].at \in Nat
                                /\ RevisionRow(chain, k).at = chain[k].at
                                /\ RevisionRow(chain, k).domain = "feedback_id"
    <2> SUFFICES ASSUME NEW k \in DOMAIN chain
                 PROVE  /\ chain[k].at \in Nat
                        /\ RevisionRow(chain, k).at = chain[k].at
                        /\ RevisionRow(chain, k).domain = "feedback_id"
      OBVIOUS
    <2>1. chain[k] \in Verdicts  OBVIOUS
    <2>2. chain[k].at \in Nat  BY <2>1 DEF Verdicts
    <2> QED  BY <2>2 DEF RevisionRow
  <1>3. \A k \in DOMAIN chain : k # n => chain[k].at < chain[n].at
    <2> SUFFICES ASSUME NEW k \in DOMAIN chain, k # n PROVE chain[k].at < chain[n].at
      OBVIOUS
    <2>1. k \in 1..(n - 1)  OBVIOUS
    <2>2. Monotone(chain)  BY DEF Sound
    <2> QED  BY <1>1, <2>1, <2>2 DEF Monotone
  <1>4. chain[n].at < at  BY DEF Sound
  <1>5. AnchorRow(chain, at).at = at /\ AnchorRow(chain, at).domain = "feedback_anchor_id"
    BY DEF AnchorRow
  <1>6. \A r \in revs : r.at \in Nat /\ r.at < at /\ r # AnchorRow(chain, at)
    <2> SUFFICES ASSUME NEW k \in DOMAIN chain
                 PROVE  LET r == RevisionRow(chain, k)
                        IN  r.at \in Nat /\ r.at < at /\ r # AnchorRow(chain, at)
      OBVIOUS
    <2>1. chain[k].at < at  BY <1>1, <1>2, <1>3, <1>4
    <2>2. RevisionRow(chain, k) # AnchorRow(chain, at)  BY <1>2, <1>5
    <2> QED  BY <1>2, <2>1, <2>2
  <1>7. found = revs \cup {AnchorRow(chain, at)}  BY DEF RowsOf
  <1> HIDE DEF found, revs, n
  <1>8. Anchor(found) = AnchorRow(chain, at)
    <2>1. AnchorRow(chain, at) \in found  BY <1>7
    <2>2. \A q \in found : /\ q.at \in Nat
                           /\ q # AnchorRow(chain, at) => q.at < AnchorRow(chain, at).at
      BY <1>5, <1>6, <1>7
    <2> QED  BY <1>5, <2>1, <2>2, NewestIs DEF Anchor
  <1>9. Revisions(found) = revs
    BY <1>6, <1>7, <1>8 DEF Revisions
  <1>10. Latest(found) = RevisionRow(chain, n)
    <2>1. RevisionRow(chain, n) \in revs  BY <1>1 DEF revs
    <2>2. \A q \in revs : /\ q.at \in Nat
                          /\ q # RevisionRow(chain, n) => q.at < RevisionRow(chain, n).at
      <3> SUFFICES ASSUME NEW k \in DOMAIN chain
                   PROVE  LET q == RevisionRow(chain, k)
                          IN  /\ q.at \in Nat
                              /\ q # RevisionRow(chain, n) => q.at < RevisionRow(chain, n).at
        BY DEF revs
      <3>1. CASE k = n  BY <1>2, <3>1
      <3>2. CASE k # n  BY <1>1, <1>2, <1>3, <3>2
      <3> QED  BY <3>1, <3>2
    <2>3. Newest(revs) = RevisionRow(chain, n)
      BY <2>1, <2>2, NewestIs
    <2> QED  BY <1>9, <2>3 DEF Latest
  <1>11. History(found) = chain
    <2>1. found # {}  BY <1>7
    <2>2. RevisionRow(chain, n).chain = chain  BY <1>1, WholePrefix DEF n
    <2> QED  BY <1>10, <2>1, <2>2 DEF History
  <1>12. \A r \in found : r.at <= at
    BY <1>5, <1>6, <1>7
  <1> QED  BY <1>8, <1>9, <1>10, <1>11, <1>12 DEF found, revs, n

\* What is written verifies ...
LEMMA SoundVerifies ==
    ASSUME NEW chain \in Seq(Verdicts), NEW at \in Nat, Sound(chain, at)
    PROVE  Verified(RowsOf(chain, at))
  <1>1. chain # <<>>  BY DEF Sound
  <1>2. Len(chain) \in DOMAIN chain /\ RevisionRow(chain, Len(chain)).chain = chain
    BY <1>1, WholePrefix
  <1>3. Revisions(RowsOf(chain, at)) # {}
    BY <1>2, RowsSorted
  <1>4. Latest(RowsOf(chain, at)).chain = chain /\ Anchor(RowsOf(chain, at)).at = at
    BY <1>2, RowsSorted DEF AnchorRow
  <1> QED  BY <1>3, <1>4 DEF Verified

\* ... and what verifies is the rows of a sound chain.
LEMMA VerifiedIsSound ==
    ASSUME NEW found, found # {}, RowType(found), Verified(found)
    PROVE  \E chain \in Seq(Verdicts) : \E at \in Nat :
               Sound(chain, at) /\ found = RowsOf(chain, at)
  <1> DEFINE chain == Latest(found).chain
             at == Anchor(found).at
  <1>1. Sound(chain, at) /\ found = RowsOf(chain, at)
    BY DEF Verified
  <1>2. AnchorRow(chain, at) \in found
    BY <1>1 DEF RowsOf
  <1>3. AnchorRow(chain, at).chain = chain /\ AnchorRow(chain, at).at = at
    BY DEF AnchorRow
  <1> HIDE DEF chain, at
  <1>4. chain \in Seq(Verdicts) /\ at \in Nat
    BY <1>2, <1>3 DEF RowType
  <1> QED  BY <1>1, <1>4

\* A part of the rows that verifies has their anchor, and so all of them.
LEMMA PartIsWhole ==
    ASSUME NEW found, RowType(found), Verified(found),
           NEW part \in SUBSET found, part # {}, Verified(part)
    PROVE  part = found
  <1>1. RowType(part)  BY DEF RowType
  <1>2. found # {}  OBVIOUS
  <1>3. PICK c \in Seq(Verdicts) : \E at \in Nat : Sound(c, at) /\ found = RowsOf(c, at)
    BY <1>2, VerifiedIsSound
  <1>4. PICK t \in Nat : found = RowsOf(c, t)
    BY <1>3
  <1>5. PICK d \in Seq(Verdicts) : \E at \in Nat : Sound(d, at) /\ part = RowsOf(d, at)
    BY <1>1, VerifiedIsSound
  <1>6. PICK u \in Nat : part = RowsOf(d, u)
    BY <1>5
  <1>7. AnchorRow(d, u) \in RowsOf(c, t)
    BY <1>4, <1>6 DEF RowsOf
  <1>8. \A k \in DOMAIN c : RevisionRow(c, k) # AnchorRow(d, u)
    <2> SUFFICES ASSUME NEW k \in DOMAIN c, RevisionRow(c, k) = AnchorRow(d, u)
                 PROVE  FALSE
      OBVIOUS
    <2>1. RevisionRow(c, k).domain = "feedback_id"  BY DEF RevisionRow
    <2>2. AnchorRow(d, u).domain = "feedback_anchor_id"  BY DEF AnchorRow
    <2> QED  BY <2>1, <2>2
  <1>9. AnchorRow(d, u) = AnchorRow(c, t)
    BY <1>7, <1>8 DEF RowsOf
  <1>10. d = c /\ u = t
    BY <1>9 DEF AnchorRow
  <1> QED  BY <1>4, <1>6, <1>10
-----------------------------------------------------------------------------
(* A revision.                                                             *)

Longer(found, label, at) == Append(History(found), [label |-> label, at |-> at])

\* One verdict that is newer and another one extends a monotone chain.
LEMMA MonotoneExtends ==
    ASSUME NEW chain \in Seq(Verdicts), NEW v \in Verdicts, Monotone(chain),
           chain # <<>> => chain[Len(chain)].at < v.at,
           chain # <<>> => chain[Len(chain)].label # v.label
    PROVE  Monotone(Append(chain, v))
  <1> DEFINE longer == Append(chain, v)
             n == Len(chain)
  <1>1. /\ longer \in Seq(Verdicts) /\ Len(longer) = n + 1 /\ n \in Nat
        /\ longer[n + 1] = v /\ \A i \in 1..n : longer[i] = chain[i]
    OBVIOUS
  <1>2. \A i \in 1..n : chain[i] \in Verdicts /\ chain[i].at \in Nat
    <2>1. \A i \in 1..n : chain[i] \in Verdicts  OBVIOUS
    <2> QED  BY <2>1 DEF Verdicts
  <1>3. v.at \in Nat  BY DEF Verdicts
  <1> HIDE DEF longer
  <1> SUFFICES ASSUME NEW k \in 1..(n + 1), NEW j \in 1..(k - 1)
               PROVE  /\ longer[j].at < longer[k].at
                      /\ j = k - 1 => longer[j].label # longer[k].label
    BY <1>1 DEF Monotone, longer
  <1>4. j \in 1..n /\ longer[j] = chain[j]  BY <1>1
  <1>5. CASE k \in 1..n
    <2>1. longer[k] = chain[k]  BY <1>1, <1>5
    <2>2. /\ chain[j].at < chain[k].at
          /\ j = k - 1 => chain[j].label # chain[k].label
      BY <1>1, <1>5 DEF Monotone
    <2> QED  BY <1>4, <2>1, <2>2
  <1>6. CASE k = n + 1
    <2>1. longer[k] = v  BY <1>1, <1>6
    <2>2. chain # <<>> /\ n \in 1..n  BY <1>1, <1>4
    <2>3. CASE j = n
      BY <1>4, <2>1, <2>2, <2>3
    <2>4. CASE j # n
      <3>1. j \in 1..(n - 1)  BY <1>1, <1>4, <2>4
      <3>2. chain[j].at < chain[n].at  BY <1>1, <2>2, <3>1 DEF Monotone
      <3>3. chain[j].at < v.at  BY <1>2, <1>3, <1>4, <2>2, <3>2
      <3>4. j # k - 1  BY <1>1, <1>4, <1>6, <2>4
      <3> QED  BY <1>4, <2>1, <3>3, <3>4
    <2> QED  BY <2>3, <2>4
  <1> QED  BY <1>1, <1>5, <1>6

\* The rows of the longer chain, made of those of the shorter.
LEMMA RowsOfLonger ==
    ASSUME NEW chain \in Seq(Verdicts), NEW v \in Verdicts, NEW at
    PROVE  RowsOf(Append(chain, v), at) =
               {RevisionRow(chain, k) : k \in DOMAIN chain}
                   \cup {RevisionRow(Append(chain, v), Len(Append(chain, v))),
                         AnchorRow(Append(chain, v), at)}
  <1> DEFINE longer == Append(chain, v)
             n == Len(chain)
  <1>1. n \in Nat /\ Len(longer) = n + 1 /\ DOMAIN longer = 1..(n + 1) /\ DOMAIN chain = 1..n
    OBVIOUS
  <1>2. \A k \in 1..n : RevisionRow(longer, k) = RevisionRow(chain, k)
    BY <1>1, PrefixKept
  <1>3. RowsOf(longer, at) = {RevisionRow(longer, k) : k \in 1..(n + 1)}
                                 \cup {AnchorRow(longer, at)}
    BY <1>1 DEF RowsOf
  <1> HIDE DEF longer, n
  <1>4. {RevisionRow(longer, k) : k \in 1..(n + 1)} =
            {RevisionRow(chain, k) : k \in 1..n} \cup {RevisionRow(longer, n + 1)}
    <2>1. \A k \in 1..(n + 1) : k \in 1..n \/ k = n + 1  BY <1>1
    <2>2. \A k \in 1..n : k \in 1..(n + 1)  BY <1>1
    <2>3. n + 1 \in 1..(n + 1)  BY <1>1
    <2> QED  BY <1>2, <2>1, <2>2, <2>3
  <1> QED  BY <1>1, <1>3, <1>4 DEF longer, n

\* A label with a newer stamp leaves the rows of the longer chain; of the
\* revisions that were there it disturbs none.
LEMMA RevisionExtends ==
    ASSUME NEW found, RowType(found), Verified(found),
           NEW label \in Labels, NEW at \in Nat,
           ~Repeats(found, label), ~Full(found),
           found # {} => Anchor(found).at < at
    PROVE  LET longer == Longer(found, label, at)
               after == WithRevision(found, longer)
           IN  /\ longer \in Seq(Verdicts) /\ Sound(longer, at + 1)
               /\ after = RowsOf(longer, at + 1)
               /\ longer[Len(longer)] = [label |-> label, at |-> at]
               /\ Revisions(after) = Revisions(found) \cup {RevisionRow(longer, Len(longer))}
  <1> DEFINE v == [label |-> label, at |-> at]
             chain == History(found)
             longer == Longer(found, label, at)
  <1>1. v \in Verdicts /\ v.at = at /\ v.label = label
    BY DEF Verdicts
  <1>2. /\ chain \in Seq(Verdicts) /\ Monotone(chain)
        /\ Revisions(found) = {RevisionRow(chain, k) : k \in DOMAIN chain}
        /\ chain # <<>> => found # {} /\ chain[Len(chain)].at < Anchor(found).at
        /\ chain # <<>> => Anchor(found).at \in Nat
    <2>1. CASE found = {}
      <3>1. chain = <<>>  BY <2>1 DEF History
      <3>2. Revisions(found) = {}  BY <2>1 DEF Revisions
      <3>3. Monotone(<<>>)  BY DEF Monotone
      <3>4. DOMAIN chain = {}  BY <3>1
      <3> HIDE DEF chain
      <3> QED  BY <3>1, <3>2, <3>3, <3>4
    <2>2. CASE found # {}
      <3>1. PICK c \in Seq(Verdicts) : \E t \in Nat : Sound(c, t) /\ found = RowsOf(c, t)
        BY <2>2, VerifiedIsSound
      <3>2. PICK t \in Nat : Sound(c, t) /\ found = RowsOf(c, t)
        BY <3>1
      <3>3. /\ Anchor(found) = AnchorRow(c, t) /\ chain = c
            /\ Revisions(found) = {RevisionRow(c, k) : k \in DOMAIN c}
        BY <3>2, RowsSorted
      <3>4. Anchor(found).at = t  BY <3>3 DEF AnchorRow
      <3>5. Monotone(c) /\ c[Len(c)].at < t  BY <3>2 DEF Sound
      <3> HIDE DEF chain
      <3> QED  BY <2>2, <3>3, <3>4, <3>5
    <2> QED  BY <2>1, <2>2
  <1>3. longer = Append(chain, v)  BY DEF Longer
  <1>4. Len(chain) \in Nat /\ Len(chain) < MaxRevisions
    BY <1>2, BoundAssumption DEF Full
  <1>5. chain # <<>> => chain[Len(chain)].label # v.label
    BY <1>1 DEF Repeats
  <1>6. chain # <<>> => chain[Len(chain)].at < v.at
    <2> SUFFICES ASSUME chain # <<>> PROVE chain[Len(chain)].at < v.at
      OBVIOUS
    <2>1. Len(chain) \in DOMAIN chain  BY <1>2, WholePrefix
    <2>2. chain[Len(chain)] \in Verdicts  BY <1>2, <2>1
    <2>3. chain[Len(chain)].at \in Nat  BY <2>2 DEF Verdicts
    <2> HIDE DEF chain, v
    <2> QED  BY <1>1, <1>2, <2>3
  <1> HIDE DEF chain, v, longer
  <1>7. /\ longer \in Seq(Verdicts) /\ Len(longer) = Len(chain) + 1
        /\ longer[Len(longer)] = v
    BY <1>1, <1>2, <1>3
  <1>8. Monotone(longer)
    BY <1>1, <1>2, <1>3, <1>5, <1>6, MonotoneExtends
  <1>9. Sound(longer, at + 1)
    <2>1. longer # <<>> /\ Len(longer) <= MaxRevisions
      BY <1>4, <1>7, BoundAssumption
    <2>2. longer[Len(longer)].at < at + 1  BY <1>1, <1>7
    <2> QED  BY <1>8, <2>1, <2>2 DEF Sound
  <1>10. RowsOf(longer, at + 1) =
            Revisions(found) \cup {RevisionRow(longer, Len(longer)), AnchorRow(longer, at + 1)}
    BY <1>1, <1>2, <1>3, RowsOfLonger
  <1>11. WithRevision(found, longer) = RowsOf(longer, at + 1)
    BY <1>1, <1>7, <1>10 DEF WithRevision
  <1>12. Revisions(RowsOf(longer, at + 1)) =
            Revisions(found) \cup {RevisionRow(longer, Len(longer))}
    <2>1. at + 1 \in Nat  OBVIOUS
    <2>2. Anchor(RowsOf(longer, at + 1)) = AnchorRow(longer, at + 1)
      BY <1>7, <1>9, <2>1, RowsSorted
    <2>3. RevisionRow(longer, Len(longer)) # AnchorRow(longer, at + 1)
      <3>1. RevisionRow(longer, Len(longer)).domain = "feedback_id"  BY DEF RevisionRow
      <3>2. AnchorRow(longer, at + 1).domain = "feedback_anchor_id"  BY DEF AnchorRow
      <3> QED  BY <3>1, <3>2
    <2>4. \A r \in Revisions(found) : r # AnchorRow(longer, at + 1)
      <3> SUFFICES ASSUME NEW k \in DOMAIN chain
                   PROVE  RevisionRow(chain, k) # AnchorRow(longer, at + 1)
        BY <1>2
      <3>1. RevisionRow(chain, k).domain = "feedback_id"  BY DEF RevisionRow
      <3>2. AnchorRow(longer, at + 1).domain = "feedback_anchor_id"  BY DEF AnchorRow
      <3> QED  BY <3>1, <3>2
    <2>5. Revisions(RowsOf(longer, at + 1)) =
              {r \in RowsOf(longer, at + 1) : r # AnchorRow(longer, at + 1)}
      BY <2>2 DEF Revisions
    <2> HIDE DEF Revisions
    <2> QED  BY <1>10, <2>3, <2>4, <2>5
  <1> QED  BY <1>7, <1>9, <1>11, <1>12 DEF longer, v
-----------------------------------------------------------------------------
(* The invariant.                                                          *)

LEMMA StampIs ==
    ASSUME FeedbackInv, NEW s \in Sessions, Labelable(s)
    PROVE  /\ Stamp(s) \in Nat /\ clock \in Nat /\ clock <= Stamp(s)
           /\ session[s].closedAt \in Nat /\ session[s].closedAt <= Stamp(s)
           /\ RowType(rows[s]) /\ Verified(rows[s])
           /\ rows[s] # {} => Anchor(rows[s]).at < Stamp(s)
           /\ \A r \in rows[s] : r.at \in Nat /\ r.at < Stamp(s)
  <1>1. clock \in Nat
    BY TimesAssumption DEF FeedbackInv, TypeOK
  <1>2. session[s].closedAt \in Nat
    BY DEF FeedbackInv, TypeOK, Labelable
  <1>3. RowType(rows[s]) /\ Verified(rows[s])
    BY DEF FeedbackInv, TypeOK, FeedbackVerifies, RowType
  <1>4. CASE rows[s] = {}
    BY <1>1, <1>2, <1>3, <1>4 DEF Stamp
  <1>5. CASE rows[s] # {}
    <2>1. PICK c \in Seq(Verdicts) : \E t \in Nat : Sound(c, t) /\ rows[s] = RowsOf(c, t)
      BY <1>3, <1>5, VerifiedIsSound
    <2>2. PICK t \in Nat : Sound(c, t) /\ rows[s] = RowsOf(c, t)
      BY <2>1
    <2>3. Anchor(rows[s]) = AnchorRow(c, t) /\ \A r \in rows[s] : r.at <= t
      BY <2>2, RowsSorted
    <2>4. Anchor(rows[s]).at = t /\ Anchor(rows[s]) \in rows[s]
      BY <2>2, <2>3 DEF AnchorRow, RowsOf
    <2>5. session[s].closedAt <= t
      BY <2>4 DEF FeedbackInv, LabelsFollowClosure, Labelable
    <2>6. Stamp(s) \in Nat /\ clock <= Stamp(s) /\ t < Stamp(s)
      BY <1>1, <1>5, <2>4 DEF Stamp
    <2>7. \A r \in rows[s] : r.at \in Nat
      BY <1>3 DEF RowType
    <2> QED  BY <1>1, <1>2, <1>3, <2>3, <2>4, <2>5, <2>6, <2>7
  <1> QED  BY <1>4, <1>5

LEMMA Recorded ==
    ASSUME FeedbackInv, NEW s \in Sessions, NEW label \in Labels, Record(s, label)
    PROVE  LET longer == Longer(rows[s], label, Stamp(s))
           IN  /\ longer \in Seq(Verdicts) /\ Sound(longer, Stamp(s) + 1)
               /\ rows' = [rows EXCEPT ![s] = RowsOf(longer, Stamp(s) + 1)]
               /\ longer[Len(longer)] = [label |-> label, at |-> Stamp(s)]
               /\ Revisions(RowsOf(longer, Stamp(s) + 1)) =
                      Revisions(rows[s]) \cup {RevisionRow(longer, Len(longer))}
  <1> DEFINE longer == Longer(rows[s], label, Stamp(s))
  <1>1. Labelable(s) /\ ~Repeats(rows[s], label) /\ ~Full(rows[s])
    BY DEF Record
  <1>2. /\ Stamp(s) \in Nat /\ RowType(rows[s]) /\ Verified(rows[s])
        /\ rows[s] # {} => Anchor(rows[s]).at < Stamp(s)
    BY <1>1, StampIs
  <1>3. rows' = [rows EXCEPT ![s] = WithRevision(rows[s], longer)]
    BY DEF Record, Longer
  <1>4. /\ longer \in Seq(Verdicts) /\ Sound(longer, Stamp(s) + 1)
        /\ WithRevision(rows[s], longer) = RowsOf(longer, Stamp(s) + 1)
        /\ longer[Len(longer)] = [label |-> label, at |-> Stamp(s)]
        /\ Revisions(WithRevision(rows[s], longer)) =
               Revisions(rows[s]) \cup {RevisionRow(longer, Len(longer))}
    BY <1>1, <1>2, RevisionExtends
  <1> HIDE DEF longer
  <1>5. Revisions(RowsOf(longer, Stamp(s) + 1)) =
            Revisions(rows[s]) \cup {RevisionRow(longer, Len(longer))}
    BY <1>4
  <1> QED  BY <1>3, <1>4, <1>5 DEF longer

LEMMA RecordKeeps ==
    ASSUME FeedbackInv, NEW s \in Sessions, NEW label \in Labels, Record(s, label)
    PROVE  FeedbackInv'
  <1> DEFINE longer == Longer(rows[s], label, Stamp(s))
             after == RowsOf(longer, Stamp(s) + 1)
  <1>1. Labelable(s) /\ UNCHANGED <<clock, deleting, session, tombstones>>
    BY DEF Record
  <1>2. /\ Stamp(s) \in Nat /\ session[s].closedAt \in Nat
        /\ session[s].closedAt <= Stamp(s)
        /\ \A r \in rows[s] : r.at \in Nat /\ r.at < Stamp(s)
    BY <1>1, StampIs
  <1>3. /\ longer \in Seq(Verdicts) /\ Sound(longer, Stamp(s) + 1)
        /\ longer[Len(longer)] = [label |-> label, at |-> Stamp(s)]
    BY Recorded
  <1>4. /\ rows' = [rows EXCEPT ![s] = after]
        /\ Revisions(after) = Revisions(rows[s]) \cup {RevisionRow(longer, Len(longer))}
    BY Recorded
  <1> HIDE DEF longer, after
  <1>5. DOMAIN rows = Sessions  BY DEF FeedbackInv, TypeOK
  <1>6. rows'[s] = after /\ \A t \in Sessions : t # s => rows'[t] = rows[t]
    BY <1>4, <1>5
  <1>7. Verified(after)
    BY <1>2, <1>3, SoundVerifies DEF after
  <1>8. \A r \in after : /\ r.domain \in {"feedback_id", "feedback_anchor_id"}
                         /\ r.chain \in Seq(Verdicts) /\ r.at \in Nat
    <2>1. ASSUME NEW k \in DOMAIN longer
          PROVE  LET r == RevisionRow(longer, k)
                 IN  /\ r.domain \in {"feedback_id", "feedback_anchor_id"}
                     /\ r.chain \in Seq(Verdicts) /\ r.at \in Nat
      <3>1. longer[k] \in Verdicts /\ k \in 1..Len(longer)  BY <1>3
      <3>2. longer[k].at \in Nat  BY <3>1 DEF Verdicts
      <3>3. SubSeq(longer, 1, k) \in Seq(Verdicts)  BY <1>3, <3>1
      <3> QED  BY <3>2, <3>3 DEF RevisionRow
    <2>2. LET r == AnchorRow(longer, Stamp(s) + 1)
          IN  /\ r.domain \in {"feedback_id", "feedback_anchor_id"}
              /\ r.chain \in Seq(Verdicts) /\ r.at \in Nat
      BY <1>2, <1>3 DEF AnchorRow
    <2> QED  BY <2>1, <2>2 DEF after, RowsOf
  <1>9. \A r \in after : session[s].closedAt <= r.at
    <2>1. Anchor(after) = AnchorRow(longer, Stamp(s) + 1)
      BY <1>2, <1>3, RowsSorted DEF after
    <2>2. Anchor(after).at = Stamp(s) + 1  BY <2>1 DEF AnchorRow
    <2>3. RevisionRow(longer, Len(longer)).at = Stamp(s)
      BY <1>3 DEF RevisionRow
    <2>4. ASSUME NEW r \in Revisions(rows[s]) PROVE session[s].closedAt <= r.at
      <3>1. r \in rows[s]  BY <2>4 DEF Revisions
      <3> QED  BY <1>1, <3>1 DEF FeedbackInv, LabelsFollowClosure, Labelable
    <2>5. \A r \in after : r = Anchor(after) \/ r \in Revisions(after)
      BY DEF Revisions
    <2> QED  BY <1>2, <1>4, <2>2, <2>3, <2>4, <2>5
  <1>10. TypeOK'
    <2>1. DOMAIN rows' = Sessions  BY <1>4, <1>5
    <2>2. \A t \in Sessions : \A r \in rows'[t] :
            /\ r.domain \in {"feedback_id", "feedback_anchor_id"}
            /\ r.chain \in Seq(Verdicts) /\ r.at \in Nat
      BY <1>6, <1>8 DEF FeedbackInv, TypeOK
    <2> QED  BY <1>1, <2>1, <2>2 DEF FeedbackInv, TypeOK
  <1>11. FeedbackVerifies'
    <2> SUFFICES ASSUME NEW t \in Sessions
                 PROVE  /\ Verified(rows'[t])
                        /\ session[t].state \in {"absent", "open"} => rows'[t] = {}
      BY <1>1 DEF FeedbackVerifies
    <2>1. CASE t = s  BY <1>1, <1>6, <1>7, <2>1 DEF Labelable
    <2>2. CASE t # s  BY <1>6, <2>2 DEF FeedbackInv, FeedbackVerifies
    <2> QED  BY <2>1, <2>2
  <1>12. LabelsFollowClosure'
    BY <1>1, <1>6, <1>9 DEF FeedbackInv, LabelsFollowClosure
  <1> QED  BY <1>10, <1>11, <1>12 DEF FeedbackInv

\* An update of a session's row leaves its feedback alone.
LEMMA UpdateKeeps ==
    ASSUME FeedbackInv, NEW s \in Sessions, NEW state \in SessionStates,
           NEW degraded \in BOOLEAN, Update(s, state, degraded),
           UNCHANGED <<clock, deleting, tombstones, rows>>,
           state # "absent",
           state = "open" => session[s].state \in {"absent", "open"},
           state = "closed" => session[s].state \in {"open", "closed"}
    PROVE  FeedbackInv'
  <1> DEFINE row == [state |-> state, closedAt |-> ClosedAt(session[s], state),
                     degraded |-> degraded]
  <1>1. clock \in Nat
    BY TimesAssumption DEF FeedbackInv, TypeOK
  <1>2. /\ session \in [Sessions -> [state : SessionStates,
                                 closedAt : Nat \cup {None}, degraded : BOOLEAN]]
        /\ session[s].closedAt = None <=> session[s].state # "closed"
    BY DEF FeedbackInv, TypeOK
  <1>3. /\ ClosedAt(session[s], state) \in Nat \cup {None}
        /\ ClosedAt(session[s], state) = None <=> state # "closed"
    BY <1>1, <1>2, TimesAssumption DEF ClosedAt
  <1>4. session' = [session EXCEPT ![s] = row]
    BY DEF Update
  <1>5. row \in [state : SessionStates, closedAt : Nat \cup {None}, degraded : BOOLEAN]
    BY <1>3
  <1>6. /\ row.state = state /\ row.closedAt = ClosedAt(session[s], state)
    OBVIOUS
  <1> HIDE DEF row
  <1>7. session'[s] = row /\ \A t \in Sessions : t # s => session'[t] = session[t]
    BY <1>2, <1>4
  <1>8. session' \in [Sessions -> [state : SessionStates,
                                 closedAt : Nat \cup {None}, degraded : BOOLEAN]]
    BY <1>2, <1>4, <1>5
  <1>9. \A t \in Sessions : session'[t].closedAt = None <=> session'[t].state # "closed"
    BY <1>3, <1>6, <1>7 DEF FeedbackInv, TypeOK
  <1>10. TypeOK'
    BY <1>8, <1>9 DEF FeedbackInv, TypeOK
  <1>11. \A t \in Sessions : session'[t].state \in {"absent", "open"} => rows[t] = {}
    BY <1>6, <1>7 DEF FeedbackInv, FeedbackVerifies
  <1>12. FeedbackVerifies'
    <2>1. rows' = rows  OBVIOUS
    <2>2. \A t \in Sessions : Verified(rows'[t])
      BY <2>1 DEF FeedbackInv, FeedbackVerifies
    <2>3. \A t \in Sessions : session'[t].state \in {"absent", "open"} => rows'[t] = {}
      BY <1>11, <2>1
    <2> QED  BY <2>2, <2>3 DEF FeedbackVerifies
  <1>13. LabelsFollowClosure'
    <2> SUFFICES ASSUME NEW t \in Sessions, session'[t].state = "closed", NEW r \in rows[t]
                 PROVE  session'[t].closedAt <= r.at
      BY DEF LabelsFollowClosure
    <2>1. CASE t # s  BY <1>7, <2>1 DEF FeedbackInv, LabelsFollowClosure
    <2>2. CASE t = s
      <3>1. state = "closed"  BY <1>6, <1>7, <2>2
      <3>2. session[s].state # "open"  BY <2>2 DEF FeedbackInv, FeedbackVerifies
      <3>3. session[s].state = "closed"  BY <3>1, <3>2
      <3>4. session'[s].closedAt = session[s].closedAt
        BY <1>6, <1>7, <3>1, <3>3 DEF ClosedAt
      <3> QED  BY <2>2, <3>3, <3>4 DEF FeedbackInv, LabelsFollowClosure
    <2> QED  BY <2>1, <2>2
  <1> QED  BY <1>10, <1>12, <1>13 DEF FeedbackInv

LEMMA AbsentIs ==
    /\ Absent \in [state : SessionStates, closedAt : Nat \cup {None}, degraded : BOOLEAN]
    /\ Absent.state = "absent" /\ Absent.closedAt = None
  BY DEF Absent, SessionStates

\* Sessions that are purged lose their feedback, others keep it.
LEMMA PurgeKeeps ==
    ASSUME FeedbackInv, NEW purged \in SUBSET Sessions,
           session' = [s \in Sessions |-> IF s \in purged THEN Absent ELSE session[s]],
           rows' = [s \in Sessions |-> IF s \in purged THEN {} ELSE rows[s]],
           clock' = clock, deleting' \in BOOLEAN, tombstones' \subseteq Sessions
    PROVE  FeedbackInv'
  <1>1. \A s \in Sessions :
            IF s \in purged THEN session'[s] = Absent /\ rows'[s] = {}
                            ELSE session'[s] = session[s] /\ rows'[s] = rows[s]
    OBVIOUS
  <1>2. session \in [Sessions -> [state : SessionStates,
                                  closedAt : Nat \cup {None}, degraded : BOOLEAN]]
    BY DEF FeedbackInv, TypeOK
  <1>3. TypeOK'
    <2>1. session' \in [Sessions -> [state : SessionStates,
                                     closedAt : Nat \cup {None}, degraded : BOOLEAN]]
      BY <1>2, AbsentIs
    <2>2. \A s \in Sessions : session'[s].closedAt = None <=> session'[s].state # "closed"
      BY <1>1, AbsentIs DEF FeedbackInv, TypeOK
    <2>3. DOMAIN rows' = Sessions  OBVIOUS
    <2>4. \A s \in Sessions : \A r \in rows'[s] :
            /\ r.domain \in {"feedback_id", "feedback_anchor_id"}
            /\ r.chain \in Seq(Verdicts) /\ r.at \in Nat
      BY <1>1 DEF FeedbackInv, TypeOK
    <2>5. clock' \in Times  BY DEF FeedbackInv, TypeOK
    <2> QED  BY <2>1, <2>2, <2>3, <2>4, <2>5 DEF TypeOK
  <1>4. FeedbackVerifies'
    <2>1. Verified({})  BY DEF Verified
    <2>2. \A s \in Sessions : Verified(rows'[s])
      BY <1>1, <2>1 DEF FeedbackInv, FeedbackVerifies
    <2>3. \A s \in Sessions : session'[s].state \in {"absent", "open"} => rows'[s] = {}
      BY <1>1 DEF FeedbackInv, FeedbackVerifies
    <2> QED  BY <2>2, <2>3 DEF FeedbackVerifies
  <1>5. LabelsFollowClosure'
    BY <1>1, AbsentIs DEF FeedbackInv, LabelsFollowClosure
  <1> QED  BY <1>3, <1>4, <1>5 DEF FeedbackInv

\* What PurgeSession and PurgeProject do, in the form of PurgeKeeps.
LEMMA PurgeSessionIs ==
    ASSUME FeedbackInv, NEW s \in Sessions, PurgeSession(s)
    PROVE  /\ session' = [t \in Sessions |-> IF t \in {s} THEN Absent ELSE session[t]]
           /\ rows' = [t \in Sessions |-> IF t \in {s} THEN {} ELSE rows[t]]
           /\ clock' = clock /\ deleting' = deleting
           /\ tombstones' = tombstones \cup {s}
  <1>1. session = [t \in Sessions |-> session[t]]
    BY DEF FeedbackInv, TypeOK
  <1>2. DOMAIN rows = Sessions
    BY DEF FeedbackInv, TypeOK
  <1>3. /\ session' = [session EXCEPT ![s] = Absent]
        /\ rows' = [rows EXCEPT ![s] = {}]
        /\ clock' = clock /\ deleting' = deleting
        /\ tombstones' = tombstones \cup {s}
    BY DEF PurgeSession
  <1>4. session' = [t \in Sessions |-> IF t \in {s} THEN Absent ELSE session[t]]
    BY <1>1, <1>3
  <1>5. rows' = [t \in Sessions |-> IF t \in {s} THEN {} ELSE rows[t]]
    BY <1>2, <1>3
  <1> QED  BY <1>3, <1>4, <1>5

\* Any of the three that admission does.
Admit(s) == (\E next \in {"open", "closed"} : Grow(s, next)) \/ Quarantine(s) \/ MarkHealth(s)

LEMMA NextKeeps == FeedbackInv /\ [Next]_vars => FeedbackInv'
  <1> SUFFICES ASSUME FeedbackInv, [Next]_vars PROVE FeedbackInv'
    OBVIOUS
  <1>1. ASSUME rows' = rows, session' = session, tombstones' = tombstones,
               clock' \in Times, deleting' \in BOOLEAN
        PROVE  FeedbackInv'
    <2>1. TypeOK'  BY <1>1 DEF FeedbackInv, TypeOK
    <2>2. FeedbackVerifies'
      <3>1. \A s \in Sessions : Verified(rows'[s])
        BY <1>1 DEF FeedbackInv, FeedbackVerifies
      <3> QED  BY <1>1, <3>1 DEF FeedbackInv, FeedbackVerifies
    <2>3. LabelsFollowClosure'  BY <1>1 DEF FeedbackInv, LabelsFollowClosure
    <2> QED  BY <2>1, <2>2, <2>3 DEF FeedbackInv
  <1>2. clock \in Times /\ deleting \in BOOLEAN /\ tombstones \subseteq Sessions
    BY DEF FeedbackInv, TypeOK
  <1>3. ASSUME NEW time \in Times, SetClock(time) PROVE FeedbackInv'
    BY <1>1, <1>2, <1>3 DEF SetClock
  <1>4. ASSUME NEW s \in Sessions, Admit(s) PROVE FeedbackInv'
    <2>1. session[s].state \in SessionStates /\ session[s].degraded \in BOOLEAN
      BY DEF FeedbackInv, TypeOK
    <2>2. UNCHANGED <<clock, deleting, tombstones, rows>>
      BY <1>4 DEF Admit, Grow, Quarantine, MarkHealth
    <2>3. ASSUME NEW next \in {"open", "closed"}, Grow(s, next) PROVE FeedbackInv'
      <3>1. PICK degraded \in {session[s].degraded, TRUE} : Update(s, next, degraded)
        BY <2>3 DEF Grow
      <3>2. degraded \in BOOLEAN /\ next \in SessionStates
        BY <2>1 DEF SessionStates
      <3>3. session[s].state = "open" \/ (session[s].state = "absent" /\ next = "open")
        BY <2>3 DEF Grow
      <3> QED  BY <2>2, <3>1, <3>2, <3>3, UpdateKeeps
    <2>4. CASE Quarantine(s)
      <3>1. Update(s, "quarantined", TRUE)  BY <2>4 DEF Quarantine
      <3> QED  BY <2>2, <3>1, UpdateKeeps DEF SessionStates
    <2>5. CASE MarkHealth(s)
      <3>1. session[s].state # "absent" /\ Update(s, session[s].state, TRUE)
        BY <2>5 DEF MarkHealth
      <3> QED  BY <2>1, <2>2, <3>1, UpdateKeeps
    <2> QED  BY <1>4, <2>3, <2>4, <2>5 DEF Admit
  <1>5. ASSUME NEW s \in Sessions, MarkSession(s) PROVE FeedbackInv'
    <2>1. session[s].degraded \in BOOLEAN
      BY DEF FeedbackInv, TypeOK
    <2>2. Update(s, "deleting", session[s].degraded)
          /\ UNCHANGED <<clock, deleting, tombstones, rows>>
      BY <1>5 DEF MarkSession
    <2> QED  BY <2>1, <2>2, UpdateKeeps DEF SessionStates
  <1>6. ASSUME NEW s \in Sessions, PurgeSession(s) PROVE FeedbackInv'
    <2>1. /\ session' = [t \in Sessions |-> IF t \in {s} THEN Absent ELSE session[t]]
          /\ rows' = [t \in Sessions |-> IF t \in {s} THEN {} ELSE rows[t]]
          /\ clock' = clock /\ deleting' = deleting
          /\ tombstones' = tombstones \cup {s}
      BY <1>6, PurgeSessionIs
    <2>2. deleting' \in BOOLEAN /\ tombstones' \subseteq Sessions /\ {s} \in SUBSET Sessions
      BY <1>2, <2>1
    <2> QED  BY <2>1, <2>2, PurgeKeeps
  <1>7. ASSUME NEW s \in Sessions, NEW label \in Labels, Record(s, label) PROVE FeedbackInv'
    BY <1>7, RecordKeeps
  <1>8. CASE MarkProject
    BY <1>1, <1>2, <1>8 DEF MarkProject
  <1>9. CASE PurgeProject
    <2>1. /\ session' = [s \in Sessions |-> IF s \in Sessions THEN Absent ELSE session[s]]
          /\ rows' = [s \in Sessions |-> IF s \in Sessions THEN {} ELSE rows[s]]
          /\ clock' = clock /\ deleting' \in BOOLEAN /\ tombstones' \subseteq Sessions
      BY <1>9 DEF PurgeProject
    <2> QED  BY <2>1, PurgeKeeps
  <1>10. CASE UNCHANGED vars
    BY <1>1, <1>2, <1>10 DEF vars
  <1> QED  BY <1>3, <1>4, <1>5, <1>6, <1>7, <1>8, <1>9, <1>10 DEF Next, Admit

\* The labels of every session verify, follow its closure and belong to a
\* session that ended, whatever the clock showed: FeedbackInv is inductive.
THEOREM FeedbackInvariant == Spec => []FeedbackInv
  <1>1. Init => FeedbackInv
    <2> SUFFICES ASSUME Init PROVE FeedbackInv
      OBVIOUS
    <2>1. TypeOK  BY AbsentIs DEF Init, TypeOK
    <2>2. Verified({})  BY DEF Verified
    <2>3. FeedbackVerifies  BY <2>2 DEF Init, FeedbackVerifies
    <2>4. LabelsFollowClosure  BY DEF Init, LabelsFollowClosure
    <2> QED  BY <2>1, <2>3, <2>4 DEF FeedbackInv
  <1> QED  BY <1>1, NextKeeps, PTL DEF Spec

\* record_feedback, _update_session and the deletions keep the types, and a
\* session has a time of closure just while it is closed.
THEOREM FeedbackTypeCorrect == Spec => []TypeOK
  <1>1. FeedbackInv => TypeOK  BY DEF FeedbackInv
  <1> QED  BY <1>1, FeedbackInvariant, PTL

\* _verified_feedback_rows never raises on rows that the program wrote.
THEOREM FeedbackAlwaysVerifies == Spec => []FeedbackVerifies
  <1>1. FeedbackInv => FeedbackVerifies  BY DEF FeedbackInv
  <1> QED  BY <1>1, FeedbackInvariant, PTL

\* record_feedback stamps no label before the closure of its session.
THEOREM LabelsAfterClosure == Spec => []LabelsFollowClosure
  <1>1. FeedbackInv => LabelsFollowClosure  BY DEF FeedbackInv
  <1> QED  BY <1>1, FeedbackInvariant, PTL

\* The anchor detects every partial loss of a session's rows.
THEOREM TruncationAlwaysDetected == Spec => []TruncationDetected
  <1>1. FeedbackInv => TruncationDetected
    <2> SUFFICES ASSUME FeedbackInv, NEW s \in Sessions, NEW part \in SUBSET rows[s],
                        Verified(part)
                 PROVE  part \in {{}, rows[s]}
      BY DEF TruncationDetected
    <2>1. RowType(rows[s]) /\ Verified(rows[s])
      BY DEF FeedbackInv, TypeOK, FeedbackVerifies, RowType
    <2> QED  BY <2>1, PartIsWhole
  <1> QED  BY <1>1, FeedbackInvariant, PTL

-----------------------------------------------------------------------------
(* Freezes.                                                                *)

\* FreezeKept, of one step.
FreezeStep ==
    \A s \in Sessions : session'[s].state # "absent" =>
        \A freeze \in Freezes :
            (freeze <= clock \/ \E r \in rows[s] : freeze <= r.at) =>
                Frozen(rows'[s], freeze) = Frozen(rows[s], freeze)

\* The new revision's stamp has passed the clock and every row.
LEMMA RecordFreezes ==
    ASSUME FeedbackInv, NEW s \in Sessions, NEW label \in Labels, Record(s, label)
    PROVE  FreezeStep
  <1> DEFINE longer == Longer(rows[s], label, Stamp(s))
             after == RowsOf(longer, Stamp(s) + 1)
             new == RevisionRow(longer, Len(longer))
  <1>1. Labelable(s)
    BY DEF Record
  <1>2. /\ Stamp(s) \in Nat /\ clock \in Nat /\ clock <= Stamp(s)
        /\ \A r \in rows[s] : r.at \in Nat /\ r.at < Stamp(s)
    BY <1>1, StampIs
  <1>3. longer[Len(longer)] = [label |-> label, at |-> Stamp(s)]
    BY Recorded
  <1>4. rows' = [rows EXCEPT ![s] = after] /\ Revisions(after) = Revisions(rows[s]) \cup {new}
    BY Recorded
  <1>5. new.at = Stamp(s)
    BY <1>3 DEF RevisionRow
  <1> HIDE DEF longer, after, new
  <1>6. DOMAIN rows = Sessions  BY DEF FeedbackInv, TypeOK
  <1>7. rows'[s] = after /\ \A t \in Sessions : t # s => rows'[t] = rows[t]
    BY <1>4, <1>6
  <1> SUFFICES ASSUME NEW t \in Sessions, NEW freeze \in Freezes,
                      freeze <= clock \/ \E r \in rows[t] : freeze <= r.at
               PROVE  Frozen(rows'[t], freeze) = Frozen(rows[t], freeze)
    BY DEF FreezeStep
  <1>8. CASE t # s
    BY <1>7, <1>8
  <1>9. CASE t = s
    <2>1. freeze \in Nat  BY TimesAssumption
    <2>2. ~(new.at < freeze)  BY <1>2, <1>5, <1>9, <2>1
    <2>3. {r \in Revisions(after) : r.at < freeze} =
              {r \in Revisions(rows[s]) : r.at < freeze}
      <3> HIDE DEF Revisions
      <3> QED  BY <1>4, <2>2
    <2> QED  BY <1>7, <1>9, <2>3 DEF Frozen
  <1> QED  BY <1>8, <1>9

\* record_feedback never puts a label before a freeze that has passed, so that
\* list_feedback answers the same for it ever after.
THEOREM FreezesKept == Spec => FreezeKept
  <1>1. FeedbackInv /\ [Next]_vars => FreezeStep
    <2> SUFFICES ASSUME FeedbackInv, [Next]_vars PROVE FreezeStep
      OBVIOUS
    <2>1. ASSUME rows' = rows PROVE FreezeStep
      BY <2>1 DEF FreezeStep
    <2>2. CASE \E s \in Sessions, label \in Labels : Record(s, label)
      BY <2>2, RecordFreezes
    <2>3. CASE \E s \in Sessions : PurgeSession(s)
      <3>1. PICK s \in Sessions : PurgeSession(s)  BY <2>3
      <3>2. /\ session' = [t \in Sessions |-> IF t \in {s} THEN Absent ELSE session[t]]
            /\ rows' = [t \in Sessions |-> IF t \in {s} THEN {} ELSE rows[t]]
        BY <3>1, PurgeSessionIs
      <3>3. /\ session'[s].state = "absent"
            /\ \A t \in Sessions : t # s => rows'[t] = rows[t]
        BY <3>2, AbsentIs
      <3> QED  BY <3>3 DEF FreezeStep
    <2>4. CASE PurgeProject
      <3>1. \A s \in Sessions : session'[s].state = "absent"
        BY <2>4, AbsentIs DEF PurgeProject
      <3> QED  BY <3>1 DEF FreezeStep
    <2>5. CASE \/ MarkProject \/ UNCHANGED vars
               \/ \E time \in Times : SetClock(time)
               \/ \E s \in Sessions : Admit(s) \/ MarkSession(s)
      <3>1. rows' = rows
        BY <2>5 DEF MarkProject, vars, SetClock, Admit, Grow, Quarantine, MarkHealth, MarkSession
      <3> QED  BY <2>1, <3>1
    <2> QED  BY <2>2, <2>3, <2>4, <2>5 DEF Next, Admit
  <1>2. FreezeStep => [\A s \in Sessions : session'[s].state # "absent" =>
          \A freeze \in Freezes :
              (freeze <= clock \/ \E r \in rows[s] : freeze <= r.at) =>
                  Frozen(rows'[s], freeze) = Frozen(rows[s], freeze)]_vars
    BY DEF FreezeStep
  <1> QED  BY <1>1, <1>2, FeedbackInvariant, PTL DEF Spec, FreezeKept

-----------------------------------------------------------------------------
(* The log.                                                                *)

\* A session with a tombstone has no row.
Buried == \A s \in tombstones : session[s].state = "absent"

LEMMA AlwaysBuried == Spec => []Buried
  <1>1. Init => Buried  BY DEF Init, Buried
  <1>2. FeedbackInv /\ Buried /\ [Next]_vars => Buried'
    <2> SUFFICES ASSUME FeedbackInv, Buried, [Next]_vars PROVE Buried'
      OBVIOUS
    <2>1. /\ tombstones \subseteq Sessions
          /\ session = [s \in Sessions |-> session[s]]
      BY DEF FeedbackInv, TypeOK
    <2>2. ASSUME NEW s \in Sessions, Admit(s) \/ MarkSession(s) PROVE Buried'
      <3>1. /\ tombstones' = tombstones /\ s \notin tombstones
            /\ \E row : session' = [session EXCEPT ![s] = row]
        BY <2>2 DEF Admit, Grow, Quarantine, MarkHealth, Admissible, MarkSession, Update, Buried
      <3>2. \A t \in tombstones : session'[t] = session[t]
        BY <2>1, <3>1
      <3> QED  BY <3>1, <3>2 DEF Buried
    <2>3. ASSUME NEW s \in Sessions, PurgeSession(s) PROVE Buried'
      <3>1. /\ session' = [t \in Sessions |-> IF t \in {s} THEN Absent ELSE session[t]]
            /\ tombstones' = tombstones \cup {s}
        BY <2>3, PurgeSessionIs
      <3> QED  BY <2>1, <3>1, AbsentIs DEF Buried
    <2>4. CASE PurgeProject
      BY <2>4 DEF PurgeProject, Buried
    <2>5. CASE \/ MarkProject \/ UNCHANGED vars
               \/ \E time \in Times : SetClock(time)
               \/ \E s \in Sessions, label \in Labels : Record(s, label)
      <3>1. session' = session /\ tombstones' = tombstones
        BY <2>5 DEF MarkProject, vars, SetClock, Record
      <3> QED  BY <3>1 DEF Buried
    <2> QED  BY <2>2, <2>3, <2>4, <2>5 DEF Next, Admit
  <1> QED  BY <1>1, <1>2, FeedbackInvariant, PTL DEF Spec

\* What FeedbackLog sees of the store.
Shown(s) == IF Hidden(s) THEN <<>> ELSE History(rows[s])
ShownAll == [s \in Sessions |-> Shown(s)]
Gone == tombstones \cup {s \in Sessions : session[s].state = "deleting"}

\* The steps of the log, about these.
LEMMA LogSteps ==
    /\ Log!Init <=> ShownAll = [s \in Sessions |-> <<>>] /\ Gone = {}
    /\ \A s \in Sessions : Log!Revise(s) <=>
          /\ s \notin Gone
          /\ Len(ShownAll[s]) < MaxRevisions
          /\ Len(ShownAll'[s]) = Len(ShownAll[s]) + 1
          /\ Log!Follows(ShownAll[s], ShownAll'[s][Len(ShownAll'[s])])
          /\ ShownAll' = [ShownAll EXCEPT
                ![s] = Append(ShownAll[s], ShownAll'[s][Len(ShownAll'[s])])]
          /\ UNCHANGED Gone
    /\ \A s \in Sessions : Log!Delete(s) <=>
          ShownAll' = [ShownAll EXCEPT ![s] = <<>>] /\ Gone' = Gone \cup {s}
    /\ Log!Wipe <=>
          ShownAll' = [s \in Sessions |-> <<>>] /\ Gone' \in {Gone, {}}
  BY DEF Log!Init, Log!Revise, Log!Delete, Log!Wipe, ShownAll, Shown, Gone

\* A step that readers do not see.
Unseen == ShownAll' = ShownAll /\ Gone' = Gone

LEMMA ShownEqual ==
    ASSUME \A s \in Sessions : Shown(s)' = Shown(s)
    PROVE  ShownAll' = ShownAll
  BY DEF ShownAll

LEMMA ShownStays ==
    ASSUME NEW s \in Sessions, Hidden(s)' <=> Hidden(s), rows'[s] = rows[s]
    PROVE  Shown(s)' = Shown(s)
  <1>1. CASE Hidden(s)  BY <1>1 DEF Shown
  <1>2. CASE ~Hidden(s)
    <2>1. Shown(s) = History(rows[s])  BY <1>2 DEF Shown
    <2>2. Shown(s)' = History(rows'[s])  BY <1>2 DEF Shown
    <2> QED  BY <2>1, <2>2
  <1> QED  BY <1>1, <1>2

\* A change of one session's entry.
LEMMA ShownExcept ==
    ASSUME NEW s \in Sessions, \A t \in Sessions : t # s => Shown(t)' = Shown(t)
    PROVE  ShownAll' = [ShownAll EXCEPT ![s] = Shown(s)']
  <1>1. ShownAll' = [t \in Sessions |-> Shown(t)']  BY DEF ShownAll
  <1>2. ShownAll = [t \in Sessions |-> Shown(t)]  BY DEF ShownAll
  <1> QED  BY <1>1, <1>2

LEMMA RecordLogs ==
    ASSUME FeedbackInv, Buried, NEW s \in Sessions, NEW label \in Labels, Record(s, label)
    PROVE  Log!Revise(s)
  <1> DEFINE chain == History(rows[s])
             at == Stamp(s)
             v == [label |-> label, at |-> at]
             longer == Longer(rows[s], label, at)
  <1>1. /\ ~deleting /\ session[s].state = "closed"
        /\ ~Repeats(rows[s], label) /\ ~Full(rows[s])
        /\ UNCHANGED <<deleting, session, tombstones>>
    BY DEF Record, Labelable
  <1>2. ~Hidden(s) /\ ~Hidden(s)' /\ s \notin Gone /\ Gone' = Gone
    BY <1>1 DEF Hidden, Gone, Buried
  <1>3. /\ at \in Nat /\ RowType(rows[s]) /\ Verified(rows[s])
        /\ rows[s] # {} => Anchor(rows[s]).at < at
    BY <1>1, StampIs DEF Labelable
  <1>4. /\ longer \in Seq(Verdicts) /\ Sound(longer, at + 1)
        /\ rows' = [rows EXCEPT ![s] = RowsOf(longer, at + 1)]
        /\ longer[Len(longer)] = v
    BY Recorded
  <1>5. longer = Append(chain, v) /\ v.label = label /\ v.at = at
    BY DEF Longer
  <1>6. chain \in Seq(Verdicts) /\ (chain # <<>> => chain[Len(chain)].at < at)
    <2>1. CASE rows[s] = {}
      BY <2>1 DEF History
    <2>2. CASE rows[s] # {}
      <3>1. PICK c \in Seq(Verdicts) : \E t \in Nat : Sound(c, t) /\ rows[s] = RowsOf(c, t)
        BY <1>3, <2>2, VerifiedIsSound
      <3>2. PICK t \in Nat : Sound(c, t) /\ rows[s] = RowsOf(c, t)
        BY <3>1
      <3>3. Anchor(rows[s]) = AnchorRow(c, t) /\ chain = c
        BY <3>2, RowsSorted
      <3>4. Anchor(rows[s]).at = t  BY <3>3 DEF AnchorRow
      <3>5. t < at  BY <1>3, <2>2, <3>4
      <3>6. c # <<>> /\ c[Len(c)].at < t  BY <3>2 DEF Sound
      <3>7. c[Len(c)].at \in Nat
        <4>1. Len(c) \in DOMAIN c  BY <3>6, WholePrefix
        <4>2. c[Len(c)] \in Verdicts  BY <4>1
        <4> QED  BY <4>2 DEF Verdicts
      <3> HIDE DEF chain, at
      <3>8. at \in Nat  BY <1>3
      <3> QED  BY <3>3, <3>5, <3>6, <3>7, <3>8
    <2> QED  BY <2>1, <2>2
  <1>7. Len(chain) < MaxRevisions /\ (chain # <<>> => chain[Len(chain)].label # label)
    BY <1>1, <1>6, BoundAssumption DEF Full, Repeats
  <1>8. DOMAIN rows = Sessions  BY DEF FeedbackInv, TypeOK
  <1>9. Shown(s) = chain  BY <1>2 DEF Shown
  <1>10. Shown(s)' = longer
    <2>1. rows'[s] = RowsOf(longer, at + 1)  BY <1>4, <1>8
    <2>2. History(RowsOf(longer, at + 1)) = longer  BY <1>3, <1>4, RowsSorted
    <2>3. Shown(s)' = History(rows'[s])  BY <1>2 DEF Shown
    <2> QED  BY <2>1, <2>2, <2>3
  <1>11. \A t \in Sessions : t # s => Shown(t)' = Shown(t)
    <2> SUFFICES ASSUME NEW t \in Sessions, t # s PROVE Shown(t)' = Shown(t)
      OBVIOUS
    <2>1. rows'[t] = rows[t]  BY <1>4, <1>8
    <2>2. Hidden(t)' <=> Hidden(t)  BY <1>1 DEF Hidden
    <2> QED  BY <2>1, <2>2, ShownStays
  <1> HIDE DEF chain, at, v, longer
  <1>12. ShownAll[s] = chain /\ ShownAll'[s] = longer
    BY <1>9, <1>10 DEF ShownAll
  <1>13. ShownAll' = [ShownAll EXCEPT ![s] = longer]
    BY <1>10, <1>11, ShownExcept
  <1>14. Log!Follows(chain, v)
    <2>1. chain # <<>> => chain[Len(chain)].at \in Nat
      <3> SUFFICES ASSUME chain # <<>> PROVE chain[Len(chain)].at \in Nat
        OBVIOUS
      <3>1. Len(chain) \in DOMAIN chain  BY <1>6, WholePrefix
      <3>2. chain[Len(chain)] \in Verdicts  BY <1>6, <3>1
      <3> QED  BY <3>2 DEF Verdicts
    <2>2. chain # <<>> => v.at > chain[Len(chain)].at
      BY <1>3, <1>5, <1>6, <2>1
    <2> QED  BY <1>5, <1>7, <2>2 DEF Log!Follows
  <1>15. Len(longer) = Len(chain) + 1
    BY <1>5, <1>6
  <1> QED  BY <1>2, <1>4, <1>5, <1>7, <1>12, <1>13, <1>14, <1>15, LogSteps

\* An update of a session that stays readable is not seen.
LEMMA AdmitUnseen ==
    ASSUME FeedbackInv, NEW s \in Sessions, Admit(s)
    PROVE  Unseen
  <1>1. /\ session[s].state # "deleting" /\ UNCHANGED <<deleting, tombstones, rows>>
        /\ \E state \in SessionStates : \E degraded \in BOOLEAN :
              state # "deleting" /\ Update(s, state, degraded)
    <2>1. session[s].state \in SessionStates /\ session[s].degraded \in BOOLEAN
      BY DEF FeedbackInv, TypeOK
    <2>2. session[s].state # "deleting" /\ UNCHANGED <<deleting, tombstones, rows>>
      BY DEF Admit, Grow, Quarantine, MarkHealth, Admissible
    <2>3. CASE \E next \in {"open", "closed"} : Grow(s, next)
      <3>1. PICK next \in {"open", "closed"} : Grow(s, next)  BY <2>3
      <3>2. PICK degraded \in {session[s].degraded, TRUE} : Update(s, next, degraded)
        BY <3>1 DEF Grow
      <3>3. degraded \in BOOLEAN /\ next \in SessionStates /\ next # "deleting"
        BY <2>1 DEF SessionStates
      <3> QED  BY <2>2, <3>2, <3>3
    <2>4. CASE Quarantine(s)  BY <2>2, <2>4 DEF Quarantine, SessionStates
    <2>5. CASE MarkHealth(s)  BY <2>1, <2>2, <2>5 DEF MarkHealth
    <2> QED  BY <2>2, <2>3, <2>4, <2>5 DEF Admit
  <1>2. PICK row : row.state # "deleting" /\ session' = [session EXCEPT ![s] = row]
    BY <1>1 DEF Update
  <1>3. session = [t \in Sessions |-> session[t]]  BY DEF FeedbackInv, TypeOK
  <1>4. \A t \in Sessions : session'[t].state = "deleting" <=> session[t].state = "deleting"
    BY <1>1, <1>2, <1>3
  <1>5. \A t \in Sessions : Hidden(t)' <=> Hidden(t)
    BY <1>1, <1>4 DEF Hidden
  <1>6. \A t \in Sessions : Shown(t)' = Shown(t)
    BY <1>1, <1>5, ShownStays
  <1>7. Gone' = Gone  BY <1>1, <1>4 DEF Gone
  <1> QED  BY <1>6, <1>7, ShownEqual DEF Unseen

LEMMA MarkLogs ==
    ASSUME FeedbackInv, NEW s \in Sessions, MarkSession(s)
    PROVE  Log!Delete(s)
  <1>1. /\ UNCHANGED <<deleting, tombstones, rows>>
        /\ Update(s, "deleting", session[s].degraded)
    BY DEF MarkSession
  <1>2. PICK row : row.state = "deleting" /\ session' = [session EXCEPT ![s] = row]
    BY <1>1 DEF Update
  <1>3. session = [t \in Sessions |-> session[t]]  BY DEF FeedbackInv, TypeOK
  <1>4. /\ session'[s].state = "deleting"
        /\ \A t \in Sessions : t # s => session'[t] = session[t]
    BY <1>2, <1>3
  <1>5. Shown(s)' = <<>>  BY <1>4 DEF Shown, Hidden
  <1>6. \A t \in Sessions : t # s => Shown(t)' = Shown(t)
    <2> SUFFICES ASSUME NEW t \in Sessions, t # s PROVE Shown(t)' = Shown(t)
      OBVIOUS
    <2>1. Hidden(t)' <=> Hidden(t)  BY <1>1, <1>4 DEF Hidden
    <2> QED  BY <1>1, <2>1, ShownStays
  <1>7. Gone' = Gone \cup {s}  BY <1>1, <1>4 DEF Gone
  <1> QED  BY <1>5, <1>6, <1>7, ShownExcept, LogSteps

LEMMA PurgeUnseen ==
    ASSUME FeedbackInv, NEW s \in Sessions, PurgeSession(s)
    PROVE  Unseen
  <1>1. /\ session' = [t \in Sessions |-> IF t \in {s} THEN Absent ELSE session[t]]
        /\ rows' = [t \in Sessions |-> IF t \in {s} THEN {} ELSE rows[t]]
        /\ deleting' = deleting /\ tombstones' = tombstones \cup {s}
    BY PurgeSessionIs
  <1>2. session[s].state = "deleting"  BY DEF PurgeSession
  <1>3. /\ session'[s] = Absent /\ rows'[s] = {}
        /\ \A t \in Sessions : t # s => session'[t] = session[t] /\ rows'[t] = rows[t]
    BY <1>1
  <1>4. Shown(s) = <<>>  BY <1>2 DEF Shown, Hidden
  <1>5. Shown(s)' = <<>>
    <2>1. History({}) = <<>>  BY DEF History
    <2> QED  BY <1>3, <2>1 DEF Shown
  <1>6. \A t \in Sessions : t # s => Shown(t)' = Shown(t)
    <2> SUFFICES ASSUME NEW t \in Sessions, t # s PROVE Shown(t)' = Shown(t)
      OBVIOUS
    <2>1. Hidden(t)' <=> Hidden(t)  BY <1>1, <1>3 DEF Hidden
    <2> QED  BY <1>3, <2>1, ShownStays
  <1>7. Gone' = Gone  BY <1>1, <1>2, <1>3, AbsentIs DEF Gone
  <1> QED  BY <1>4, <1>5, <1>6, <1>7, ShownEqual DEF Unseen

\* Readers see the mark of a project as its end, and the purge as nothing more.
LEMMA ProjectLogs ==
    ASSUME FeedbackInv, MarkProject \/ PurgeProject
    PROVE  Log!Wipe
  <1>1. CASE MarkProject
    <2>1. deleting' = TRUE /\ session' = session /\ tombstones' = tombstones
      BY <1>1 DEF MarkProject
    <2>2. \A s \in Sessions : Shown(s)' = <<>>  BY <2>1 DEF Shown, Hidden
    <2>3. ShownAll' = [s \in Sessions |-> <<>>]  BY <2>2 DEF ShownAll
    <2>4. Gone' = Gone  BY <2>1 DEF Gone
    <2> QED  BY <2>3, <2>4, LogSteps
  <1>2. CASE PurgeProject
    <2>1. /\ session' = [s \in Sessions |-> Absent] /\ tombstones' = {}
          /\ rows' = [s \in Sessions |-> {}]
      BY <1>2 DEF PurgeProject
    <2>2. History({}) = <<>>  BY DEF History
    <2>3. \A s \in Sessions : Shown(s)' = <<>>  BY <2>1, <2>2 DEF Shown
    <2>4. ShownAll' = [s \in Sessions |-> <<>>]  BY <2>3 DEF ShownAll
    <2>5. Gone' = {}  BY <2>1, AbsentIs DEF Gone
    <2> QED  BY <2>4, <2>5, LogSteps
  <1> QED  BY <1>1, <1>2

\* The rows and their anchor implement the append-only log of verdicts.
THEOREM FeedbackImplementsLog == Spec => ImplementsLog
  <1>1. Init => Log!Init
    <2> SUFFICES ASSUME Init PROVE Log!Init
      OBVIOUS
    <2>1. History({}) = <<>>  BY DEF History
    <2>2. ShownAll = [s \in Sessions |-> <<>>]  BY <2>1 DEF Init, ShownAll, Shown
    <2>3. Gone = {}  BY AbsentIs DEF Init, Gone
    <2> QED  BY <2>2, <2>3, LogSteps
  <1>2. FeedbackInv /\ Buried /\ [Next]_vars => Log!Next \/ Unseen
    <2> SUFFICES ASSUME FeedbackInv, Buried, [Next]_vars PROVE Log!Next \/ Unseen
      OBVIOUS
    <2>1. CASE \E s \in Sessions, label \in Labels : Record(s, label)
      BY <2>1, RecordLogs DEF Log!Next
    <2>2. CASE \E s \in Sessions : Admit(s)
      BY <2>2, AdmitUnseen
    <2>3. CASE \E s \in Sessions : MarkSession(s)
      BY <2>3, MarkLogs DEF Log!Next
    <2>4. CASE \E s \in Sessions : PurgeSession(s)
      BY <2>4, PurgeUnseen
    <2>5. CASE MarkProject \/ PurgeProject
      BY <2>5, ProjectLogs DEF Log!Next
    <2>6. CASE UNCHANGED vars \/ \E time \in Times : SetClock(time)
      <3>1. /\ deleting' = deleting /\ session' = session
            /\ tombstones' = tombstones /\ rows' = rows
        BY <2>6 DEF vars, SetClock
      <3>2. \A s \in Sessions : Shown(s)' = Shown(s)
        BY <3>1, ShownStays DEF Hidden
      <3>3. Gone' = Gone  BY <3>1 DEF Gone
      <3> QED  BY <3>2, <3>3, ShownEqual DEF Unseen
    <2> QED  BY <2>1, <2>2, <2>3, <2>4, <2>5, <2>6 DEF Next, Admit
  <1>3. FeedbackInv /\ Buried /\ [Next]_vars => [Log!Next]_<<ShownAll, Gone>>
    BY <1>2 DEF Unseen
  <1> QED  BY <1>1, <1>3, FeedbackInvariant, AlwaysBuried, PTL
           DEF Spec, ImplementsLog, Log!Spec, ShownAll, Shown, Gone
=============================================================================
