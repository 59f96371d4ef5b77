------------------------ MODULE RebuildDispatchProofs ------------------------
(***************************************************************************)
(* For all tenants, reports, days and orchestrators: under anchored        *)
(* deletions SnapshotInv is inductive, and a quiescent tenant's snapshots  *)
(* are the full replay of its ledger.                                      *)
(***************************************************************************)
EXTENDS RebuildDispatch, TLAPS

(* What the two rebuilds of InventorySnapshot guarantee, for all reports,     *)
(* days and earlier snapshots.                                                *)

LEMMA DayTypes == Day \subseteq Int /\ DaysOf \in [Report -> (SUBSET Day) \ {{}}]
BY SnapshotAssumption DEF SnapshotAssumption

LEMMA FirstLast ==
    ASSUME NEW S \in SUBSET Day, S # {}
    PROVE  /\ First(S) \in S /\ \A e \in S : First(S) <= e
           /\ Last(S) \in S /\ \A e \in S : e <= Last(S)
<1>1. \E d \in S : \A e \in S : d <= e
  BY SnapshotAssumption DEF SnapshotAssumption
<1>2. \E d \in S : \A e \in S : e <= d
  BY SnapshotAssumption DEF SnapshotAssumption
<1>3. First(S) \in S /\ \A e \in S : First(S) <= e
  BY <1>1 DEF First
<1>4. Last(S) \in S /\ \A e \in S : e <= Last(S)
  BY <1>2 DEF Last
<1> QED BY <1>3, <1>4

LEMMA LedgerDaysAreDays ==
    ASSUME NEW L \in SUBSET Report
    PROVE  LedgerDays(L) \in SUBSET Day
BY DayTypes DEF LedgerDays

LEMMA CoversLess ==
    ASSUME NEW s, IsSnapshot(s), NEW V \in SUBSET Report, NEW W \in SUBSET V, Covers(s, V)
    PROVE  Covers(s, W)
<1>1. LedgerDays(W) \subseteq DOMAIN s
  BY DEF LedgerDays, Covers
<1>2. ASSUME NEW d \in DOMAIN s
      PROVE  UpTo(MovesOf(W), d) \subseteq s[d]
  <2>1. UpTo(MovesOf(W), d) \subseteq UpTo(MovesOf(V), d)
    BY DEF UpTo, MovesOf
  <2> QED BY <2>1 DEF Covers
<1> QED BY <1>1, <1>2 DEF Covers

LEMMA WithinMore ==
    ASSUME NEW s, IsSnapshot(s), NEW A \in SUBSET Report, NEW B \in SUBSET Report,
           A \subseteq B, Within(s, A)
    PROVE  Within(s, B)
<1>1. DOMAIN s \subseteq LedgerDays(B)
  BY DEF LedgerDays, Within
<1>2. ASSUME NEW d \in DOMAIN s
      PROVE  s[d] \subseteq UpTo(MovesOf(B), d)
  <2>1. UpTo(MovesOf(A), d) \subseteq UpTo(MovesOf(B), d)
    BY DEF UpTo, MovesOf
  <2> QED BY <2>1 DEF Within
<1> QED BY <1>1, <1>2 DEF Within

(* Between the same bounds there is one snapshot: the full replay.            *)
LEMMA BoundsAreExact ==
    ASSUME NEW s, IsSnapshot(s), NEW L \in SUBSET Report, Covers(s, L), Within(s, L)
    PROVE  s = Replay(L)
<1>1. DOMAIN s = LedgerDays(L)
  BY DEF Covers, Within
<1>2. \A d \in DOMAIN s : s[d] = UpTo(MovesOf(L), d)
  BY DEF Covers, Within
<1>3. s = [d \in DOMAIN s |-> s[d]]
  BY DEF IsSnapshot
<1> QED BY <1>1, <1>2, <1>3, Zenon DEF Replay

LEMMA ReplayBounds ==
    ASSUME NEW L \in SUBSET Report, NEW V \in SUBSET L, NEW A \in SUBSET Report, L \subseteq A
    PROVE  /\ IsSnapshot(Replay(L))
           /\ Covers(Replay(L), V)
           /\ Within(Replay(L), A)
<1>1. /\ DOMAIN Replay(L) = LedgerDays(L)
      /\ \A d \in LedgerDays(L) : Replay(L)[d] = UpTo(MovesOf(L), d)
      /\ Replay(L) = [d \in DOMAIN Replay(L) |-> Replay(L)[d]]
  BY DEF Replay
<1>2. \A d \in LedgerDays(L) : UpTo(MovesOf(L), d) \subseteq Movement
  BY DEF UpTo, MovesOf, Movement
<1>3. IsSnapshot(Replay(L))
  BY <1>1, <1>2, LedgerDaysAreDays DEF IsSnapshot
<1>4. Covers(Replay(L), L) /\ Within(Replay(L), L)
  BY <1>1, Zenon DEF Covers, Within
<1> QED BY <1>3, <1>4, CoversLess, WithinMore

(* The window reaches beyond every snapshot and every ledger day, so that     *)
(* after the rebuild nothing later than its start is left of the old ones.    *)
LEMMA RewindowShape ==
    ASSUME NEW L \in SUBSET Report, NEW s, IsSnapshot(s), NEW from \in Day
    PROVE  /\ Rewindow(L, s, from) =
                  [d \in DOMAIN Rewindow(L, s, from) |-> Rewindow(L, s, from)[d]]
           /\ \A d : d \in DOMAIN Rewindow(L, s, from) <=>
                  (d \in DOMAIN s /\ d < from) \/ (d \in LedgerDays(L) /\ from <= d)
           /\ \A d \in DOMAIN s : d < from => Rewindow(L, s, from)[d] = s[d]
           /\ \A d \in LedgerDays(L) : from <= d =>
                  \A m : m \in Rewindow(L, s, from)[d] <=>
                      m \in Opening(L, s, from) \/ (m \in UpTo(MovesOf(L), d) /\ from <= m[2])
<1> DEFINE to     == RebuildTo(L, s, from)
           kept   == {d \in DOMAIN s : d < from \/ d > to}
           window == {d \in LedgerDays(L) : from <= d /\ d <= to}
           r      == Rewindow(L, s, from)
           level(d) == IF d \in kept THEN s[d]
                       ELSE Opening(L, s, from) \cup {m \in UpTo(MovesOf(L), d) : from <= m[2]}
<1>1. DOMAIN s \subseteq Day /\ LedgerDays(L) \subseteq Day
  BY LedgerDaysAreDays DEF IsSnapshot
<1>2. \A d \in {from} \cup DOMAIN s \cup LedgerDays(L) : d <= to
  <2> DEFINE S == {from} \cup DOMAIN s \cup LedgerDays(L)
  <2>1. S \in SUBSET Day /\ S # {}
    BY <1>1
  <2>2. to = Last(S)
    BY DEF RebuildTo
  <2> HIDE DEF S, to
  <2>3. \A d \in S : d <= to
    BY <2>1, <2>2, FirstLast
  <2> QED BY <2>3 DEF S
<1>3. to \in Day
  <2> DEFINE S == {from} \cup DOMAIN s \cup LedgerDays(L)
  <2>1. S \in SUBSET Day /\ S # {}
    BY <1>1
  <2>2. to = Last(S)
    BY DEF RebuildTo
  <2> HIDE DEF S, to
  <2> QED BY <2>1, <2>2, FirstLast
<1>4. r = [d \in kept \cup window |-> level(d)]
  BY DEF Rewindow
<1> HIDE DEF to, r, level
<1>5. kept = {d \in DOMAIN s : d < from}
  <2>1. ASSUME NEW d \in DOMAIN s
        PROVE  ~(d > to)
    <3>1. d \in Int /\ to \in Int
      BY <1>1, <1>3, DayTypes
    <3>2. d <= to
      BY <1>2
    <3> QED BY <3>1, <3>2
  <2> HIDE DEF to
  <2> QED BY <2>1
<1>6. window = {d \in LedgerDays(L) : from <= d}
  BY <1>1, <1>2, <1>3
<1> HIDE DEF kept, window
<1>7. DOMAIN r = kept \cup window /\ \A d \in kept \cup window : r[d] = level(d)
  BY <1>4
<1>8. r = [d \in DOMAIN r |-> r[d]]
  BY <1>4, <1>7, Zenon
<1>9. ASSUME NEW d \in LedgerDays(L), from <= d
      PROVE  r[d] = Opening(L, s, from) \cup {m \in UpTo(MovesOf(L), d) : from <= m[2]}
  <2>0. d \in Day
    BY <1>1
  <2>1. ~(d < from)
    BY <1>9, <2>0, DayTypes
  <2>2. d \notin kept
    BY <1>5, <2>1
  <2>3. d \in window
    BY <1>6, <1>9
  <2> QED BY <1>7, <2>2, <2>3 DEF level
<1>10. \A d \in DOMAIN s : d < from => r[d] = s[d]
  BY <1>5, <1>7 DEF level
<1> QED BY <1>5, <1>6, <1>7, <1>8, <1>9, <1>10 DEF r

LEMMA RewindowKeeps ==
    ASSUME NEW L \in SUBSET Report, NEW s, IsSnapshot(s), NEW from \in Day
    PROVE  \A d \in DOMAIN s : d < from => Rewindow(L, s, from)[d] = s[d]
BY RewindowShape, ZenonT(60)

(* The carried forward opening counts what the kept snapshots cover ...       *)
LEMMA OpeningCovers ==
    ASSUME NEW L \in SUBSET Report, NEW s, IsSnapshot(s), NEW from \in Day,
           NEW V \in SUBSET L, Covers(s, V), NEW m \in MovesOf(V), m[2] < from
    PROVE  m \in Opening(L, s, from)
<1> DEFINE kept == {d \in DOMAIN s : d < from}
<1>1. kept \in SUBSET Day
  BY DEF IsSnapshot
<1>2. m[2] \in LedgerDays(V)
  BY DEF MovesOf, LedgerDays
<1>3. m[2] \in kept
  BY <1>2 DEF Covers
<1> DEFINE k == Last(kept)
<1>4. Opening(L, s, from) = s[k]
  BY <1>3 DEF Opening
<1>5. k \in kept /\ \A e \in kept : e <= k
  BY <1>1, <1>3, FirstLast
<1> HIDE DEF k
<1>6. m \in UpTo(MovesOf(V), k)
  BY <1>3, <1>5 DEF UpTo
<1> QED BY <1>4, <1>5, <1>6 DEF Covers

(* ... and nothing but what one of them, or the older ledger, counts.         *)
LEMMA OpeningSources ==
    ASSUME NEW L \in SUBSET Report, NEW s, IsSnapshot(s), NEW from \in Day,
           NEW m \in Opening(L, s, from)
    PROVE  \/ m \in MovesOf(L) /\ m[2] < from
           \/ \E e \in DOMAIN s : e < from /\ m \in s[e]
<1> DEFINE kept == {d \in DOMAIN s : d < from}
<1>1. kept \in SUBSET Day
  BY DEF IsSnapshot
<1>2. CASE kept = {}
  BY <1>2 DEF Opening
<1>3. CASE kept # {}
  <2> DEFINE k == Last(kept)
  <2>1. m \in s[k]
    BY <1>3 DEF Opening
  <2>2. k \in kept
    BY <1>1, <1>3, FirstLast
  <2> QED BY <2>1, <2>2
<1> QED BY <1>2, <1>3

(* An incremental rebuild from a ledger that holds V, over snapshots that     *)
(* cover those of V that reach before its window, covers V.                   *)
LEMMA RewindowCovers ==
    ASSUME NEW L \in SUBSET Report, NEW s, IsSnapshot(s), NEW from \in Day,
           NEW V \in SUBSET L, NEW W \in SUBSET V, Covers(s, W),
           \A p \in V \ W : \A d \in DaysOf[p] : from <= d
    PROVE  Covers(Rewindow(L, s, from), V)
<1> DEFINE r == Rewindow(L, s, from)
<1>11. \A d : d \in DOMAIN r <=>
          (d \in DOMAIN s /\ d < from) \/ (d \in LedgerDays(L) /\ from <= d)
  BY RewindowShape, Zenon
<1>12. \A d \in DOMAIN s : d < from => r[d] = s[d]
  BY RewindowKeeps
<1>13. \A d \in LedgerDays(L) : from <= d =>
          \A m : m \in r[d] <=>
              m \in Opening(L, s, from) \/ (m \in UpTo(MovesOf(L), d) /\ from <= m[2])
  BY RewindowShape
<1> HIDE DEF r
<1>2. \A m \in MovesOf(V) : m[2] < from => m \in MovesOf(W)
  <2> SUFFICES ASSUME NEW m \in MovesOf(V), m[2] < from
               PROVE  m \in MovesOf(W)
    OBVIOUS
  <2>1. m \in V \X Day /\ m[1] \in V /\ m[2] \in Day /\ m[2] \in DaysOf[m[1]]
    BY DEF MovesOf
  <2>2. m[2] \in Int /\ from \in Int
    BY <2>1, DayTypes
  <2>3. ~(from <= m[2])
    BY <2>2
  <2>4. m[1] \in W
    BY <2>1, <2>3
  <2> QED BY <2>1, <2>4 DEF MovesOf
<1>3. LedgerDays(V) \subseteq DOMAIN r
  <2> SUFFICES ASSUME NEW p \in V, NEW d \in DaysOf[p]
               PROVE  d \in DOMAIN r
    BY DEF LedgerDays
  <2>1. d \in LedgerDays(L) /\ d \in Int /\ from \in Int
    BY DayTypes DEF LedgerDays
  <2>2. CASE d < from
    <3>1. p \in W
      BY <2>1, <2>2
    <3>2. d \in DOMAIN s
      BY <3>1 DEF LedgerDays, Covers
    <3> QED BY <1>11, <1>12, <1>13, <2>2, <3>2
  <2>3. CASE from <= d
    BY <1>11, <1>12, <1>13, <2>1, <2>3
  <2> QED BY <2>1, <2>2, <2>3
<1>4. ASSUME NEW d \in DOMAIN r, NEW m \in UpTo(MovesOf(V), d)
      PROVE  m \in r[d]
  <2>1. m \in MovesOf(V) /\ m \in MovesOf(L) /\ m[2] <= d /\ m[2] \in Day
    BY DEF UpTo, MovesOf
  <2>2. d \in Day
    BY <1>11, <1>12, <1>13, LedgerDaysAreDays DEF IsSnapshot
  <2>3. m[2] \in Int /\ d \in Int /\ from \in Int
    BY <2>1, <2>2, DayTypes
  <2>4. CASE d \in DOMAIN s /\ d < from
    <3>1. m[2] < from
      BY <2>1, <2>3, <2>4
    <3>2. m \in UpTo(MovesOf(W), d)
      BY <1>2, <2>1, <3>1 DEF UpTo
    <3>3. m \in s[d]
      BY <2>4, <3>2 DEF Covers
    <3> QED BY <1>11, <1>12, <1>13, <2>4, <3>3
  <2>5. CASE d \in LedgerDays(L) /\ from <= d
    <3>1. m \in r[d] <=> m \in Opening(L, s, from) \/ (m \in UpTo(MovesOf(L), d) /\ from <= m[2])
      BY <1>11, <1>12, <1>13, <2>5
    <3>2. CASE from <= m[2]
      BY <2>1, <3>1, <3>2 DEF UpTo
    <3>3. CASE m[2] < from
      <4>1. m \in MovesOf(W)
        BY <1>2, <2>1, <3>3
      <4>2. m \in Opening(L, s, from)
        BY <4>1, <3>3, OpeningCovers
      <4> QED BY <3>1, <4>2
    <3> QED BY <2>3, <3>2, <3>3
  <2> QED BY <1>11, <1>12, <1>13, <2>4, <2>5
<1> QED BY <1>3, <1>4, Zenon DEF Covers, r

(* It counts nothing beyond A when ledger and old snapshots do not, but for   *)
(* reports whose days all lie in the window.                                  *)
LEMMA RewindowWithin ==
    ASSUME NEW L \in SUBSET Report, NEW s, IsSnapshot(s), NEW from \in Day,
           NEW A \in SUBSET Report, L \subseteq A, NEW B \in SUBSET Report, Within(s, B),
           \A p \in B \ A : \A d \in DaysOf[p] : from <= d
    PROVE  Within(Rewindow(L, s, from), A)
<1> DEFINE r == Rewindow(L, s, from)
<1>11. \A d : d \in DOMAIN r <=>
          (d \in DOMAIN s /\ d < from) \/ (d \in LedgerDays(L) /\ from <= d)
  BY RewindowShape, Zenon
<1>12. \A d \in DOMAIN s : d < from => r[d] = s[d]
  BY RewindowKeeps
<1>13. \A d \in LedgerDays(L) : from <= d =>
          \A m : m \in r[d] <=>
              m \in Opening(L, s, from) \/ (m \in UpTo(MovesOf(L), d) /\ from <= m[2])
  BY RewindowShape
<1> HIDE DEF r
<1>2. ASSUME NEW p \in B, NEW d \in DaysOf[p], d < from
      PROVE  p \in A
  <2>1. d \in Int /\ from \in Int
    BY DayTypes
  <2>2. ~(from <= d)
    BY <2>1, <1>2
  <2> QED BY <2>2
<1>3. DOMAIN r \subseteq LedgerDays(A)
  <2>1. ASSUME NEW d \in DOMAIN s, d < from
        PROVE  d \in LedgerDays(A)
    <3>1. PICK p \in B : d \in DaysOf[p]
      BY DEF Within, LedgerDays
    <3>2. p \in A
      BY <1>2, <2>1, <3>1
    <3> QED BY <3>1, <3>2 DEF LedgerDays
  <2>2. LedgerDays(L) \subseteq LedgerDays(A)
    BY DEF LedgerDays
  <2> QED BY <1>11, <1>12, <1>13, <2>1, <2>2
<1>4. ASSUME NEW d \in DOMAIN r, NEW m \in r[d]
      PROVE  m \in UpTo(MovesOf(A), d)
  <2>1. d \in Day
    BY <1>11, <1>12, <1>13, LedgerDaysAreDays DEF IsSnapshot
  <2>2. d \in Int /\ from \in Int
    BY <2>1, DayTypes
  <2>3. ASSUME NEW e \in DOMAIN s, e < from, e <= d, NEW n \in s[e]
        PROVE  n \in UpTo(MovesOf(A), d)
    <3>1. n \in UpTo(MovesOf(B), e)
      BY DEF Within
    <3>2. n \in B \X Day /\ n[1] \in B /\ n[2] \in Day /\ n[2] \in DaysOf[n[1]] /\ n[2] <= e
      BY <3>1 DEF UpTo, MovesOf
    <3>3. n[2] \in Int /\ e \in Int
      BY <3>2, DayTypes DEF IsSnapshot
    <3>4. n[2] < from /\ n[2] <= d
      BY <2>2, <2>3, <3>2, <3>3
    <3>5. n[1] \in A
      BY <1>2, <3>2, <3>4
    <3> QED BY <3>2, <3>4, <3>5 DEF UpTo, MovesOf
  <2>4. CASE d \in DOMAIN s /\ d < from
    <3>1. m \in s[d]
      BY <1>11, <1>12, <1>13, <1>4, <2>4
    <3>2. d <= d
      BY <2>2
    <3> QED BY <2>3, <2>4, <3>1, <3>2
  <2>5. CASE d \in LedgerDays(L) /\ from <= d
    <3>1. m \in Opening(L, s, from) \/ m \in UpTo(MovesOf(L), d)
      BY <1>11, <1>12, <1>13, <1>4, <2>5
    <3>2. CASE m \in UpTo(MovesOf(L), d)
      BY <3>2 DEF UpTo, MovesOf
    <3>3. CASE m \in Opening(L, s, from)
      <4>1. \/ m \in MovesOf(L) /\ m[2] < from
            \/ \E e \in DOMAIN s : e < from /\ m \in s[e]
        BY <3>3, OpeningSources
      <4>2. CASE m \in MovesOf(L) /\ m[2] < from
        <5>1. m \in MovesOf(A) /\ m[2] \in Day
          BY <4>2 DEF MovesOf
        <5>2. m[2] \in Int
          BY <5>1, DayTypes
        <5>3. m[2] <= d
          BY <2>2, <2>5, <4>2, <5>2
        <5> QED BY <5>1, <5>3 DEF UpTo
      <4>3. CASE \E e \in DOMAIN s : e < from /\ m \in s[e]
        <5>1. PICK e \in DOMAIN s : e < from /\ m \in s[e]
          BY <4>3
        <5>2. e \in Int
          BY DayTypes DEF IsSnapshot
        <5>3. e <= d
          BY <2>2, <2>5, <5>1, <5>2
        <5> QED BY <2>3, <5>1, <5>3
      <4> QED BY <4>1, <4>2, <4>3
    <3> QED BY <3>1, <3>2, <3>3
  <2> QED BY <1>11, <1>12, <1>13, <2>4, <2>5
<1> QED BY <1>3, <1>4, Zenon DEF Within, r

LEMMA RewindowIsSnapshot ==
    ASSUME NEW L \in SUBSET Report, NEW s, IsSnapshot(s), NEW from \in Day,
           NEW A \in SUBSET Report, Within(Rewindow(L, s, from), A)
    PROVE  IsSnapshot(Rewindow(L, s, from))
<1> DEFINE r == Rewindow(L, s, from)
<1>1. r = [d \in DOMAIN r |-> r[d]]
  BY RewindowShape, Zenon
<1>2. DOMAIN r \subseteq Day
  BY LedgerDaysAreDays DEF Within
<1>3. \A d \in DOMAIN r : UpTo(MovesOf(A), d) \subseteq Movement
  BY DEF UpTo, MovesOf, Movement
<1>4. \A d \in DOMAIN r : r[d] \subseteq Movement
  BY <1>3 DEF Within
<1> QED BY <1>1, <1>2, <1>4 DEF IsSnapshot

(* The two rebuilds of a ledger agree: on a tenant whose snapshots count only *)
(* reports B that begin no earlier than the ledger, the incremental window    *)
(* replay of InventorySnapshotRebuildService yields what the full replay of   *)
(* FullInventoryRebuildService does, whatever else the snapshots hold.        *)
THEOREM IncrementalAgreesWithReplay ==
    ASSUME NEW L \in SUBSET Report, L # {}, NEW s, IsSnapshot(s),
           NEW B \in SUBSET Report, Within(s, B),
           \A p \in B \ L : \A d \in DaysOf[p] : First(LedgerDays(L)) <= d
    PROVE  RebuildIncremental(L, s) = RebuildFull(L, s)
<1> DEFINE from == First(LedgerDays(L))
<1>1. LedgerDays(L) \in SUBSET Day /\ LedgerDays(L) # {}
  <2>1. PICK p \in L : DaysOf[p] # {}
    BY DayTypes
  <2>2. DaysOf[p] \subseteq LedgerDays(L)
    BY DEF LedgerDays
  <2> QED BY <2>1, <2>2, LedgerDaysAreDays
<1>2. from \in Day /\ \A d \in LedgerDays(L) : from <= d
  BY <1>1, FirstLast
<1>3. RebuildIncremental(L, s) = Rewindow(L, s, from) /\ RebuildFull(L, s) = Replay(L)
  BY <1>1 DEF RebuildIncremental, RebuildFull
<1>4. \A p \in L \ {} : \A d \in DaysOf[p] : from <= d
  BY <1>2 DEF LedgerDays
<1>5. \A p \in B \ L : \A d \in DaysOf[p] : from <= d
  OBVIOUS
<1> HIDE DEF from
<1>6. Covers(s, {})
  BY DEF Covers, LedgerDays, UpTo, MovesOf
<1>7. Covers(Rewindow(L, s, from), L)
  BY <1>2, <1>4, <1>6, RewindowCovers
<1>8. Within(Rewindow(L, s, from), L)
  BY <1>2, <1>5, RewindowWithin
<1>9. IsSnapshot(Rewindow(L, s, from))
  BY <1>2, <1>8, RewindowIsSnapshot
<1> QED BY <1>3, <1>7, <1>8, <1>9, BoundsAreExact

------------------------------------------------------------------------------
(* The inline rebuild of the persist phase adds its report and loses none.    *)
LEMMA PersistBounds ==
    ASSUME NEW p \in Report, NEW R \in SUBSET Report, p \in R,
           NEW V \in SUBSET R, NEW A \in SUBSET Report, R \subseteq A,
           NEW s, IsSnapshot(s), Covers(s, V), Within(s, A)
    PROVE  /\ IsSnapshot(RebuildForReport(R, s, p))
           /\ Covers(RebuildForReport(R, s, p), V \cup {p})
           /\ Within(RebuildForReport(R, s, p), A)
<1> DEFINE from == First(DaysOf[p])
           W == V \cup {p}
<1>1. from \in Day /\ \A d \in DaysOf[p] : from <= d
  BY FirstLast, DayTypes
<1>2. RebuildForReport(R, s, p) = Rewindow(R, s, from)
  BY DEF RebuildForReport
<1> HIDE DEF from
<1>3. W \in SUBSET R /\ V \in SUBSET W
  OBVIOUS
<1>4. \A q \in W \ V : \A d \in DaysOf[q] : from <= d
  BY <1>1
<1> HIDE DEF W
<1>5. Covers(Rewindow(R, s, from), W)
  BY <1>1, <1>3, <1>4, RewindowCovers
<1>6. Within(Rewindow(R, s, from), A)
  BY <1>1, RewindowWithin
<1>7. IsSnapshot(Rewindow(R, s, from))
  BY <1>1, <1>6, RewindowIsSnapshot
<1> QED BY <1>2, <1>5, <1>6, <1>7 DEF W

(* A dispatched rebuild whose ledger lacks the deleted report p, but holds    *)
(* one that starts no later, leaves nothing of p behind.                      *)
LEMMA DispatchBounds ==
    ASSUME NEW p \in Report, NEW a \in Report, First(DaysOf[a]) <= First(DaysOf[p]),
           NEW R \in SUBSET Report, a \in R, p \notin R,
           NEW V \in SUBSET R, NEW A \in SUBSET Report, R \subseteq A,
           NEW s, IsSnapshot(s), Covers(s, V), Within(s, A),
           NEW r \in {RebuildFull(R, s), RebuildIncremental(R, s)}
    PROVE  IsSnapshot(r) /\ Covers(r, V) /\ Within(r, A \ {p})
<1> DEFINE B == A \ {p}
           from == First(LedgerDays(R))
<1>1. B \in SUBSET Report /\ R \subseteq B
  OBVIOUS
<1>2. First(DaysOf[a]) \in DaysOf[a] /\ First(DaysOf[a]) \in Int
  BY FirstLast, DayTypes
<1>3. First(DaysOf[a]) \in LedgerDays(R)
  BY <1>2 DEF LedgerDays
<1>4. from \in LedgerDays(R) /\ from \in Int /\ from \in Day /\ from <= First(DaysOf[a])
  <2>1. LedgerDays(R) \in SUBSET Day /\ LedgerDays(R) # {}
    BY <1>3, LedgerDaysAreDays
  <2>2. from \in LedgerDays(R) /\ \A e \in LedgerDays(R) : from <= e
    BY <2>1, FirstLast
  <2> HIDE DEF from
  <2> QED BY <1>3, <2>1, <2>2, DayTypes
<1> HIDE DEF from, B
<1>5. \A d \in DaysOf[p] : from <= d
  <2> SUFFICES ASSUME NEW d \in DaysOf[p]
               PROVE  from <= d
    OBVIOUS
  <2>1. First(DaysOf[p]) <= d /\ First(DaysOf[p]) \in Int /\ d \in Int
    BY FirstLast, DayTypes
  <2> QED BY <1>2, <1>4, <2>1
<1>6. CASE r = RebuildFull(R, s)
  <2>1. r = Replay(R)
    BY <1>3, <1>6 DEF RebuildFull
  <2> QED BY <1>1, <2>1, ReplayBounds DEF B
<1>7. CASE r = RebuildIncremental(R, s)
  <2>1. r = Rewindow(R, s, from)
    BY <1>3, <1>7 DEF RebuildIncremental, from
  <2>2. \A q \in V \ V : \A d \in DaysOf[q] : from <= d
    OBVIOUS
  <2>3. Covers(r, V)
    BY <1>4, <2>1, <2>2, RewindowCovers
  <2>4. \A q \in A \ B : \A d \in DaysOf[q] : from <= d
    BY <1>5 DEF B
  <2>5. Within(r, B)
    BY <1>1, <1>4, <2>1, <2>4, RewindowWithin
  <2>6. IsSnapshot(r)
    BY <1>1, <1>4, <2>1, <2>5, RewindowIsSnapshot
  <2> QED BY <2>3, <2>5, <2>6 DEF B
<1> QED BY <1>6, <1>7

(***************************************************************************)
(* Types.                                                                  *)
(***************************************************************************)
LEMMA ConstantTypes ==
    /\ TenantOf \in [Report -> Tenant] /\ Anchor \subseteq Report /\ NoReport \notin Report
    /\ PersistAttempts \in [Report -> Nat]
    /\ RetryBase \in Nat /\ RetryCap \in Nat /\ DeferBusy \in Nat /\ StaleAfter \in Nat
    /\ EscalateAfter \in Nat /\ MaxAttempts \in Nat \ {0}
    /\ \A k \in 0..MaxAttempts : Backoff(k) \in Nat
BY DispatchAssumption, RebuildBackoffAssumption DEF DispatchAssumption

LEMMA RowTypes ==
    ASSUME NEW row \in Requirement
    PROVE  /\ \A k \in 0..MaxAttempts : \A full \in BOOLEAN : RunningRow(row, k, full) \in Requirement
           /\ SucceededRow(row) \in Requirement
           /\ FailedRow(row) \in Requirement
           /\ \A delay \in Nat : BusyRow(row, delay) \in Requirement
           /\ AgedRow(row) \in Requirement
<1> USE ConstantTypes
<1>1. \A k \in 0..MaxAttempts : \A full \in BOOLEAN : RunningRow(row, k, full) \in Requirement
  <2> SUFFICES ASSUME NEW k \in 0..MaxAttempts, NEW full \in BOOLEAN
               PROVE  RunningRow(row, k, full) \in Requirement
    OBVIOUS
  <2>1. 0 \in 0..StaleAfter + 1
    OBVIOUS
  <2> QED BY <2>1 DEF RunningRow, Requirement, Statuses
<1>2. SucceededRow(row) \in Requirement
  BY DEF SucceededRow, Requirement, Statuses
<1>3. FailedRow(row) \in Requirement
  <2>1. row.attempts \in 0..MaxAttempts
    BY DEF Requirement
  <2>2. Backoff(row.attempts) \in Nat
    BY <2>1
  <2> QED BY <2>2 DEF FailedRow, Requirement, Statuses
<1>4. ASSUME NEW delay \in Nat
      PROVE  BusyRow(row, delay) \in Requirement
  <2>1. row.attempts \in 0..MaxAttempts
    BY DEF Requirement
  <2>2. (IF row.attempts > 0 THEN row.attempts - 1 ELSE row.attempts) \in 0..MaxAttempts
    BY <2>1
  <2> QED BY <2>2 DEF BusyRow, Requirement, Statuses
<1>5. AgedRow(row) \in Requirement
  <2>1. row.age \in 0..StaleAfter + 1 /\ row.wait \in Nat \cup {-1}
    BY DEF Requirement, Unscheduled
  <2>2. (IF row.status = "running" /\ row.age <= StaleAfter THEN row.age + 1 ELSE row.age)
            \in 0..StaleAfter + 1
    BY <2>1
  <2>3. (IF row.wait > 0 THEN row.wait - 1 ELSE row.wait) \in Nat \cup {-1}
    BY <2>1
  <2> QED BY <2>2, <2>3 DEF AgedRow, Requirement, Statuses, Unscheduled
<1> QED BY <1>1, <1>2, <1>3, <1>4, <1>5

(* What an action on one row of the requirements table does to the table.     *)
LEMMA ReqUpdate ==
    ASSUME TypeOK, NEW p \in Report, NEW row \in Requirement, req' = [req EXCEPT ![p] = row]
    PROVE  req' \in [Report -> Requirement]
BY DEF TypeOK

LEMMA HandTypes ==
    ASSUME TypeOK, HandsHoldRequirements, NEW o \in Orchestrator, ~At(o, "idle")
    PROVE  /\ orch[o].req \in Report
           /\ InHand(o) \in Requirement /\ InHand(o).attempts \in 0..MaxAttempts
           /\ TenantOf[orch[o].req] \in Tenant
           /\ InHand(o).status # "absent"
<1>1. orch[o].req \in Report /\ req[orch[o].req].status # "absent"
  BY DEF HandsHoldRequirements
<1>2. req[orch[o].req] \in Requirement
  BY <1>1 DEF TypeOK
<1> QED BY <1>1, <1>2, ConstantTypes DEF InHand, Requirement

LEMMA TenantSets ==
    ASSUME TypeOK, NEW t \in Tenant
    PROVE  /\ Live(t) \in SUBSET Report /\ Ledger(t) \in SUBSET Report
           /\ Allowed(t) \in SUBSET Report
           /\ IsSnapshot(snap[t])
BY DEF TypeOK, Live, Ledger, Unfinished, Allowed, Ghosts, Of

LEMMA PersistCommitBounds ==
    ASSUME SnapshotInv, NEW p \in Report, PersistCommit(p)
    PROVE  /\ IsSnapshot(snap'[TenantOf[p]])
           /\ Covers(snap'[TenantOf[p]], Live(TenantOf[p]) \cup {p})
           /\ Within(snap'[TenantOf[p]], Allowed(TenantOf[p]))
           /\ \A u \in Tenant : u # TenantOf[p] => snap'[u] = snap[u]
           /\ snap' = [u \in Tenant |-> snap'[u]]
<1> DEFINE t == TenantOf[p]
           R == report[p].read
<1>1. t \in Tenant
  BY ConstantTypes
<1>2. p \in R /\ Live(t) \subseteq R /\ R \subseteq Allowed(t)
  BY DEF PersistCommit, SnapshotInv, ReadsAreBases, Basis
<1>3. IsSnapshot(snap[t]) /\ Allowed(t) \in SUBSET Report /\ snap = [u \in Tenant |-> snap[u]]
  BY <1>1, TenantSets DEF SnapshotInv, TypeOK
<1>4. Covers(snap[t], Live(t)) /\ Within(snap[t], Allowed(t))
  BY <1>1 DEF SnapshotInv, NothingLost, GhostsAreOwed
<1>5. snap' = [snap EXCEPT ![t] = RebuildForReport(R, snap[t], p)]
  BY DEF PersistCommit
<1>6. /\ snap'[t] = RebuildForReport(R, snap[t], p)
      /\ \A u \in Tenant : u # t => snap'[u] = snap[u]
      /\ snap' = [u \in Tenant |-> snap'[u]]
  BY <1>1, <1>3, <1>5
<1> HIDE DEF R, t
<1>7. R \in SUBSET Report /\ Live(t) \in SUBSET R
  BY <1>2, <1>3
<1>8. /\ IsSnapshot(RebuildForReport(R, snap[t], p))
      /\ Covers(RebuildForReport(R, snap[t], p), Live(t) \cup {p})
      /\ Within(RebuildForReport(R, snap[t], p), Allowed(t))
  BY <1>2, <1>3, <1>4, <1>7, PersistBounds
<1> QED BY <1>6, <1>8 DEF t

LEMMA RebuildCommitBounds ==
    ASSUME SnapshotInv, NEW o \in Orchestrator, RebuildCommits(o)
    PROVE  LET q == orch[o].req
               t == TenantOf[q]
           IN  /\ IsSnapshot(snap'[t])
               /\ Covers(snap'[t], Live(t))
               /\ Within(snap'[t], Allowed(t) \ {q})
               /\ \A u \in Tenant : u # t => snap'[u] = snap[u]
               /\ snap' = [u \in Tenant |-> snap'[u]]
<1> DEFINE q == orch[o].req
           t == TenantOf[q]
           R == orch[o].read
           r == IF orch[o].full THEN RebuildFull(R, snap[t]) ELSE RebuildIncremental(R, snap[t])
<1>1. At(o, "rebuild") /\ q \in Report
  BY DEF RebuildCommits, SnapshotInv, HandsHoldRequirements, At
<1>2. t \in Tenant
  BY <1>1, ConstantTypes
<1>3. Live(t) \subseteq R /\ R \subseteq Allowed(t) /\ q \notin R
  BY <1>1 DEF SnapshotInv, ReadsAreBases, Basis
<1>4. PICK a \in R : First(DaysOf[a]) <= First(DaysOf[q])
  BY <1>1 DEF SnapshotInv, ReadsAreBases, AnchoredBy
<1>5. IsSnapshot(snap[t]) /\ Allowed(t) \in SUBSET Report /\ snap = [u \in Tenant |-> snap[u]]
  BY <1>2, TenantSets DEF SnapshotInv, TypeOK
<1>6. Covers(snap[t], Live(t)) /\ Within(snap[t], Allowed(t))
  BY <1>2 DEF SnapshotInv, NothingLost, GhostsAreOwed
<1>7. snap' = [snap EXCEPT ![t] = r]
  BY DEF RebuildCommits
<1> HIDE DEF r, t
<1>8. /\ snap'[t] = r
      /\ \A u \in Tenant : u # t => snap'[u] = snap[u]
      /\ snap' = [u \in Tenant |-> snap'[u]]
  BY <1>2, <1>5, <1>7
<1>9. r \in {RebuildFull(R, snap[t]), RebuildIncremental(R, snap[t])}
  BY DEF r
<1> HIDE DEF R, q
<1>10. R \in SUBSET Report /\ a \in Report /\ Live(t) \in SUBSET R
  BY <1>3, <1>4, <1>5
<1>11. IsSnapshot(r) /\ Covers(r, Live(t)) /\ Within(r, Allowed(t) \ {q})
  BY <1>1, <1>3, <1>4, <1>5, <1>6, <1>9, <1>10, DispatchBounds
<1> QED BY <1>8, <1>11 DEF q, t

(***************************************************************************)
(* Steps that leave the reports, the snapshots and the flags alone.        *)
(***************************************************************************)
(* Fewer processed reports, or more that may still be counted, loosen the     *)
(* bounds that unchanged snapshots already respect.                           *)
LEMMA Grow ==
    ASSUME SnapshotInv, TypeOK', snap' = snap,
           \A t \in Tenant : Live(t)' \subseteq Live(t) /\ Allowed(t) \subseteq Allowed(t)'
    PROVE  NothingLost' /\ GhostsAreOwed'
<1> SUFFICES ASSUME NEW t \in Tenant
             PROVE  Covers(snap'[t], Live(t)') /\ Within(snap'[t], Allowed(t)')
  BY DEF NothingLost, GhostsAreOwed
<1>1. /\ Live(t) \in SUBSET Report /\ Allowed(t) \in SUBSET Report /\ IsSnapshot(snap[t])
  BY TenantSets DEF SnapshotInv
<1>2. Allowed(t)' \in SUBSET Report
  BY DEF TypeOK, Live, Ledger, Unfinished, Allowed, Ghosts, Of
<1>3. Live(t)' \in SUBSET Live(t) /\ Allowed(t) \subseteq Allowed(t)'
  OBVIOUS
<1>4. Covers(snap[t], Live(t)) /\ Within(snap[t], Allowed(t))
  BY DEF SnapshotInv, NothingLost, GhostsAreOwed
<1>5. Covers(snap[t], Live(t)')
  BY <1>1, <1>3, <1>4, CoversLess
<1>6. Within(snap[t], Allowed(t)')
  BY <1>1, <1>2, <1>3, <1>4, WithinMore
<1> QED BY <1>5, <1>6

LEMMA Quiet ==
    ASSUME SnapshotInv, UNCHANGED <<report, snap, created>>,
           req' \in [Report -> Requirement], orch' \in [Orchestrator -> OrchState],
           \A p \in Report : /\ req'[p].required = req[p].required
                             /\ req'[p].status = "absent" <=> req[p].status = "absent",
           \A o \in Orchestrator :
               /\ orch'[o].pc = "rebuild" => orch'[o] = orch[o]
               /\ orch'[o].pc # "idle" =>
                      orch'[o].req \in Report /\ req[orch'[o].req].status # "absent"
               /\ orch'[o].pc = "peeked" => orch'[o].attempts < MaxAttempts
    PROVE  SnapshotInv'
<1>1. TypeOK'
  BY DEF SnapshotInv, TypeOK
<1>2. \A t \in Tenant : /\ Live(t)' = Live(t) /\ Ledger(t)' = Ledger(t)
                        /\ Allowed(t)' = Allowed(t)
  BY DEF Live, Ledger, Unfinished, Allowed, Ghosts, Of
<1>3. NothingLost' /\ GhostsAreOwed'
  BY <1>1, <1>2, Grow
<1>4. LockExcludes'
  BY DEF SnapshotInv, LockExcludes, At
<1>5. HandsHoldRequirements' /\ CopiesHaveBudget'
  BY DEF HandsHoldRequirements, CopiesHaveBudget, At
<1>6. RequirementsFollowDeletion'
  BY <1>2, ConstantTypes DEF SnapshotInv, RequirementsFollowDeletion, AnchoredBy
<1>7. ReadsAreBases'
  <2>1. \A p \in Report : report'[p].stage = "persisting" =>
             p \in report'[p].read /\ Basis(report[p].read, TenantOf[p])'
    BY <1>2, ConstantTypes DEF SnapshotInv, ReadsAreBases, Basis
  <2>2. ASSUME NEW o \in Orchestrator, At(o, "rebuild")'
        PROVE  /\ Basis(orch[o].read, TenantOf[orch[o].req])'
               /\ orch'[o].req \notin orch'[o].read
               /\ \E a \in orch'[o].read : AnchoredBy(a, orch'[o].req)
    <3>1. orch'[o] = orch[o] /\ At(o, "rebuild") /\ orch[o].req \in Report
      BY <2>2 DEF At, SnapshotInv, HandsHoldRequirements
    <3>2. TenantOf[orch[o].req] \in Tenant
      BY <3>1, ConstantTypes
    <3> QED BY <1>2, <3>1, <3>2 DEF SnapshotInv, ReadsAreBases, Basis
  <2> QED BY <2>1, <2>2 DEF ReadsAreBases, AnchoredBy
<1> QED BY <1>1, <1>3, <1>4, <1>5, <1>6, <1>7 DEF SnapshotInv
(* Steps that only move one orchestrator, not into a rebuild.                 *)
LEMMA OrchStep ==
    ASSUME SnapshotInv, UNCHANGED <<report, snap, created, req>>,
           NEW o \in Orchestrator, NEW h \in OrchState, orch' = [orch EXCEPT ![o] = h],
           h.pc # "rebuild",
           h.pc # "idle" => h.req \in Report /\ req[h.req].status # "absent",
           h.pc = "peeked" => h.attempts < MaxAttempts
    PROVE  SnapshotInv'
<1>1. orch \in [Orchestrator -> OrchState] /\ req \in [Report -> Requirement]
  BY DEF SnapshotInv, TypeOK
<1>2. orch' \in [Orchestrator -> OrchState] /\ req' \in [Report -> Requirement]
  BY <1>1
<1>3. ASSUME NEW n \in Orchestrator
      PROVE  /\ orch'[n].pc = "rebuild" => orch'[n] = orch[n]
             /\ orch'[n].pc # "idle" => orch'[n].req \in Report /\ req[orch'[n].req].status # "absent"
             /\ orch'[n].pc = "peeked" => orch'[n].attempts < MaxAttempts
  <2>1. orch'[n] = IF n = o THEN h ELSE orch[n]
    BY <1>1
  <2> QED BY <2>1 DEF SnapshotInv, HandsHoldRequirements, CopiesHaveBudget, At
<1> QED BY <1>2, <1>3, Quiet

(* Steps that rewrite rows without touching their flag, while the             *)
(* orchestrators stay or one of them finishes or goes on running.             *)
FlagsKept ==
    \A p \in Report : /\ req'[p].required = req[p].required
                      /\ req'[p].status = "absent" <=> req[p].status = "absent"

HandsKept ==
    \A n \in Orchestrator :
        \/ orch'[n] = orch[n]
        \/ orch'[n].pc = "idle"
        \/ orch'[n].pc = "running" /\ orch'[n].req = orch[n].req /\ orch[n].pc # "idle"

LEMMA RowStep ==
    ASSUME SnapshotInv, UNCHANGED <<report, snap, created>>,
           req' \in [Report -> Requirement], FlagsKept,
           orch' \in [Orchestrator -> OrchState], HandsKept
    PROVE  SnapshotInv'
<1>1. ASSUME NEW n \in Orchestrator
      PROVE  /\ orch'[n].pc = "rebuild" => orch'[n] = orch[n]
             /\ orch'[n].pc # "idle" => orch'[n].req \in Report /\ req[orch'[n].req].status # "absent"
             /\ orch'[n].pc = "peeked" => orch'[n].attempts < MaxAttempts
  BY DEF SnapshotInv, HandsHoldRequirements, CopiesHaveBudget, At, HandsKept
<1> QED BY <1>1, Quiet DEF FlagsKept

LEMMA IdleType == IdleOrch \in OrchState
BY ConstantTypes DEF IdleOrch, OrchState, OrchPcs

LEMMA OrchOnlySteps ==
    ASSUME SnapshotInv, NEW o \in Orchestrator,
           \/ Select(o) \/ Peek(o) \/ Skip(o) \/ LockBusy(o) \/ RebuildFails(o) \/ Crash(o)
    PROVE  SnapshotInv'
<1>1. orch[o] \in OrchState /\ orch \in [Orchestrator -> OrchState] /\ TypeOK
      /\ HandsHoldRequirements
  BY DEF SnapshotInv, TypeOK
<1>2. CASE Select(o)
  <2>1. PICK p \in Candidates : orch' = [orch EXCEPT ![o].pc = "chosen", ![o].req = p]
    BY <1>2 DEF Select
  <2>2. p \in Report /\ req[p].status # "absent"
    BY <2>1 DEF Candidates, Queued, Waiting
  <2> DEFINE h == [orch[o] EXCEPT !.pc = "chosen", !.req = p]
  <2>3. h \in OrchState /\ h.pc = "chosen" /\ h.req = p
    BY <1>1, <2>2 DEF OrchState, OrchPcs
  <2>4. orch' = [orch EXCEPT ![o] = h]
    BY <2>1
  <2> HIDE DEF h
  <2> QED BY <1>2, <2>2, <2>3, <2>4, OrchStep DEF Select
<1>3. CASE Peek(o)
  <2> DEFINE h == [orch[o] EXCEPT !.pc = "peeked", !.attempts = InHand(o).attempts,
                                  !.full = InHand(o).full]
  <2>1. At(o, "chosen") /\ ~At(o, "idle") /\ InHand(o).attempts < MaxAttempts
    BY <1>3 DEF Peek, At, Eligible
  <2>2. InHand(o) \in Requirement /\ orch[o].req \in Report /\ InHand(o).status # "absent"
    BY <1>1, <2>1, HandTypes
  <2>3. h \in OrchState /\ h.pc = "peeked" /\ h.req = orch[o].req /\ h.attempts < MaxAttempts
    BY <1>1, <2>1, <2>2 DEF OrchState, OrchPcs, Requirement
  <2>4. orch' = [orch EXCEPT ![o] = h]
    BY <1>3 DEF Peek
  <2> HIDE DEF h
  <2> QED BY <1>3, <2>2, <2>3, <2>4, OrchStep DEF Peek, InHand
<1>4. CASE Skip(o) \/ Crash(o)
  <2>1. orch' = [orch EXCEPT ![o] = IdleOrch] /\ UNCHANGED <<report, snap, created, req>>
    BY <1>4 DEF Skip, Crash, Finish
  <2>2. IdleOrch.pc = "idle"
    BY DEF IdleOrch
  <2> QED BY <2>1, <2>2, IdleType, OrchStep
<1>5. CASE LockBusy(o)
  <2> DEFINE h == [orch[o] EXCEPT !.pc = "busy"]
  <2>1. ~At(o, "idle")
    BY <1>5 DEF LockBusy, At
  <2>2. orch[o].req \in Report /\ InHand(o).status # "absent"
    BY <1>1, <2>1, HandTypes
  <2>3. h \in OrchState /\ h.pc = "busy" /\ h.req = orch[o].req
    BY <1>1 DEF OrchState, OrchPcs
  <2>4. orch' = [orch EXCEPT ![o] = h]
    BY <1>5 DEF LockBusy, Goto
  <2> HIDE DEF h
  <2> QED BY <1>5, <2>2, <2>3, <2>4, OrchStep DEF LockBusy, InHand
<1>6. CASE RebuildFails(o)
  <2> DEFINE h == [orch[o] EXCEPT !.pc = "failed", !.read = {}]
  <2>1. ~At(o, "idle")
    BY <1>6 DEF RebuildFails, At
  <2>2. orch[o].req \in Report /\ InHand(o).status # "absent"
    BY <1>1, <2>1, HandTypes
  <2>3. h \in OrchState /\ h.pc = "failed" /\ h.req = orch[o].req
    BY <1>1 DEF OrchState, OrchPcs
  <2>4. orch' = [orch EXCEPT ![o] = h]
    BY <1>6 DEF RebuildFails
  <2> HIDE DEF h
  <2> QED BY <1>6, <2>2, <2>3, <2>4, OrchStep DEF RebuildFails, InHand
<1> QED BY <1>2, <1>3, <1>4, <1>5, <1>6

(* What the row transitions leave alone.                                      *)
LEMMA RowFlags ==
    ASSUME NEW row \in Requirement, row.status # "absent"
    PROVE  /\ \A k, full : RunningRow(row, k, full).required = row.required
                         /\ RunningRow(row, k, full).status # "absent"
           /\ FailedRow(row).required = row.required /\ FailedRow(row).status # "absent"
           /\ \A delay : /\ BusyRow(row, delay).required = row.required
                         /\ BusyRow(row, delay).status # "absent"
BY DEF RunningRow, FailedRow, BusyRow, Requirement

LEMMA OutcomeSteps ==
    ASSUME SnapshotInv, NEW o \in Orchestrator, MarkRunning(o) \/ MarkFailed(o) \/ MarkBusy(o)
    PROVE  SnapshotInv'
<1> DEFINE q == orch[o].req
<1>1. ~At(o, "idle") /\ TypeOK /\ HandsHoldRequirements
  BY DEF MarkRunning, MarkFailed, MarkBusy, At, SnapshotInv
<1>2. q \in Report /\ req[q] \in Requirement /\ req[q].status # "absent"
  BY <1>1, HandTypes DEF InHand
<1>3. /\ orch \in [Orchestrator -> OrchState] /\ orch[o] \in OrchState
      /\ req \in [Report -> Requirement]
  BY <1>1 DEF TypeOK
<1>4. ASSUME NEW row \in Requirement, req' = [req EXCEPT ![q] = row],
             row.required = req[q].required, row.status # "absent"
      PROVE  req' \in [Report -> Requirement] /\ FlagsKept
  BY <1>2, <1>3, <1>4 DEF FlagsKept
<1>5. CASE MarkRunning(o)
  <2> DEFINE attempts == orch[o].attempts + 1
             full     == orch[o].full \/ attempts >= EscalateAfter
             row      == RunningRow(req[q], attempts, full)
             h        == [orch[o] EXCEPT !.pc = "running", !.attempts = attempts, !.full = full]
  <2>1. orch[o].attempts \in 0..MaxAttempts /\ orch[o].attempts < MaxAttempts
    BY <1>3, <1>5 DEF MarkRunning, SnapshotInv, CopiesHaveBudget, OrchState
  <2>2. attempts \in 0..MaxAttempts /\ full \in BOOLEAN
    BY <1>3, <2>1, ConstantTypes DEF OrchState
  <2>3. req' = [req EXCEPT ![q] = row] /\ orch' = [orch EXCEPT ![o] = h]
    BY <1>5 DEF MarkRunning
  <2> HIDE DEF attempts, full
  <2>4. row \in Requirement
    BY <1>2, <2>2, RowTypes
  <2>5. row.required = req[q].required /\ row.status # "absent"
    BY <1>2, RowFlags
  <2>6. h \in OrchState /\ h.pc = "running" /\ h.req = orch[o].req
    BY <1>3, <2>2 DEF OrchState, OrchPcs
  <2> HIDE DEF row, h
  <2>7. orch' \in [Orchestrator -> OrchState]
    BY <1>3, <2>3, <2>6
  <2>8. HandsKept
    BY <1>1, <1>3, <2>3, <2>6 DEF At, HandsKept
  <2>9. req' \in [Report -> Requirement] /\ FlagsKept
    BY <1>4, <2>3, <2>4, <2>5
  <2>10. UNCHANGED <<report, snap, created>>
    BY <1>5 DEF MarkRunning
  <2> QED BY <2>7, <2>8, <2>9, <2>10, RowStep
<1>6. CASE MarkFailed(o) \/ MarkBusy(o)
  <2>1. orch' = [orch EXCEPT ![o] = IdleOrch] /\ UNCHANGED <<report, snap, created>>
    BY <1>6 DEF MarkFailed, MarkBusy, Finish
  <2>2. PICK row \in {FailedRow(req[q]), BusyRow(req[q], DeferBusy)} : req' = [req EXCEPT ![q] = row]
    BY <1>6 DEF MarkFailed, MarkBusy
  <2>3. row \in Requirement
    BY <1>2, RowTypes, ConstantTypes
  <2>4. row.required = req[q].required /\ row.status # "absent"
    BY <1>2, RowFlags
  <2>5. req' \in [Report -> Requirement] /\ FlagsKept
    BY <1>4, <2>2, <2>3, <2>4
  <2>6. orch' \in [Orchestrator -> OrchState]
    BY <1>3, <2>1, IdleType
  <2>7. HandsKept
    BY <1>3, <2>1 DEF IdleOrch, HandsKept
  <2> QED BY <2>1, <2>5, <2>6, <2>7, RowStep
<1> QED BY <1>5, <1>6
LEMMA MaintenanceSteps ==
    ASSUME SnapshotInv, Tick \/ (\E o \in Orchestrator : Maintain(o))
    PROVE  SnapshotInv'
<1>1. req \in [Report -> Requirement] /\ orch \in [Orchestrator -> OrchState]
  BY DEF SnapshotInv, TypeOK
<1>2. UNCHANGED <<report, snap, created, orch>>
  BY DEF Tick, Maintain, ResetStale, ApplyBackoff, DeferOverloaded
<1>3. orch' \in [Orchestrator -> OrchState] /\ HandsKept
  BY <1>1, <1>2 DEF HandsKept
<1>4. ASSUME NEW row \in Requirement, NEW k \in Nat
      PROVE  /\ [row EXCEPT !.wait = k] \in Requirement
             /\ [row EXCEPT !.wait = k].required = row.required
             /\ [row EXCEPT !.wait = k].status = row.status
  BY DEF Requirement
<1>5. \A p \in Report : /\ req[p] \in Requirement
                        /\ req[p].attempts \in 0..MaxAttempts
                        /\ Backoff(req[p].attempts) \in Nat
  BY <1>1, ConstantTypes DEF Requirement
<1>6. CASE Tick
  <2>1. req' = [p \in Report |-> AgedRow(req[p])]
    BY <1>6 DEF Tick
  <2>2. ASSUME NEW p \in Report
        PROVE  /\ AgedRow(req[p]) \in Requirement
               /\ AgedRow(req[p]).required = req[p].required
               /\ AgedRow(req[p]).status = req[p].status
    <3>1. AgedRow(req[p]) \in Requirement
      BY <1>5, RowTypes
    <3>2. AgedRow(req[p]).required = req[p].required /\ AgedRow(req[p]).status = req[p].status
      BY <1>5 DEF AgedRow, Requirement
    <3> QED BY <3>1, <3>2
  <2>3. req' \in [Report -> Requirement] /\ FlagsKept
    BY <2>1, <2>2 DEF FlagsKept
  <2> QED BY <1>2, <1>3, <2>3, RowStep
<1>7. ASSUME NEW o \in Orchestrator, NEW t \in Tenant, ResetStale(o, t)
      PROVE  SnapshotInv'
  <2> DEFINE reset(p) == [req[p] EXCEPT !.status = "deferred", !.wait = Backoff(req[p].attempts)]
  <2>1. req' = [p \in Report |-> IF p \in StaleOf(t) THEN reset(p) ELSE req[p]]
    BY <1>7 DEF ResetStale
  <2>2. ASSUME NEW p \in Report
        PROVE  /\ reset(p) \in Requirement /\ reset(p).required = req[p].required
               /\ reset(p).status # "absent"
    BY <1>5 DEF Requirement, Statuses
  <2>3. \A p \in StaleOf(t) : req[p].status # "absent"
    BY DEF StaleOf, StaleRunning
  <2> HIDE DEF reset
  <2>4. req' \in [Report -> Requirement] /\ FlagsKept
    BY <1>5, <2>1, <2>2, <2>3 DEF FlagsKept
  <2> QED BY <1>2, <1>3, <2>4, RowStep
<1>8. ASSUME NEW o \in Orchestrator, NEW t \in Tenant, ApplyBackoff(o, t)
      PROVE  SnapshotInv'
  <2> DEFINE waits(p) == [req[p] EXCEPT !.status = IF @ = "failed" THEN "deferred" ELSE @,
                                        !.wait = Backoff(req[p].attempts)]
  <2>1. req' = [p \in Report |-> IF p \in UnscheduledOf(t) THEN waits(p) ELSE req[p]]
    BY <1>8 DEF ApplyBackoff
  <2>2. ASSUME NEW p \in Report
        PROVE  /\ waits(p) \in Requirement /\ waits(p).required = req[p].required
               /\ waits(p).status = "absent" <=> req[p].status = "absent"
    BY <1>5 DEF Requirement, Statuses
  <2> HIDE DEF waits
  <2>3. req' \in [Report -> Requirement] /\ FlagsKept
    BY <1>5, <2>1, <2>2 DEF FlagsKept
  <2> QED BY <1>2, <1>3, <2>3, RowStep
<1>9. ASSUME NEW o \in Orchestrator, NEW t \in Tenant, DeferOverloaded(o, t)
      PROVE  SnapshotInv'
  <2>1. PICK p \in Report, q \in Report :
            /\ req[p].status = "pending" /\ req[q].status = "pending"
            /\ req' = [req EXCEPT ![p] = BusyRow(req[p], 2 * DeferBusy),
                                  ![q] = BusyRow(req[q], 2 * DeferBusy)]
    BY <1>9 DEF DeferOverloaded, Of, Queued
  <2>2. 2 * DeferBusy \in Nat
    BY ConstantTypes
  <2>3. ASSUME NEW n \in {p, q}
        PROVE  /\ BusyRow(req[n], 2 * DeferBusy) \in Requirement
               /\ BusyRow(req[n], 2 * DeferBusy).required = req[n].required
               /\ BusyRow(req[n], 2 * DeferBusy).status # "absent"
    <3>1. req[n] \in Requirement /\ req[n].status # "absent"
      BY <1>5, <2>1
    <3>2. BusyRow(req[n], 2 * DeferBusy) \in Requirement
      BY <2>2, <3>1, RowTypes
    <3> QED BY <3>1, <3>2, RowFlags
  <2>4. req' \in [Report -> Requirement] /\ FlagsKept
    BY <1>1, <2>1, <2>3 DEF FlagsKept
  <2> QED BY <1>2, <1>3, <2>4, RowStep
<1> QED BY <1>6, <1>7, <1>8, <1>9 DEF Maintain

(***************************************************************************)
(* Steps that move a report or open a rebuild.                             *)
(***************************************************************************)
LEMMA BeginRebuildStep ==
    ASSUME SnapshotInv, NEW o \in Orchestrator, BeginRebuild(o)
    PROVE  SnapshotInv'
<1> DEFINE q == orch[o].req
           t == TenantOf[q]
           h == [orch[o] EXCEPT !.pc = "rebuild", !.read = Ledger(t)]
<1>1. ~At(o, "idle") /\ TypeOK /\ HandsHoldRequirements
  BY DEF BeginRebuild, At, SnapshotInv
<1>2. q \in Report /\ req[q].status # "absent" /\ t \in Tenant
  BY <1>1, HandTypes DEF InHand
<1>3. orch \in [Orchestrator -> OrchState] /\ orch[o] \in OrchState /\ Ledger(t) \in SUBSET Report
  BY <1>1, <1>2, TenantSets DEF TypeOK
<1>4. orch' = [orch EXCEPT ![o] = h] /\ UNCHANGED <<report, snap, req, created>>
  BY DEF BeginRebuild
<1>5. h \in OrchState /\ h.pc = "rebuild" /\ h.req = q /\ h.read = Ledger(t)
  BY <1>3 DEF OrchState, OrchPcs
<1>6. LockFree(t)
  BY DEF BeginRebuild
<1> HIDE DEF h, t
<1>7. \A n \in Orchestrator : orch'[n] = IF n = o THEN h ELSE orch[n]
  BY <1>3, <1>4
<1>8. TypeOK'
  BY <1>1, <1>3, <1>4, <1>5 DEF TypeOK
<1>9. \A u \in Tenant : /\ Live(u)' = Live(u) /\ Ledger(u)' = Ledger(u)
                        /\ Allowed(u)' = Allowed(u)
  BY <1>4 DEF Live, Ledger, Unfinished, Allowed, Ghosts, Of
<1>10. NothingLost' /\ GhostsAreOwed'
  BY <1>4, <1>8, <1>9, Grow
<1>11. HandsHoldRequirements' /\ CopiesHaveBudget'
  BY <1>2, <1>4, <1>5, <1>7 DEF SnapshotInv, HandsHoldRequirements, CopiesHaveBudget, At
<1>12. RequirementsFollowDeletion'
  BY <1>4, <1>9, ConstantTypes DEF SnapshotInv, RequirementsFollowDeletion, AnchoredBy
<1>13. LockExcludes'
  <2>1. /\ \A p \in Report : report[p].stage = "persisting" => TenantOf[p] # t
        /\ \A n \in Orchestrator : At(n, "rebuild") => TenantOf[orch[n].req] # t
    BY <1>6 DEF LockFree, LockHeld, Of, At
  <2> QED BY <1>4, <1>5, <1>7, <2>1 DEF SnapshotInv, LockExcludes, At, t
<1>14. ReadsAreBases'
  <2>1. report[q].stage = "deleted" /\ \E a \in Anchor : AnchoredBy(a, q) /\ a \in Ledger(t)
    BY <1>2 DEF SnapshotInv, RequirementsFollowDeletion, t
  <2>2. Basis(Ledger(t), t) /\ q \notin Ledger(t)
    BY <2>1 DEF Basis, Ledger, Live, Unfinished, Allowed, Of
  <2>3. \A p \in Report : report'[p].stage = "persisting" =>
             p \in report'[p].read /\ Basis(report[p].read, TenantOf[p])'
    BY <1>4, <1>9, ConstantTypes DEF SnapshotInv, ReadsAreBases, Basis
  <2>4. ASSUME NEW n \in Orchestrator, At(n, "rebuild")'
        PROVE  /\ Basis(orch[n].read, TenantOf[orch[n].req])'
               /\ orch'[n].req \notin orch'[n].read
               /\ \E a \in orch'[n].read : AnchoredBy(a, orch'[n].req)
    <3>1. CASE n = o
      <4>1. orch'[n].read = Ledger(t) /\ orch'[n].req = q /\ TenantOf[q] = t
        BY <1>5, <1>7, <3>1 DEF t
      <4>2. Basis(orch[n].read, TenantOf[orch[n].req])'
        BY <1>2, <1>9, <2>2, <4>1 DEF Basis
      <4> QED BY <2>1, <2>2, <4>1, <4>2
    <3>2. CASE n # o
      <4>1. orch'[n] = orch[n] /\ At(n, "rebuild") /\ orch[n].req \in Report
        BY <1>1, <1>7, <2>4, <3>2 DEF At, HandsHoldRequirements
      <4>2. TenantOf[orch[n].req] \in Tenant
        BY <4>1, ConstantTypes
      <4> QED BY <1>9, <4>1, <4>2 DEF SnapshotInv, ReadsAreBases, Basis
    <3> QED BY <3>1, <3>2
  <2> QED BY <2>3, <2>4 DEF ReadsAreBases, AnchoredBy
<1> QED BY <1>8, <1>10, <1>11, <1>12, <1>13, <1>14 DEF SnapshotInv
LEMMA RebuildCommitsStep ==
    ASSUME SnapshotInv, NEW o \in Orchestrator, RebuildCommits(o)
    PROVE  SnapshotInv'
<1>1. ~At(o, "idle") /\ At(o, "rebuild") /\ TypeOK /\ HandsHoldRequirements
  BY DEF RebuildCommits, At, SnapshotInv
<1>2. PICK q \in Report, t \in Tenant :
          /\ q = orch[o].req /\ t = TenantOf[q]
          /\ req[q] \in Requirement /\ req[q].status # "absent"
  BY <1>1, HandTypes DEF InHand
<1>3. /\ IsSnapshot(snap'[t]) /\ Covers(snap'[t], Live(t)) /\ Within(snap'[t], Allowed(t) \ {q})
      /\ \A u \in Tenant : u # t => snap'[u] = snap[u]
      /\ snap' = [u \in Tenant |-> snap'[u]]
  BY <1>2, RebuildCommitBounds
<1>4. /\ req' = [req EXCEPT ![q] = SucceededRow(req[q])]
      /\ orch' = [orch EXCEPT ![o] = IdleOrch] /\ UNCHANGED <<report, created>>
  BY <1>2 DEF RebuildCommits, Finish
<1>5. /\ SucceededRow(req[q]) \in Requirement
      /\ SucceededRow(req[q]).status = "succeeded" /\ SucceededRow(req[q]).required = FALSE
  BY <1>2, RowTypes DEF SucceededRow, Requirement
<1>6. \A p \in Report : req'[p] = IF p = q THEN SucceededRow(req[q]) ELSE req[p]
  BY <1>1, <1>4 DEF TypeOK
<1>7. \A n \in Orchestrator : orch'[n] = IF n = o THEN IdleOrch ELSE orch[n]
  BY <1>1, <1>4 DEF TypeOK
<1>8. \A u \in Tenant : Live(u)' = Live(u) /\ Ledger(u)' = Ledger(u)
  BY <1>4 DEF Live, Ledger, Unfinished, Of
<1>9. \A u \in Tenant : u # t => Allowed(u)' = Allowed(u)
  <2>1. \A u \in Tenant : u # t => Ghosts(u)' = Ghosts(u)
    BY <1>2, <1>4, <1>6 DEF Ghosts, Of
  <2> QED BY <1>8, <2>1 DEF Allowed
<1>10. Allowed(t)' = Allowed(t) \ {q}
  <2>1. Ghosts(t)' = Ghosts(t) \ {q}
    BY <1>4, <1>5, <1>6 DEF Ghosts, Of
  <2>2. q \notin Ledger(t)
    BY <1>2 DEF SnapshotInv, RequirementsFollowDeletion, Ledger, Live, Unfinished
  <2> QED BY <1>8, <2>1, <2>2 DEF Allowed
<1>11. TypeOK'
  <2>1. \A u \in Tenant : IsSnapshot(snap'[u])
    BY <1>1, <1>3 DEF TypeOK
  <2>2. req' \in [Report -> Requirement] /\ orch' \in [Orchestrator -> OrchState]
    BY <1>1, <1>2, <1>4, <1>5, IdleType DEF TypeOK
  <2> QED BY <1>1, <1>3, <1>4, <2>1, <2>2 DEF TypeOK
<1>12. NothingLost'
  BY <1>3, <1>8 DEF SnapshotInv, NothingLost
<1>13. GhostsAreOwed'
  BY <1>3, <1>9, <1>10 DEF SnapshotInv, GhostsAreOwed
<1>14. HandsHoldRequirements' /\ CopiesHaveBudget'
  BY <1>5, <1>6, <1>7 DEF SnapshotInv, HandsHoldRequirements, CopiesHaveBudget, At, IdleOrch
<1>15. RequirementsFollowDeletion'
  BY <1>2, <1>4, <1>5, <1>6, <1>8, ConstantTypes DEF SnapshotInv, RequirementsFollowDeletion, AnchoredBy
<1>16. LockExcludes'
  BY <1>4, <1>7 DEF SnapshotInv, LockExcludes, At, IdleOrch
<1>17. ReadsAreBases'
  <2>1. ASSUME NEW p \in Report, report'[p].stage = "persisting"
        PROVE  p \in report'[p].read /\ Basis(report[p].read, TenantOf[p])'
    <3>1. TenantOf[p] # t /\ TenantOf[p] \in Tenant
      BY <1>1, <1>2, <1>4, <2>1, ConstantTypes DEF SnapshotInv, LockExcludes
    <3> QED BY <1>4, <1>8, <1>9, <2>1, <3>1 DEF SnapshotInv, ReadsAreBases, Basis
  <2>2. ASSUME NEW n \in Orchestrator, At(n, "rebuild")'
        PROVE  /\ Basis(orch[n].read, TenantOf[orch[n].req])'
               /\ orch'[n].req \notin orch'[n].read
               /\ \E a \in orch'[n].read : AnchoredBy(a, orch'[n].req)
    <3>1. n # o /\ orch'[n] = orch[n] /\ At(n, "rebuild") /\ orch[n].req \in Report
      BY <1>1, <1>7, <2>2 DEF At, HandsHoldRequirements, IdleOrch
    <3>2. TenantOf[orch[n].req] \in Tenant /\ TenantOf[orch[n].req] # t
      BY <1>1, <1>2, <3>1, ConstantTypes DEF SnapshotInv, LockExcludes
    <3> QED BY <1>8, <1>9, <3>1, <3>2 DEF SnapshotInv, ReadsAreBases, Basis
  <2> QED BY <2>1, <2>2 DEF ReadsAreBases, AnchoredBy
<1> QED BY <1>11, <1>12, <1>13, <1>14, <1>15, <1>16, <1>17 DEF SnapshotInv
(* A step of one report's ETL job that leaves the snapshots alone and does    *)
(* not start a rebuild: ingest and an aborted persist.                        *)
LEMMA ReportMoves ==
    ASSUME SnapshotInv, NEW p \in Report, UNCHANGED <<snap, req, created, orch>>,
           report' \in [Report -> ReportState],
           \A n \in Report : n # p => report'[n] = report[n],
           report[p].stage \in {"new", "persisting"}, report'[p].stage = "ledgered"
    PROVE  SnapshotInv'
<1>1. TypeOK'
  BY DEF SnapshotInv, TypeOK
<1>2. \A t \in Tenant : /\ Live(t)' = Live(t) /\ Ledger(t) \subseteq Ledger(t)'
                        /\ Allowed(t) \subseteq Allowed(t)'
  BY DEF Live, Ledger, Unfinished, Allowed, Ghosts, Of
<1>3. NothingLost' /\ GhostsAreOwed'
  BY <1>1, <1>2, Grow
<1>4. HandsHoldRequirements' /\ CopiesHaveBudget'
  BY DEF SnapshotInv, HandsHoldRequirements, CopiesHaveBudget, At
<1>5. LockExcludes'
  BY DEF SnapshotInv, LockExcludes, At
<1>6. RequirementsFollowDeletion'
  BY <1>2, ConstantTypes DEF SnapshotInv, RequirementsFollowDeletion, AnchoredBy
<1>7. ReadsAreBases'
  <2>1. ASSUME NEW n \in Report, report'[n].stage = "persisting"
        PROVE  n \in report'[n].read /\ Basis(report[n].read, TenantOf[n])'
    <3>1. report'[n] = report[n] /\ TenantOf[n] \in Tenant
      BY <2>1, ConstantTypes
    <3> QED BY <1>2, <2>1, <3>1 DEF SnapshotInv, ReadsAreBases, Basis
  <2>2. ASSUME NEW o \in Orchestrator, At(o, "rebuild")'
        PROVE  /\ Basis(orch[o].read, TenantOf[orch[o].req])'
               /\ orch'[o].req \notin orch'[o].read
               /\ \E a \in orch'[o].read : AnchoredBy(a, orch'[o].req)
    <3>1. orch'[o] = orch[o] /\ At(o, "rebuild") /\ orch[o].req \in Report
      BY <2>2 DEF At, SnapshotInv, HandsHoldRequirements
    <3>2. TenantOf[orch[o].req] \in Tenant
      BY <3>1, ConstantTypes
    <3> QED BY <1>2, <3>1, <3>2 DEF SnapshotInv, ReadsAreBases, Basis
  <2> QED BY <2>1, <2>2 DEF ReadsAreBases, AnchoredBy
<1> QED BY <1>1, <1>3, <1>4, <1>5, <1>6, <1>7 DEF SnapshotInv

LEMMA IngestAndAbortSteps ==
    ASSUME SnapshotInv, NEW p \in Report, Ingest(p) \/ PersistAbort(p)
    PROVE  SnapshotInv'
<1>1. report \in [Report -> ReportState] /\ report[p] \in ReportState
  BY DEF SnapshotInv, TypeOK
<1>2. PICK r \in SUBSET Report : report' = [report EXCEPT ![p] = [report[p] EXCEPT !.stage = "ledgered", !.read = r]]
  <2>1. CASE Ingest(p)
    <3>1. report[p].read \in SUBSET Report
      BY <1>1 DEF ReportState
    <3>2. [report[p] EXCEPT !.stage = "ledgered"] = [report[p] EXCEPT !.stage = "ledgered", !.read = report[p].read]
      BY <1>1 DEF ReportState
    <3> QED BY <2>1, <3>1, <3>2 DEF Ingest
  <2>2. CASE PersistAbort(p)
    BY <2>2 DEF PersistAbort
  <2> QED BY <2>1, <2>2
<1> DEFINE h == [report[p] EXCEPT !.stage = "ledgered", !.read = r]
<1>3. h \in ReportState /\ h.stage = "ledgered"
  BY <1>1 DEF ReportState, Stages
<1>4. report' = [report EXCEPT ![p] = h]
  BY <1>2
<1> HIDE DEF h
<1>5. /\ report' \in [Report -> ReportState] /\ report'[p].stage = "ledgered"
      /\ \A n \in Report : n # p => report'[n] = report[n]
  BY <1>1, <1>3, <1>4
<1>6. UNCHANGED <<snap, req, created, orch>> /\ report[p].stage \in {"new", "persisting"}
  BY DEF Ingest, PersistAbort
<1> QED BY <1>5, <1>6, ReportMoves

LEMMA PersistBeginStep ==
    ASSUME SnapshotInv, NEW p \in Report, PersistBegin(p)
    PROVE  SnapshotInv'
<1>1. PICK t \in Tenant : t = TenantOf[p]
  BY ConstantTypes
<1>2. /\ report \in [Report -> ReportState] /\ report[p] \in ReportState /\ TypeOK
      /\ Ledger(t) \in SUBSET Report
  BY TenantSets DEF SnapshotInv, TypeOK
<1> DEFINE h == [stage |-> "persisting", tries |-> report[p].tries + 1, read |-> Ledger(t)]
<1>3. report' = [report EXCEPT ![p] = h] /\ UNCHANGED <<snap, req, created, orch>>
  BY <1>1 DEF PersistBegin
<1>4. h \in ReportState /\ h.stage = "persisting" /\ h.read = Ledger(t)
  BY <1>2 DEF ReportState, Stages
<1> HIDE DEF h
<1>5. \A n \in Report : report'[n] = IF n = p THEN h ELSE report[n]
  BY <1>2, <1>3
<1>6. TypeOK'
  BY <1>2, <1>3, <1>4 DEF TypeOK
<1>7. report[p].stage = "ledgered" /\ LockFree(t)
  BY <1>1 DEF PersistBegin
<1>8. \A u \in Tenant : /\ Live(u)' = Live(u) /\ Ledger(u)' = Ledger(u)
                        /\ Allowed(u)' = Allowed(u)
  <2>1. \A u \in Tenant : Live(u)' = Live(u) /\ Unfinished(u)' = Unfinished(u) /\ Ghosts(u)' = Ghosts(u)
    BY <1>3, <1>4, <1>5, <1>7 DEF Live, Unfinished, Ghosts, Of
  <2> QED BY <2>1 DEF Ledger, Allowed
<1>9. NothingLost' /\ GhostsAreOwed'
  BY <1>3, <1>6, <1>8, Grow
<1>10. HandsHoldRequirements' /\ CopiesHaveBudget'
  BY <1>3 DEF SnapshotInv, HandsHoldRequirements, CopiesHaveBudget, At
<1>11. LockExcludes'
  <2>1. /\ \A n \in Report : report[n].stage = "persisting" => TenantOf[n] # t
        /\ \A o \in Orchestrator : At(o, "rebuild") => TenantOf[orch[o].req] # t
    BY <1>7 DEF LockFree, LockHeld, Of, At
  <2> QED BY <1>1, <1>3, <1>5, <2>1 DEF SnapshotInv, LockExcludes, At
<1>12. RequirementsFollowDeletion'
  BY <1>3, <1>4, <1>5, <1>7, <1>8, ConstantTypes DEF SnapshotInv, RequirementsFollowDeletion, AnchoredBy
<1>13. ReadsAreBases'
  <2>1. p \in Ledger(t) /\ Basis(Ledger(t), t)
    BY <1>1, <1>7 DEF Basis, Ledger, Live, Unfinished, Allowed, Of
  <2>2. ASSUME NEW n \in Report, report'[n].stage = "persisting"
        PROVE  n \in report'[n].read /\ Basis(report[n].read, TenantOf[n])'
    <3>1. CASE n = p
      BY <1>1, <1>4, <1>5, <1>8, <2>1, <3>1 DEF Basis
    <3>2. CASE n # p
      <4>1. report'[n] = report[n] /\ TenantOf[n] \in Tenant
        BY <1>5, <3>2, ConstantTypes
      <4> QED BY <1>8, <2>2, <4>1 DEF SnapshotInv, ReadsAreBases, Basis
    <3> QED BY <3>1, <3>2
  <2>3. ASSUME NEW o \in Orchestrator, At(o, "rebuild")'
        PROVE  /\ Basis(orch[o].read, TenantOf[orch[o].req])'
               /\ orch'[o].req \notin orch'[o].read
               /\ \E a \in orch'[o].read : AnchoredBy(a, orch'[o].req)
    <3>1. orch'[o] = orch[o] /\ At(o, "rebuild") /\ orch[o].req \in Report
      BY <1>3, <2>3 DEF At, SnapshotInv, HandsHoldRequirements
    <3>2. TenantOf[orch[o].req] \in Tenant
      BY <3>1, ConstantTypes
    <3> QED BY <1>8, <3>1, <3>2 DEF SnapshotInv, ReadsAreBases, Basis
  <2> QED BY <2>2, <2>3 DEF ReadsAreBases, AnchoredBy
<1> QED BY <1>6, <1>9, <1>10, <1>11, <1>12, <1>13 DEF SnapshotInv
LEMMA PersistCommitStep ==
    ASSUME SnapshotInv, NEW p \in Report, PersistCommit(p)
    PROVE  SnapshotInv'
<1>1. PICK t \in Tenant : t = TenantOf[p]
  BY ConstantTypes
<1>2. report \in [Report -> ReportState] /\ report[p] \in ReportState /\ TypeOK
  BY DEF SnapshotInv, TypeOK
<1>3. /\ IsSnapshot(snap'[t]) /\ Covers(snap'[t], Live(t) \cup {p}) /\ Within(snap'[t], Allowed(t))
      /\ \A u \in Tenant : u # t => snap'[u] = snap[u]
      /\ snap' = [u \in Tenant |-> snap'[u]]
  BY <1>1, PersistCommitBounds
<1> DEFINE h == [report[p] EXCEPT !.stage = "live", !.read = {}]
<1>4. /\ report' = [report EXCEPT ![p] = h] /\ UNCHANGED <<req, created, orch>>
      /\ report[p].stage = "persisting"
  BY DEF PersistCommit
<1>5. h \in ReportState /\ h.stage = "live"
  BY <1>2 DEF ReportState, Stages
<1> HIDE DEF h
<1>6. \A n \in Report : report'[n] = IF n = p THEN h ELSE report[n]
  BY <1>2, <1>4
<1>7. TypeOK'
  <2>1. \A u \in Tenant : IsSnapshot(snap'[u])
    BY <1>2, <1>3 DEF TypeOK
  <2> QED BY <1>2, <1>3, <1>4, <1>5, <2>1 DEF TypeOK
<1>8. /\ Live(t)' = Live(t) \cup {p}
      /\ \A u \in Tenant : u # t => Live(u)' = Live(u)
  BY <1>1, <1>4, <1>5, <1>6 DEF Live, Of
<1>9. \A u \in Tenant : Ledger(u)' = Ledger(u) /\ Allowed(u)' = Allowed(u)
  <2>1. \A u \in Tenant : Ledger(u)' = Ledger(u)
    BY <1>1, <1>4, <1>5, <1>6 DEF Ledger, Live, Unfinished, Of
  <2>2. \A u \in Tenant : Ghosts(u)' = Ghosts(u)
    BY <1>4, <1>5, <1>6 DEF Ghosts, Of
  <2> QED BY <2>1, <2>2 DEF Allowed
<1>10. NothingLost'
  BY <1>3, <1>8 DEF SnapshotInv, NothingLost
<1>11. GhostsAreOwed'
  BY <1>3, <1>9 DEF SnapshotInv, GhostsAreOwed
<1>12. HandsHoldRequirements' /\ CopiesHaveBudget'
  BY <1>4 DEF SnapshotInv, HandsHoldRequirements, CopiesHaveBudget, At
<1>13. LockExcludes'
  BY <1>4, <1>5, <1>6 DEF SnapshotInv, LockExcludes, At
<1>14. RequirementsFollowDeletion'
  BY <1>4, <1>5, <1>6, <1>9, ConstantTypes DEF SnapshotInv, RequirementsFollowDeletion, AnchoredBy
<1>15. ReadsAreBases'
  <2>1. ASSUME NEW n \in Report, report'[n].stage = "persisting"
        PROVE  n \in report'[n].read /\ Basis(report[n].read, TenantOf[n])'
    <3>1. report'[n] = report[n] /\ n # p
      BY <1>5, <1>6, <2>1
    <3>2. TenantOf[n] \in Tenant /\ TenantOf[n] # t
      BY <1>1, <1>4, <2>1, <3>1, ConstantTypes DEF SnapshotInv, LockExcludes
    <3> QED BY <1>8, <1>9, <2>1, <3>1, <3>2 DEF SnapshotInv, ReadsAreBases, Basis
  <2>2. ASSUME NEW o \in Orchestrator, At(o, "rebuild")'
        PROVE  /\ Basis(orch[o].read, TenantOf[orch[o].req])'
               /\ orch'[o].req \notin orch'[o].read
               /\ \E a \in orch'[o].read : AnchoredBy(a, orch'[o].req)
    <3>1. orch'[o] = orch[o] /\ At(o, "rebuild") /\ orch[o].req \in Report
      BY <1>4, <2>2 DEF At, SnapshotInv, HandsHoldRequirements
    <3>2. TenantOf[orch[o].req] \in Tenant /\ TenantOf[orch[o].req] # t
      BY <1>1, <1>4, <3>1, ConstantTypes DEF SnapshotInv, LockExcludes
    <3> QED BY <1>8, <1>9, <3>1, <3>2 DEF SnapshotInv, ReadsAreBases, Basis
  <2> QED BY <2>1, <2>2 DEF ReadsAreBases, AnchoredBy
<1> QED BY <1>7, <1>10, <1>11, <1>12, <1>13, <1>14, <1>15 DEF SnapshotInv

(* What the deleted report leaves behind stays allowed: it is owed now.       *)
LEMMA DeleteStep ==
    ASSUME SnapshotInv, NEW p \in Report, AnchoredDelete(p)
    PROVE  SnapshotInv'
<1>1. PICK t \in Tenant : t = TenantOf[p]
  BY ConstantTypes
<1>2. report \in [Report -> ReportState] /\ report[p] \in ReportState /\ TypeOK
  BY DEF SnapshotInv, TypeOK
<1> DEFINE h == [report[p] EXCEPT !.stage = "deleted"]
<1>3. /\ report' = [report EXCEPT ![p] = h] /\ req' = [req EXCEPT ![p] = NewReq]
      /\ created' = created + 1 /\ UNCHANGED <<snap, orch>>
      /\ report[p].stage \in {"ledgered", "live"} /\ p \notin Anchor
      /\ \E a \in Anchor : AnchoredBy(a, p) /\ a \in Ledger(t)
  BY <1>1 DEF AnchoredDelete, Delete
<1>4. h \in ReportState /\ h.stage = "deleted" /\ h.read = report[p].read
  BY <1>2 DEF ReportState, Stages
<1>5. NewReq \in Requirement /\ NewReq.required = TRUE /\ NewReq.status = "pending"
  <2>1. created \in Nat /\ 0 \in 0..MaxAttempts /\ 0 \in 0..StaleAfter + 1
    BY <1>2, ConstantTypes DEF TypeOK
  <2> QED BY <2>1 DEF NewReq, AbsentReq, Requirement, Statuses, Unscheduled
<1> HIDE DEF h
<1>6. \A n \in Report : /\ report'[n] = IF n = p THEN h ELSE report[n]
                        /\ req'[n] = IF n = p THEN NewReq ELSE req[n]
  BY <1>2, <1>3 DEF TypeOK
<1>7. TypeOK'
  <2>1. created' \in Nat
    BY <1>2, <1>3 DEF TypeOK
  <2> QED BY <1>2, <1>3, <1>4, <1>5, <2>1 DEF TypeOK
<1>8. \A u \in Tenant : /\ Live(u)' \subseteq Live(u)
                        /\ Ledger(u)' = Ledger(u) \ {p}
                        /\ Allowed(u)' = Allowed(u)
  <2>1. \A u \in Tenant : /\ Live(u)' = Live(u) \ {p} /\ Unfinished(u)' = Unfinished(u) \ {p}
                          /\ Ghosts(u)' = Ghosts(u) \cup (Of(u) \cap {p})
    BY <1>4, <1>5, <1>6 DEF Live, Unfinished, Ghosts, Of
  <2>2. \A u \in Tenant : p \in Of(u) => p \in Ledger(u)
    BY <1>3 DEF Ledger, Live, Unfinished, Of
  <2>3. \A u \in Tenant : p \in Ledger(u) => p \in Of(u)
    BY DEF Ledger, Live, Unfinished, Of
  <2> QED BY <2>1, <2>2, <2>3 DEF Ledger, Allowed
<1>9. NothingLost' /\ GhostsAreOwed'
  BY <1>3, <1>7, <1>8, Grow
<1>10. HandsHoldRequirements' /\ CopiesHaveBudget'
  BY <1>3, <1>5, <1>6 DEF SnapshotInv, HandsHoldRequirements, CopiesHaveBudget, At
<1>11. LockExcludes'
  BY <1>3, <1>4, <1>6 DEF SnapshotInv, LockExcludes, At
<1>12. RequirementsFollowDeletion'
  <2>1. ASSUME NEW n \in Report
        PROVE  /\ req'[n].status # "absent" <=> report'[n].stage = "deleted"
               /\ report'[n].stage = "deleted" =>
                      \E a \in Anchor : AnchoredBy(a, n) /\ a \in Ledger(TenantOf[n])'
    <3>1. TenantOf[n] \in Tenant
      BY ConstantTypes
    <3>2. CASE n = p
      BY <1>1, <1>3, <1>4, <1>5, <1>6, <1>8, <3>2
    <3>3. CASE n # p
      <4>1. report'[n] = report[n] /\ req'[n] = req[n]
        BY <1>6, <3>3
      <4> QED BY <1>3, <1>8, <3>1, <4>1 DEF SnapshotInv, RequirementsFollowDeletion
    <3> QED BY <3>2, <3>3
  <2> QED BY <2>1 DEF RequirementsFollowDeletion, AnchoredBy
<1>13. ReadsAreBases'
  <2>1. ASSUME NEW n \in Report, report'[n].stage = "persisting"
        PROVE  n \in report'[n].read /\ Basis(report[n].read, TenantOf[n])'
    <3>1. report'[n] = report[n] /\ TenantOf[n] \in Tenant
      BY <1>4, <1>6, <2>1, ConstantTypes
    <3> QED BY <1>8, <2>1, <3>1 DEF SnapshotInv, ReadsAreBases, Basis
  <2>2. ASSUME NEW o \in Orchestrator, At(o, "rebuild")'
        PROVE  /\ Basis(orch[o].read, TenantOf[orch[o].req])'
               /\ orch'[o].req \notin orch'[o].read
               /\ \E a \in orch'[o].read : AnchoredBy(a, orch'[o].req)
    <3>1. orch'[o] = orch[o] /\ At(o, "rebuild") /\ orch[o].req \in Report
      BY <1>3, <2>2 DEF At, SnapshotInv, HandsHoldRequirements
    <3>2. TenantOf[orch[o].req] \in Tenant
      BY <3>1, ConstantTypes
    <3> QED BY <1>8, <3>1, <3>2 DEF SnapshotInv, ReadsAreBases, Basis
  <2> QED BY <2>1, <2>2 DEF ReadsAreBases, AnchoredBy
<1> QED BY <1>7, <1>9, <1>10, <1>11, <1>12, <1>13 DEF SnapshotInv

(***************************************************************************)
(* The invariant.                                                          *)
(***************************************************************************)
LEMMA InitHolds == Init => SnapshotInv
<1> SUFFICES ASSUME Init
             PROVE  SnapshotInv
  OBVIOUS
<1>1. \A t \in Tenant : Live(t) = {} /\ Unfinished(t) = {} /\ Ghosts(t) = {}
  BY DEF Init, Live, Unfinished, Ghosts, Of
<1>2. DOMAIN NoSnapshot = {} /\ NoSnapshot = [d \in DOMAIN NoSnapshot |-> NoSnapshot[d]]
  BY DEF NoSnapshot
<1>3. IsSnapshot(NoSnapshot)
  BY <1>2 DEF IsSnapshot
<1>4. TypeOK
  <2>1. report \in [Report -> ReportState]
    BY DEF Init, ReportState, Stages
  <2>2. AbsentReq \in Requirement
    <3>1. 0 \in 0..MaxAttempts /\ 0 \in 0..StaleAfter + 1
      BY ConstantTypes
    <3> QED BY <3>1 DEF AbsentReq, Requirement, Statuses, Unscheduled
  <2>3. snap = [t \in Tenant |-> snap[t]] /\ \A t \in Tenant : IsSnapshot(snap[t])
    BY <1>3 DEF Init
  <2> QED BY <2>1, <2>2, <2>3, IdleType DEF Init, TypeOK
<1>5. LockExcludes /\ HandsHoldRequirements /\ CopiesHaveBudget /\ ReadsAreBases
  BY DEF Init, IdleOrch, LockExcludes, HandsHoldRequirements, CopiesHaveBudget, ReadsAreBases, At
<1>6. RequirementsFollowDeletion
  BY DEF Init, AbsentReq, RequirementsFollowDeletion
<1>7. NothingLost /\ GhostsAreOwed
  <2>1. LedgerDays({}) = {}
    BY DEF LedgerDays
  <2>2. Covers(NoSnapshot, {})
    BY <1>2, <2>1 DEF Covers
  <2>3. \A t \in Tenant : Within(NoSnapshot, Allowed(t))
    BY <1>2 DEF Within
  <2> QED BY <1>1, <2>2, <2>3 DEF Init, NothingLost, GhostsAreOwed
<1> QED BY <1>4, <1>5, <1>6, <1>7 DEF SnapshotInv

LEMMA StepHolds == SnapshotInv /\ [AnchoredNext]_vars => SnapshotInv'
<1> SUFFICES ASSUME SnapshotInv, [AnchoredNext]_vars
             PROVE  SnapshotInv'
  OBVIOUS
<1>1. CASE ReportStep
  BY <1>1, IngestAndAbortSteps, PersistBeginStep, PersistCommitStep DEF ReportStep
<1>2. ASSUME NEW o \in Orchestrator, Dispatch(o)
      PROVE  SnapshotInv'
  BY <1>2, OrchOnlySteps, OutcomeSteps, BeginRebuildStep, RebuildCommitsStep DEF Dispatch
<1>3. CASE Tick \/ (\E o \in Orchestrator : Maintain(o))
  BY <1>3, MaintenanceSteps
<1>4. ASSUME NEW p \in Report, AnchoredDelete(p)
      PROVE  SnapshotInv'
  BY <1>4, DeleteStep
<1>5. CASE UNCHANGED vars
  <2>1. req \in [Report -> Requirement] /\ orch \in [Orchestrator -> OrchState]
    BY DEF SnapshotInv, TypeOK
  <2>2. FlagsKept /\ HandsKept
    BY <1>5 DEF vars, FlagsKept, HandsKept
  <2> QED BY <1>5, <2>1, <2>2, RowStep DEF vars
<1> QED BY <1>1, <1>2, <1>3, <1>4, <1>5 DEF AnchoredNext, CommonStep

(* Under anchored deletions the snapshots of every tenant stay between the    *)
(* processed and the owed movements, and the advisory lock keeps every open   *)
(* rebuild's reads valid, for all interleavings of persists, dispatches,      *)
(* deletions and crashes.                                                     *)
THEOREM SnapshotsBounded == AnchoredSpec => []SnapshotInv
BY InitHolds, StepHolds, PTL DEF AnchoredSpec

(* Every variable keeps its type; no attempt counter leaves 0..MaxAttempts.   *)
THEOREM TypesKept == AnchoredSpec => []TypeOK
<1>1. SnapshotInv => TypeOK
  BY DEF SnapshotInv
<1> QED BY <1>1, SnapshotsBounded, PTL

(* No rebuild ever drops a movement of a processed report.                    *)
THEOREM NothingIsLost == AnchoredSpec => []NothingLost
<1>1. SnapshotInv => NothingLost
  BY DEF SnapshotInv
<1> QED BY <1>1, SnapshotsBounded, PTL

(* A deleted report is counted only while its requirement is flagged.         *)
THEOREM GhostsStayOwed == AnchoredSpec => []GhostsAreOwed
<1>1. SnapshotInv => GhostsAreOwed
  BY DEF SnapshotInv
<1> QED BY <1>1, SnapshotsBounded, PTL

(* A tenant with no unfinished report and no flagged requirement has the      *)
(* snapshots that a full replay of its ledger yields.                         *)
THEOREM QuiescenceIsExact == AnchoredSpec => []QuiescentIsExact
<1>1. ASSUME SnapshotInv
      PROVE  QuiescentIsExact
  <2> SUFFICES ASSUME NEW t \in Tenant, Unfinished(t) = {}, Ghosts(t) = {}
               PROVE  snap[t] = Replay(Ledger(t))
    BY DEF QuiescentIsExact
  <2>1. Live(t) = Ledger(t) /\ Allowed(t) = Ledger(t)
    BY DEF Ledger, Allowed
  <2>2. Ledger(t) \in SUBSET Report /\ IsSnapshot(snap[t])
    BY <1>1, TenantSets DEF SnapshotInv
  <2>3. Covers(snap[t], Ledger(t)) /\ Within(snap[t], Ledger(t))
    BY <1>1, <2>1 DEF SnapshotInv, NothingLost, GhostsAreOwed
  <2> QED BY <2>2, <2>3, BoundsAreExact
<1> QED BY <1>1, SnapshotsBounded, PTL

(***************************************************************************)
(* Requirements that are settled, where one orchestrator runs.  What it has  *)
(* in hand nobody else moves: a row it is about to mark still waits, and one *)
(* it works on is RUNNING; a row that failed has no attempt left, so that no *)
(* sweep takes it up again.                                                *)
(***************************************************************************)
Lone == \A o, n \in Orchestrator : o = n

Settled == {"succeeded", "failed"}
RowIsSettled(row) ==
    /\ row.status = "failed" => row.attempts = MaxAttempts
    /\ row.status = "succeeded" => ~row.required
HandIsHeld(o) ==
    /\ At(o, "peeked") => InHand(o).status \in {"pending", "deferred"}
    /\ orch[o].pc \in {"running", "rebuild", "failed", "busy"} => InHand(o).status = "running"
SettledInv ==
    /\ \A p \in Report : RowIsSettled(req[p])
    /\ \A o \in Orchestrator : HandIsHeld(o)

RowsStay == \A p \in Report : req[p].status \in Settled => req'[p].status = req[p].status

(* Steps that leave the rows alone.                                         *)
LEMMA SettledQuiet ==
    ASSUME SettledInv, req' = req, \A o \in Orchestrator : HandIsHeld(o)'
    PROVE  SettledInv' /\ RowsStay
BY DEF SettledInv, RowIsSettled, RowsStay

(* Steps of the orchestrator on the row in its hand.                        *)
LEMMA SettledRow ==
    ASSUME SnapshotInv, SettledInv, Lone, NEW o \in Orchestrator, ~At(o, "idle"),
           NEW row \in Requirement, req' = [req EXCEPT ![orch[o].req] = row],
           NEW h \in OrchState, orch' = [orch EXCEPT ![o] = h], RowIsSettled(row),
           InHand(o).status \notin Settled,
           h.pc = "idle" \/ (h.pc = "running" /\ h.req = orch[o].req /\ row.status = "running")
    PROVE  SettledInv' /\ RowsStay
<1> DEFINE q == orch[o].req
<1>1. /\ req \in [Report -> Requirement] /\ orch \in [Orchestrator -> OrchState] /\ q \in Report
      /\ TypeOK /\ HandsHoldRequirements
  BY HandTypes DEF SnapshotInv, TypeOK
<1>2. req'[q] = row /\ \A p \in Report \ {q} : req'[p] = req[p]
  BY <1>1
<1>3. orch'[o] = h /\ \A n \in Orchestrator : n = o
  BY <1>1 DEF Lone
<1>4. HandIsHeld(o)'
  BY <1>2, <1>3 DEF HandIsHeld, At, InHand
<1>5. \A p \in Report : RowIsSettled(req[p])'
  BY <1>2 DEF SettledInv, RowIsSettled
<1>6. RowsStay
  BY <1>2 DEF RowsStay, InHand
<1> QED BY <1>3, <1>4, <1>5, <1>6 DEF SettledInv

LEMMA SettledDispatch ==
    ASSUME SnapshotInv, SettledInv, Lone, NEW o \in Orchestrator, Dispatch(o)
    PROVE  SettledInv' /\ RowsStay
<1>1. /\ req \in [Report -> Requirement] /\ orch \in [Orchestrator -> OrchState] /\ orch[o] \in OrchState
      /\ TypeOK /\ HandsHoldRequirements /\ \A n \in Orchestrator : n = o
  BY DEF SnapshotInv, TypeOK, Lone
<1>2. HandIsHeld(o) /\ \A p \in Report : RowIsSettled(req[p])
  BY DEF SettledInv
<1>3. ASSUME req' = req, orch'[o].pc \in {"idle", "chosen"}
      PROVE  SettledInv' /\ RowsStay
  BY <1>1, <1>3, SettledQuiet DEF HandIsHeld, At
<1>4. CASE Select(o) \/ Skip(o) \/ Crash(o)
  <2>1. req' = req
    BY <1>4 DEF Select, Skip, Crash
  <2>2. CASE Select(o)
    BY <1>1, <1>3, <2>1, <2>2 DEF Select, OrchState
  <2>3. CASE Skip(o) \/ Crash(o)
    BY <1>1, <1>3, <2>1, <2>3 DEF Skip, Crash, Finish, IdleOrch
  <2> QED BY <1>4, <2>2, <2>3
<1>5. CASE Peek(o)
  <2>1. /\ req' = req /\ orch'[o].pc = "peeked" /\ orch'[o].req = orch[o].req
        /\ Eligible(InHand(o)) /\ ~At(o, "idle")
    BY <1>1, <1>5 DEF Peek, At, OrchState
  <2>2. InHand(o) \in Requirement /\ RowIsSettled(InHand(o))
    BY <1>1, <1>2, <2>1, HandTypes DEF InHand
  <2>3. InHand(o).status \in {"pending", "deferred"}
    BY <2>1, <2>2, ConstantTypes DEF Eligible, Waiting, RowIsSettled
  <2>4. HandIsHeld(o)'
    BY <2>1, <2>3 DEF HandIsHeld, At, InHand
  <2> QED BY <1>1, <2>1, <2>4, SettledQuiet
<1>6. CASE LockBusy(o) \/ BeginRebuild(o) \/ RebuildFails(o)
  <2>1. /\ req' = req /\ orch'[o].pc \in {"busy", "rebuild", "failed"}
        /\ orch'[o].req = orch[o].req
    BY <1>1, <1>6 DEF LockBusy, BeginRebuild, RebuildFails, Goto, OrchState
  <2>2. InHand(o).status = "running"
    BY <1>2, <1>6 DEF LockBusy, BeginRebuild, RebuildFails, HandIsHeld, At
  <2>3. HandIsHeld(o)'
    BY <2>1, <2>2 DEF HandIsHeld, At, InHand
  <2> QED BY <1>1, <2>1, <2>3, SettledQuiet
<1>7. CASE MarkRunning(o)
  <2> DEFINE attempts == orch[o].attempts + 1
             full     == orch[o].full \/ attempts >= EscalateAfter
             row      == RunningRow(InHand(o), attempts, full)
             h        == [orch[o] EXCEPT !.pc = "running", !.attempts = attempts, !.full = full]
  <2>1. orch[o].attempts \in 0..MaxAttempts /\ orch[o].attempts < MaxAttempts
    BY <1>1, <1>7 DEF MarkRunning, SnapshotInv, CopiesHaveBudget, OrchState
  <2>2. attempts \in 0..MaxAttempts /\ full \in BOOLEAN
    BY <1>1, <2>1, ConstantTypes DEF OrchState
  <2>3. /\ req' = [req EXCEPT ![orch[o].req] = row] /\ orch' = [orch EXCEPT ![o] = h]
        /\ ~At(o, "idle") /\ InHand(o).status \notin Settled
    BY <1>2, <1>7 DEF MarkRunning, At, HandIsHeld, Settled, InHand
  <2> HIDE DEF attempts, full
  <2>4. InHand(o) \in Requirement
    BY <1>1, <2>3, HandTypes
  <2>5. row \in Requirement /\ row.status = "running"
    BY <2>2, <2>4, RowTypes, ZenonT(60) DEF RunningRow, Requirement
  <2>6. h \in OrchState /\ h.pc = "running" /\ h.req = orch[o].req
    BY <1>1, <2>2 DEF OrchState, OrchPcs
  <2>7. RowIsSettled(row)
    BY <2>5 DEF RowIsSettled
  <2> HIDE DEF row, h
  <2> QED BY <2>3, <2>5, <2>6, <2>7, SettledRow
<1>8. CASE RebuildCommits(o) \/ MarkFailed(o) \/ MarkBusy(o)
  <2>1. PICK row \in {SucceededRow(InHand(o)), FailedRow(InHand(o)), BusyRow(InHand(o), DeferBusy)} :
            req' = [req EXCEPT ![orch[o].req] = row]
    BY <1>8 DEF RebuildCommits, MarkFailed, MarkBusy, InHand
  <2>2. /\ orch' = [orch EXCEPT ![o] = IdleOrch] /\ ~At(o, "idle") /\ IdleOrch.pc = "idle"
        /\ InHand(o).status = "running"
    BY <1>2, <1>8 DEF RebuildCommits, MarkFailed, MarkBusy, Finish, At, HandIsHeld, IdleOrch
  <2>3. InHand(o) \in Requirement /\ InHand(o).attempts \in 0..MaxAttempts
    BY <1>1, <2>2, HandTypes
  <2>4. row \in Requirement
    BY <2>1, <2>3, RowTypes, ConstantTypes
  <2>5. RowIsSettled(row)
    <3>1. CASE row = SucceededRow(InHand(o))
      BY <2>3, <3>1 DEF RowIsSettled, SucceededRow, Requirement
    <3>2. CASE row = FailedRow(InHand(o))
      BY <2>3, <3>2, ConstantTypes DEF RowIsSettled, FailedRow, Requirement
    <3>3. CASE row = BusyRow(InHand(o), DeferBusy)
      BY <2>3, <3>3 DEF RowIsSettled, BusyRow, Requirement
    <3> QED BY <2>1, <3>1, <3>2, <3>3
  <2> QED BY <2>1, <2>2, <2>4, <2>5, IdleType, SettledRow DEF Settled
<1> QED BY <1>4, <1>5, <1>6, <1>7, <1>8 DEF Dispatch

(* Sweeps run between dispatches, and find nothing settled.                 *)
LEMMA SettledSweep ==
    ASSUME SnapshotInv, SettledInv, Lone, Tick \/ (\E o \in Orchestrator : Maintain(o))
    PROVE  SettledInv' /\ RowsStay
<1>1. /\ req \in [Report -> Requirement] /\ orch' = orch
      /\ \A p \in Report : RowIsSettled(req[p]) /\ req[p] \in Requirement
      /\ \A o \in Orchestrator : HandIsHeld(o) /\ (~At(o, "idle") => orch[o].req \in Report)
  BY DEF SnapshotInv, TypeOK, SettledInv, HandsHoldRequirements, Tick, Maintain, ResetStale,
         ApplyBackoff, DeferOverloaded
<1>2. CASE Tick
  <2>1. ASSUME NEW p \in Report
        PROVE  /\ req'[p].status = req[p].status /\ req'[p].attempts = req[p].attempts
               /\ req'[p].required = req[p].required
    BY <1>1, <1>2 DEF Tick, AgedRow, Requirement
  <2>2. \A o \in Orchestrator : HandIsHeld(o)'
    BY <1>1, <2>1 DEF HandIsHeld, At, InHand
  <2> QED BY <1>1, <2>1, <2>2 DEF SettledInv, RowIsSettled, RowsStay
<1>3. ASSUME NEW o \in Orchestrator, NEW t \in Tenant,
             ResetStale(o, t) \/ ApplyBackoff(o, t) \/ DeferOverloaded(o, t)
      PROVE  SettledInv' /\ RowsStay
  <2>1. \A n \in Orchestrator : HandIsHeld(n)'
    BY <1>1, <1>3 DEF ResetStale, ApplyBackoff, DeferOverloaded, Lone, HandIsHeld, At
  <2>2. ASSUME NEW p \in Report
        PROVE  \/ req'[p] = req[p]
               \/ req'[p].status \notin Settled /\ req[p].status \notin Settled
    <3>1. CASE ResetStale(o, t)
      BY <1>1, <3>1 DEF ResetStale, StaleOf, StaleRunning, Settled, Requirement
    <3>2. CASE ApplyBackoff(o, t)
      <4>1. req'[p] = req[p] \/ p \in UnscheduledOf(t)
        BY <3>2 DEF ApplyBackoff
      <4>2. CASE p \in UnscheduledOf(t)
        <5>1. req[p].status \in {"pending", "deferred"}
          BY <1>1, <4>2, ConstantTypes DEF UnscheduledOf, Queued, Waiting, RowIsSettled, Requirement
        <5>2. req'[p].status = req[p].status
          BY <1>1, <3>2, <4>2, <5>1 DEF ApplyBackoff, Requirement
        <5> QED BY <5>1, <5>2 DEF Settled
      <4> QED BY <4>1, <4>2
    <3>3. CASE DeferOverloaded(o, t)
      <4>1. PICK q \in Report, r \in Report :
                /\ req[q].status = "pending" /\ req[r].status = "pending"
                /\ req' = [req EXCEPT ![q] = BusyRow(req[q], 2 * DeferBusy),
                                      ![r] = BusyRow(req[r], 2 * DeferBusy)]
        BY <3>3 DEF DeferOverloaded, Of, Queued
      <4>2. \A n \in {q, r} : BusyRow(req[n], 2 * DeferBusy).status = "deferred"
        BY <1>1 DEF BusyRow, Requirement
      <4> QED BY <1>1, <4>1, <4>2 DEF Settled
    <3> QED BY <1>3, <3>1, <3>2, <3>3
  <2>3. \A p \in Report : RowIsSettled(req[p])'
    BY <1>1, <2>2 DEF RowIsSettled, Settled
  <2> QED BY <2>1, <2>2, <2>3 DEF SettledInv, RowsStay
<1> QED BY <1>2, <1>3 DEF Maintain

LEMMA SettledStep ==
    ASSUME Lone
    PROVE  SnapshotInv /\ SettledInv /\ [AnchoredNext]_vars => SettledInv' /\ RowsStay
<1> SUFFICES ASSUME SnapshotInv, SettledInv, [AnchoredNext]_vars
             PROVE  SettledInv' /\ RowsStay
  OBVIOUS
<1>1. \A o \in Orchestrator : HandIsHeld(o)
  BY DEF SettledInv
<1>2. CASE ReportStep \/ UNCHANGED vars
  <2>1. req' = req /\ orch' = orch
    BY <1>2 DEF ReportStep, Ingest, PersistBegin, PersistCommit, PersistAbort, vars
  <2>2. \A o \in Orchestrator : HandIsHeld(o)'
    BY <1>1, <2>1 DEF HandIsHeld, At, InHand
  <2> QED BY <2>1, <2>2, SettledQuiet
<1>3. ASSUME NEW p \in Report, AnchoredDelete(p)
      PROVE  SettledInv' /\ RowsStay
  <2>1. /\ req \in [Report -> Requirement] /\ req' = [req EXCEPT ![p] = NewReq] /\ orch' = orch
        /\ report[p].stage # "deleted"
    BY <1>3 DEF SnapshotInv, TypeOK, AnchoredDelete, Delete
  <2>2. req[p].status = "absent" /\ NewReq.status = "pending"
    BY <2>1 DEF SnapshotInv, RequirementsFollowDeletion, NewReq, AbsentReq
  <2>3. req'[p] = NewReq /\ \A q \in Report \ {p} : req'[q] = req[q]
    BY <2>1
  <2>4. \A o \in Orchestrator : ~At(o, "idle") => InHand(o)' = InHand(o)
    BY <2>1, <2>2, <2>3 DEF SnapshotInv, HandsHoldRequirements, InHand
  <2>5. \A o \in Orchestrator : HandIsHeld(o)'
    BY <1>1, <2>1, <2>4 DEF HandIsHeld, At
  <2> QED BY <2>2, <2>3, <2>5 DEF SettledInv, RowIsSettled, RowsStay, Settled
<1> QED BY <1>2, <1>3, SettledDispatch, SettledSweep DEF AnchoredNext, CommonStep

(* With one orchestrator a requirement that succeeded or failed for good is  *)
(* never dispatched or swept again (is_eligible_for_dispatch, the sweeps of  *)
(* recovery.py): for any reports, budgets and delays.  With two it may be.   *)
THEOREM SettledRowsStay == ASSUME Lone PROVE AnchoredSpec => SettledStays
<1>1. Init => SettledInv
  BY DEF Init, AbsentReq, IdleOrch, SettledInv, RowIsSettled, HandIsHeld, At
<1>2. SnapshotInv /\ SettledInv /\ [AnchoredNext]_vars => SettledInv'
  BY SettledStep
<1>3. SnapshotInv /\ SettledInv /\ [AnchoredNext]_vars =>
        [\A p \in Report : req[p].status \in {"succeeded", "failed"} => req'[p].status = req[p].status]_vars
  BY SettledStep DEF RowsStay, Settled
<1> QED BY <1>1, <1>2, <1>3, SnapshotsBounded, PTL DEF AnchoredSpec, SettledStays

=============================================================================
