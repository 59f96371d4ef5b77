-------------------------- MODULE InventorySnapshot --------------------------
(***************************************************************************)
(* The two ways the code derives warehouse stock snapshots from the        *)
(* inventory ledger: the full replay (FullInventoryRebuildService) and the *)
(* incremental rebuild of a window that opens with the stock carried       *)
(* forward from the snapshots before it (InventorySnapshotRebuildService). *)
(*                                                                         *)
(* A movement is a report's entry on a day.  A stock level is represented  *)
(* by the set of movements it sums up: two levels the code computes agree  *)
(* for every choice of quantities exactly when these sets agree.  One      *)
(* (sku, nm_id, warehouse) key per tenant: the code treats keys one by one.*)
(***************************************************************************)
EXTENDS Integers

CONSTANTS
    Report,     \* uploaded reports
    Day,        \* calendar days
    DaysOf      \* Report -> days on which its rows move stock

ASSUME SnapshotAssumption ==
    /\ Day \subseteq Int
    /\ \A S \in SUBSET Day : S # {} =>
           /\ \E d \in S : \A e \in S : d <= e
           /\ \E d \in S : \A e \in S : e <= d
    /\ DaysOf \in [Report -> (SUBSET Day) \ {{}}]

First(S) == CHOOSE d \in S : \A e \in S : d <= e
Last(S) == CHOOSE d \in S : \A e \in S : e <= d

Movement == Report \X Day

(* The ledger entries of a set of reports, and the days they touch. *)
MovesOf(L) == {m \in L \X Day : m[2] \in DaysOf[m[1]]}
LedgerDays(L) == UNION {DaysOf[p] : p \in L}

UpTo(M, d) == {m \in M : m[2] <= d}

(* The live snapshot table of one tenant: a stock level for some days. *)
IsSnapshot(s) ==
    /\ DOMAIN s \subseteq Day
    /\ s = [d \in DOMAIN s |-> s[d]]
    /\ \A d \in DOMAIN s : s[d] \subseteq Movement

NoSnapshot == [d \in {} |-> {}]

(* Full replay: the ledger alone; staging is promoted over all live rows. *)
Replay(L) == [d \in LedgerDays(L) |-> UpTo(MovesOf(L), d)]

(* Mutated: the window ends with the ledger, whatever the snapshots hold. *)
RebuildToLedgerEnd(L, s, from) == Last({from} \cup LedgerDays(L))

(* compute_rebuild_window: up to the last day of the snapshots or the ledger. *)
RebuildTo(L, s, from) == Last({from} \cup DOMAIN s \cup LedgerDays(L))

(* load_carry_forward_openings and the stream it restricts: the level of the *)
(* latest snapshot before the window, or else the ledger's older entries.    *)
Opening(L, s, from) ==
    LET kept == {d \in DOMAIN s : d < from}
    IN  IF kept = {} THEN {m \in MovesOf(L) : m[2] < from} ELSE s[Last(kept)]

(* Incremental rebuild: delete the window, replay it from its opening. *)
Rewindow(L, s, from) ==
    LET to     == RebuildTo(L, s, from)
        kept   == {d \in DOMAIN s : d < from \/ d > to}
        window == {d \in LedgerDays(L) : from <= d /\ d <= to}
    IN  [d \in kept \cup window |->
           IF d \in kept THEN s[d]
           ELSE Opening(L, s, from) \cup {m \in UpTo(MovesOf(L), d) : from <= m[2]}]

(* rebuild() as persist calls it, from the report's first day on. *)
RebuildForReport(L, s, p) == Rewindow(L, s, First(DaysOf[p]))

(* rebuild() as the dispatcher calls it: from the ledger's first day.  An    *)
(* empty ledger has no bounds, and both services return without writing.     *)
RebuildIncremental(L, s) ==
    IF LedgerDays(L) = {} THEN s ELSE Rewindow(L, s, First(LedgerDays(L)))

RebuildFull(L, s) == IF LedgerDays(L) = {} THEN s ELSE Replay(L)

(***************************************************************************)
(* What is said of snapshots: s counts at least the movements of the       *)
(* reports V, and at most those of the reports A.                          *)
(***************************************************************************)
Covers(s, V) ==
    /\ LedgerDays(V) \subseteq DOMAIN s
    /\ \A d \in DOMAIN s : UpTo(MovesOf(V), d) \subseteq s[d]

Within(s, A) ==
    /\ DOMAIN s \subseteq LedgerDays(A)
    /\ \A d \in DOMAIN s : s[d] \subseteq UpTo(MovesOf(A), d)
=============================================================================
