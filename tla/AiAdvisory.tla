------------------------------ MODULE AiAdvisory ------------------------------
(***************************************************************************)
(* The AI advisory layer of one tenant: requests for a run or for a         *)
(* recommendation, the audit row and the spend each leaves, the             *)
(* recommendations and strategic memory they write, and the seller who      *)
(* works through the recommendations meanwhile.                             *)
(*                                                                         *)
(* A request is a chain of short transactions with awaits between them and  *)
(* nothing locked: a reading and the writing that rests on it are actions   *)
(* apart wherever another request can commit between them.                  *)
(*                                                                         *)
(* What an answer says is a member of Contents (its fingerprint: the report *)
(* it is about, what it is compared with, the figures) and a member of      *)
(* Texts (the summary the provider wrote), each chosen where the program    *)
(* first looks at it.  Money is counted in units, one  *)
(* for the smallest amount the caps tell apart.  The gates that refuse a    *)
(* request before it has written anything (kill switch, overload, rate      *)
(* limit) only mean that Begin does not happen.                             *)
(***************************************************************************)
EXTENDS Integers, Sequences, FiniteSets

CONSTANTS
    Slot,           \* requests that may be served at the same time
    Client,         \* sessions of the seller that list and decide
    Contents, Texts,
    Nothing,        \* what an idle slot is about
    ReportOf,       \* Contents -> the report an answer is about
    CompareOf,      \* Contents -> "none", "asked" (no data), "data"
    DayCap,         \* settings.ai_max_cost_per_day_usd
    RunCap,         \* settings.ai_max_cost_per_run_usd
    MaxCost,        \* bound: what one call may cost
    LastDay,        \* bound: days
    MaxActs,        \* bound: runs, decisions and lists begun
    MaxRecs,        \* bound: recommendations
    Decisions       \* what this seller may decide

ASSUME AiAdvisoryAssumption ==
    /\ IsFiniteSet(Slot)
    /\ Nothing \notin Contents \cup Texts
    /\ DOMAIN ReportOf = Contents
    /\ CompareOf \in [Contents -> {"none", "asked", "data"}]
    /\ DayCap \in Nat \ {0} /\ RunCap \in Nat \ {0} /\ MaxCost \in Nat
    /\ LastDay \in Nat \ {0} /\ MaxActs \in Nat /\ MaxRecs \in Nat
    /\ Decisions \subseteq {"complete", "dismiss", "save", "snooze", "reactivate", "tag"}

VARIABLES
    day,
    acts,       \* runs, decisions and lists begun so far
    spend,      \* day -> sum of estimated_cost of the runs created on it
    slot,       \* Slot -> the request it serves
    recs,       \* rows of ai_recommendations, in the order of insertion
    memory,     \* Texts -> rows of ai_strategic_memory with that content
    client      \* Client -> what a session of the seller has loaded

vars == <<day, acts, spend, slot, recs, memory, client>>

Days == 1 .. LastDay
SlotPcs == {"idle", "begun", "checked", "called", "drafted", "streamed", "completed",
            "found", "loose", "stored", "fresh"}
RowStates == {"active", "saved", "snoozed", "dismissed", "completed"}
Idle == [pc |-> "idle", born |-> 1, cost |-> 0, target |-> 0,
         content |-> Nothing, text |-> Nothing]
Away == [pc |-> "away", id |-> 0, act |-> "none", state |-> "active", dated |-> FALSE,
         due |-> {}, stale |-> {}]

Init ==
    /\ day = 1 /\ acts = 0
    /\ spend = [d \in Days |-> 0]
    /\ slot = [s \in Slot |-> Idle]
    /\ recs = << >>
    /\ memory = [t \in Texts |-> 0]
    /\ client = [c \in Client |-> Away]

-------------------------------------------------------------------------------
(***************************************************************************)
(* A run: AIOrchestrationService around AIAnalyticsEngine.execute.          *)
(***************************************************************************)
At(s, pc) == slot[s].pc = pc

Moves(s, pc) == slot' = [slot EXCEPT ![s].pc = pc]

(* complete_run and fail_run close the row of the run; where a request ends  *)
(* in neither, the row stays RUNNING for ever and costs nothing.             *)
Ends(s) == slot' = [slot EXCEPT ![s] = Idle]

OnlyRun == UNCHANGED <<day, recs, memory, client>>

(* The row of the run is committed before anything is known of the budget. *)
Begin(s) ==
    /\ At(s, "idle") /\ acts < MaxActs
    /\ acts' = acts + 1
    /\ slot' = [slot EXCEPT ![s].pc = "begun", ![s].born = day]
    /\ OnlyRun /\ UNCHANGED spend

(* Mutated: the cap of the day is not looked at. *)
WithinDayCapAlways == TRUE
WithinDayCap == spend[day] < DayCap

(* A refusal -- the cap, streaming switched off, a tool the agent may not   *)
(* use -- is raised outside the try block that would fail the run.          *)
CheckBudget(s) ==
    /\ At(s, "begun")
    /\ \/ WithinDayCap /\ Moves(s, "checked")
       \/ Ends(s)
    /\ OnlyRun /\ UNCHANGED <<acts, spend>>

Call(s) ==
    /\ At(s, "checked")
    /\ \E k \in 0 .. MaxCost :
         slot' = [slot EXCEPT ![s].pc = "called", ![s].cost = k]
    /\ OnlyRun /\ UNCHANGED <<acts, spend>>

WithinRunCap(k) == k <= RunCap

(* The insight is committed: a later failure does not take it back.  A      *)
(* streamed run commits it before it looks at the cap.                      *)
Draft(s) ==
    /\ At(s, "called")
    /\ \/ WithinRunCap(slot[s].cost) /\ Moves(s, "drafted")
       \/ Moves(s, "streamed")
    /\ OnlyRun /\ UNCHANGED <<acts, spend>>

(* The provider, a cap, the validation, the database or the token budget    *)
(* raises: fail_run closes the row and records no cost.                     *)
Fail(s) ==
    /\ \E pc \in {"checked", "called", "drafted", "streamed"} : At(s, pc)
    /\ Ends(s)
    /\ OnlyRun /\ UNCHANGED <<acts, spend>>

(* A plain run is answered here, one for a recommendation goes on. *)
Complete(s) ==
    /\ At(s, "drafted")
    /\ spend' = [spend EXCEPT ![slot[s].born] = @ + slot[s].cost]
    /\ \/ Ends(s)
       \/ slot' = [slot EXCEPT ![s] = [Idle EXCEPT !.pc = "completed"]]
    /\ OnlyRun /\ UNCHANGED acts

CompleteStream(s) ==
    /\ At(s, "streamed") /\ WithinRunCap(slot[s].cost)
    /\ spend' = [spend EXCEPT ![slot[s].born] = @ + slot[s].cost]
    /\ Ends(s)
    /\ OnlyRun /\ UNCHANGED acts

(* The process dies, or the client of a stream is gone: nothing is closed.  *)
Die(s) ==
    /\ ~At(s, "idle")
    /\ Ends(s)
    /\ OnlyRun /\ UNCHANGED <<acts, spend>>

Midnight ==
    /\ day < LastDay /\ day' = day + 1
    /\ UNCHANGED <<acts, spend, slot, recs, memory, client>>

-------------------------------------------------------------------------------
(***************************************************************************)
(* The recommendation: AIIntelligenceEngine after the run.                  *)
(***************************************************************************)
(* Mutated: a recommendation is looked for by its fingerprint only. *)
SameReportNever(i, c) == FALSE
SameReport(i, c) == CompareOf[c] = "none" /\ ReportOf[recs[i].content] = ReportOf[c]

(* The rows one of which the answer goes to: any one of the report, else    *)
(* one with the fingerprint.                                                *)
Targets(c) ==
    LET byReport == {i \in DOMAIN recs : SameReport(i, c)}
    IN  IF byReport # {} THEN byReport ELSE {i \in DOMAIN recs : recs[i].content = c}

(* With figures to compare, the drivers are read outside any transaction:   *)
(* the session opens one, the tenant is still marked as bound to it, and    *)
(* from here on nothing sets the tenant again or commits.                   *)
LookUp(s) ==
    /\ At(s, "completed")
    /\ \E c \in Contents :
         \/ CompareOf[c] = "data" /\ Moves(s, "loose")
         \/ /\ CompareOf[c] # "data"
            /\ \E i \in IF Targets(c) = {} THEN {0} ELSE Targets(c) :
                 slot' = [slot EXCEPT ![s].pc = "found", ![s].target = i, ![s].content = c]
    /\ OnlyRun /\ UNCHANGED <<acts, spend>>

(* The client is told of a recommendation or of an error: get_db rolls back *)
(* what was left open either way.                                           *)
Unbound(s) ==
    /\ At(s, "loose")
    /\ Ends(s)
    /\ OnlyRun /\ UNCHANGED <<acts, spend>>

NewRow(c) == [content |-> c, compared |-> CompareOf[c] # "none", state |-> "active",
              until |-> "none", last |-> "none", crossed |-> FALSE]

(* Mutated: the seller starts anew with a refreshed recommendation. *)
RefreshedAnew(row, c) == [row EXCEPT !.content = c, !.state = "active"]
Refreshed(row, c) == [row EXCEPT !.content = c]

Store(s) ==
    /\ At(s, "found")
    /\ LET i == slot[s].target  c == slot[s].content IN
         \/ i # 0 /\ recs' = [recs EXCEPT ![i] = Refreshed(@, c)]
         \/ i = 0 /\ Len(recs) < MaxRecs /\ recs' = Append(recs, NewRow(c))
    /\ slot' = [slot EXCEPT ![s] = [Idle EXCEPT !.pc = "stored"]]
    /\ UNCHANGED <<day, acts, spend, memory, client>>

(* StrategicMemoryStore.remember: with one row there is nothing to add; two *)
(* make scalar_one_or_none raise, with the recommendation already committed. *)
Recall(s) ==
    /\ At(s, "stored")
    /\ \E t \in Texts :
         \/ memory[t] = 0 /\ slot' = [slot EXCEPT ![s].pc = "fresh", ![s].text = t]
         \/ memory[t] > 0 /\ Ends(s)
    /\ OnlyRun /\ UNCHANGED <<acts, spend>>

Remember(s) ==
    /\ At(s, "fresh")
    /\ memory' = [memory EXCEPT ![slot[s].text] = @ + 1]
    /\ Ends(s)
    /\ UNCHANGED <<day, acts, spend, recs, client>>

-------------------------------------------------------------------------------
(***************************************************************************)
(* The seller: update_recommendation_workflow, and the lists and counts     *)
(* that first wake what was snoozed until now.  Both load rows, change the  *)
(* objects and write at the commit the columns whose value changed.         *)
(***************************************************************************)
OnlySeller == UNCHANGED <<day, spend, slot, memory>>

DecidedState == [complete |-> "completed", dismiss |-> "dismissed", save |-> "saved",
                 snooze |-> "snoozed", reactivate |-> "active", tag |-> "active"]

(* What becomes of snoozed_until: set, cleared if there was one, or left.   *)
DecidedUntil(act, dated, until) ==
    CASE act = "snooze" -> "later"
      [] act \in {"complete", "dismiss", "reactivate"} /\ dated -> "none"
      [] OTHER -> until

(* Other sessions that have loaded i now hold a row that has changed.       *)
Outdated(me, ids) ==
    [c \in Client |-> IF c = me THEN Away
                      ELSE [client[c] EXCEPT !.stale =
                              @ \cup (ids \cap (client[c].due \cup {client[c].id}))]]

LoadToDecide(c) ==
    /\ client[c].pc = "away" /\ acts < MaxActs
    /\ \E i \in DOMAIN recs, act \in Decisions :
         client' = [client EXCEPT ![c] =
             [pc |-> "decide", id |-> i, act |-> act, state |-> recs[i].state,
              dated |-> recs[i].until # "none", due |-> {}, stale |-> {}]]
    /\ acts' = acts + 1
    /\ OnlySeller /\ UNCHANGED recs

Decided(row, k) ==
    [row EXCEPT !.state = IF DecidedState[k.act] = k.state THEN @ ELSE DecidedState[k.act],
                !.until = DecidedUntil(k.act, k.dated, @),
                !.last = k.act,
                !.crossed = k.id \in k.stale]

Decide(c) ==
    /\ client[c].pc = "decide"
    /\ LET k == client[c] IN
         /\ recs' = [recs EXCEPT ![k.id] = Decided(@, k)]
         /\ client' = Outdated(c, {k.id})
    /\ OnlySeller /\ UNCHANGED acts

Due(i) == recs[i].state = "snoozed" /\ recs[i].until = "due"

LoadToList(c) ==
    /\ client[c].pc = "away" /\ acts < MaxActs
    /\ \E i \in DOMAIN recs : Due(i)
    /\ client' = [client EXCEPT ![c] =
          [Away EXCEPT !.pc = "list", !.due = {i \in DOMAIN recs : Due(i)}]]
    /\ acts' = acts + 1
    /\ OnlySeller /\ UNCHANGED recs

List(c) ==
    /\ client[c].pc = "list"
    /\ recs' = [i \in DOMAIN recs |->
          IF i \in client[c].due
          THEN [recs[i] EXCEPT !.state = "active", !.until = "none",
                               !.crossed = @ \/ i \in client[c].stale]
          ELSE recs[i]]
    /\ client' = Outdated(c, client[c].due)
    /\ OnlySeller /\ UNCHANGED acts

TimePasses(i) ==
    /\ recs[i].until = "later"
    /\ recs' = [recs EXCEPT ![i].until = "due"]
    /\ OnlySeller /\ UNCHANGED <<acts, client>>

-------------------------------------------------------------------------------
RequestStep(s) ==
    \/ Begin(s) \/ CheckBudget(s) \/ Call(s) \/ Draft(s) \/ Fail(s) \/ Complete(s)
    \/ CompleteStream(s)
    \/ Die(s) \/ LookUp(s) \/ Unbound(s) \/ Store(s) \/ Recall(s) \/ Remember(s)

SellerStep(c) == LoadToDecide(c) \/ Decide(c) \/ LoadToList(c) \/ List(c)

Next ==
    \/ \E s \in Slot : RequestStep(s)
    \/ \E c \in Client : SellerStep(c)
    \/ \E i \in DOMAIN recs : TimePasses(i)
    \/ Midnight

Spec == Init /\ [][Next]_vars

-------------------------------------------------------------------------------
SlotRecord ==
    {x \in [pc : SlotPcs, born : Days, cost : Nat, target : Nat,
            content : Contents \cup {Nothing}, text : Texts \cup {Nothing}] :
       /\ x.pc = "found" => x.content \in Contents
       /\ x.pc = "fresh" => x.text \in Texts}
RowRecord ==
    [content : Contents, compared : BOOLEAN, state : RowStates,
     until : {"none", "later", "due"}, last : Decisions \cup {"none"}, crossed : BOOLEAN]
ClientRecord ==
    {k \in [pc : {"away", "decide", "list"}, id : Nat, act : Decisions \cup {"none"},
            state : RowStates, dated : BOOLEAN, due : SUBSET Nat, stale : SUBSET Nat] :
       k.pc = "decide" => k.id # 0 /\ k.act \in Decisions}

(* Rows, requests and sessions are of their types; a request about a row    *)
(* knows one that exists, and so does a session that has loaded one.        *)
TypeOK ==
    /\ day \in Days /\ acts \in Nat
    /\ spend \in [Days -> Nat]
    /\ slot \in [Slot -> SlotRecord]
    /\ \A s \in Slot : slot[s].target \in {0} \cup DOMAIN recs
    /\ recs \in Seq(RowRecord)
    /\ memory \in [Texts -> Nat]
    /\ client \in [Client -> ClientRecord]
    /\ \A c \in Client : {client[c].id} \cup client[c].due \subseteq {0} \cup DOMAIN recs

(* The cap of the day is read long before the cost of the run is recorded,  *)
(* by requests that do not see each other (assert_daily_cost_allowed before *)
(* the provider's call, estimated_cost in complete_run).  What is recorded  *)
(* for the present day passes the cap by at most a full run of every        *)
(* request served at a time; for a past day by at most two, since a run is  *)
(* booked on the day it was begun and checked on the day it gets there.     *)
SpendIsBounded ==
    \A d \in Days :
      spend[d] <= (DayCap - 1) + (IF d >= day THEN 1 ELSE 2) * Cardinality(Slot) * RunCap

(* Nothing in the database keeps answers unique: there is no unique index   *)
(* and no lock, only a look-up before the insert.  The number of copies of  *)
(* a summary, and of plain recommendations for one report, never passes the *)
(* number of requests that looked at the same time.                         *)
CopiesAreBounded ==
    /\ \A t \in Texts : memory[t] <= Cardinality(Slot)
    /\ \A c \in Contents :
         Cardinality({i \in DOMAIN recs : /\ ~recs[i].compared
                                          /\ ReportOf[recs[i].content] = ReportOf[c]})
           <= Cardinality(Slot)

(* What a recommendation shows is what the seller decided last, through     *)
(* refreshes of it by later runs and through lists that wake what was       *)
(* snoozed -- unless the last to write it had loaded it before another      *)
(* session changed it.                                                      *)
DecisionStands ==
    \A i \in DOMAIN recs :
      LET row == recs[i] IN
        ~row.crossed =>
          \/ row.last = "none" /\ row.state = "active"
          \/ row.last # "none" /\ row.state = DecidedState[row.last]
          \/ row.last = "snooze" /\ row.state = "active" /\ row.until = "none"
=============================================================================
