------------------------------- MODULE Accounts -------------------------------
(***************************************************************************)
(* Accounts: invitations minted and revoked by an administrator, accepted   *)
(* by who registers; passwords changed, forgotten and reset by a link in an *)
(* e-mail.  Each request is a transaction at READ COMMITTED; what it writes *)
(* is seen when it commits, and until then its row locks make others wait.  *)
(*                                                                         *)
(* A password and its hash are one value, a token and its hash as well;     *)
(* users.is_active is never written, and the role of an invitation is always *)
(* that of a seller.                                                        *)
(***************************************************************************)
EXTENDS Integers, Sequences, FiniteSets

CONSTANTS
    Visitor,        \* requests served at the same time
    Email,          \* addresses, as users.email keeps them
    Invite, Link,   \* tokens that can be minted: of invitations, of e-mails
    Secret,         \* passwords
    Modes,          \* values of REGISTRATION_MODE
    Nobody,         \* no token, no password
    Lifetime,       \* hours an invitation may be given, a set
    LinkLifetime,   \* hours a link is good for
    LastHour,       \* bound: when the clock stops
    MaxRequests     \* bound: requests begun

ASSUME AccountsAssumption ==
    /\ Modes \subseteq {"open", "invite_only", "disabled"}
    /\ Lifetime \subseteq Nat \ {0} /\ LinkLifetime \in Nat \ {0}
    /\ LastHour \in Nat /\ MaxRequests \in Nat
    /\ Nobody \notin Invite \cup Link \cup Secret

VARIABLES
    mode,           \* REGISTRATION_MODE
    account,        \* e-mail -> password: users
    invite,         \* token -> [email, expires, used, revoked]
    link,           \* token -> [email, expires, used]
    mailed,         \* links that were sent
    signed,         \* e-mails an access token was issued for
    audit,          \* auth_audit_events, in the order of the commits
    clock,
    request,        \* Visitor -> what it is served
    begun           \* requests begun

tables == <<account, invite, link, audit>>
accountVars == <<mode, tables, mailed, signed, clock, request, begun>>

NoRequest == [pc |-> "none", email |-> Nobody, invite |-> Nobody, link |-> Nobody,
              secret |-> Nobody, typed |-> Nobody, seen |-> Nobody, now |-> 0, since |-> 0]

AccountsInit ==
    /\ mode \in Modes
    /\ account = << >> /\ invite = << >> /\ link = << >> /\ mailed = {} /\ signed = {}
    /\ audit = << >> /\ clock = 0 /\ begun = 0
    /\ request = [v \in Visitor |-> NoRequest]

-------------------------------------------------------------------------------
(***************************************************************************)
(* Requests.                                                                *)
(***************************************************************************)
(* A table with another row, or a row overwritten. *)
With(table, key, row) == [k \in DOMAIN table \cup {key} |-> IF k = key THEN row ELSE table[k]]

At(v, pc) == request[v].pc = pc

Begin(v, what) ==
    /\ At(v, "none") /\ begun < MaxRequests
    /\ begun' = begun + 1
    /\ request' = [request EXCEPT ![v] = [what EXCEPT !.now = clock]]

GoOn(v, r) == request' = [request EXCEPT ![v] = r]
Move(v, pc) == GoOn(v, [request[v] EXCEPT !.pc = pc])
Answer(v) == GoOn(v, NoRequest)

(* record_auth_audit, in the transaction of the request. *)
Event(what, v) ==
    [what |-> what, email |-> request[v].email, invite |-> request[v].invite,
     link |-> request[v].link, secret |-> request[v].secret, since |-> request[v].since]
Record(what, v) == audit' = Append(audit, Event(what, v))

(* derive_status *)
Status(i, now) ==
    IF invite[i].used THEN "used"
    ELSE IF invite[i].revoked THEN "revoked"
    ELSE IF invite[i].expires <= now THEN "expired" ELSE "pending"

(* Rows of invitations a registration has locked, and written, uncommitted. *)
Locked(i) == \E v \in Visitor : request[v].invite = i /\ request[v].pc \in {"consumed", "insert"}

-------------------------------------------------------------------------------
(***************************************************************************)
(* Registration.  The page asks for the invitation first and then sends its *)
(* address; the request itself may name any.                               *)
(***************************************************************************)
IsRegistrationOpen == mode = "open"
IsInviteOnly == mode = "invite_only"

AskToRegister(v) ==
    /\ \E e \in Email, s \in Secret :
          LET r == [NoRequest EXCEPT !.pc = "register", !.email = e, !.secret = s]
          IN  \/ IsRegistrationOpen /\ Begin(v, [r EXCEPT !.pc = "find"])
              \/ IsInviteOnly /\ \E i \in DOMAIN invite : Begin(v, [r EXCEPT !.invite = i])
    /\ UNCHANGED <<mode, tables, mailed, signed, clock>>

(* consume_token: SELECT ... FOR UPDATE waits for the row.                  *)
Acceptable(r) ==
    /\ Status(r.invite, r.now) = "pending"
    /\ invite[r.invite].email = r.email

Consume(v) ==
    /\ At(v, "register") /\ ~Locked(request[v].invite)
    /\ IF Acceptable(request[v]) THEN Move(v, "consumed") ELSE Answer(v)
    /\ UNCHANGED <<mode, tables, mailed, signed, clock, begun>>

FindAccount(v) ==
    /\ request[v].pc \in {"consumed", "find"}
    /\ IF request[v].email \in DOMAIN account THEN Answer(v) ELSE Move(v, "insert")
    /\ UNCHANGED <<mode, tables, mailed, signed, clock, begun>>

(* The unique key of users.email, which another registration may have taken *)
(* meanwhile; then the whole transaction is rolled back.                    *)
Register(v) ==
    LET r == request[v] IN
    /\ At(v, "insert")
    /\ \/ r.email \in DOMAIN account /\ UNCHANGED tables
       \/ /\ r.email \notin DOMAIN account
          /\ account' = With(account, r.email, r.secret)
          /\ UNCHANGED link
          /\ IF r.invite = Nobody THEN UNCHANGED <<invite, audit>>
             ELSE /\ invite' = [invite EXCEPT ![r.invite].used = TRUE]
                  /\ Record("accepted", v)
    /\ Answer(v)
    /\ UNCHANGED <<mode, mailed, signed, clock, begun>>

-------------------------------------------------------------------------------
(***************************************************************************)
(* Invitations.                                                             *)
(***************************************************************************)
AskToInvite(v) ==
    /\ \E e \in Email : Begin(v, [NoRequest EXCEPT !.pc = "invite", !.email = e])
    /\ UNCHANGED <<mode, tables, mailed, signed, clock>>

(* Nobody has the address, and then: no invitation to it is pending. *)
CheckNobody(v) ==
    /\ At(v, "invite")
    /\ IF request[v].email \in DOMAIN account THEN Answer(v) ELSE Move(v, "unknown")
    /\ UNCHANGED <<mode, tables, mailed, signed, clock, begun>>

To(e) == {i \in DOMAIN invite : invite[i].email = e}

CheckNoInvite(v) ==
    /\ At(v, "unknown")
    /\ IF \E i \in To(request[v].email) : Status(i, clock) = "pending" THEN Answer(v)
       ELSE Move(v, "mint")
    /\ UNCHANGED <<mode, tables, mailed, signed, clock, begun>>

(* uq_registration_invites_active_email: neither used nor revoked, expired  *)
(* or not - so that an address whose invitation expired gets no other: it   *)
(* cannot be revoked either.                                                *)
Open(e) == \E i \in To(e) : ~invite[i].used /\ ~invite[i].revoked

NewInvite(e, h) == [email |-> e, expires |-> clock + h, used |-> FALSE, revoked |-> FALSE]

(* A row that is being accepted is waited for. *)
MintInvite(v) ==
    LET e == request[v].email IN
    /\ At(v, "mint") /\ ~\E i \in To(e) : Locked(i)
    /\ \/ Open(e) /\ UNCHANGED tables
       \/ /\ ~Open(e)
          /\ \E i \in Invite \ DOMAIN invite, h \in Lifetime :
                /\ invite' = With(invite, i, NewInvite(e, h))
                /\ audit' = Append(audit, [Event("invited", v) EXCEPT !.invite = i])
          /\ UNCHANGED <<account, link>>
    /\ Answer(v)
    /\ UNCHANGED <<mode, mailed, signed, clock, begun>>

AskToRevoke(v) ==
    /\ \E i \in DOMAIN invite :
          Begin(v, [NoRequest EXCEPT !.pc = "revoke", !.invite = i, !.email = invite[i].email])
    /\ UNCHANGED <<mode, tables, mailed, signed, clock>>

(* revoke_invite reads the row without a lock ... *)
CheckPending(v) ==
    /\ At(v, "revoke")
    /\ IF Status(request[v].invite, clock) = "pending" THEN Move(v, "revoking") ELSE Answer(v)
    /\ UNCHANGED <<mode, tables, mailed, signed, clock, begun>>

(* ... and ck_registration_invites_used_revoked_exclusive refuses to write it *)
(* if it was accepted meanwhile.  Mutated: it does not.                      *)
NeverSpent(i) == FALSE
Spent(i) == invite[i].used

Revoke(v) ==
    LET i == request[v].invite IN
    /\ At(v, "revoking") /\ ~Locked(i)
    /\ \/ Spent(i) /\ UNCHANGED tables
       \/ /\ ~Spent(i)
          /\ invite' = [invite EXCEPT ![i].revoked = TRUE]
          /\ Record("revoked", v)
          /\ UNCHANGED <<account, link>>
    /\ Answer(v)
    /\ UNCHANGED <<mode, mailed, signed, clock, begun>>

-------------------------------------------------------------------------------
(***************************************************************************)
(* Passwords.                                                               *)
(***************************************************************************)
Verified(e, s) == account[e] = s
Sign(e) == signed' = signed \cup {e}

(* authenticate: one SELECT; the access token is not kept by the server.    *)
SignIn(v) ==
    /\ At(v, "none")
    /\ \E e \in DOMAIN account, s \in Secret : Verified(e, s) /\ Sign(e)
    /\ UNCHANGED <<mode, tables, mailed, clock, request, begun>>

(* get_current_user loads the row, in a transaction of its own; the session *)
(* keeps it (expire_on_commit is off).                                      *)
AskToChange(v) ==
    /\ \E e \in signed, old, new \in Secret :
          Begin(v, [NoRequest EXCEPT !.pc = "change", !.email = e, !.typed = old,
                                     !.secret = new, !.seen = account[e]])
    /\ UNCHANGED <<mode, tables, mailed, signed, clock>>

(* _validate_new_password, by the row as it was loaded. *)
ChangePassword(v) ==
    LET r == request[v] IN
    /\ At(v, "change")
    /\ IF r.secret # r.seen /\ r.typed = r.seen
       THEN /\ account' = [account EXCEPT ![r.email] = r.secret]
            /\ Record("changed", v)
            /\ UNCHANGED <<invite, link>>
       ELSE UNCHANGED tables
    /\ Answer(v)
    /\ UNCHANGED <<mode, mailed, signed, clock, begun>>

Mail(l) == mailed' = mailed \cup {l}
NewLink(r) == [email |-> r.email, expires |-> r.now + LinkLifetime, used |-> FALSE]

(* request_password_reset: the row of the link is written but not committed *)
(* when the e-mail leaves; nobody is told that there is no such account.    *)
Forget(v) ==
    /\ \E e \in Email, l \in Link \ mailed :
          /\ e \in DOMAIN account
          /\ Begin(v, [NoRequest EXCEPT !.pc = "mailed", !.email = e, !.link = l])
          /\ Mail(l)
    /\ UNCHANGED <<mode, tables, signed, clock>>

KeepLink(v) ==
    LET r == request[v] IN
    /\ At(v, "mailed")
    /\ link' = With(link, r.link, NewLink(r))
    /\ Record("requested", v)
    /\ Answer(v)
    /\ UNCHANGED <<mode, account, invite, mailed, signed, clock, begun>>

AskToReset(v) ==
    /\ \E l \in mailed, s \in Secret :
          Begin(v, [NoRequest EXCEPT !.pc = "reset", !.link = l, !.secret = s])
    /\ UNCHANGED <<mode, tables, mailed, signed, clock>>

(* Mutated: a used link is good. *)
GoodTwice(l, now) == l \in DOMAIN link /\ link[l].expires > now
Good(l, now) == l \in DOMAIN link /\ ~link[l].used /\ link[l].expires > now

(* The link is read without a lock. *)
CheckLink(v) ==
    LET r == request[v] IN
    /\ At(v, "reset")
    /\ IF Good(r.link, clock)
       THEN GoOn(v, [r EXCEPT !.pc = "resetting", !.email = link[r.link].email, !.since = Len(audit)])
       ELSE Answer(v)
    /\ UNCHANGED <<mode, tables, mailed, signed, clock, begun>>

ResetPassword(v) ==
    LET r == request[v] IN
    /\ At(v, "resetting")
    /\ account' = [account EXCEPT ![r.email] = r.secret]
    /\ link' = [link EXCEPT ![r.link].used = TRUE]
    /\ Record("reset", v)
    /\ Sign(r.email)
    /\ Answer(v)
    /\ UNCHANGED <<mode, invite, mailed, clock, begun>>

-------------------------------------------------------------------------------
(* A request that dies, or whose e-mail cannot be sent, is rolled back. *)
Die(v) ==
    /\ ~At(v, "none") /\ Answer(v)
    /\ UNCHANGED <<mode, tables, mailed, signed, clock, begun>>

Tick ==
    /\ clock < LastHour /\ clock' = clock + 1
    /\ UNCHANGED <<mode, tables, mailed, signed, request, begun>>

Visit(v) ==
    \/ AskToRegister(v) \/ Consume(v) \/ FindAccount(v) \/ Register(v)
    \/ AskToInvite(v) \/ CheckNobody(v) \/ CheckNoInvite(v) \/ MintInvite(v)
    \/ AskToRevoke(v) \/ CheckPending(v) \/ Revoke(v)
    \/ SignIn(v) \/ AskToChange(v) \/ ChangePassword(v)
    \/ Forget(v) \/ KeepLink(v) \/ AskToReset(v) \/ CheckLink(v) \/ ResetPassword(v)
    \/ Die(v)

AccountsNext == (\E v \in Visitor : Visit(v)) \/ Tick

AccountsSpec == AccountsInit /\ [][AccountsNext]_accountVars

-------------------------------------------------------------------------------
(***************************************************************************)
(* Properties.                                                              *)
(***************************************************************************)
Told(what) == {n \in DOMAIN audit : audit[n].what = what}

(* What the audit tells of the invitations is what became of them: each is  *)
(* accepted once at most, for its own address, and an accepted one is never *)
(* revoked nor a revoked one accepted; under "invite_only" an account is    *)
(* there for exactly one of them; and an address has one open at a time --  *)
(* however registrations, new invitations and revocations overlap.          *)
InvitesAreHonest ==
    /\ \A i \in DOMAIN invite :
          LET accepted == {n \in Told("accepted") : audit[n].invite = i}
              revoked == {n \in Told("revoked") : audit[n].invite = i}
          IN  /\ Cardinality(accepted) = IF invite[i].used THEN 1 ELSE 0
              /\ accepted = {} \/ revoked = {}
              /\ \A n \in accepted : audit[n].email = invite[i].email
    /\ mode = "invite_only" =>
          \A e \in DOMAIN account : Cardinality({n \in Told("accepted") : audit[n].email = e}) = 1
    /\ \A e \in Email : Cardinality({i \in To(e) : ~invite[i].used /\ ~invite[i].revoked}) <= 1

(* The audit explains every password: it is the one set last, and a link     *)
(* sets one but once -- unless two requests with the link overlap, when the *)
(* second has read it before the first committed.                           *)
AuditExplainsPasswords ==
    LET Setting(e) == {n \in Told("accepted") \cup Told("changed") \cup Told("reset") : audit[n].email = e}
    IN  /\ \A e \in DOMAIN account : Setting(e) # {} =>
              \E n \in Setting(e) : /\ \A m \in Setting(e) : m <= n
                                    /\ audit[n].secret = account[e]
        /\ \A m, n \in Told("reset") :
              audit[m].link = audit[n].link /\ m < n => audit[n].since < m
================================================================================
