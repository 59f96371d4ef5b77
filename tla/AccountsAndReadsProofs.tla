------------------------ MODULE AccountsAndReadsProofs ------------------------
(* Proofs about Accounts, for any numbers of visitors and tokens:           *)
(* invitations are used as the audit tells, and the audit explains every    *)
(* password; about SellerReads, for any reports, pages and requests: one    *)
(* page tells one truth, the reports selected cover the others, the numbers *)
(* of two pages add up to each other, and governed profits are exact; and   *)
(* about WbReading, for any files: an upload is told beforehand, chunks     *)
(* change nothing, and the ways to read a file agree.                       *)
EXTENDS Accounts, SellerReads, WbReading, WbLedgerProofs, SequenceTheorems

-------------------------------------------------------------------------------
(***************************************************************************)
(* ACCOUNTS.  The inductive invariant, in five parts.                      *)
(***************************************************************************)
(* 1. Types.                                                               *)
Pcs == {"none", "register", "find", "consumed", "insert", "invite", "unknown", "mint",
        "revoke", "revoking", "change", "mailed", "reset", "resetting"}
Whats == {"accepted", "invited", "revoked", "changed", "requested", "reset"}

RequestRecord ==
    [pc : Pcs, email : Email \cup {Nobody}, invite : Invite \cup {Nobody},
     link : Link \cup {Nobody}, secret : Secret \cup {Nobody}, typed : Secret \cup {Nobody},
     seen : Secret \cup {Nobody}, now : Nat, since : Nat]
EventRecord ==
    [what : Whats, email : Email \cup {Nobody}, invite : Invite \cup {Nobody},
     link : Link \cup {Nobody}, secret : Secret \cup {Nobody}, since : Nat]
InviteRecord == [email : Email, expires : Nat, used : BOOLEAN, revoked : BOOLEAN]
LinkRecord == [email : Email, expires : Nat, used : BOOLEAN]

Typing ==
    /\ mode \in Modes
    /\ DOMAIN account \subseteq Email /\ \A e \in DOMAIN account : account[e] \in Secret
    /\ DOMAIN invite \subseteq Invite /\ \A i \in DOMAIN invite : invite[i] \in InviteRecord
    /\ DOMAIN link \subseteq Link /\ \A l \in DOMAIN link : link[l] \in LinkRecord
    /\ mailed \subseteq Link /\ signed \subseteq Email
    /\ audit \in Seq(EventRecord)
    /\ clock \in Nat /\ begun \in Nat
    /\ request \in [Visitor -> RequestRecord]

(* 2. What a request is about is there: tokens are not taken back, links    *)
(* are mailed before they are kept, and only to an account.                 *)
Refers(r) ==
    /\ r.invite = Nobody \/ r.invite \in DOMAIN invite
    /\ r.pc \in {"find", "register", "consumed", "insert"} => r.email \in Email /\ r.secret \in Secret
    /\ r.pc = "find" => r.invite = Nobody
    /\ r.pc \in {"register", "revoke", "revoking"} => r.invite # Nobody
    /\ r.pc \in {"find", "consumed", "insert"} /\ r.invite = Nobody => mode = "open"
    /\ r.pc \in {"invite", "unknown", "mint"} => r.email \in Email
    /\ r.pc \in {"change", "mailed", "resetting"} => r.email \in DOMAIN account
    /\ r.pc \in {"change", "reset", "resetting"} => r.secret \in Secret
    /\ r.pc = "mailed" => r.link \in mailed \ DOMAIN link
    /\ r.pc = "resetting" => r.link \in DOMAIN link /\ r.since <= Len(audit)

References ==
    /\ \A v \in Visitor : Refers(request[v])
    /\ DOMAIN link \subseteq mailed /\ \A l \in DOMAIN link : link[l].email \in DOMAIN account
    /\ signed \subseteq DOMAIN account
    /\ \A v, w \in Visitor : request[v].pc = "mailed" /\ request[w].pc = "mailed"
                             /\ request[v].link = request[w].link => v = w

(* 3. Who holds the row of an invitation holds it alone, and it is good.    *)
Keeping(r) == r.pc \in {"consumed", "insert"} /\ r.invite # Nobody
Held ==
    /\ \A v \in Visitor : Keeping(request[v]) =>
          LET i == invite[request[v].invite]
          IN  ~i.used /\ ~i.revoked /\ i.email = request[v].email
    /\ \A v, w \in Visitor : Keeping(request[v]) /\ Keeping(request[w])
                             /\ request[v].invite = request[w].invite => v = w

(* 4. The audit tells of every invitation that was used or revoked, and of  *)
(* nothing else; and an address has one that is open.                       *)
InvitesTold ==
    /\ \A n \in Told("accepted") :
          /\ audit[n].invite \in DOMAIN invite /\ invite[audit[n].invite].used
          /\ audit[n].email = invite[audit[n].invite].email
          /\ audit[n].email \in DOMAIN account
    /\ \A m, n \in Told("accepted") :
          audit[m].invite = audit[n].invite \/ audit[m].email = audit[n].email => m = n
    /\ \A i \in DOMAIN invite : invite[i].used => \E n \in Told("accepted") : audit[n].invite = i
    /\ mode = "invite_only" =>
          \A e \in DOMAIN account : \E n \in Told("accepted") : audit[n].email = e
    /\ \A n \in Told("revoked") : audit[n].invite \in DOMAIN invite /\ invite[audit[n].invite].revoked
    /\ \A i \in DOMAIN invite : ~(invite[i].used /\ invite[i].revoked)

IsOpen(i) == ~invite[i].used /\ ~invite[i].revoked
OneOpen ==
    \A i, j \in DOMAIN invite : IsOpen(i) /\ IsOpen(j) /\ invite[i].email = invite[j].email => i = j

(* 5. The audit tells of every password it set; a link that was used is     *)
(* marked, and who has read a link before that has read an earlier audit.   *)
Setters == {"accepted", "changed", "reset"}
Sets(n, e) == audit[n].what \in Setters /\ audit[n].email = e

PasswordsSet ==
    /\ \A n \in DOMAIN audit : audit[n].what \in Setters => audit[n].email \in DOMAIN account
    /\ \A e \in DOMAIN account : (\E n \in DOMAIN audit : Sets(n, e)) =>
          \E n \in DOMAIN audit : /\ Sets(n, e) /\ audit[n].secret = account[e]
                                  /\ \A m \in DOMAIN audit : Sets(m, e) => m <= n

LinksSpent ==
    /\ \A n \in Told("reset") : audit[n].link \in DOMAIN link /\ link[audit[n].link].used
    /\ \A m, n \in Told("reset") : audit[m].link = audit[n].link /\ m < n => audit[n].since < m
    /\ \A v \in Visitor, m \in Told("reset") :
          request[v].pc = "resetting" /\ audit[m].link = request[v].link => request[v].since < m

IInv == Typing /\ References /\ Held /\ InvitesTold /\ OneOpen /\ PasswordsSet /\ LinksSpent

-------------------------------------------------------------------------------
(***************************************************************************)
(* Types and references.                                                   *)
(***************************************************************************)
LEMMA NothingIsTyped == NoRequest \in RequestRecord /\ NoRequest.pc = "none" /\ NoRequest.invite = Nobody
  BY DEF NoRequest, RequestRecord, Pcs

LEMMA NothingRefers == Refers(NoRequest) /\ Refers(NoRequest)'
  BY DEF NoRequest, Refers

LEMMA EventsAreTyped ==
    ASSUME Typing, NEW v \in Visitor, NEW what \in Whats
    PROVE  /\ Event(what, v) \in EventRecord
           /\ Event(what, v).what = what /\ Event(what, v).email = request[v].email
           /\ Event(what, v).invite = request[v].invite /\ Event(what, v).link = request[v].link
           /\ Event(what, v).secret = request[v].secret /\ Event(what, v).since = request[v].since
  <1>1. request[v] \in RequestRecord
    BY DEF Typing
  <1>2. QED
    BY <1>1 DEF Event, EventRecord, RequestRecord

LEMMA TokensAreTokens ==
    Nobody \notin Invite /\ Nobody \notin Link /\ Nobody \notin Secret
  BY AccountsAssumption

(* One request is served at a time, and the mode stands.                    *)
LEMMA OneServed ==
    ASSUME Typing, NEW v \in Visitor, Visit(v)
    PROVE  mode' = mode /\ \A w \in Visitor \ {v} : request'[w] = request[w]
  BY DEF Visit, AskToRegister, Consume, FindAccount, Register, AskToInvite, CheckNobody,
         CheckNoInvite, MintInvite, AskToRevoke, CheckPending, Revoke, SignIn, AskToChange,
         ChangePassword, Forget, KeepLink, AskToReset, CheckLink, ResetPassword, Die,
         Begin, GoOn, Move, Answer, Typing

(* A request goes on and writes nothing.                                    *)
LEMMA GoesOn ==
    ASSUME Typing, References, NEW v \in Visitor, NEW x \in RequestRecord,
           request' = [request EXCEPT ![v] = x], Refers(x), x.pc # "mailed",
           UNCHANGED <<mode, tables, mailed, signed, clock>>, begun' \in Nat
    PROVE  Typing' /\ References'
  <1>1. Typing'
    BY DEF Typing, tables
  <1>2. /\ account' = account /\ invite' = invite /\ link' = link /\ audit' = audit
        /\ mailed' = mailed /\ signed' = signed /\ mode' = mode
    BY DEF tables
  <1>3. /\ request'[v] = x
        /\ \A w \in Visitor \ {v} : request'[w] = request[w]
    BY DEF Typing
  <1>4. \A w \in Visitor : Refers(request[w])'
    BY <1>2, <1>3 DEF References, Refers
  <1>5. QED
    BY <1>1, <1>2, <1>3, <1>4 DEF References

(* A request is begun.                                                      *)
LEMMA Begins ==
    ASSUME Typing, References, NEW v \in Visitor, NEW x \in RequestRecord,
           Begin(v, x), Refers(x), x.pc # "mailed",
           UNCHANGED <<mode, tables, mailed, signed, clock>>
    PROVE  Typing' /\ References'
  <1> DEFINE y == [x EXCEPT !.now = clock]
  <1>1. y \in RequestRecord /\ y.pc = x.pc /\ Refers(y)
    BY DEF RequestRecord, Refers, Typing
  <1>2. request' = [request EXCEPT ![v] = y] /\ begun' \in Nat
    BY DEF Begin, Typing
  <1> HIDE DEF y
  <1>3. QED
    BY <1>1, <1>2, GoesOn

LEMMA Answers ==
    ASSUME Typing, References, NEW v \in Visitor, Answer(v),
           UNCHANGED <<mode, tables, mailed, signed, clock, begun>>
    PROVE  Typing' /\ References'
  <1>1. request' = [request EXCEPT ![v] = NoRequest] /\ NoRequest.pc # "mailed" /\ begun' \in Nat
    BY NothingIsTyped DEF Answer, GoOn, Typing
  <1>2. QED
    BY <1>1, NothingIsTyped, NothingRefers, GoesOn

LEMMA Moves ==
    ASSUME Typing, References, NEW v \in Visitor, NEW p \in Pcs \ {"mailed", "resetting"}, Move(v, p),
           Refers([request[v] EXCEPT !.pc = p]),
           UNCHANGED <<mode, tables, mailed, signed, clock, begun>>
    PROVE  Typing' /\ References'
  <1> DEFINE y == [request[v] EXCEPT !.pc = p]
  <1>1. request[v] \in RequestRecord
    BY DEF Typing
  <1>2. y \in RequestRecord /\ y.pc # "mailed"
    BY <1>1 DEF RequestRecord
  <1>3. request' = [request EXCEPT ![v] = y] /\ begun' \in Nat
    BY DEF Move, GoOn, Typing
  <1> HIDE DEF y
  <1>4. QED
    BY <1>2, <1>3, GoesOn DEF y

(* A request writes and is answered.                                        *)
LEMMA Writes ==
    ASSUME Typing, References, NEW v \in Visitor, Answer(v),
           mode' = mode, mailed' = mailed, clock' = clock, begun' = begun,
           DOMAIN account \subseteq DOMAIN account', DOMAIN account' \subseteq Email,
           \A e \in DOMAIN account' : account'[e] \in Secret,
           DOMAIN invite \subseteq DOMAIN invite', DOMAIN invite' \subseteq Invite,
           \A i \in DOMAIN invite' : invite'[i] \in InviteRecord,
           DOMAIN link' = DOMAIN link,
           \A l \in DOMAIN link : link'[l] \in LinkRecord /\ link'[l].email = link[l].email,
           audit' \in Seq(EventRecord), Len(audit) <= Len(audit'),
           signed' \subseteq DOMAIN account'
    PROVE  Typing' /\ References'
  <1>1. request' = [request EXCEPT ![v] = NoRequest]
    BY DEF Answer, GoOn
  <1>2. Typing'
    BY <1>1, NothingIsTyped DEF Typing
  <1>3. request'[v] = NoRequest /\ \A w \in Visitor \ {v} : request'[w] = request[w]
    BY <1>1 DEF Typing
  <1>4. \A w \in Visitor : Refers(request[w])'
    <2> SUFFICES ASSUME NEW w \in Visitor PROVE Refers(request[w])'
      OBVIOUS
    <2>1. CASE w = v
      BY <1>3, <2>1 DEF Refers, NoRequest
    <2>2. CASE w # v
      <3>1. request'[w] = request[w] /\ Refers(request[w]) /\ request[w] \in RequestRecord
        BY <1>3, <2>2 DEF References, Typing
      <3>2. Len(audit) \in Nat /\ Len(audit') \in Nat /\ request[w].since \in Nat
        BY <3>1 DEF Typing, RequestRecord
      <3>3. QED
        BY <3>1, <3>2 DEF Refers
    <2>3. QED
      BY <2>1, <2>2
  <1>5. DOMAIN link' \subseteq mailed' /\ \A l \in DOMAIN link' : link'[l].email \in DOMAIN account'
    BY DEF References
  <1>6. \A u, w \in Visitor : request'[u].pc = "mailed" /\ request'[w].pc = "mailed"
                              /\ request'[u].link = request'[w].link => u = w
    BY <1>3, NothingIsTyped DEF References
  <1>7. QED
    BY <1>2, <1>4, <1>5, <1>6 DEF References

(* An event is written behind the others.                                   *)
LEMMA EventIsLast ==
    ASSUME Typing, NEW x \in EventRecord, audit' = Append(audit, x)
    PROVE  /\ audit' \in Seq(EventRecord) /\ Len(audit') = Len(audit) + 1 /\ Len(audit) \in Nat
           /\ DOMAIN audit' = DOMAIN audit \cup {Len(audit) + 1}
           /\ \A n \in DOMAIN audit : audit'[n] = audit[n] /\ n <= Len(audit) /\ n \in Nat
           /\ audit'[Len(audit) + 1] = x
           /\ \A w : Told(w)' = Told(w) \cup (IF x.what = w THEN {Len(audit) + 1} ELSE {})
  <1>1. audit \in Seq(EventRecord)
    BY DEF Typing
  <1>2. /\ audit' \in Seq(EventRecord) /\ Len(audit') = Len(audit) + 1 /\ Len(audit) \in Nat
        /\ DOMAIN audit' = DOMAIN audit \cup {Len(audit) + 1}
        /\ \A n \in DOMAIN audit : audit'[n] = audit[n] /\ n <= Len(audit) /\ n \in Nat
        /\ audit'[Len(audit) + 1] = x
    BY <1>1
  <1>3. \A w : Told(w)' = Told(w) \cup (IF x.what = w THEN {Len(audit) + 1} ELSE {})
    BY <1>2 DEF Told
  <1>4. QED
    BY <1>2, <1>3

(* Requests that write nothing at this step.                                *)
LEMMA QuietTyped ==
    ASSUME Typing, References, NEW v \in Visitor,
           \/ AskToRegister(v) \/ Consume(v) \/ FindAccount(v) \/ AskToInvite(v) \/ CheckNobody(v)
           \/ CheckNoInvite(v) \/ AskToRevoke(v) \/ CheckPending(v) \/ AskToChange(v)
           \/ AskToReset(v) \/ CheckLink(v) \/ Die(v)
    PROVE  Typing' /\ References'
  <1>1. /\ request[v] \in RequestRecord /\ Refers(request[v])
        /\ DOMAIN invite \subseteq Invite /\ DOMAIN account \subseteq Email /\ mailed \subseteq Link
        /\ \A i \in DOMAIN invite : invite[i].email \in Email
        /\ \A e \in DOMAIN account : account[e] \in Secret
        /\ signed \subseteq DOMAIN account
    BY DEF Typing, References, InviteRecord
  <1>2. CASE AskToRegister(v)
    <2>1. PICK e \in Email, t \in Secret :
            LET r == [NoRequest EXCEPT !.pc = "register", !.email = e, !.secret = t]
            IN  \/ IsRegistrationOpen /\ Begin(v, [r EXCEPT !.pc = "find"])
                \/ IsInviteOnly /\ \E i \in DOMAIN invite : Begin(v, [r EXCEPT !.invite = i])
      BY <1>2 DEF AskToRegister
    <2> DEFINE r == [NoRequest EXCEPT !.pc = "register", !.email = e, !.secret = t]
    <2>2. UNCHANGED <<mode, tables, mailed, signed, clock>>
      BY <1>2 DEF AskToRegister
    <2>3. CASE IsRegistrationOpen /\ Begin(v, [r EXCEPT !.pc = "find"])
      <3>1. [r EXCEPT !.pc = "find"] \in RequestRecord /\ [r EXCEPT !.pc = "find"].pc # "mailed"
        BY DEF NoRequest, RequestRecord, Pcs
      <3>2. Refers([r EXCEPT !.pc = "find"])
        BY <2>3 DEF NoRequest, Refers, IsRegistrationOpen
      <3>3. QED
        BY <2>2, <2>3, <3>1, <3>2, Begins
    <2>4. ASSUME NEW i \in DOMAIN invite, Begin(v, [r EXCEPT !.invite = i]) PROVE Typing' /\ References'
      <3>1. i \in Invite /\ i # Nobody
        BY <1>1, TokensAreTokens
      <3>2. [r EXCEPT !.invite = i] \in RequestRecord /\ [r EXCEPT !.invite = i].pc # "mailed"
        BY <3>1 DEF NoRequest, RequestRecord, Pcs
      <3>3. Refers([r EXCEPT !.invite = i])
        BY <3>1 DEF NoRequest, Refers
      <3>4. QED
        BY <2>2, <2>4, <3>2, <3>3, Begins
    <2>5. QED
      BY <2>1, <2>3, <2>4
  <1>3. CASE Consume(v)
    <2>1. CASE Answer(v)
      BY <1>3, <2>1, Answers DEF Consume
    <2>2. CASE Move(v, "consumed")
      <3>1. Refers([request[v] EXCEPT !.pc = "consumed"])
        BY <1>1, <1>3 DEF Consume, At, Refers, RequestRecord
      <3>2. QED
        BY <1>3, <2>2, <3>1, Moves DEF Consume, Pcs
    <2>3. QED
      BY <1>3, <2>1, <2>2 DEF Consume
  <1>4. CASE FindAccount(v)
    <2>1. CASE Answer(v)
      BY <1>4, <2>1, Answers DEF FindAccount
    <2>2. CASE Move(v, "insert")
      <3>1. Refers([request[v] EXCEPT !.pc = "insert"])
        BY <1>1, <1>4 DEF FindAccount, Refers, RequestRecord
      <3>2. QED
        BY <1>4, <2>2, <3>1, Moves DEF FindAccount, Pcs
    <2>3. QED
      BY <1>4, <2>1, <2>2 DEF FindAccount
  <1>5. CASE AskToInvite(v)
    <2>1. PICK e \in Email : Begin(v, [NoRequest EXCEPT !.pc = "invite", !.email = e])
      BY <1>5 DEF AskToInvite
    <2> DEFINE x == [NoRequest EXCEPT !.pc = "invite", !.email = e]
    <2>2. x \in RequestRecord /\ x.pc # "mailed" /\ Refers(x)
      BY DEF NoRequest, RequestRecord, Pcs, Refers
    <2> HIDE DEF x
    <2>3. QED
      BY <1>5, <2>1, <2>2, Begins DEF AskToInvite, x
  <1>6. CASE CheckNobody(v)
    <2>1. CASE Answer(v)
      BY <1>6, <2>1, Answers DEF CheckNobody
    <2>2. CASE Move(v, "unknown")
      <3>1. Refers([request[v] EXCEPT !.pc = "unknown"])
        BY <1>1, <1>6 DEF CheckNobody, At, Refers, RequestRecord
      <3>2. QED
        BY <1>6, <2>2, <3>1, Moves DEF CheckNobody, Pcs
    <2>3. QED
      BY <1>6, <2>1, <2>2 DEF CheckNobody
  <1>7. CASE CheckNoInvite(v)
    <2>1. CASE Answer(v)
      BY <1>7, <2>1, Answers DEF CheckNoInvite
    <2>2. CASE Move(v, "mint")
      <3>1. Refers([request[v] EXCEPT !.pc = "mint"])
        BY <1>1, <1>7 DEF CheckNoInvite, At, Refers, RequestRecord
      <3>2. QED
        BY <1>7, <2>2, <3>1, Moves DEF CheckNoInvite, Pcs
    <2>3. QED
      BY <1>7, <2>1, <2>2 DEF CheckNoInvite
  <1>8. CASE AskToRevoke(v)
    <2>1. PICK i \in DOMAIN invite :
            Begin(v, [NoRequest EXCEPT !.pc = "revoke", !.invite = i, !.email = invite[i].email])
      BY <1>8 DEF AskToRevoke
    <2> DEFINE x == [NoRequest EXCEPT !.pc = "revoke", !.invite = i, !.email = invite[i].email]
    <2>2. i \in Invite /\ i # Nobody /\ invite[i].email \in Email
      BY <1>1, TokensAreTokens
    <2>3. x \in RequestRecord /\ x.pc # "mailed" /\ Refers(x)
      BY <2>2 DEF NoRequest, RequestRecord, Pcs, Refers
    <2> HIDE DEF x
    <2>4. QED
      BY <1>8, <2>1, <2>3, Begins DEF AskToRevoke, x
  <1>9. CASE CheckPending(v)
    <2>1. CASE Answer(v)
      BY <1>9, <2>1, Answers DEF CheckPending
    <2>2. CASE Move(v, "revoking")
      <3>1. Refers([request[v] EXCEPT !.pc = "revoking"])
        BY <1>1, <1>9 DEF CheckPending, At, Refers, RequestRecord
      <3>2. QED
        BY <1>9, <2>2, <3>1, Moves DEF CheckPending, Pcs
    <2>3. QED
      BY <1>9, <2>1, <2>2 DEF CheckPending
  <1>10. CASE AskToChange(v)
    <2>1. PICK e \in signed, old, new \in Secret :
            Begin(v, [NoRequest EXCEPT !.pc = "change", !.email = e, !.typed = old,
                                       !.secret = new, !.seen = account[e]])
      BY <1>10 DEF AskToChange
    <2> DEFINE x == [NoRequest EXCEPT !.pc = "change", !.email = e, !.typed = old,
                                      !.secret = new, !.seen = account[e]]
    <2>2. e \in DOMAIN account /\ e \in Email /\ account[e] \in Secret
      BY <1>1
    <2>3. x \in RequestRecord /\ x.pc # "mailed" /\ Refers(x)
      BY <2>2 DEF NoRequest, RequestRecord, Pcs, Refers
    <2> HIDE DEF x
    <2>4. QED
      BY <1>10, <2>1, <2>3, Begins DEF AskToChange, x
  <1>11. CASE AskToReset(v)
    <2>1. PICK l \in mailed, t \in Secret :
            Begin(v, [NoRequest EXCEPT !.pc = "reset", !.link = l, !.secret = t])
      BY <1>11 DEF AskToReset
    <2> DEFINE x == [NoRequest EXCEPT !.pc = "reset", !.link = l, !.secret = t]
    <2>2. l \in Link /\ NoRequest \in RequestRecord /\ NoRequest.invite = Nobody
      BY <1>1, NothingIsTyped
    <2>3. x \in RequestRecord
      BY <2>2 DEF RequestRecord, Pcs
    <2>4. x.pc = "reset" /\ x.invite = Nobody /\ x.secret = t
      BY <2>2 DEF RequestRecord
    <2> HIDE DEF x
    <2>5. x.pc # "mailed" /\ Refers(x)
      BY <2>4 DEF Refers
    <2>6. QED
      BY <1>11, <2>1, <2>3, <2>5, Begins DEF AskToReset, x
  <1>12. CASE CheckLink(v)
    <2> DEFINE r == request[v]
               x == [r EXCEPT !.pc = "resetting", !.email = link[r.link].email, !.since = Len(audit)]
    <2>1. CASE Answer(v)
      BY <1>12, <2>1, Answers DEF CheckLink
    <2>2. CASE Good(r.link, clock) /\ GoOn(v, x)
      <3>1. /\ r.link \in DOMAIN link /\ link[r.link].email \in Email
            /\ link[r.link].email \in DOMAIN account /\ Len(audit) \in Nat /\ r.pc = "reset"
        BY <1>12, <2>2 DEF Good, Typing, LinkRecord, References, CheckLink, At
      <3>2. x \in RequestRecord /\ x.pc # "mailed"
        BY <1>1, <3>1 DEF RequestRecord, Pcs
      <3>3. Refers(x)
        BY <1>1, <3>1 DEF RequestRecord, Refers
      <3>4. request' = [request EXCEPT ![v] = x] /\ begun' \in Nat
        BY <1>12, <2>2 DEF CheckLink, GoOn, Typing
      <3> HIDE DEF x
      <3>5. QED
        BY <1>12, <3>2, <3>3, <3>4, GoesOn DEF CheckLink
    <2>3. QED
      BY <1>12, <2>1, <2>2 DEF CheckLink
  <1>13. CASE Die(v)
    BY <1>13, Answers DEF Die
  <1>14. QED
    BY <1>2, <1>3, <1>4, <1>5, <1>6, <1>7, <1>8, <1>9, <1>10, <1>11, <1>12, <1>13

(* Requests that write rows, and are answered.                              *)
LEMMA RegisterTyped ==
    ASSUME Typing, References, NEW v \in Visitor, Register(v)
    PROVE  Typing' /\ References'
  <1> DEFINE r == request[v]
  <1>1. /\ r \in RequestRecord /\ Refers(r) /\ r.pc = "insert" /\ r.email \in Email /\ r.secret \in Secret
        /\ Answer(v) /\ UNCHANGED <<mode, mailed, signed, clock, begun>>
    BY DEF Typing, References, Register, At, Refers
  <1>2. CASE UNCHANGED tables
    BY <1>1, <1>2, Answers
  <1>3. CASE r.email \notin DOMAIN account /\ ~UNCHANGED tables
    <2>1. account' = With(account, r.email, r.secret) /\ link' = link
      BY <1>3 DEF Register
    <2>2. DOMAIN account' = DOMAIN account \cup {r.email} /\ \A e \in DOMAIN account' : account'[e] \in Secret
      BY <1>1, <2>1 DEF With, Typing
    <2>3. CASE r.invite = Nobody
      <3>1. UNCHANGED <<invite, audit>>
        BY <1>3, <2>3 DEF Register
      <3>2. QED
        BY <1>1, <2>1, <2>2, <3>1, Writes DEF Typing, References
    <2>4. CASE r.invite # Nobody
      <3>1. invite' = [invite EXCEPT ![r.invite].used = TRUE] /\ audit' = Append(audit, Event("accepted", v))
        BY <1>3, <2>4 DEF Register, Record
      <3>2. r.invite \in DOMAIN invite /\ invite[r.invite] \in InviteRecord
        BY <1>1, <2>4 DEF Refers, Typing
      <3>3. DOMAIN invite' = DOMAIN invite /\ \A i \in DOMAIN invite' : invite'[i] \in InviteRecord
        BY <3>1, <3>2 DEF Typing, InviteRecord
      <3>4. audit' \in Seq(EventRecord) /\ Len(audit) <= Len(audit')
        BY <3>1, EventsAreTyped, EventIsLast DEF Whats
      <3>5. QED
        BY <1>1, <2>1, <2>2, <3>3, <3>4, Writes DEF Typing, References
    <2>5. QED
      BY <2>3, <2>4
  <1>4. QED
    BY <1>2, <1>3 DEF Register

LEMMA MintTyped ==
    ASSUME Typing, References, NEW v \in Visitor, MintInvite(v)
    PROVE  Typing' /\ References'
  <1> DEFINE e == request[v].email
  <1>1. /\ Answer(v) /\ UNCHANGED <<mode, mailed, signed, clock, begun>>
        /\ e \in Email
    BY DEF Typing, References, MintInvite, At, Refers
  <1>2. CASE UNCHANGED tables
    BY <1>1, <1>2, Answers
  <1>3. ASSUME NEW i \in Invite \ DOMAIN invite, NEW h \in Lifetime,
               invite' = With(invite, i, NewInvite(e, h)),
               audit' = Append(audit, [Event("invited", v) EXCEPT !.invite = i]),
               UNCHANGED <<account, link>>
        PROVE  Typing' /\ References'
    <2>1. h \in Nat
      BY AccountsAssumption
    <2>2. NewInvite(e, h) \in InviteRecord
      BY <1>1, <2>1 DEF NewInvite, InviteRecord, Typing
    <2>3. DOMAIN invite' = DOMAIN invite \cup {i} /\ \A j \in DOMAIN invite' : invite'[j] \in InviteRecord
      BY <1>3, <2>2 DEF With, Typing
    <2>4. [Event("invited", v) EXCEPT !.invite = i] \in EventRecord
      BY EventsAreTyped DEF EventRecord, Whats
    <2>5. audit' \in Seq(EventRecord) /\ Len(audit) <= Len(audit')
      BY <1>3, <2>4, EventIsLast
    <2>6. QED
      BY <1>1, <1>3, <2>3, <2>5, Writes DEF Typing, References
  <1>4. QED
    BY <1>2, <1>3 DEF MintInvite

LEMMA RevokeTyped ==
    ASSUME Typing, References, NEW v \in Visitor, Revoke(v)
    PROVE  Typing' /\ References'
  <1> DEFINE i == request[v].invite
  <1>1. /\ Answer(v) /\ UNCHANGED <<mode, mailed, signed, clock, begun>>
        /\ i \in DOMAIN invite /\ invite[i] \in InviteRecord
    BY DEF Typing, References, Revoke, At, Refers
  <1>2. CASE UNCHANGED tables
    BY <1>1, <1>2, Answers
  <1>3. CASE /\ invite' = [invite EXCEPT ![i].revoked = TRUE] /\ Record("revoked", v)
             /\ UNCHANGED <<account, link>>
    <2>1. DOMAIN invite' = DOMAIN invite /\ \A j \in DOMAIN invite' : invite'[j] \in InviteRecord
      BY <1>1, <1>3 DEF Typing, InviteRecord
    <2>2. audit' \in Seq(EventRecord) /\ Len(audit) <= Len(audit')
      BY <1>3, EventsAreTyped, EventIsLast DEF Whats, Record
    <2>3. QED
      BY <1>1, <1>3, <2>1, <2>2, Writes DEF Typing, References
  <1>4. QED
    BY <1>2, <1>3 DEF Revoke

LEMMA ChangeTyped ==
    ASSUME Typing, References, NEW v \in Visitor, ChangePassword(v)
    PROVE  Typing' /\ References'
  <1> DEFINE r == request[v]
  <1>1. /\ Answer(v) /\ UNCHANGED <<mode, mailed, signed, clock, begun>>
        /\ r.email \in DOMAIN account /\ r.secret \in Secret
    BY DEF Typing, References, ChangePassword, At, Refers
  <1>2. CASE UNCHANGED tables
    BY <1>1, <1>2, Answers
  <1>3. CASE /\ account' = [account EXCEPT ![r.email] = r.secret] /\ Record("changed", v)
             /\ UNCHANGED <<invite, link>>
    <2>1. DOMAIN account' = DOMAIN account /\ \A e \in DOMAIN account' : account'[e] \in Secret
      BY <1>1, <1>3 DEF Typing
    <2>2. audit' \in Seq(EventRecord) /\ Len(audit) <= Len(audit')
      BY <1>3, EventsAreTyped, EventIsLast DEF Whats, Record
    <2>3. QED
      BY <1>1, <1>3, <2>1, <2>2, Writes DEF Typing, References
  <1>4. QED
    BY <1>2, <1>3 DEF ChangePassword

LEMMA ResetTyped ==
    ASSUME Typing, References, NEW v \in Visitor, ResetPassword(v)
    PROVE  Typing' /\ References'
  <1> DEFINE r == request[v]
  <1>1. /\ Answer(v) /\ UNCHANGED <<mode, invite, mailed, clock, begun>>
        /\ r.email \in DOMAIN account /\ r.secret \in Secret
        /\ r.link \in DOMAIN link /\ link[r.link] \in LinkRecord
    BY DEF Typing, References, ResetPassword, At, Refers
  <1>2. /\ account' = [account EXCEPT ![r.email] = r.secret]
        /\ link' = [link EXCEPT ![r.link].used = TRUE]
        /\ Record("reset", v) /\ signed' = signed \cup {r.email}
    BY DEF ResetPassword, Sign
  <1>3. DOMAIN account' = DOMAIN account /\ \A e \in DOMAIN account' : account'[e] \in Secret
    BY <1>1, <1>2 DEF Typing
  <1>4. audit' \in Seq(EventRecord) /\ Len(audit) <= Len(audit')
    BY <1>2, EventsAreTyped, EventIsLast DEF Whats, Record
  <1>5. DOMAIN link' = DOMAIN link
        /\ \A l \in DOMAIN link : link'[l] \in LinkRecord /\ link'[l].email = link[l].email
    BY <1>1, <1>2 DEF Typing, LinkRecord
  <1>6. signed' \subseteq DOMAIN account'
    BY <1>1, <1>2, <1>3 DEF References
  <1>7. QED
    BY <1>1, <1>3, <1>4, <1>5, <1>6, Writes DEF Typing

(* The two steps of a link: it is mailed, and then it is kept.              *)
LEMMA ForgetTyped ==
    ASSUME Typing, References, NEW v \in Visitor, Forget(v)
    PROVE  Typing' /\ References'
  <1>1. PICK e \in Email, l \in Link \ mailed :
          /\ e \in DOMAIN account
          /\ Begin(v, [NoRequest EXCEPT !.pc = "mailed", !.email = e, !.link = l])
          /\ mailed' = mailed \cup {l}
    BY DEF Forget, Mail
  <1> DEFINE x == [[NoRequest EXCEPT !.pc = "mailed", !.email = e, !.link = l] EXCEPT !.now = clock]
  <1>2. x \in RequestRecord /\ x.pc = "mailed" /\ x.link = l /\ x.invite = Nobody /\ x.email = e
    BY DEF NoRequest, RequestRecord, Pcs, Typing
  <1>3. /\ request' = [request EXCEPT ![v] = x] /\ begun' \in Nat
        /\ account' = account /\ invite' = invite /\ link' = link /\ audit' = audit
        /\ signed' = signed /\ mode' = mode /\ clock' = clock
    <2>1. request' = [request EXCEPT ![v] = x] /\ begun' = begun + 1
      BY <1>1, Zenon DEF Begin
    <2>2. UNCHANGED <<mode, account, invite, link, audit, signed, clock>>
      BY DEF Forget, tables
    <2>3. QED
      BY <2>1, <2>2 DEF Typing
  <1> HIDE DEF x
  <1>4. Typing'
    BY <1>1, <1>2, <1>3 DEF Typing
  <1>5. request'[v] = x /\ \A w \in Visitor \ {v} : request'[w] = request[w]
    BY <1>3 DEF Typing
  <1>6. l \notin DOMAIN link
    BY <1>1 DEF References
  <1>7. \A w \in Visitor : Refers(request[w])'
    <2> SUFFICES ASSUME NEW w \in Visitor PROVE Refers(request[w])'
      OBVIOUS
    <2>1. CASE w = v
      BY <1>1, <1>2, <1>3, <1>5, <1>6, <2>1 DEF Refers
    <2>2. CASE w # v
      BY <1>1, <1>3, <1>5, <2>2 DEF References, Refers
    <2>3. QED
      BY <2>1, <2>2
  <1>8. \A w \in Visitor \ {v} : request[w].pc = "mailed" => request[w].link \in mailed
    BY DEF References, Refers
  <1>9. \A u, w \in Visitor : request'[u].pc = "mailed" /\ request'[w].pc = "mailed"
                              /\ request'[u].link = request'[w].link => u = w
    BY <1>1, <1>2, <1>5, <1>8 DEF References
  <1>10. QED
    BY <1>1, <1>3, <1>4, <1>7, <1>9 DEF References

LEMMA KeepTyped ==
    ASSUME Typing, References, NEW v \in Visitor, KeepLink(v)
    PROVE  Typing' /\ References'
  <1> DEFINE r == request[v]
  <1>1. /\ r \in RequestRecord /\ Refers(r) /\ r.pc = "mailed" /\ r.link \in mailed \ DOMAIN link
        /\ r.email \in DOMAIN account
        /\ request' = [request EXCEPT ![v] = NoRequest]
        /\ UNCHANGED <<mode, account, invite, mailed, signed, clock, begun>>
        /\ link' = With(link, r.link, NewLink(r)) /\ audit' = Append(audit, Event("requested", v))
    BY DEF Typing, References, KeepLink, At, Refers, Answer, GoOn, Record
  <1>2. NewLink(r) \in LinkRecord /\ NewLink(r).email = r.email
    BY <1>1, AccountsAssumption DEF NewLink, LinkRecord, RequestRecord, Typing
  <1>3. /\ DOMAIN link' = DOMAIN link \cup {r.link}
        /\ \A l \in DOMAIN link' : link'[l] \in LinkRecord /\ link'[l].email \in DOMAIN account
    BY <1>1, <1>2 DEF With, Typing, References
  <1>4. audit' \in Seq(EventRecord) /\ Len(audit) <= Len(audit')
        /\ Len(audit) \in Nat /\ Len(audit') \in Nat
    BY <1>1, EventsAreTyped, EventIsLast DEF Whats
  <1>5. Typing'
    BY <1>1, <1>3, <1>4, NothingIsTyped DEF Typing
  <1>6. request'[v] = NoRequest /\ \A w \in Visitor \ {v} : request'[w] = request[w]
    BY <1>1 DEF Typing
  <1>7. \A w \in Visitor : Refers(request[w])'
    <2> SUFFICES ASSUME NEW w \in Visitor PROVE Refers(request[w])'
      OBVIOUS
    <2>1. CASE w = v
      BY <1>6, <2>1 DEF Refers, NoRequest
    <2>2. CASE w # v
      <3>1. request'[w] = request[w] /\ Refers(request[w]) /\ request[w] \in RequestRecord
        BY <1>6, <2>2 DEF References, Typing
      <3>2. request[w].pc = "mailed" => request[w].link # r.link
        BY <1>1, <2>2 DEF References
      <3>3. request[w].since \in Nat
        BY <3>1 DEF RequestRecord
      <3>4. QED
        BY <1>1, <1>3, <1>4, <3>1, <3>2, <3>3 DEF Refers
    <2>3. QED
      BY <2>1, <2>2
  <1>8. \A u, w \in Visitor : request'[u].pc = "mailed" /\ request'[w].pc = "mailed"
                              /\ request'[u].link = request'[w].link => u = w
    BY <1>6, NothingIsTyped DEF References
  <1>9. QED
    BY <1>1, <1>3, <1>5, <1>7, <1>8 DEF References

LEMMA OtherTyped ==
    ASSUME Typing, References, Tick \/ (\E v \in Visitor : SignIn(v)) \/ UNCHANGED accountVars
    PROVE  Typing' /\ References'
  <1>1. /\ account' = account /\ invite' = invite /\ link' = link /\ audit' = audit
        /\ mailed' = mailed /\ mode' = mode /\ request' = request /\ begun' = begun
        /\ clock' \in Nat /\ signed' \subseteq DOMAIN account
    BY DEF Tick, SignIn, Sign, tables, accountVars, Typing, References
  <1>2. Typing'
    BY <1>1 DEF Typing
  <1>3. References'
    BY <1>1 DEF References, Refers
  <1>4. QED
    BY <1>2, <1>3

LEMMA TypedInit == AccountsInit => Typing /\ References
  <1> SUFFICES ASSUME AccountsInit PROVE Typing /\ References
    OBVIOUS
  <1>1. DOMAIN account = {} /\ DOMAIN invite = {} /\ DOMAIN link = {}
    BY DEF AccountsInit
  <1>2. Typing
    BY <1>1, NothingIsTyped DEF AccountsInit, Typing
  <1>3. References
    BY <1>1, NothingRefers, NothingIsTyped DEF AccountsInit, References
  <1>4. QED
    BY <1>2, <1>3

LEMMA TypedStep == Typing /\ References /\ [AccountsNext]_accountVars => Typing' /\ References'
  <1> SUFFICES ASSUME Typing, References, [AccountsNext]_accountVars PROVE Typing' /\ References'
    OBVIOUS
  <1>1. ASSUME NEW v \in Visitor, Visit(v) PROVE Typing' /\ References'
    BY <1>1, QuietTyped, RegisterTyped, MintTyped, RevokeTyped, ChangeTyped, ForgetTyped,
       KeepTyped, ResetTyped, OtherTyped DEF Visit
  <1>2. QED
    BY <1>1, OtherTyped DEF AccountsNext

(* Requests, rows and events are of their types; what a request is about is *)
(* there.                                                                  *)
THEOREM TypeCorrect == AccountsSpec => [](Typing /\ References)
  BY TypedInit, TypedStep, PTL DEF AccountsSpec

-------------------------------------------------------------------------------
(***************************************************************************)
(* What a request can write.                                               *)
(***************************************************************************)
Accepts(v) ==
    LET r == request[v] IN
    /\ r.pc = "insert" /\ r.invite # Nobody /\ r.email \notin DOMAIN account
    /\ account' = With(account, r.email, r.secret)
    /\ invite' = [invite EXCEPT ![r.invite].used = TRUE]
    /\ link' = link /\ audit' = Append(audit, Event("accepted", v))

Enrols(v) ==
    LET r == request[v] IN
    /\ mode = "open" /\ r.email \in Email \ DOMAIN account
    /\ account' = With(account, r.email, r.secret)
    /\ invite' = invite /\ link' = link /\ audit' = audit

Mints(v) ==
    \E i \in Invite \ DOMAIN invite, h \in Lifetime :
      /\ ~Open(request[v].email)
      /\ invite' = With(invite, i, NewInvite(request[v].email, h))
      /\ audit' = Append(audit, [Event("invited", v) EXCEPT !.invite = i])
      /\ account' = account /\ link' = link

Revokes(v) ==
    LET i == request[v].invite IN
    /\ i \in DOMAIN invite /\ ~Locked(i) /\ ~invite[i].used
    /\ invite' = [invite EXCEPT ![i].revoked = TRUE]
    /\ account' = account /\ link' = link /\ audit' = Append(audit, Event("revoked", v))

Changes(v) ==
    LET r == request[v] IN
    /\ r.email \in DOMAIN account /\ account' = [account EXCEPT ![r.email] = r.secret]
    /\ invite' = invite /\ link' = link /\ audit' = Append(audit, Event("changed", v))

Keeps(v) ==
    LET r == request[v] IN
    /\ r.link \notin DOMAIN link /\ link' = With(link, r.link, NewLink(r))
    /\ account' = account /\ invite' = invite /\ audit' = Append(audit, Event("requested", v))

Resets(v) ==
    LET r == request[v] IN
    /\ r.pc = "resetting" /\ r.email \in DOMAIN account /\ r.link \in DOMAIN link
    /\ account' = [account EXCEPT ![r.email] = r.secret]
    /\ link' = [link EXCEPT ![r.link].used = TRUE]
    /\ invite' = invite /\ audit' = Append(audit, Event("reset", v))

Silent == account' = account /\ invite' = invite /\ link' = link /\ audit' = audit

LEMMA WhatIsWritten ==
    ASSUME Typing, References, NEW v \in Visitor, Visit(v)
    PROVE  \/ Silent \/ Accepts(v) \/ Enrols(v) \/ Mints(v) \/ Revokes(v) \/ Changes(v)
           \/ Keeps(v) \/ Resets(v)
  <1>1. Refers(request[v]) /\ request[v] \in RequestRecord
    BY DEF References, Typing
  <1>2. CASE \/ AskToRegister(v) \/ Consume(v) \/ FindAccount(v) \/ AskToInvite(v) \/ CheckNobody(v)
             \/ CheckNoInvite(v) \/ AskToRevoke(v) \/ CheckPending(v) \/ AskToChange(v)
             \/ AskToReset(v) \/ CheckLink(v) \/ Die(v) \/ SignIn(v) \/ Forget(v)
    BY <1>2 DEF AskToRegister, Consume, FindAccount, AskToInvite, CheckNobody, CheckNoInvite,
       AskToRevoke, CheckPending, AskToChange, AskToReset, CheckLink, Die, SignIn, Forget,
       tables, Silent
  <1>3. CASE Register(v)
    <2>1. request[v].pc = "insert" /\ request[v].email \in Email
      BY <1>1, <1>3 DEF Register, At, Refers
    <2>2. request[v].invite = Nobody => mode = "open"
      BY <1>1, <2>1 DEF Refers
    <2>3. QED
      BY <1>3, <2>1, <2>2 DEF Register, Record, tables, Silent, Accepts, Enrols
  <1>4. CASE MintInvite(v)
    BY <1>4 DEF MintInvite, tables, Silent, Mints
  <1>5. CASE Revoke(v)
    <2>1. request[v].invite \in DOMAIN invite
      BY <1>1, <1>5 DEF Revoke, At, Refers
    <2>2. QED
      BY <1>5, <2>1 DEF Revoke, Spent, Record, tables, Silent, Revokes
  <1>6. CASE ChangePassword(v)
    <2>1. request[v].email \in DOMAIN account
      BY <1>1, <1>6 DEF ChangePassword, At, Refers
    <2>2. QED
      BY <1>6, <2>1 DEF ChangePassword, Record, tables, Silent, Changes
  <1>7. CASE KeepLink(v)
    <2>1. request[v].link \notin DOMAIN link
      BY <1>1, <1>7 DEF KeepLink, At, Refers
    <2>2. QED
      BY <1>7, <2>1 DEF KeepLink, Record, Keeps
  <1>8. CASE ResetPassword(v)
    <2>1. /\ request[v].email \in DOMAIN account /\ request[v].link \in DOMAIN link
          /\ request[v].pc = "resetting"
      BY <1>1, <1>8 DEF ResetPassword, At, Refers
    <2>2. QED
      BY <1>8, <2>1 DEF ResetPassword, Record, Resets
  <1>9. QED
    BY <1>2, <1>3, <1>4, <1>5, <1>6, <1>7, <1>8 DEF Visit

(* Where a request may come to hold a row, and to have read a link.         *)
LEMMA WhereItGets ==
    ASSUME Typing, NEW v \in Visitor, Visit(v)
    PROVE  \/ request'[v].pc \notin {"consumed", "insert", "resetting"}
           \/ request' = request /\ Silent
           \/ /\ Silent /\ request[v].pc = "register" /\ ~Locked(request[v].invite)
              /\ Acceptable(request[v]) /\ request'[v] = [request[v] EXCEPT !.pc = "consumed"]
           \/ /\ Silent /\ request[v].pc \in {"consumed", "find"}
              /\ request'[v] = [request[v] EXCEPT !.pc = "insert"]
           \/ /\ Silent /\ request[v].pc = "reset" /\ Good(request[v].link, clock)
              /\ request'[v].pc = "resetting" /\ request'[v].link = request[v].link
  <1>1. request \in [Visitor -> RequestRecord] /\ request[v] \in RequestRecord
    BY DEF Typing
  <1>2. ASSUME Answer(v) PROVE request'[v].pc = "none"
    BY <1>1, <1>2, NothingIsTyped DEF Answer, GoOn
  <1>3. ASSUME NEW p, Move(v, p) PROVE request'[v].pc = p /\ request'[v] = [request[v] EXCEPT !.pc = p]
    BY <1>1, <1>3 DEF Move, GoOn, RequestRecord
  <1>4. CASE AskToRegister(v) \/ AskToInvite(v) \/ AskToRevoke(v) \/ AskToChange(v) \/ Forget(v)
             \/ AskToReset(v)
    <2>1. CASE AskToRegister(v)
      BY <1>1, <2>1, ZenonT(60) DEF AskToRegister, Begin, NoRequest
    <2>2. CASE AskToInvite(v)
      BY <1>1, <2>2 DEF AskToInvite, Begin, NoRequest
    <2>3. CASE AskToRevoke(v)
      BY <1>1, <2>3 DEF AskToRevoke, Begin, NoRequest
    <2>4. CASE AskToChange(v)
      BY <1>1, <2>4 DEF AskToChange, Begin, NoRequest
    <2>5. CASE Forget(v)
      BY <1>1, <2>5 DEF Forget, Begin, NoRequest
    <2>6. CASE AskToReset(v)
      BY <1>1, <2>6 DEF AskToReset, Begin, NoRequest
    <2>7. QED
      BY <1>4, <2>1, <2>2, <2>3, <2>4, <2>5, <2>6
  <1>5. CASE Consume(v)
    BY <1>2, <1>3, <1>5 DEF Consume, At, tables, Silent
  <1>6. CASE FindAccount(v)
    BY <1>2, <1>3, <1>6 DEF FindAccount, tables, Silent
  <1>7. CASE CheckNobody(v) \/ CheckNoInvite(v) \/ CheckPending(v)
    <2>1. Answer(v) \/ Move(v, "unknown") \/ Move(v, "mint") \/ Move(v, "revoking")
      BY <1>7 DEF CheckNobody, CheckNoInvite, CheckPending
    <2>2. request'[v].pc \in {"none", "unknown", "mint", "revoking"}
      BY <1>2, <1>3, <2>1
    <2>3. QED
      BY <2>2
  <1>8. CASE Register(v) \/ MintInvite(v) \/ Revoke(v) \/ ChangePassword(v) \/ KeepLink(v)
             \/ ResetPassword(v) \/ Die(v)
    BY <1>2, <1>8 DEF Register, MintInvite, Revoke, ChangePassword, KeepLink, ResetPassword, Die
  <1>9. CASE CheckLink(v)
    <2> DEFINE r == request[v]
               x == [r EXCEPT !.pc = "resetting", !.email = link[r.link].email, !.since = Len(audit)]
    <2>1. CASE Answer(v)
      BY <1>2, <2>1
    <2>2. CASE Good(r.link, clock) /\ GoOn(v, x)
      <3>1. request'[v] = x /\ x.pc = "resetting" /\ x.link = r.link
        BY <1>1, <2>2 DEF GoOn, RequestRecord
      <3>2. Silent /\ r.pc = "reset"
        BY <1>9 DEF CheckLink, tables, Silent, At
      <3>3. QED
        BY <2>2, <3>1, <3>2
    <2>3. QED
      BY <1>9, <2>1, <2>2 DEF CheckLink
  <1>10. CASE SignIn(v)
    BY <1>10 DEF SignIn, tables, Silent
  <1>11. QED
    BY <1>4, <1>5, <1>6, <1>7, <1>8, <1>9, <1>10 DEF Visit

-------------------------------------------------------------------------------
(***************************************************************************)
(* Who holds the row of an invitation.                                     *)
(***************************************************************************)
(* Nobody else writes a row that is held.                                   *)
LEMMA HeldIsKept ==
    ASSUME Typing, References, Held, NEW v \in Visitor, Visit(v), NEW w \in Visitor \ {v},
           Keeping(request[w])
    PROVE  invite'[request[w].invite] = invite[request[w].invite]
  <1> DEFINE j == request[w].invite
  <1>1. j \in DOMAIN invite
    BY DEF References, Refers, Keeping
  <1>2. CASE invite' = invite
    BY <1>2
  <1>3. CASE Accepts(v)
    <2>1. Keeping(request[v])
      BY <1>3 DEF Accepts, Keeping
    <2>2. request[v].invite # j
      BY <2>1 DEF Held
    <2>3. QED
      BY <1>1, <1>3, <2>2 DEF Accepts
  <1>4. CASE Mints(v)
    BY <1>1, <1>4 DEF Mints, With
  <1>5. CASE Revokes(v)
    <2>1. Locked(j)
      BY DEF Locked, Keeping
    <2>2. QED
      BY <1>1, <1>5, <2>1 DEF Revokes
  <1>6. QED
    BY <1>2, <1>3, <1>4, <1>5, WhatIsWritten DEF Silent, Enrols, Changes, Keeps, Resets

LEMMA HeldStep ==
    ASSUME Typing, References, Held, NEW v \in Visitor, Visit(v)
    PROVE  Held'
  <1>1. \A w \in Visitor \ {v} : request'[w] = request[w]
    BY OneServed
  <1>2. request[v] \in RequestRecord /\ Refers(request[v])
    BY DEF Typing, References
  <1>3. ASSUME NEW w \in Visitor \ {v}, Keeping(request'[w])
        PROVE  LET i == invite'[request'[w].invite]
               IN  ~i.used /\ ~i.revoked /\ i.email = request'[w].email
    BY <1>1, <1>3, HeldIsKept DEF Held
  <1>4. ASSUME NEW u \in Visitor \ {v}, NEW w \in Visitor \ {v},
               Keeping(request'[u]), Keeping(request'[w]), request'[u].invite = request'[w].invite
        PROVE  u = w
    BY <1>1, <1>4 DEF Held
  <1>5. CASE ~Keeping(request'[v])
    BY <1>3, <1>4, <1>5 DEF Held, Keeping
  <1>6. CASE request' = request /\ Silent
    BY <1>6 DEF Held, Keeping, Silent
  <1>7. CASE /\ Silent /\ request[v].pc = "register" /\ ~Locked(request[v].invite)
             /\ Acceptable(request[v]) /\ request'[v] = [request[v] EXCEPT !.pc = "consumed"]
    <2> DEFINE i == request[v].invite
    <2>1. request'[v].invite = i /\ request'[v].email = request[v].email
      BY <1>2, <1>7 DEF RequestRecord
    <2>2. ~invite[i].used /\ ~invite[i].revoked /\ invite[i].email = request[v].email
      BY <1>7 DEF Acceptable, Status
    <2>3. \A w \in Visitor \ {v} : ~(Keeping(request[w]) /\ request[w].invite = i)
      BY <1>7 DEF Locked, Keeping
    <2>4. /\ ~invite'[i].used /\ ~invite'[i].revoked /\ invite'[i].email = request'[v].email
          /\ \A w \in Visitor \ {v} : ~(Keeping(request'[w]) /\ request'[w].invite = request'[v].invite)
      BY <1>1, <1>7, <2>1, <2>2, <2>3 DEF Silent, Keeping
    <2>5. QED
      BY <1>3, <1>4, <2>1, <2>4 DEF Held, Keeping
  <1>8. CASE /\ Silent /\ request[v].pc \in {"consumed", "find"}
             /\ request'[v] = [request[v] EXCEPT !.pc = "insert"]
    <2>1. /\ request'[v].invite = request[v].invite /\ request'[v].email = request[v].email
          /\ request'[v].pc = "insert"
      BY <1>2, <1>8 DEF RequestRecord
    <2>2. Keeping(request'[v]) => Keeping(request[v])
      BY <1>2, <1>8, <2>1 DEF Keeping, Refers
    <2>3. CASE ~Keeping(request[v])
      BY <1>5, <2>2, <2>3
    <2>4. CASE Keeping(request[v])
      <3> DEFINE i == request[v].invite
      <3>1. /\ ~invite'[i].used /\ ~invite'[i].revoked /\ invite'[i].email = request'[v].email
        BY <1>8, <2>1, <2>4 DEF Held, Silent
      <3>2. \A w \in Visitor \ {v} : ~(Keeping(request'[w]) /\ request'[w].invite = request'[v].invite)
        BY <1>1, <2>1, <2>4 DEF Held
      <3>3. QED
        BY <1>3, <1>4, <2>1, <3>1, <3>2 DEF Held, Keeping
    <2>5. QED
      BY <2>3, <2>4
  <1>9. QED
    BY <1>5, <1>6, <1>7, <1>8, WhereItGets DEF Keeping

(***************************************************************************)
(* What the audit tells of the invitations.                                *)
(***************************************************************************)
LEMMA InvitesToldStep ==
    ASSUME Typing, References, Held, InvitesTold, NEW v \in Visitor, Visit(v)
    PROVE  InvitesTold'
  <1> DEFINE r == request[v]
             n == Len(audit) + 1
  <1>1. /\ request[v] \in RequestRecord /\ Refers(request[v]) /\ mode' = mode
        /\ \A i \in DOMAIN invite : invite[i] \in InviteRecord
        /\ \A w : Told(w) \subseteq DOMAIN audit
    BY OneServed DEF Typing, References, Told
  <1>2. CASE Silent
    BY <1>1, <1>2 DEF Silent, InvitesTold, Told
  <1>3. CASE Accepts(v)
    <2> DEFINE i == r.invite
               x == Event("accepted", v)
    <2>1. /\ i \in DOMAIN invite /\ ~invite[i].used /\ ~invite[i].revoked /\ invite[i].email = r.email
          /\ r.email \notin DOMAIN account
      BY <1>1, <1>3 DEF Accepts, Refers, Held, Keeping
    <2>2. /\ DOMAIN invite' = DOMAIN invite
          /\ invite'[i].used /\ invite'[i].email = invite[i].email
          /\ invite'[i].revoked = invite[i].revoked
          /\ \A j \in DOMAIN invite \ {i} : invite'[j] = invite[j]
      BY <1>1, <1>3, <2>1 DEF Accepts, InviteRecord
    <2>3. DOMAIN account' = DOMAIN account \cup {r.email}
      BY <1>3 DEF Accepts, With
    <2>4. x \in EventRecord /\ x.what = "accepted" /\ x.invite = i /\ x.email = r.email
      BY EventsAreTyped DEF Whats
    <2>5. audit' = Append(audit, x)
      BY <1>3 DEF Accepts
    <2> HIDE DEF x
    <2>6. /\ \A m \in DOMAIN audit : audit'[m] = audit[m]
          /\ audit'[n] = x /\ n \notin DOMAIN audit
          /\ Told("accepted")' = Told("accepted") \cup {n} /\ Told("revoked")' = Told("revoked")
      BY <2>4, <2>5, EventIsLast DEF Told
    <2>7. \A m \in Told("accepted") : audit[m].invite # i /\ audit[m].email # r.email
      BY <2>1 DEF InvitesTold
    <2>8. \A m \in Told("revoked") : audit[m].invite # i
      BY <2>1 DEF InvitesTold
    <2>9. \A m \in Told("accepted") \cup Told("revoked") : audit'[m] = audit[m]
      BY <1>1, <2>6
    <2> HIDE DEF n
    <2>10. \A m \in Told("accepted")' :
            /\ audit'[m].invite \in DOMAIN invite' /\ invite'[audit'[m].invite].used
            /\ audit'[m].email = invite'[audit'[m].invite].email
            /\ audit'[m].email \in DOMAIN account'
      BY <2>1, <2>2, <2>3, <2>4, <2>6, <2>7, <2>9 DEF InvitesTold
    <2>11. \A l, m \in Told("accepted")' :
            audit'[l].invite = audit'[m].invite \/ audit'[l].email = audit'[m].email => l = m
      BY <2>4, <2>6, <2>7, <2>9 DEF InvitesTold
    <2>12. \A j \in DOMAIN invite' : invite'[j].used => \E m \in Told("accepted")' : audit'[m].invite = j
      BY <2>2, <2>4, <2>6, <2>9 DEF InvitesTold
    <2>13. mode' = "invite_only" =>
            \A e \in DOMAIN account' : \E m \in Told("accepted")' : audit'[m].email = e
      BY <1>1, <2>3, <2>4, <2>6, <2>9 DEF InvitesTold
    <2>14. \A m \in Told("revoked")' : audit'[m].invite \in DOMAIN invite' /\ invite'[audit'[m].invite].revoked
      BY <2>2, <2>6, <2>8, <2>9 DEF InvitesTold
    <2>15. \A j \in DOMAIN invite' : ~(invite'[j].used /\ invite'[j].revoked)
      BY <2>1, <2>2 DEF InvitesTold
    <2>16. QED
      BY <2>10, <2>11, <2>12, <2>13, <2>14, <2>15 DEF InvitesTold
  <1>4. CASE Enrols(v)
    <2>1. DOMAIN account \subseteq DOMAIN account' /\ invite' = invite /\ audit' = audit /\ mode = "open"
      BY <1>4 DEF Enrols, With
    <2>2. QED
      BY <1>1, <2>1 DEF InvitesTold, Told
  <1>5. CASE Mints(v)
    <2>1. PICK i \in Invite \ DOMAIN invite, h \in Lifetime :
            /\ invite' = With(invite, i, NewInvite(request[v].email, h))
            /\ audit' = Append(audit, [Event("invited", v) EXCEPT !.invite = i])
            /\ account' = account
      BY <1>5 DEF Mints
    <2> DEFINE x == [Event("invited", v) EXCEPT !.invite = i]
    <2>2. x \in EventRecord /\ x.what = "invited"
      BY EventsAreTyped DEF EventRecord, Whats
    <2> HIDE DEF x
    <2>3. /\ \A m \in DOMAIN audit : audit'[m] = audit[m]
          /\ Told("accepted")' = Told("accepted") /\ Told("revoked")' = Told("revoked")
      BY <2>1, <2>2, EventIsLast DEF x, Told
    <2>4. /\ DOMAIN invite' = DOMAIN invite \cup {i} /\ i \notin DOMAIN invite
          /\ ~invite'[i].used /\ ~invite'[i].revoked
          /\ \A j \in DOMAIN invite : invite'[j] = invite[j]
      BY <2>1 DEF With, NewInvite
    <2>5. \A m \in Told("accepted") \cup Told("revoked") : audit'[m] = audit[m]
      BY <1>1, <2>3
    <2>6. QED
      BY <1>1, <2>1, <2>3, <2>4, <2>5 DEF InvitesTold
  <1>6. CASE Revokes(v)
    <2> DEFINE i == r.invite
               x == Event("revoked", v)
    <2>1. x \in EventRecord /\ x.what = "revoked" /\ x.invite = i
      BY EventsAreTyped DEF Whats
    <2>2. i \in DOMAIN invite /\ ~invite[i].used /\ audit' = Append(audit, x) /\ account' = account
      BY <1>6 DEF Revokes
    <2> HIDE DEF x
    <2>3. /\ \A m \in DOMAIN audit : audit'[m] = audit[m]
          /\ audit'[n] = x
          /\ Told("accepted")' = Told("accepted") /\ Told("revoked")' = Told("revoked") \cup {n}
      BY <2>1, <2>2, EventIsLast DEF Told
    <2>4. /\ DOMAIN invite' = DOMAIN invite /\ invite'[i].revoked
          /\ \A j \in DOMAIN invite : /\ invite'[j].used = invite[j].used
                                      /\ invite'[j].email = invite[j].email
                                      /\ invite[j].revoked => invite'[j].revoked
                                      /\ j # i => invite'[j] = invite[j]
      BY <1>1, <1>6, <2>2 DEF Revokes, InviteRecord
    <2>5. \A m \in Told("accepted") \cup Told("revoked") : audit'[m] = audit[m]
      BY <1>1, <2>3
    <2> HIDE DEF n
    <2>6. \A m \in Told("accepted") :
            /\ audit[m].invite \in DOMAIN invite /\ invite[audit[m].invite].used
            /\ audit[m].email = invite[audit[m].invite].email
            /\ audit[m].email \in DOMAIN account
      BY DEF InvitesTold
    <2>7. \A m \in Told("revoked") : audit[m].invite \in DOMAIN invite /\ invite[audit[m].invite].revoked
      BY DEF InvitesTold
    <2>8. ASSUME NEW m \in Told("revoked")'
          PROVE  audit'[m].invite \in DOMAIN invite' /\ invite'[audit'[m].invite].revoked
      <3>1. CASE m = n
        BY <2>1, <2>2, <2>3, <2>4, <3>1
      <3>2. CASE m \in Told("revoked")
        BY <2>4, <2>5, <2>7, <3>2
      <3>3. QED
        BY <2>3, <3>1, <3>2
    <2>9. \A j \in DOMAIN invite' : ~(invite'[j].used /\ invite'[j].revoked)
      BY <2>2, <2>4 DEF InvitesTold
    <2>10. ASSUME NEW m \in Told("accepted")'
           PROVE  /\ audit'[m].invite \in DOMAIN invite' /\ invite'[audit'[m].invite].used
                  /\ audit'[m].email = invite'[audit'[m].invite].email
                  /\ audit'[m].email \in DOMAIN account'
      <3>1. m \in Told("accepted") /\ audit'[m] = audit[m]
        BY <2>3, <2>5
      <3>2. QED
        BY <2>2, <2>4, <2>6, <3>1
    <2>11. /\ \A l, m \in Told("accepted")' :
                audit'[l].invite = audit'[m].invite \/ audit'[l].email = audit'[m].email => l = m
           /\ \A j \in DOMAIN invite' : invite'[j].used => \E m \in Told("accepted")' : audit'[m].invite = j
           /\ mode' = "invite_only" =>
                \A e \in DOMAIN account' : \E m \in Told("accepted")' : audit'[m].email = e
      BY <1>1, <2>2, <2>3, <2>4, <2>5, SMTT(30) DEF InvitesTold
    <2>12. QED
      BY <2>8, <2>9, <2>10, <2>11 DEF InvitesTold
  <1>7. ASSUME NEW x \in EventRecord, x.what \notin {"accepted", "revoked"}, audit' = Append(audit, x),
               invite' = invite, DOMAIN account' = DOMAIN account
        PROVE  InvitesTold'
    <2>1. /\ \A m \in DOMAIN audit : audit'[m] = audit[m]
          /\ Told("accepted")' = Told("accepted") /\ Told("revoked")' = Told("revoked")
      BY <1>7, EventIsLast DEF Told
    <2>2. \A m \in Told("accepted") \cup Told("revoked") : audit'[m] = audit[m]
      BY <1>1, <2>1
    <2>3. QED
      BY <1>1, <1>7, <2>1, <2>2 DEF InvitesTold
  <1>8. CASE Changes(v)
    BY <1>7, <1>8, EventsAreTyped DEF Changes, Whats
  <1>9. CASE Keeps(v)
    BY <1>7, <1>9, EventsAreTyped DEF Keeps, Whats
  <1>10. CASE Resets(v)
    BY <1>7, <1>10, EventsAreTyped DEF Resets, Whats
  <1>11. QED
    BY <1>2, <1>3, <1>4, <1>5, <1>6, <1>8, <1>9, <1>10, WhatIsWritten

(* One open invitation to an address: an invitation is minted where none    *)
(* is open, and what is closed stays closed.                                *)
LEMMA OneOpenStep ==
    ASSUME Typing, References, OneOpen, NEW v \in Visitor, Visit(v)
    PROVE  OneOpen'
  <1>1. \A i \in DOMAIN invite : invite[i] \in InviteRecord
    BY DEF Typing
  <1>2. CASE Mints(v)
    <2>1. PICK i \in Invite \ DOMAIN invite, h \in Lifetime :
            ~Open(request[v].email) /\ invite' = With(invite, i, NewInvite(request[v].email, h))
      BY <1>2 DEF Mints
    <2>2. /\ DOMAIN invite' = DOMAIN invite \cup {i} /\ invite'[i].email = request[v].email
          /\ \A j \in DOMAIN invite : invite'[j] = invite[j]
      BY <2>1 DEF With, NewInvite
    <2>3. \A j \in DOMAIN invite : invite[j].email = request[v].email => ~IsOpen(j)
      BY <2>1 DEF Open, To, IsOpen
    <2>4. QED
      BY <2>2, <2>3 DEF OneOpen, IsOpen
  <1>3. ASSUME DOMAIN invite' = DOMAIN invite,
               \A j \in DOMAIN invite : /\ invite'[j].email = invite[j].email
                                        /\ IsOpen(j)' => IsOpen(j)
        PROVE  OneOpen'
    <2> SUFFICES ASSUME NEW i \in DOMAIN invite', NEW j \in DOMAIN invite',
                        IsOpen(i)', IsOpen(j)', invite'[i].email = invite'[j].email
                 PROVE  i = j
      BY DEF OneOpen
    <2>1. i \in DOMAIN invite /\ j \in DOMAIN invite /\ invite[i].email = invite[j].email
      BY <1>3
    <2>2. IsOpen(i) /\ IsOpen(j)
      BY <1>3, <2>1 DEF IsOpen
    <2>3. QED
      BY <2>1, <2>2 DEF OneOpen
  <1>4. CASE Accepts(v)
    <2>1. request[v].invite \in DOMAIN invite
      BY <1>4 DEF Accepts, References, Refers
    <2>2. QED
      BY <1>1, <1>3, <1>4, <2>1 DEF Accepts, IsOpen, InviteRecord
  <1>5. CASE Revokes(v)
    BY <1>1, <1>3, <1>5 DEF Revokes, IsOpen, InviteRecord
  <1>6. CASE invite' = invite
    BY <1>3, <1>6 DEF IsOpen
  <1>7. QED
    BY <1>2, <1>4, <1>5, <1>6, WhatIsWritten DEF Silent, Enrols, Changes, Keeps, Resets

(***************************************************************************)
(* What the audit tells of the passwords.                                  *)
(***************************************************************************)
(* An event that sets no password ...                                       *)
LEMMA NothingIsSet ==
    ASSUME Typing, PasswordsSet, NEW x \in EventRecord, audit' = Append(audit, x),
           x.what \notin Setters, account' = account
    PROVE  PasswordsSet'
  <1> DEFINE n == Len(audit) + 1
  <1>1. /\ DOMAIN audit' = DOMAIN audit \cup {n} /\ audit'[n] = x
        /\ \A m \in DOMAIN audit : audit'[m] = audit[m]
    BY EventIsLast
  <1> HIDE DEF n
  <1>2. \A e : \A m \in DOMAIN audit' : Sets(m, e)' <=> m \in DOMAIN audit /\ Sets(m, e)
    BY <1>1 DEF Sets
  <1>3. \A m \in DOMAIN audit' : audit'[m].what \in Setters => audit'[m].email \in DOMAIN account'
    BY <1>1 DEF PasswordsSet
  <1>4. ASSUME NEW e \in DOMAIN account', \E m \in DOMAIN audit' : Sets(m, e)'
        PROVE  \E m \in DOMAIN audit' : /\ Sets(m, e)' /\ audit'[m].secret = account'[e]
                                        /\ \A l \in DOMAIN audit' : Sets(l, e)' => l <= m
    <2>1. PICK m \in DOMAIN audit : /\ Sets(m, e) /\ audit[m].secret = account[e]
                                    /\ \A l \in DOMAIN audit : Sets(l, e) => l <= m
      BY <1>2, <1>4 DEF PasswordsSet
    <2>2. QED
      BY <1>1, <1>2, <2>1
  <1>5. QED
    BY <1>3, <1>4 DEF PasswordsSet

(* ... and one that sets the password of an account.                        *)
LEMMA PasswordIsSet ==
    ASSUME Typing, PasswordsSet, NEW x \in EventRecord, audit' = Append(audit, x),
           x.what \in Setters, x.email \in DOMAIN account', account'[x.email] = x.secret,
           DOMAIN account \subseteq DOMAIN account',
           \A e \in DOMAIN account' \ {x.email} : e \in DOMAIN account /\ account'[e] = account[e]
    PROVE  PasswordsSet'
  <1>1. PICK n \in Nat :
          /\ DOMAIN audit' = DOMAIN audit \cup {n} /\ audit'[n] = x
          /\ \A m \in DOMAIN audit : audit'[m] = audit[m] /\ m <= n
    BY EventIsLast
  <1>2. \A e : \A m \in DOMAIN audit : Sets(m, e)' <=> Sets(m, e)
    BY <1>1 DEF Sets
  <1>3. \A e : Sets(n, e)' <=> e = x.email
    BY <1>1 DEF Sets
  <1>4. \A m \in DOMAIN audit' : audit'[m].what \in Setters => audit'[m].email \in DOMAIN account'
    BY <1>1 DEF PasswordsSet
  <1>5. ASSUME NEW e \in DOMAIN account', \E m \in DOMAIN audit' : Sets(m, e)'
        PROVE  \E m \in DOMAIN audit' : /\ Sets(m, e)' /\ audit'[m].secret = account'[e]
                                        /\ \A l \in DOMAIN audit' : Sets(l, e)' => l <= m
    <2>1. CASE e = x.email
      <3>1. Sets(n, e)' /\ audit'[n].secret = account'[e] /\ \A l \in DOMAIN audit' : l <= n
        BY <1>1, <1>3, <2>1
      <3>2. QED
        BY <1>1, <3>1 DEF Sets
    <2>2. CASE e # x.email
      <3>1. PICK m \in DOMAIN audit : /\ Sets(m, e) /\ audit[m].secret = account[e]
                                      /\ \A l \in DOMAIN audit : Sets(l, e) => l <= m
        BY <1>1, <1>3, <1>5, <2>2 DEF PasswordsSet, Sets
      <3>2. \A l \in DOMAIN audit' : Sets(l, e)' => l <= m
        BY <1>1, <2>2, <3>1 DEF Sets
      <3>3. QED
        BY <1>1, <1>2, <2>2, <3>1, <3>2
    <2>3. QED
      BY <2>1, <2>2
  <1>6. QED
    BY <1>4, <1>5 DEF PasswordsSet

LEMMA PasswordsSetStep ==
    ASSUME Typing, References, PasswordsSet, NEW v \in Visitor, Visit(v)
    PROVE  PasswordsSet'
  <1> DEFINE r == request[v]
  <1>1. CASE Silent
    BY <1>1 DEF Silent, PasswordsSet, Sets
  <1>2. CASE Accepts(v)
    <2> DEFINE x == Event("accepted", v)
    <2>1. x \in EventRecord /\ x.what \in Setters /\ x.email = r.email /\ x.secret = r.secret
      BY EventsAreTyped DEF Whats, Setters
    <2>2. /\ audit' = Append(audit, x) /\ DOMAIN account' = DOMAIN account \cup {r.email}
          /\ account'[r.email] = r.secret
          /\ \A e \in DOMAIN account' \ {r.email} : e \in DOMAIN account /\ account'[e] = account[e]
      BY <1>2 DEF Accepts, With
    <2> HIDE DEF x
    <2>3. QED
      BY <2>1, <2>2, PasswordIsSet
  <1>3. CASE Enrols(v)
    <2>1. /\ audit' = audit /\ DOMAIN account' = DOMAIN account \cup {r.email}
          /\ r.email \notin DOMAIN account
          /\ \A e \in DOMAIN account : account'[e] = account[e]
      BY <1>3 DEF Enrols, With
    <2>2. \A n \in DOMAIN audit : ~Sets(n, r.email)
      BY <2>1 DEF PasswordsSet, Sets
    <2>3. QED
      BY <2>1, <2>2 DEF PasswordsSet, Sets
  <1>4. CASE Mints(v)
    <2>1. PICK i \in Invite \ DOMAIN invite :
            audit' = Append(audit, [Event("invited", v) EXCEPT !.invite = i]) /\ account' = account
      BY <1>4 DEF Mints
    <2> DEFINE x == [Event("invited", v) EXCEPT !.invite = i]
    <2>2. x \in EventRecord /\ x.what \notin Setters
      BY EventsAreTyped DEF EventRecord, Whats, Setters
    <2> HIDE DEF x
    <2>3. QED
      BY <2>1, <2>2, NothingIsSet DEF x
  <1>5. CASE Revokes(v)
    BY <1>5, EventsAreTyped, NothingIsSet DEF Revokes, Whats, Setters
  <1>6. CASE Keeps(v)
    BY <1>6, EventsAreTyped, NothingIsSet DEF Keeps, Whats, Setters
  <1>7. ASSUME NEW what \in {"changed", "reset"}, audit' = Append(audit, Event(what, v)),
               r.email \in DOMAIN account, account' = [account EXCEPT ![r.email] = r.secret]
        PROVE  PasswordsSet'
    <2> DEFINE x == Event(what, v)
    <2>1. x \in EventRecord /\ x.what \in Setters /\ x.email = r.email /\ x.secret = r.secret
      BY EventsAreTyped DEF Whats, Setters
    <2>2. /\ DOMAIN account' = DOMAIN account /\ account'[r.email] = r.secret
          /\ \A e \in DOMAIN account \ {r.email} : account'[e] = account[e]
      BY <1>7
    <2> HIDE DEF x
    <2>3. QED
      BY <1>7, <2>1, <2>2, PasswordIsSet DEF x
  <1>8. CASE Changes(v)
    BY <1>7, <1>8 DEF Changes
  <1>9. CASE Resets(v)
    BY <1>7, <1>9 DEF Resets
  <1>10. QED
    BY <1>1, <1>2, <1>3, <1>4, <1>5, <1>6, <1>8, <1>9, WhatIsWritten

(***************************************************************************)
(* Links: what is spent was spent before whoever reads it later.           *)
(***************************************************************************)
(* An event that is no reset, and links that stay as they are.              *)
LEMMA NoLinkIsSpent ==
    ASSUME Typing, LinksSpent, NEW x \in EventRecord, audit' = Append(audit, x),
           x.what # "reset", \A l \in DOMAIN link : l \in DOMAIN link' /\ link'[l] = link[l],
           \A w \in Visitor : request'[w].pc = "resetting" => request'[w] = request[w]
    PROVE  LinksSpent'
  <1>1. Told("reset")' = Told("reset") /\ \A m \in Told("reset") : audit'[m] = audit[m]
    BY EventIsLast DEF Told
  <1>2. QED
    BY <1>1 DEF LinksSpent, Told

LEMMA LinksSpentStep ==
    ASSUME Typing, References, LinksSpent, NEW v \in Visitor, Visit(v)
    PROVE  LinksSpent'
  <1> DEFINE r == request[v]
             n == Len(audit) + 1
  <1>1. /\ r \in RequestRecord /\ Refers(r)
        /\ \A w \in Visitor \ {v} : request'[w] = request[w]
        /\ Len(audit) \in Nat /\ \A m \in Told("reset") : m \in Nat /\ m <= Len(audit)
    BY OneServed DEF Typing, References, Told
  <1>2. CASE Silent
    <2>1. Told("reset")' = Told("reset") /\ audit' = audit /\ link' = link
      BY <1>2 DEF Silent, Told
    <2>2. ASSUME request'[v].pc = "resetting", NEW m \in Told("reset"), audit[m].link = request'[v].link
          PROVE  request'[v].since < m
      <3>1. CASE request' = request
        BY <2>2, <3>1 DEF LinksSpent
      <3>2. CASE Good(r.link, clock) /\ request'[v].link = r.link
        BY <2>2, <3>2 DEF Good, LinksSpent
      <3>3. CASE request'[v].pc \in {"consumed", "insert"}
        BY <2>2, <3>3
      <3>4. QED
        BY <1>1, <2>2, <3>1, <3>2, <3>3, WhereItGets DEF RequestRecord
    <2>3. QED
      BY <1>1, <2>1, <2>2 DEF LinksSpent
  <1>3. CASE ~Silent
    <2>1. \A w \in Visitor : request'[w].pc = "resetting" => request'[w] = request[w]
      BY <1>1, <1>3, WhereItGets
    <2>2. CASE Accepts(v) \/ Changes(v) \/ Revokes(v)
      BY <2>1, <2>2, EventsAreTyped, NoLinkIsSpent DEF Accepts, Changes, Revokes, Whats
    <2>3. CASE Enrols(v)
      BY <2>1, <2>3 DEF Enrols, LinksSpent, Told
    <2>4. CASE Mints(v)
      <3>1. PICK i \in Invite \ DOMAIN invite :
              audit' = Append(audit, [Event("invited", v) EXCEPT !.invite = i]) /\ link' = link
        BY <2>4 DEF Mints
      <3> DEFINE x == [Event("invited", v) EXCEPT !.invite = i]
      <3>2. x \in EventRecord /\ x.what # "reset"
        BY EventsAreTyped DEF EventRecord, Whats
      <3> HIDE DEF x
      <3>3. QED
        BY <2>1, <3>1, <3>2, NoLinkIsSpent DEF x
    <2>5. CASE Keeps(v)
      <3>1. \A l \in DOMAIN link : l \in DOMAIN link' /\ link'[l] = link[l]
        BY <2>5 DEF Keeps, With
      <3>2. QED
        BY <2>1, <2>5, <3>1, EventsAreTyped, NoLinkIsSpent DEF Keeps, Whats
    <2>6. CASE Resets(v)
      <3> DEFINE x == Event("reset", v)
      <3>1. /\ x \in EventRecord /\ x.what = "reset" /\ x.link = r.link /\ x.since = r.since
            /\ audit' = Append(audit, x)
            /\ r.pc = "resetting" /\ r.link \in DOMAIN link /\ r.since \in Nat /\ r.since <= Len(audit)
        BY <1>1, <2>6, EventsAreTyped DEF Resets, Whats, RequestRecord, Refers
      <3> HIDE DEF x
      <3>2. /\ Told("reset")' = Told("reset") \cup {n} /\ audit'[n] = x
            /\ \A m \in Told("reset") : audit'[m] = audit[m] /\ m < n
        BY <1>1, <3>1, EventIsLast DEF Told
      <3>3. /\ DOMAIN link' = DOMAIN link /\ link'[r.link].used
            /\ \A l \in DOMAIN link : link[l].used => link'[l].used
        BY <2>6, <3>1 DEF Resets, Typing, LinkRecord
      <3>4. \A w \in Visitor : request'[w].pc = "resetting" => request[w].since < n
        BY <1>1, <2>1 DEF References, Refers, RequestRecord, Typing
      <3>5. n \in Nat
        BY <1>1
      <3> HIDE DEF n
      <3>6. \A m \in Told("reset")' : audit'[m].link \in DOMAIN link' /\ link'[audit'[m].link].used
        BY <3>1, <3>2, <3>3 DEF LinksSpent, Told
      <3>7. ASSUME NEW l \in Told("reset")', NEW m \in Told("reset")',
                   audit'[l].link = audit'[m].link, l < m
            PROVE  audit'[m].since < l
        <4>1. CASE m = n
          BY <1>1, <3>1, <3>2, <3>5, <3>7, <4>1 DEF LinksSpent, Told
        <4>2. CASE m # n
          BY <1>1, <3>2, <3>5, <3>7, <4>2 DEF LinksSpent
        <4>3. QED
          BY <4>1, <4>2
      <3>8. ASSUME NEW w \in Visitor, NEW m \in Told("reset")', request'[w].pc = "resetting",
                   audit'[m].link = request'[w].link
            PROVE  request'[w].since < m
        BY <2>1, <3>2, <3>4, <3>8 DEF LinksSpent
      <3>9. QED
        BY <3>6, <3>7, <3>8 DEF LinksSpent
    <2>7. QED
      BY <1>3, <2>2, <2>3, <2>4, <2>5, <2>6, WhatIsWritten
  <1>4. QED
    BY <1>2, <1>3

-------------------------------------------------------------------------------
(***************************************************************************)
(* The theorems.                                                           *)
(***************************************************************************)
LEMMA InvStill ==
    ASSUME IInv, Tick \/ UNCHANGED accountVars
    PROVE  IInv'
  <1>1. /\ account' = account /\ invite' = invite /\ link' = link /\ audit' = audit
        /\ mode' = mode /\ request' = request
    BY DEF Tick, tables, accountVars
  <1>2. Typing' /\ References'
    BY OtherTyped DEF IInv
  <1>3. Held' /\ OneOpen'
    BY <1>1 DEF IInv, Held, Keeping, OneOpen, IsOpen
  <1>4. InvitesTold'
    BY <1>1 DEF IInv, InvitesTold, Told
  <1>5. PasswordsSet' /\ LinksSpent'
    BY <1>1 DEF IInv, PasswordsSet, LinksSpent, Told, Sets
  <1>6. QED
    BY <1>2, <1>3, <1>4, <1>5 DEF IInv

LEMMA InvInit == AccountsInit => IInv
  <1> SUFFICES ASSUME AccountsInit PROVE IInv
    OBVIOUS
  <1>1. DOMAIN account = {} /\ DOMAIN invite = {} /\ DOMAIN audit = {}
    BY DEF AccountsInit
  <1>2. \A what : Told(what) = {}
    BY <1>1 DEF Told
  <1>3. Held
    BY NothingIsTyped DEF AccountsInit, Held, Keeping
  <1>4. InvitesTold /\ OneOpen
    BY <1>1, <1>2 DEF InvitesTold, OneOpen
  <1>5. PasswordsSet /\ LinksSpent
    BY <1>1, <1>2 DEF PasswordsSet, LinksSpent
  <1>6. QED
    BY <1>3, <1>4, <1>5, TypedInit DEF IInv

LEMMA InvStep == IInv /\ [AccountsNext]_accountVars => IInv'
  <1> SUFFICES ASSUME IInv, [AccountsNext]_accountVars PROVE IInv'
    OBVIOUS
  <1>1. ASSUME NEW v \in Visitor, Visit(v) PROVE IInv'
    <2>1. Typing' /\ References'
      BY <1>1, TypedStep DEF IInv, AccountsNext
    <2>2. QED
      BY <1>1, <2>1, HeldStep, InvitesToldStep, OneOpenStep, PasswordsSetStep, LinksSpentStep DEF IInv
  <1>2. QED
    BY <1>1, InvStill DEF AccountsNext

THEOREM Invariance == AccountsSpec => []IInv
  BY InvInit, InvStep, PTL DEF AccountsSpec

(* What is there once is counted as one.                                    *)
LEMMA CountedOnce ==
    ASSUME NEW S, \A x, y \in S : x = y
    PROVE  /\ S # {} => Cardinality(S) = 1
           /\ S = {} => Cardinality(S) = 0
  <1>1. CASE S = {}
    BY <1>1, FS_EmptySet
  <1>2. CASE S # {}
    <2>1. PICK x : S = {x}
      BY <1>2
    <2>2. QED
      BY <1>2, <2>1, FS_Singleton
  <1>3. QED
    BY <1>1, <1>2

(* What the audit tells of the invitations is what became of them, and an    *)
(* address has one open at a time, however registrations, invitations and   *)
(* revocations overlap.                                                    *)
THEOREM InvitesStayHonest == AccountsSpec => []InvitesAreHonest
  <1>1. IInv => InvitesAreHonest
    <2> SUFFICES ASSUME IInv PROVE InvitesAreHonest
      OBVIOUS
    <2>1. ASSUME NEW i \in DOMAIN invite
          PROVE  LET accepted == {n \in Told("accepted") : audit[n].invite = i}
                     revoked == {n \in Told("revoked") : audit[n].invite = i}
                 IN  /\ Cardinality(accepted) = IF invite[i].used THEN 1 ELSE 0
                     /\ accepted = {} \/ revoked = {}
                     /\ \A n \in accepted : audit[n].email = invite[i].email
      <3> DEFINE accepted == {n \in Told("accepted") : audit[n].invite = i}
                 revoked == {n \in Told("revoked") : audit[n].invite = i}
      <3>1. \A m, n \in accepted : m = n
        BY DEF IInv, InvitesTold
      <3>2. accepted # {} <=> invite[i].used
        BY DEF IInv, InvitesTold
      <3>3. revoked # {} => invite[i].revoked
        BY DEF IInv, InvitesTold
      <3>4. ~(invite[i].used /\ invite[i].revoked)
        BY DEF IInv, InvitesTold
      <3>5. \A n \in accepted : audit[n].email = invite[i].email
        BY DEF IInv, InvitesTold
      <3> HIDE DEF accepted, revoked
      <3>6. Cardinality(accepted) = IF invite[i].used THEN 1 ELSE 0
        BY <3>1, <3>2, CountedOnce
      <3>7. QED
        BY <3>2, <3>3, <3>4, <3>5, <3>6 DEF accepted, revoked
    <2>2. ASSUME mode = "invite_only", NEW e \in DOMAIN account
          PROVE  Cardinality({n \in Told("accepted") : audit[n].email = e}) = 1
      <3> DEFINE S == {n \in Told("accepted") : audit[n].email = e}
      <3>1. S # {} /\ \A m, n \in S : m = n
        BY <2>2 DEF IInv, InvitesTold
      <3> HIDE DEF S
      <3>2. Cardinality(S) = 1
        BY <3>1, CountedOnce
      <3>3. QED
        BY <3>2 DEF S
    <2>3. ASSUME NEW e \in Email
          PROVE  Cardinality({i \in To(e) : ~invite[i].used /\ ~invite[i].revoked}) <= 1
      <3> DEFINE S == {i \in To(e) : ~invite[i].used /\ ~invite[i].revoked}
      <3>1. \A i, j \in S : i = j
        BY DEF IInv, OneOpen, IsOpen, To
      <3> HIDE DEF S
      <3>2. Cardinality(S) \in {0, 1}
        BY <3>1, CountedOnce
      <3>3. Cardinality(S) <= 1
        BY <3>2
      <3>4. QED
        BY <3>3 DEF S
    <2>4. QED
      BY <2>1, <2>2, <2>3 DEF InvitesAreHonest
  <1>2. QED
    BY <1>1, Invariance, PTL

(* The audit explains every password, and a link sets one but once unless   *)
(* two requests with it overlap.                                           *)
THEOREM PasswordsAreExplained == AccountsSpec => []AuditExplainsPasswords
  <1>1. IInv => AuditExplainsPasswords
    <2> SUFFICES ASSUME IInv PROVE AuditExplainsPasswords
      OBVIOUS
    <2> DEFINE Setting(e) ==
          {n \in Told("accepted") \cup Told("changed") \cup Told("reset") : audit[n].email = e}
    <2>1. \A e : Setting(e) = {n \in DOMAIN audit : Sets(n, e)}
      BY DEF Told, Sets, Setters
    <2> HIDE DEF Setting
    <2>2. ASSUME NEW e \in DOMAIN account, Setting(e) # {}
          PROVE  \E n \in Setting(e) : /\ \A m \in Setting(e) : m <= n
                                       /\ audit[n].secret = account[e]
      <3>1. PICK n \in DOMAIN audit : /\ Sets(n, e) /\ audit[n].secret = account[e]
                                      /\ \A m \in DOMAIN audit : Sets(m, e) => m <= n
        BY <2>1, <2>2 DEF IInv, PasswordsSet
      <3>2. QED
        BY <2>1, <3>1
    <2>3. \A m, n \in Told("reset") :
            audit[m].link = audit[n].link /\ m < n => audit[n].since < m
      BY DEF IInv, LinksSpent
    <2>4. QED
      BY <2>2, <2>3 DEF AuditExplainsPasswords, Setting
  <1>2. QED
    BY <1>1, Invariance, PTL

-------------------------------------------------------------------------------
(***************************************************************************)
(* READS.  What a branch has of a shared task is what the task has.        *)
(***************************************************************************)
Parts == {"revenue", "trend", "finance", "coverage", "costs", "reconcile", "compare"}

Asked == {"kpis", "trust", "fresh", "canon", "by_day", "cogs_day", "back_day", "manual", "ledger",
          "econ", "selling", "costs", "cogs", "refunds"}

LEMMA StepsOf ==
    ASSUME NEW p, NEW names \in Seq(Asked)
    PROVE  /\ Len(Steps(p, names)) = Len(names) /\ DOMAIN Steps(p, names) = 1..Len(names)
           /\ Steps(p, names) \in Seq([do : Asked, p : {p}])
           /\ \A i \in 1..Len(names) : Steps(p, names)[i] = [do |-> names[i], p |-> p]
<1>1. DOMAIN names = 1..Len(names) /\ Len(names) \in Nat /\ \A i \in 1..Len(names) : names[i] \in Asked
  OBVIOUS
<1>2. Steps(p, names) = [i \in 1..Len(names) |-> [do |-> names[i], p |-> p]]
  BY <1>1 DEF Steps
<1> DEFINE D == [do : Asked, p : {p}]
<1>3. \A i \in 1..Len(names) : [do |-> names[i], p |-> p] \in D
  BY <1>1
<1>4. Steps(p, names) \in [1..Len(names) -> D]
  <2> HIDE DEF D
  <2>. QED BY <1>2, <1>3
<1>5. Steps(p, names) \in Seq(D)
  <2> HIDE DEF D
  <2>. QED BY <1>1, <1>4
<1>6. DOMAIN Steps(p, names) = 1..Len(Steps(p, names)) /\ Len(Steps(p, names)) \in Nat
  <2> HIDE DEF D
  <2>. QED BY <1>5
<1>7. Len(Steps(p, names)) = Len(names)
  BY <1>1, <1>4, <1>6
<1>. QED
  BY <1>2, <1>5, <1>7

(* Where a program asks q at all, it asks it of its own period, and never   *)
(* of another what no task answers.                                        *)
LEMMA Programs ==
    ASSUME NEW b, b.name \in Parts
    PROVE  /\ Len(Program(b)) \in Nat /\ DOMAIN Program(b) = 1..Len(Program(b))
           /\ \A q : (\E i \in DOMAIN Program(b) : Program(b)[i].do = q)
                   => \E i \in DOMAIN Program(b) : Program(b)[i] = [do |-> q, p |-> b.p]
           /\ \A i \in DOMAIN Program(b) : Program(b)[i].do \notin Shared => Program(b)[i].p = b.p
<1>1. CASE b.name # "compare"
  <2>1. \E names \in Seq(Asked) : Program(b) = Steps(b.p, names)
    <3>1. /\ <<"kpis", "fresh", "trust">> \in Seq(Asked)
          /\ <<"canon", "by_day", "cogs_day", "back_day", "trust", "fresh">> \in Seq(Asked)
          /\ <<"fresh", "kpis", "canon", "manual", "trust">> \in Seq(Asked)
          /\ <<"fresh", "trust">> \in Seq(Asked)
          /\ <<"fresh", "selling", "costs">> \in Seq(Asked)
          /\ <<"fresh", "ledger", "econ", "trust">> \in Seq(Asked)
      BY DEF Asked
    <3>2. CASE b.name = "revenue"
      BY <3>1, <3>2 DEF Program
    <3>3. CASE b.name = "trend"
      BY <3>1, <3>3 DEF Program
    <3>4. CASE b.name = "finance"
      BY <3>1, <3>4 DEF Program
    <3>5. CASE b.name = "coverage"
      BY <3>1, <3>5 DEF Program
    <3>6. CASE b.name = "costs"
      BY <3>1, <3>6 DEF Program
    <3>7. CASE b.name = "reconcile"
      BY <3>1, <3>7 DEF Program
    <3>. QED
      BY <1>1, <3>2, <3>3, <3>4, <3>5, <3>6, <3>7 DEF Parts
  <2>2. PICK names \in Seq(Asked) : Program(b) = Steps(b.p, names)
    BY <2>1
  <2>3. /\ DOMAIN Program(b) = 1..Len(names) /\ Len(Program(b)) = Len(names) /\ Len(names) \in Nat
        /\ \A i \in 1..Len(names) : Program(b)[i] = [do |-> names[i], p |-> b.p]
    <3>1. Len(names) \in Nat
      BY <2>2
    <3>2. /\ Len(Steps(b.p, names)) = Len(names) /\ DOMAIN Steps(b.p, names) = 1..Len(names)
          /\ \A i \in 1..Len(names) : Steps(b.p, names)[i] = [do |-> names[i], p |-> b.p]
      BY StepsOf, Zenon
    <3>. QED BY <2>2, <3>1, <3>2
  <2>. QED
    BY <2>3
<1>2. CASE b.name = "compare"
  <2> DEFINE three == <<"kpis", "fresh", "trust">>
             two == <<"fresh", "trust">>
             A == Steps(b.p, three)
             B == Steps(b.q, three)
             C == Steps(b.p, two)
             D == [do : Asked, p : {b.p, b.q}]
  <2>1. Program(b) = A \o B \o C
    BY <1>2 DEF Program
  <2>2. /\ three \in Seq(Asked) /\ two \in Seq(Asked) /\ Len(three) = 3 /\ Len(two) = 2
        /\ three[1] = "kpis" /\ three[2] = "fresh" /\ three[3] = "trust"
        /\ two[1] = "fresh" /\ two[2] = "trust"
    BY DEF Asked
  <2> HIDE DEF three, two
  <2>3. /\ A \in Seq([do : Asked, p : {b.p}]) /\ C \in Seq([do : Asked, p : {b.p}])
        /\ B \in Seq([do : Asked, p : {b.q}]) /\ Len(A) = 3 /\ Len(B) = 3 /\ Len(C) = 2
    BY <2>2, StepsOf
  <2>4. /\ A[1] = [do |-> "kpis", p |-> b.p] /\ A[2] = [do |-> "fresh", p |-> b.p]
        /\ A[3] = [do |-> "trust", p |-> b.p]
        /\ B[1].do = "kpis" /\ B[2].do = "fresh" /\ B[3].do = "trust"
        /\ C[1].do = "fresh" /\ C[2].do = "trust"
    <3>1. /\ \A i \in 1..Len(three) : A[i] = [do |-> three[i], p |-> b.p]
          /\ \A i \in 1..Len(three) : B[i] = [do |-> three[i], p |-> b.q]
          /\ \A i \in 1..Len(two) : C[i] = [do |-> two[i], p |-> b.p]
      BY <2>2, StepsOf, Zenon
    <3> HIDE DEF A, B, C
    <3>. QED BY <2>2, <3>1
  <2> HIDE DEF A, B, C
  <2>5. A \in Seq(D) /\ B \in Seq(D) /\ C \in Seq(D)
    <3>1. [do : Asked, p : {b.p}] \subseteq D /\ [do : Asked, p : {b.q}] \subseteq D
      OBVIOUS
    <3>2. \A S, T : S \subseteq T => \A t \in Seq(S) : t \in Seq(T)
      OBVIOUS
    <3> HIDE DEF D
    <3>. QED BY <2>3, <3>1, <3>2, Zenon
  <2>6. A \o B \in Seq(D) /\ Len(A \o B) = 6 /\ (A \o B)[1] = A[1] /\ (A \o B)[2] = A[2]
        /\ (A \o B)[3] = A[3] /\ (A \o B)[4] = B[1] /\ (A \o B)[5] = B[2] /\ (A \o B)[6] = B[3]
    <3> HIDE DEF D
    <3>1. /\ A \o B \in Seq(D) /\ Len(A \o B) = 6
          /\ \A i \in 1..6 : (A \o B)[i] = IF i <= 3 THEN A[i] ELSE B[i - 3]
      <4>1. Len(A) + Len(B) = 6 /\ Len(A) = 3
        BY <2>3
      <4>2. /\ A \o B \in Seq(D) /\ Len(A \o B) = Len(A) + Len(B)
            /\ \A i \in 1..Len(A) + Len(B) : (A \o B)[i] = IF i <= Len(A) THEN A[i] ELSE B[i - Len(A)]
        BY <2>5, ConcatProperties, Zenon
      <4>. QED BY <4>1, <4>2, Zenon
    <3>. QED BY <3>1, SMTT(30)
  <2> DEFINE E == A \o B
  <2>7. E \o C \in Seq(D) /\ Len(E \o C) = 8 /\ (\A i \in 1..6 : (E \o C)[i] = E[i])
        /\ (E \o C)[7] = C[1] /\ (E \o C)[8] = C[2]
    <3>1. E \in Seq(D) /\ Len(E) = 6
      BY <2>6
    <3> HIDE DEF D, E
    <3>2. /\ E \o C \in Seq(D) /\ Len(E \o C) = 8
          /\ \A i \in 1..8 : (E \o C)[i] = IF i <= 6 THEN E[i] ELSE C[i - 6]
      <4>1. Len(E) + Len(C) = 8 /\ Len(E) = 6
        BY <2>3, <3>1
      <4>2. /\ E \o C \in Seq(D) /\ Len(E \o C) = Len(E) + Len(C)
            /\ \A i \in 1..Len(E) + Len(C) : (E \o C)[i] = IF i <= Len(E) THEN E[i] ELSE C[i - Len(E)]
        BY <2>5, <3>1, ConcatProperties, Zenon
      <4>. QED BY <4>1, <4>2, Zenon
    <3>. QED BY <3>2, SMTT(30)
  <2> HIDE DEF D, E
  <2>8. \A i \in 1..8 : (E \o C)[i].do \in {"kpis", "fresh", "trust"}
    <3>1. \A i \in 1..6 : E[i].do \in {"kpis", "fresh", "trust"}
      BY <2>4, <2>6, SMTT(30) DEF E
    <3>2. (E \o C)[7].do \in {"kpis", "fresh", "trust"} /\ (E \o C)[8].do \in {"kpis", "fresh", "trust"}
      BY <2>4, <2>7
    <3>3. \A i \in 1..6 : (E \o C)[i].do \in {"kpis", "fresh", "trust"}
      BY <2>7, <3>1
    <3>4. \A i \in 1..8 : i \in 1..6 \/ i = 7 \/ i = 8
      OBVIOUS
    <3>. QED BY <3>2, <3>3, <3>4
  <2>9. DOMAIN (E \o C) = 1..8
    <3> DEFINE F == E \o C
    <3>1. F \in Seq(D) /\ Len(F) = 8
      BY <2>7
    <3> HIDE DEF F
    <3>2. DOMAIN F = 1..8
      BY <3>1
    <3>. QED BY <3>2 DEF F
  <2>10. /\ (E \o C)[1] = [do |-> "kpis", p |-> b.p] /\ (E \o C)[2] = [do |-> "fresh", p |-> b.p]
         /\ (E \o C)[3] = [do |-> "trust", p |-> b.p]
    BY <2>4, <2>6, <2>7 DEF E
  <2>11. Program(b) = E \o C
    BY <2>1 DEF E
  <2>12. Len(Program(b)) \in Nat /\ DOMAIN Program(b) = 1..Len(Program(b))
    BY <2>7, <2>9, <2>11
  <2>13. \A q : (\E i \in DOMAIN Program(b) : Program(b)[i].do = q) => q \in {"kpis", "fresh", "trust"}
    BY <2>8, <2>9, <2>11
  <2>14. \A q \in {"kpis", "fresh", "trust"} :
            \E i \in DOMAIN Program(b) : Program(b)[i] = [do |-> q, p |-> b.p]
    <3>1. 1 \in DOMAIN Program(b) /\ 2 \in DOMAIN Program(b) /\ 3 \in DOMAIN Program(b)
      BY <2>9, <2>11
    <3>2. /\ Program(b)[1] = [do |-> "kpis", p |-> b.p] /\ Program(b)[2] = [do |-> "fresh", p |-> b.p]
          /\ Program(b)[3] = [do |-> "trust", p |-> b.p]
      BY <2>10, <2>11
    <3>. QED BY <3>1, <3>2
  <2>15. \A i \in DOMAIN Program(b) : Program(b)[i].do \in Shared
    BY <2>13 DEF Shared
  <2>. QED
    BY <2>12, <2>13, <2>14, <2>15
<1>. QED
  BY <1>1, <1>2

LEMMA Reading ==
    ASSUME NEW b, b.name \in Parts, NEW q, NEW p,
           \E i \in DOMAIN Program(b) : Program(b)[i] = [do |-> q, p |-> p]
    PROVE  \E i \in DOMAIN Program(b) :
              Program(b)[i] = [do |-> q, p |-> p] /\ Read(b, q, p) = branch[b].got[i]
<1> DEFINE hits == {i \in DOMAIN Program(b) : Program(b)[i] = [do |-> q, p |-> p]}
<1>1. hits \in SUBSET Nat /\ hits # {}
  BY Programs
<1>2. PICK n \in hits : \A m \in hits : n <= m
  <2> HIDE DEF hits
  <2>. QED BY <1>1, LeastExists
<1>3. \A j \in 1..(n - 1) : Program(b)[j] # [do |-> q, p |-> p]
  BY <1>1, <1>2, Programs
<1>. QED
  BY <1>2, <1>3 DEF Read

(***************************************************************************)
(* What the projections say of a day, whatever W was drawn.                *)
(***************************************************************************)
EntriesOn(W, d) == {e \in Ledger(W[d].from) : e.day = d}
CogsOf(W, d) == IF d \in DOMAIN W THEN Cogs(Sold(EntriesOn(W, d)), W[d].costs) ELSE 0
GainOf(W, d, s) == UnitEconomics({e \in EntriesOn(W, d) : e.sku = s}, W[d].costs, s, d).profit
GainsOf(W, d) == Sum([s \in Skus(EntriesOn(W, d)) |-> GainOf(W, d, s)], Skus(EntriesOn(W, d)))

LEMMA CogsSums ==
    ASSUME NEW S
    PROVE  MapThenSumSet(CogsOn, S) = Sum([d \in S |-> CogsOf(drawn, d)], S)
<1> DEFINE w == [d \in S |-> CogsOf(drawn, d)]
           A(g) == [s \in SUBSET S |-> IF s = {} THEN 0
                      ELSE CogsOn(CHOOSE x \in s : TRUE) + g[s \ {CHOOSE x \in s : TRUE}]]
           B(g) == [s \in SUBSET S |-> IF s = {} THEN 0
                      ELSE w[CHOOSE x \in s : TRUE] + g[s \ {CHOOSE x \in s : TRUE}]]
<1>0. \A d : CogsOn(d) = CogsOf(drawn, d)
  BY DEF CogsOn, CogsOf, EntriesOn, Projected
<1>1. ASSUME NEW g PROVE A(g) = B(g)
  BY <1>0
<1>2. MapThenSumSet(CogsOn, S) = (CHOOSE g : g = A(g))[S]
  BY DEF MapThenSumSet, MapThenFoldSet
<1>3. Sum(w, S) = (CHOOSE g : g = B(g))[S]
  BY DEF Sum, MapThenSumSet, MapThenFoldSet
<1>4. (CHOOSE g : g = A(g)) = (CHOOSE g : g = B(g))
  <2> HIDE DEF A, B
  <2>. QED BY <1>1
<1>. QED
  BY <1>2, <1>3, <1>4

LEMMA GainsSum ==
    ASSUME NEW d
    PROVE  ContributionOn(d) = GainsOf(drawn, d)
<1> DEFINE S == Skus(EntriesOn(drawn, d))
           V(s) == UnitEconomics({e \in EntriesOn(drawn, d) : e.sku = s}, drawn[d].costs, s, d).profit
           w == [s \in S |-> GainOf(drawn, d, s)]
           A(g) == [s \in SUBSET S |-> IF s = {} THEN 0
                      ELSE V(CHOOSE x \in s : TRUE) + g[s \ {CHOOSE x \in s : TRUE}]]
           B(g) == [s \in SUBSET S |-> IF s = {} THEN 0
                      ELSE w[CHOOSE x \in s : TRUE] + g[s \ {CHOOSE x \in s : TRUE}]]
<1>0. \A s \in S : w[s] = V(s)
  BY DEF GainOf
<1>1. ASSUME NEW g PROVE A(g) = B(g)
  <2> HIDE DEF S, V, w
  <2>. QED BY <1>0
<1>2. ContributionOn(d) = MapThenSumSet(V, S)
  BY DEF ContributionOn, Projected, EntriesOn
<1>3. MapThenSumSet(V, S) = (CHOOSE g : g = A(g))[S]
  <2> HIDE DEF S
  <2>. QED BY DEF MapThenSumSet, MapThenFoldSet
<1>4. Sum(w, S) = (CHOOSE g : g = B(g))[S]
  <2> HIDE DEF S
  <2>. QED BY DEF Sum, MapThenSumSet, MapThenFoldSet
<1>5. (CHOOSE g : g = A(g)) = (CHOOSE g : g = B(g))
  <2> HIDE DEF A, B
  <2>. QED BY <1>1
<1>. QED
  BY <1>2, <1>3, <1>4, <1>5 DEF GainsOf

LEMMA ProfitSums ==
    ASSUME NEW S
    PROVE  MapThenSumSet(ContributionOn, S) = Sum([d \in S |-> GainsOf(drawn, d)], S)
<1> DEFINE w == [d \in S |-> GainsOf(drawn, d)]
           A(g) == [s \in SUBSET S |-> IF s = {} THEN 0
                      ELSE ContributionOn(CHOOSE x \in s : TRUE) + g[s \ {CHOOSE x \in s : TRUE}]]
           B(g) == [s \in SUBSET S |-> IF s = {} THEN 0
                      ELSE w[CHOOSE x \in s : TRUE] + g[s \ {CHOOSE x \in s : TRUE}]]
<1>1. ASSUME NEW g PROVE A(g) = B(g)
  BY GainsSum
<1>2. MapThenSumSet(ContributionOn, S) = (CHOOSE g : g = A(g))[S]
  BY DEF MapThenSumSet, MapThenFoldSet
<1>3. Sum(w, S) = (CHOOSE g : g = B(g))[S]
  BY DEF Sum, MapThenSumSet, MapThenFoldSet
<1>4. (CHOOSE g : g = A(g)) = (CHOOSE g : g = B(g))
  <2> HIDE DEF A, B
  <2>. QED BY <1>1
<1>. QED
  BY <1>2, <1>3, <1>4

(* What the SELECTs of the projections return, from drawn alone.           *)
DrawnTells ==
    \A p, ids :
        /\ Select("cogs", p, ids) = Sum([d \in Drawn(p) |-> CogsOf(drawn, d)], Drawn(p))
        /\ Select("cogs_day", p, ids) = [d \in DaysOf(p) |-> CogsOf(drawn, d)]
        /\ Select("econ", p, ids) = [cogs |-> Sum([d \in Drawn(p) |-> CogsOf(drawn, d)], Drawn(p)),
                                     profit |-> Sum([d \in Drawn(p) |-> GainsOf(drawn, d)], Drawn(p))]

LEMMA DrawnIsTold == DrawnTells
<1> SUFFICES ASSUME NEW p, NEW ids
             PROVE  /\ Select("cogs", p, ids) = Sum([d \in Drawn(p) |-> CogsOf(drawn, d)], Drawn(p))
                    /\ Select("cogs_day", p, ids) = [d \in DaysOf(p) |-> CogsOf(drawn, d)]
                    /\ Select("econ", p, ids) = [cogs |-> Sum([d \in Drawn(p) |-> CogsOf(drawn, d)], Drawn(p)),
                                                 profit |-> Sum([d \in Drawn(p) |-> GainsOf(drawn, d)], Drawn(p))]
  BY DEF DrawnTells
<1>1. MapThenSumSet(CogsOn, Drawn(p)) = Sum([d \in Drawn(p) |-> CogsOf(drawn, d)], Drawn(p))
  BY CogsSums, Zenon
<1>2. MapThenSumSet(ContributionOn, Drawn(p)) = Sum([d \in Drawn(p) |-> GainsOf(drawn, d)], Drawn(p))
  BY ProfitSums, Zenon
<1>3. Select("cogs", p, ids) = Sum([d \in Drawn(p) |-> CogsOf(drawn, d)], Drawn(p))
  <2>1. Select("cogs", p, ids) = MapThenSumSet(CogsOn, Drawn(p))
    BY DEF Select
  <2>. QED BY <1>1, <2>1, Zenon
<1>4. Select("econ", p, ids) = [cogs |-> Sum([d \in Drawn(p) |-> CogsOf(drawn, d)], Drawn(p)),
                                profit |-> Sum([d \in Drawn(p) |-> GainsOf(drawn, d)], Drawn(p))]
  <2>1. Select("econ", p, ids) = [cogs |-> MapThenSumSet(CogsOn, Drawn(p)),
                                  profit |-> MapThenSumSet(ContributionOn, Drawn(p))]
    BY DEF Select
  <2>. QED BY <1>1, <1>2, <2>1, Zenon
<1>5. Select("cogs_day", p, ids) = [d \in DaysOf(p) |-> CogsOf(drawn, d)]
  <2>1. Select("cogs_day", p, ids) = [d \in DaysOf(p) |-> CogsOn(d)]
    BY DEF Select
  <2>2. \A d : CogsOn(d) = CogsOf(drawn, d)
    BY DEF CogsOn, CogsOf, EntriesOn, Projected
  <2>. QED BY <2>1, <2>2
<1>. QED
  BY <1>3, <1>4, <1>5

LEMMA DrawnIsToldNext == DrawnTells'
BY DrawnIsTold, PTL

(***************************************************************************)
(* The invariant, part 1: what a branch and a task look like.              *)
(***************************************************************************)
Elements(s) == {s[i] : i \in DOMAIN s}
IsList(s) == s \in Seq(Elements(s))

LEMMA Appended ==
    ASSUME NEW s, IsList(s), NEW x, NEW t, t = Append(s, x)
    PROVE  /\ IsList(t) /\ Len(t) = Len(s) + 1 /\ Len(s) \in Nat
           /\ DOMAIN s = 1..Len(s) /\ DOMAIN t = 1..(Len(s) + 1)
           /\ \A i \in DOMAIN s : t[i] = s[i]
           /\ t[Len(s) + 1] = x
<1> DEFINE S == Elements(s) \cup {x}
<1>1. s \in Seq(S)
  <2>1. \A A, B : A \subseteq B => \A r \in Seq(A) : r \in Seq(B)
    OBVIOUS
  <2>. QED BY <2>1 DEF IsList
<1>2. /\ t \in Seq(S) /\ Len(t) = Len(s) + 1 /\ Len(s) \in Nat /\ DOMAIN s = 1..Len(s)
      /\ \A i \in 1..Len(s) : t[i] = s[i]
      /\ t[Len(s) + 1] = x
  <2> HIDE DEF S
  <2>1. x \in S
    BY DEF S
  <2>. QED BY <1>1, <2>1
<1>3. DOMAIN t = 1..Len(t) /\ Len(t) \in Nat
  <2> HIDE DEF S
  <2>. QED BY <1>2
<1>4. IsList(t)
  <2>1. \A i \in 1..Len(t) : t[i] \in Elements(t)
    BY <1>3 DEF Elements
  <2>2. t = [i \in 1..Len(t) |-> t[i]]
    <3> HIDE DEF S
    <3>1. t \in [1..Len(t) -> S]
      BY <1>2, LenProperties
    <3>. QED BY <3>1
  <2>. QED BY <1>3, <2>1, <2>2 DEF IsList
<1>. QED
  BY <1>2, <1>3, <1>4

IsBranch(b) ==
    /\ b.name \in Parts /\ IsPeriod(b.p)
    /\ DOMAIN branch[b] = {"state", "got"}
    /\ IsList(branch[b].got) /\ Len(branch[b].got) <= Len(Program(b))
IsTask(k) ==
    /\ DOMAIN task[k] = {"state", "got"} /\ IsList(task[k].got)
    /\ k.do \in {"kpis", "trust"} => Len(task[k].got) <= Len(TaskProgram(k))

Lists ==
    /\ events \in 0..MaxEvents
    /\ page = None => branch = <<>> /\ task = <<>>
    /\ page # None => page.found \in Nat /\ page.found <= events
    /\ \A b \in DOMAIN branch : IsBranch(b)
    /\ \A k \in DOMAIN task : IsTask(k)

(* Part 2: what a branch awaited is what a finished task has.              *)
IsShared(b) ==
    \A i \in DOMAIN branch[b].got : Program(b)[i].do \in Shared =>
        /\ Key(b, i) \in DOMAIN task /\ Finished(Key(b, i))
        /\ branch[b].got[i] = task[Key(b, i)].got
Sharing == \A b \in DOMAIN branch : IsShared(b)

(* Part 3: as long as nothing is committed, what was read is what the tables *)
(* say, of the reports selected if some were looked for before.             *)
Quiet == {"canon", "cogs", "ledger", "refunds", "by_day", "cogs_day", "back_day", "econ", "selling", "costs"}
Known(program, p, i) ==
    IF \E j \in 1..(i - 1) : program[j].do = "canon" THEN Selected(p) ELSE {}
Now(program, p, i) == Select(program[i].do, program[i].p, Known(program, p, i))
BranchIsCurrent(b) ==
    \A i \in DOMAIN branch[b].got : Program(b)[i].do \in Quiet =>
        branch[b].got[i] = Now(Program(b), b.p, i)
TaskIsCurrent(k) ==
    k.do \in {"kpis", "trust"} => \A i \in DOMAIN task[k].got :
        task[k].got[i] = Now(TaskProgram(k), k.p, i)
Current ==
    Calm => /\ \A b \in DOMAIN branch : BranchIsCurrent(b)
            /\ \A k \in DOMAIN task : TaskIsCurrent(k)

ReadsInv == Lists /\ Sharing /\ Current

-------------------------------------------------------------------------------
LEMMA ReadsInit == Init => ReadsInv
BY ReadsAssumption DEF Init, ReadsInv, Lists, Sharing, Current, Calm

(* The programs of the tasks that read reports, sums and costs.             *)
LEMMA TrustProgram ==
    ASSUME NEW k, k.do = "trust"
    PROVE  /\ Len(TaskProgram(k)) = 2 /\ DOMAIN TaskProgram(k) = 1..2
           /\ TaskProgram(k)[1] = [do |-> "selling", p |-> k.p]
           /\ TaskProgram(k)[2] = [do |-> "costs", p |-> k.p]
<1> DEFINE names == <<"selling", "costs">>
<1>1. TaskProgram(k) = Steps(k.p, names)
  BY DEF TaskProgram
<1>2. names \in Seq(Asked) /\ Len(names) = 2 /\ names[1] = "selling" /\ names[2] = "costs"
  BY DEF Asked
<1> HIDE DEF names
<1>3. /\ Len(Steps(k.p, names)) = Len(names) /\ DOMAIN Steps(k.p, names) = 1..Len(names)
      /\ \A i \in 1..Len(names) : Steps(k.p, names)[i] = [do |-> names[i], p |-> k.p]
  BY <1>2, StepsOf, Zenon
<1>. QED
  BY <1>1, <1>2, <1>3

LEMMA KpisProgram ==
    ASSUME NEW k, k.do = "kpis"
    PROVE  /\ Len(TaskProgram(k)) = 4 /\ DOMAIN TaskProgram(k) = 1..4
           /\ TaskProgram(k)[1] = [do |-> "cogs", p |-> k.p]
           /\ TaskProgram(k)[2] = [do |-> "canon", p |-> k.p]
           /\ TaskProgram(k)[3] = [do |-> "ledger", p |-> k.p]
           /\ TaskProgram(k)[4] = [do |-> "refunds", p |-> k.p]
<1> DEFINE names == <<"cogs", "canon", "ledger", "refunds">>
<1>1. TaskProgram(k) = Steps(k.p, names)
  BY DEF TaskProgram
<1>2. names \in Seq(Asked) /\ Len(names) = 4 /\ names[1] = "cogs" /\ names[2] = "canon"
      /\ names[3] = "ledger" /\ names[4] = "refunds"
  BY DEF Asked
<1> HIDE DEF names
<1>3. /\ Len(Steps(k.p, names)) = Len(names) /\ DOMAIN Steps(k.p, names) = 1..Len(names)
      /\ \A i \in 1..Len(names) : Steps(k.p, names)[i] = [do |-> names[i], p |-> k.p]
  BY <1>2, StepsOf, Zenon
<1>. QED
  BY <1>1, <1>2, <1>3

LEMMA TaskPrograms ==
    \A k : k.do \in {"kpis", "trust"} =>
        /\ Len(TaskProgram(k)) \in Nat /\ DOMAIN TaskProgram(k) = 1..Len(TaskProgram(k))
        /\ \A i \in DOMAIN TaskProgram(k) : TaskProgram(k)[i].do \in Quiet /\ TaskProgram(k)[i].p = k.p
<1> SUFFICES ASSUME NEW k, k.do \in {"kpis", "trust"}
             PROVE  /\ Len(TaskProgram(k)) \in Nat /\ DOMAIN TaskProgram(k) = 1..Len(TaskProgram(k))
                    /\ \A i \in DOMAIN TaskProgram(k) : TaskProgram(k)[i].do \in Quiet /\ TaskProgram(k)[i].p = k.p
  OBVIOUS
<1>1. (\A i \in 1..2 : i = 1 \/ i = 2) /\ (\A i \in 1..4 : i = 1 \/ i = 2 \/ i = 3 \/ i = 4)
  OBVIOUS
<1>2. CASE k.do = "trust"
  <2>1. /\ Len(TaskProgram(k)) = 2 /\ DOMAIN TaskProgram(k) = 1..2
        /\ TaskProgram(k)[1] = [do |-> "selling", p |-> k.p] /\ TaskProgram(k)[2] = [do |-> "costs", p |-> k.p]
    BY <1>2, TrustProgram
  <2>. QED BY <1>1, <2>1 DEF Quiet
<1>3. CASE k.do = "kpis"
  <2>1. /\ Len(TaskProgram(k)) = 4 /\ DOMAIN TaskProgram(k) = 1..4
        /\ TaskProgram(k)[1] = [do |-> "cogs", p |-> k.p] /\ TaskProgram(k)[2] = [do |-> "canon", p |-> k.p]
        /\ TaskProgram(k)[3] = [do |-> "ledger", p |-> k.p] /\ TaskProgram(k)[4] = [do |-> "refunds", p |-> k.p]
    BY <1>3, KpisProgram
  <2>. QED BY <1>1, <2>1 DEF Quiet
<1>. QED
  BY <1>2, <1>3

(* The reports a statement is asked for are those selected, if they were    *)
(* looked for before.                                                      *)
LEMMA FoundIsKnown ==
    ASSUME NEW program, NEW p, NEW s, Len(s) \in Nat, DOMAIN s = 1..Len(s),
           \A i \in DOMAIN s : program[i].do = "canon" => program[i].p = p /\ s[i] = Now(program, p, i)
    PROVE  Found(program, s) = Known(program, p, Len(s) + 1)
<1> DEFINE hits == {i \in DOMAIN s : program[i].do = "canon"}
<1>1. hits \in SUBSET Nat /\ \A j : j \in hits <=> j \in 1..(Len(s) + 1 - 1) /\ program[j].do = "canon"
  OBVIOUS
<1>2. CASE hits = {}
  <2>1. Found(program, s) = {}
    BY <1>2 DEF Found
  <2> HIDE DEF hits
  <2>. QED BY <1>1, <1>2, <2>1 DEF Known
<1>3. CASE hits # {}
  <2>1. Found(program, s) = s[Min(hits)]
    BY <1>3 DEF Found
  <2>2. \A i \in hits : s[i] = Selected(p)
    BY DEF Now, Select, Selected
  <2> HIDE DEF hits
  <2>3. Min(hits) \in hits
    <3>1. PICK n \in hits : \A m \in hits : n <= m
      BY <1>1, <1>3, LeastExists
    <3>. QED BY <3>1 DEF Min
  <2>4. Known(program, p, Len(s) + 1) = Selected(p)
    BY <1>1, <2>3 DEF Known
  <2>. QED BY <2>1, <2>2, <2>3, <2>4
<1>. QED BY <1>2, <1>3

(* A commit touches no branch and no task.                                 *)
LEMMA WriteKeepsReads == ASSUME ReadsInv, Write PROVE ReadsInv'
<1>1. events \in 0..MaxEvents /\ events' \in 0..MaxEvents /\ events' = events + 1 /\ page' = page /\ branch' = branch /\ task' = task
  BY ReadsAssumption DEF Write, ReadsInv, Lists
<1>2. Lists'
  BY <1>1 DEF ReadsInv, Lists, IsBranch, IsTask
<1>3. Sharing'
  BY <1>1, SMTT(60) DEF ReadsInv, Sharing, IsShared, Key, Finished
<1>4. ~Calm'
  BY <1>1 DEF ReadsInv, Lists, Calm
<1>. QED
  BY <1>2, <1>3, <1>4 DEF ReadsInv, Current

LEMMA AskKeepsReads == ASSUME ReadsInv, NEW pg \in Pages, Ask(pg) PROVE ReadsInv'
<1>0. [cached |-> pg.cached, pool |-> pg.pool, found |-> events] # None
  BY ReadsAssumption DEF ReadsInv, Lists
<1>1. /\ page' # None /\ page'.found = events /\ events' = events /\ events \in 0..MaxEvents
      /\ DOMAIN branch' = pg.parts /\ \A b \in pg.parts : branch'[b] = Idle
      /\ task' = <<>>
  BY <1>0, ReadsAssumption DEF Ask, ReadsInv, Lists
<1>2. DOMAIN task' = {} /\ IsList(<<>>) /\ DOMAIN (<<>>) = {} /\ Len(<<>>) = 0
  BY <1>1 DEF IsList, Elements
<1>3. \A b \in pg.parts : b.name \in Parts /\ IsPeriod(b.p) /\ Len(Program(b)) \in Nat
  BY ReadsAssumption, Programs DEF Parts
<1>4. Lists'
  BY <1>1, <1>2, <1>3 DEF Lists, IsBranch, IsTask, Idle
<1>5. Sharing' /\ Current'
  BY <1>1, <1>2 DEF Sharing, IsShared, Current, BranchIsCurrent, TaskIsCurrent, Idle
<1>. QED
  BY <1>4, <1>5 DEF ReadsInv

(* The steps of a request leave what is stored alone.                      *)
LEMMA QuietSelect ==
    ASSUME UNCHANGED store, NEW q \in Quiet, NEW p, NEW ids
    PROVE  Select(q, p, ids)' = Select(q, p, ids)
<1>1. loaded' = loaded /\ done' = done /\ costs' = costs /\ drawn' = drawn /\ Drawn(p)' = Drawn(p)
  BY DEF store, Drawn
<1>2. CASE q \in {"canon", "ledger", "refunds", "costs"}
  BY <1>1, <1>2 DEF Select, Candidates
<1>3. CASE q = "selling"
  BY <1>1, <1>3 DEF Select, Projected
<1>4. CASE q = "by_day"
  BY <1>1, <1>4 DEF Select, OfCanonical
<1>5. CASE q = "back_day"
  BY <1>1, <1>5 DEF Select
<1>6. CASE q \in {"cogs", "cogs_day", "econ"}
  <2> DEFINE cogs == Sum([d \in Drawn(p) |-> CogsOf(drawn, d)], Drawn(p))
             gains == Sum([d \in Drawn(p) |-> GainsOf(drawn, d)], Drawn(p))
             days == [d \in DaysOf(p) |-> CogsOf(drawn, d)]
  <2>1. /\ Select("cogs", p, ids) = cogs /\ Select("cogs_day", p, ids) = days
        /\ Select("econ", p, ids) = [cogs |-> cogs, profit |-> gains]
    BY DrawnIsTold DEF DrawnTells
  <2>2. /\ Select("cogs", p, ids)' = cogs' /\ Select("cogs_day", p, ids)' = days'
        /\ Select("econ", p, ids)' = [cogs |-> cogs', profit |-> gains']
    BY DrawnIsToldNext DEF DrawnTells
  <2>3. cogs' = cogs /\ gains' = gains /\ days' = days
    BY <1>1
  <2> HIDE DEF cogs, gains, days
  <2>. QED BY <1>6, <2>1, <2>2, <2>3
<1>. QED
  BY <1>2, <1>3, <1>4, <1>5, <1>6 DEF Quiet

LEMMA QuietNow ==
    ASSUME UNCHANGED store
    PROVE  \A program, p, i : program[i].do \in Quiet => Now(program, p, i)' = Now(program, p, i)
<1> SUFFICES ASSUME NEW program, NEW p, NEW i, program[i].do \in Quiet
             PROVE  Now(program, p, i)' = Now(program, p, i)
  OBVIOUS
<1>1. Known(program, p, i)' = Known(program, p, i)
  BY DEF Known, Selected, Candidates, store
<1>. QED
  BY <1>1, QuietSelect DEF Now

LEMMA TaskStaysCurrent ==
    ASSUME ReadsInv, Calm, UNCHANGED store, NEW k \in DOMAIN task, task'[k].got = task[k].got
    PROVE  TaskIsCurrent(k)'
<1> SUFFICES ASSUME k.do \in {"kpis", "trust"}, NEW i \in DOMAIN task[k].got
             PROVE  task[k].got[i] = Now(TaskProgram(k), k.p, i)'
  BY DEF TaskIsCurrent
<1>1. task[k].got[i] = Now(TaskProgram(k), k.p, i)
  BY DEF ReadsInv, Current, TaskIsCurrent
<1>2. i \in DOMAIN TaskProgram(k)
  BY TaskPrograms, LenProperties DEF ReadsInv, Lists, IsTask, IsList
<1>3. TaskProgram(k)[i].do \in Quiet
  BY <1>2, TaskPrograms
<1>. QED
  BY <1>1, <1>3, QuietNow

LEMMA BranchStaysCurrent ==
    ASSUME ReadsInv, Calm, UNCHANGED store, NEW b \in DOMAIN branch, branch'[b].got = branch[b].got
    PROVE  BranchIsCurrent(b)'
BY QuietNow DEF ReadsInv, Current, BranchIsCurrent

(* One branch gets one more answer.                                        *)
LEMMA AnswerKeepsReads ==
    ASSUME ReadsInv, NEW b \in Busy, NEW x,
           branch' = [branch EXCEPT ![b].got = Append(@, x)],
           UNCHANGED <<store, events, page, task>>,
           Next1(b).do \in Shared => NextKey(b) \in DOMAIN task /\ Finished(NextKey(b))
                                     /\ x = task[NextKey(b)].got,
           Calm /\ Next1(b).do \in Quiet => x = Now(Program(b), b.p, Len(branch[b].got) + 1)
    PROVE  ReadsInv'
<1> DEFINE s == branch[b].got
           t == Append(s, x)
<1>1. b \in DOMAIN branch /\ IsBranch(b) /\ Len(s) # Len(Program(b))
  BY DEF Busy, Ended, ReadsInv, Lists
<1>2. /\ IsList(t) /\ Len(t) = Len(s) + 1 /\ Len(s) \in Nat
      /\ DOMAIN s = 1..Len(s) /\ DOMAIN t = 1..(Len(s) + 1)
      /\ \A i \in DOMAIN s : t[i] = s[i]
      /\ t[Len(s) + 1] = x
  <2> HIDE DEF s
  <2>. QED BY <1>1, Appended DEF IsBranch, s
<1>3. /\ DOMAIN branch' = DOMAIN branch /\ branch'[b].got = t /\ DOMAIN branch'[b] = {"state", "got"}
      /\ \A c \in DOMAIN branch : c # b => branch'[c] = branch[c]
  BY <1>1 DEF IsBranch
<1>4. Len(Program(b)) \in Nat /\ Len(s) + 1 <= Len(Program(b))
  BY <1>1, <1>2, Programs DEF IsBranch
<1>5. /\ page' = page /\ task' = task /\ events' = events /\ Calm' = Calm
      /\ \A c, i : Key(c, i)' = Key(c, i) /\ \A k : Finished(k)' = Finished(k)
  BY DEF Calm, Key, Finished
<1>6. Next1(b) = Program(b)[Len(s) + 1] /\ NextKey(b) = Key(b, Len(s) + 1)
  BY DEF Next1, NextKey
<1> HIDE DEF s, t
<1>7. Lists'
  <2>1. IsBranch(b)'
    BY <1>1, <1>2, <1>3, <1>4 DEF IsBranch, s
  <2>2. \A c \in DOMAIN branch : c # b => IsBranch(c)'
    BY <1>3 DEF IsBranch, ReadsInv, Lists
  <2>. QED
    BY <1>1, <1>3, <1>5, <2>1, <2>2 DEF ReadsInv, Lists, IsTask
<1>8. Sharing'
  <2>1. IsShared(b)'
    <3> SUFFICES ASSUME NEW i \in DOMAIN t, Program(b)[i].do \in Shared
                 PROVE  Key(b, i) \in DOMAIN task /\ Finished(Key(b, i)) /\ t[i] = task[Key(b, i)].got
      BY <1>3, <1>5 DEF IsShared
    <3>1. CASE i \in DOMAIN s
      BY <1>1, <1>2, <3>1 DEF ReadsInv, Sharing, IsShared, s
    <3>2. CASE i = Len(s) + 1
      BY <1>2, <1>6, <3>2
    <3>. QED
      BY <1>2, <3>1, <3>2
  <2>2. \A c \in DOMAIN branch : c # b => IsShared(c)'
    BY <1>3, <1>5 DEF ReadsInv, Sharing, IsShared
  <2>. QED
    BY <1>3, <2>1, <2>2 DEF Sharing
<1>9. Current'
  <2> SUFFICES ASSUME Calm PROVE (\A c \in DOMAIN branch : BranchIsCurrent(c)') /\ \A k \in DOMAIN task : TaskIsCurrent(k)'
    BY <1>3, <1>5 DEF Current
  <2>1. \A program, p, i : program[i].do \in Quiet => Now(program, p, i)' = Now(program, p, i)
    BY QuietNow
  <2>2. \A k \in DOMAIN task : TaskIsCurrent(k)'
    BY <1>5, TaskStaysCurrent
  <2>3. BranchIsCurrent(b)'
    <3> SUFFICES ASSUME NEW i \in DOMAIN t, Program(b)[i].do \in Quiet
                 PROVE  t[i] = Now(Program(b), b.p, i)
      BY <1>3, <2>1 DEF BranchIsCurrent
    <3>1. CASE i \in DOMAIN s
      BY <1>1, <1>2, <3>1 DEF ReadsInv, Current, BranchIsCurrent, s
    <3>2. CASE i = Len(s) + 1
      BY <1>2, <1>6, <3>2 DEF s
    <3>. QED
      BY <1>2, <3>1, <3>2
  <2>4. \A c \in DOMAIN branch : c # b => BranchIsCurrent(c)'
    BY <1>3, BranchStaysCurrent
  <2>. QED
    BY <2>2, <2>3, <2>4
<1>. QED
  BY <1>7, <1>8, <1>9 DEF ReadsInv

(* A branch gets a connection, or fails: it keeps what it has.             *)
LEMMA StateKeepsReads ==
    ASSUME ReadsInv, NEW b \in DOMAIN branch, NEW v, branch' = [branch EXCEPT ![b].state = v],
           UNCHANGED <<store, page, task>>, events' = events \/ (events < MaxEvents /\ events' = events + 1)
    PROVE  ReadsInv'
<1>1. /\ DOMAIN branch' = DOMAIN branch
      /\ \A c \in DOMAIN branch : branch'[c].got = branch[c].got /\ DOMAIN branch'[c] = DOMAIN branch[c]
  BY DEF ReadsInv, Lists, IsBranch
<1>2. /\ page' = page /\ task' = task /\ events' \in 0..MaxEvents /\ events <= events' /\ (Calm' => Calm)
      /\ \A c, i : Key(c, i)' = Key(c, i) /\ \A k : Finished(k)' = Finished(k)
  BY ReadsAssumption DEF Calm, Key, Finished, ReadsInv, Lists
<1>3. Calm => (\A c \in DOMAIN branch : BranchIsCurrent(c)') /\ \A k \in DOMAIN task : TaskIsCurrent(k)'
  BY <1>1, <1>2, TaskStaysCurrent, BranchStaysCurrent
<1>4. Lists'
  BY <1>1, <1>2, ReadsAssumption DEF ReadsInv, Lists, IsBranch, IsTask
<1>5. Sharing'
  BY <1>1, <1>2 DEF ReadsInv, Sharing, IsShared
<1>6. Current'
  BY <1>1, <1>2, <1>3 DEF Current
<1>. QED
  BY <1>4, <1>5, <1>6 DEF ReadsInv

LEMMA StartKeepsReads ==
    ASSUME ReadsInv, NEW b, StartTask(b) PROVE ReadsInv'
<1>0. PICK k : k = NextKey(b)
  OBVIOUS
<1>1. /\ k \notin DOMAIN task /\ DOMAIN task' = DOMAIN task \cup {k}
      /\ task'[k] = [state |-> "running", got |-> <<>>] /\ \A j \in DOMAIN task : task'[j] = task[j]
  BY <1>0 DEF StartTask
<1>2. /\ page' = page /\ branch' = branch /\ events' = events /\ Calm' = Calm
      /\ \A c, i : Key(c, i)' = Key(c, i) /\ UNCHANGED store
  BY DEF StartTask, Calm, Key
<1>3. \A j \in DOMAIN task : Calm => (task[j].got = task'[j].got => TaskIsCurrent(j)')
  BY <1>2, TaskStaysCurrent
<1>4. IsList(<<>>) /\ DOMAIN (<<>>) = {} /\ Len(<<>>) = 0 /\ page # None
  <2>1. page # None
    BY DEF StartTask, Busy, ReadsInv, Lists
  <2>. QED BY <2>1 DEF IsList, Elements
<1>5. Lists'
  <2>1. IsTask(k)'
    BY <1>1, <1>4, TaskPrograms DEF IsTask
  <2>. QED
    BY <1>1, <1>2, <1>4, <2>1 DEF ReadsInv, Lists, IsBranch, IsTask
<1>6. Sharing'
  <2>1. \A j \in DOMAIN task : Finished(j)' = Finished(j)
    BY <1>1 DEF Finished
  <2>. QED
    BY <1>1, <1>2, <2>1 DEF ReadsInv, Sharing, IsShared
<1>7. Current'
  <2>1. \A j \in DOMAIN task : Calm => TaskIsCurrent(j)'
    BY <1>1, <1>3
  <2>2. TaskIsCurrent(k)'
    BY <1>1, <1>4 DEF TaskIsCurrent
  <2>3. \A c \in DOMAIN branch : Calm => BranchIsCurrent(c)'
    BY <1>2, BranchStaysCurrent
  <2>. QED
    BY <1>1, <1>2, <2>1, <2>2, <2>3 DEF Current
<1>. QED
  BY <1>5, <1>6, <1>7 DEF ReadsInv

(* A task that has not all its answers gets one more, or fails; nobody has  *)
(* what it has yet.                                                        *)
LEMMA RunKeepsReads ==
    ASSUME ReadsInv, NEW k \in DOMAIN task, RunTask(k) PROVE ReadsInv'
<1>a. PICK s : s = task[k].got
  OBVIOUS
<1>b. PICK step : step = TaskProgram(k)[Len(s) + 1]
  OBVIOUS
<1>c. PICK x : x = Select(step.do, step.p, Found(TaskProgram(k), s))
  OBVIOUS
<1>d. PICK t : t = Append(s, x)
  OBVIOUS
<1>1. IsTask(k) /\ Len(s) # Len(TaskProgram(k)) /\ task' = [task EXCEPT ![k].got = t]
  <2>1. task' = [task EXCEPT ![k].got =
                   Append(@, Select(TaskProgram(k)[Len(task[k].got) + 1].do, TaskProgram(k)[Len(task[k].got) + 1].p,
                                    Found(TaskProgram(k), @)))]
    BY DEF RunTask
  <2>2. task' = [task EXCEPT ![k].got = t]
    BY <1>a, <1>b, <1>c, <1>d, <2>1
  <2>. QED BY <1>a, <2>2 DEF RunTask, MayRun, Finished, ReadsInv, Lists
<1>2. /\ IsList(t) /\ Len(t) = Len(s) + 1 /\ Len(s) \in Nat
      /\ DOMAIN s = 1..Len(s) /\ DOMAIN t = 1..(Len(s) + 1)
      /\ \A i \in DOMAIN s : t[i] = s[i]
      /\ t[Len(s) + 1] = x
  <2>1. IsList(s)
    BY <1>1, <1>a DEF IsTask
  <2>2. \A z, u : u = Append(s, z) =>
          /\ IsList(u) /\ Len(u) = Len(s) + 1 /\ Len(s) \in Nat
          /\ DOMAIN s = 1..Len(s) /\ DOMAIN u = 1..(Len(s) + 1)
          /\ \A i \in DOMAIN s : u[i] = s[i]
          /\ u[Len(s) + 1] = z
    BY <2>1, Appended
  <2>3. t = Append(s, x)
    BY <1>d
  <2>. QED BY <2>2, <2>3, ZenonT(30)
<1>3. /\ DOMAIN task' = DOMAIN task /\ task'[k].got = t /\ DOMAIN task'[k] = {"state", "got"}
      /\ \A j \in DOMAIN task : j # k => task'[j] = task[j]
  BY <1>1 DEF IsTask
<1>4. /\ page' = page /\ branch' = branch /\ events' = events /\ Calm' = Calm
      /\ \A c, i : Key(c, i)' = Key(c, i) /\ UNCHANGED store
  BY DEF RunTask, Calm, Key
<1>5. k.do \in {"kpis", "trust"} =>
        Len(s) + 1 <= Len(TaskProgram(k)) /\ Len(s) + 1 \in DOMAIN TaskProgram(k)
        /\ DOMAIN t \subseteq DOMAIN TaskProgram(k)
  <2>1. k.do \in {"kpis", "trust"} => Len(s) <= Len(TaskProgram(k))
    BY <1>a, <1>1 DEF IsTask
  <2>. QED
    BY <1>1, <1>2, <2>1, TaskPrograms
<1>6. Lists'
  <2>1. IsTask(k)'
    BY <1>2, <1>3, <1>5 DEF IsTask
  <2>. QED
    BY <1>2, <1>3, <1>4, <2>1 DEF ReadsInv, Lists, IsBranch, IsTask
<1>7. Sharing'
  <2>1. ~Finished(k) /\ \A j \in DOMAIN task : j # k => Finished(j)' = Finished(j)
    BY <1>a, <1>1, <1>3 DEF Finished
  <2>. QED
    BY <1>3, <1>4, <2>1 DEF ReadsInv, Sharing, IsShared
<1>8. Current'
  <2>1. \A j \in DOMAIN task : j # k /\ Calm => TaskIsCurrent(j)'
    BY <1>3, <1>4, TaskStaysCurrent
  <2>2. Calm => TaskIsCurrent(k)'
    <3> SUFFICES ASSUME Calm, k.do \in {"kpis", "trust"}, NEW i \in DOMAIN t
                 PROVE  t[i] = Now(TaskProgram(k), k.p, i)'
      BY <1>3 DEF TaskIsCurrent
    <3>0. \A j \in DOMAIN TaskProgram(k) : TaskProgram(k)[j].do \in Quiet /\ TaskProgram(k)[j].p = k.p
      BY TaskPrograms
    <3>1. Now(TaskProgram(k), k.p, i)' = Now(TaskProgram(k), k.p, i)
      <4>1. TaskProgram(k)[i].do \in Quiet
        BY <1>5, <3>0
      <4>. QED BY <1>4, <4>1, QuietNow
    <3>2. CASE i \in DOMAIN s
      BY <1>a, <1>2, <3>1, <3>2 DEF ReadsInv, Current, TaskIsCurrent
    <3>3. CASE i = Len(s) + 1
      <4>1. \A j \in DOMAIN s : s[j] = Now(TaskProgram(k), k.p, j)
        BY <1>a DEF ReadsInv, Current, TaskIsCurrent
      <4>2. \A j \in DOMAIN s : TaskProgram(k)[j].p = k.p
        BY <1>2, <1>5, <3>0
      <4>3. Found(TaskProgram(k), s) = Known(TaskProgram(k), k.p, Len(s) + 1)
        BY <1>2, <4>1, <4>2, FoundIsKnown
      <4>. QED
        BY <1>b, <1>c, <1>2, <3>1, <3>3, <4>3 DEF Now
    <3>. QED
      BY <1>2, <3>2, <3>3
  <2>3. \A c \in DOMAIN branch : Calm => BranchIsCurrent(c)'
    BY <1>4, BranchStaysCurrent
  <2>. QED
    BY <1>3, <1>4, <2>1, <2>2, <2>3 DEF Current
<1>. QED
  BY <1>6, <1>7, <1>8 DEF ReadsInv

LEMMA TaskFailKeepsReads ==
    ASSUME ReadsInv, NEW k \in DOMAIN task, task' = [task EXCEPT ![k].state = "failed"],
           UNCHANGED <<store, page, branch>>, events < MaxEvents, events' = events + 1
    PROVE  ReadsInv'
<1>1. /\ DOMAIN task' = DOMAIN task
      /\ \A j \in DOMAIN task : task'[j].got = task[j].got /\ DOMAIN task'[j] = DOMAIN task[j]
  BY DEF ReadsInv, Lists, IsTask
<1>2. /\ page' = page /\ branch' = branch /\ events' \in 0..MaxEvents /\ events <= events' /\ ~Calm'
      /\ \A c, i : Key(c, i)' = Key(c, i) /\ \A j \in DOMAIN task : Finished(j)' = Finished(j)
  BY <1>1, ReadsAssumption DEF Calm, Key, Finished, ReadsInv, Lists
<1>3. Lists'
  <2>1. page = None => DOMAIN task = {}
    BY DEF ReadsInv, Lists
  <2>. QED BY <1>1, <1>2, <2>1, ReadsAssumption DEF ReadsInv, Lists, IsBranch, IsTask
<1>4. Sharing'
  BY <1>1, <1>2 DEF ReadsInv, Sharing, IsShared
<1>. QED
  BY <1>2, <1>3, <1>4 DEF ReadsInv, Current

LEMMA ReadsStep == ReadsInv /\ [Next]_vars => ReadsInv'
<1> SUFFICES ASSUME ReadsInv, [Next]_vars PROVE ReadsInv'
  OBVIOUS
<1>1. CASE (\E r \in Report : Load(r) \/ Finish(r) \/ Delete(r)) \/ EditCosts \/ Refresh
  <2>1. Write
    BY <1>1 DEF Load, Finish, Delete, EditCosts, Refresh
  <2>. QED
    BY <2>1, WriteKeepsReads
<1>2. ASSUME NEW pg \in Pages, Ask(pg) PROVE ReadsInv'
  BY <1>2, AskKeepsReads
<1>3. ASSUME NEW b \in DOMAIN branch, Connect(b) PROVE ReadsInv'
  BY <1>3, StateKeepsReads DEF Connect
<1>4. ASSUME NEW b \in DOMAIN branch, SelectOwn(b) PROVE ReadsInv'
  <2> DEFINE x == Select(Next1(b).do, Next1(b).p, Found(Program(b), branch[b].got))
  <2>1. branch' = [branch EXCEPT ![b].got = Append(@, x)]
    BY <1>4 DEF SelectOwn
  <2>2. Calm /\ Next1(b).do \in Quiet => x = Now(Program(b), b.p, Len(branch[b].got) + 1)
    <3> SUFFICES ASSUME Calm PROVE x = Now(Program(b), b.p, Len(branch[b].got) + 1)
      OBVIOUS
    <3>1. /\ Len(branch[b].got) \in Nat /\ DOMAIN branch[b].got = 1..Len(branch[b].got)
          /\ b.name \in Parts /\ Len(branch[b].got) <= Len(Program(b))
      BY LenProperties DEF ReadsInv, Lists, IsBranch, IsList
    <3>2. DOMAIN branch[b].got \subseteq DOMAIN Program(b)
      BY <3>1, Programs
    <3>3. "canon" \notin Shared /\ "canon" \in Quiet
      BY DEF Shared, Quiet
    <3>4. \A i \in DOMAIN branch[b].got : Program(b)[i].do = "canon" =>
             Program(b)[i].p = b.p /\ branch[b].got[i] = Now(Program(b), b.p, i)
      BY <3>1, <3>2, <3>3, Programs DEF ReadsInv, Current, BranchIsCurrent
    <3>5. Found(Program(b), branch[b].got) = Known(Program(b), b.p, Len(branch[b].got) + 1)
      BY <3>1, <3>4, FoundIsKnown
    <3>. QED
      BY <3>5 DEF Now, Next1
  <2>3. b \in Busy /\ ~(Next1(b).do \in Shared) /\ UNCHANGED <<store, events, page, task>>
    BY <1>4 DEF SelectOwn
  <2> HIDE DEF x
  <2>. QED
    BY <2>1, <2>2, <2>3, AnswerKeepsReads
<1>5. ASSUME NEW b \in DOMAIN branch, StartTask(b) PROVE ReadsInv'
  BY <1>5, StartKeepsReads
<1>6. ASSUME NEW b \in DOMAIN branch, Await(b) PROVE ReadsInv'
  <2>1. /\ b \in Busy /\ Next1(b).do \in Shared /\ NextKey(b) \in DOMAIN task
        /\ UNCHANGED <<store, events, page, task>>
    BY <1>6 DEF Await
  <2>2. ~(Next1(b).do \in Quiet)
    BY <2>1 DEF Shared, Quiet
  <2>3. CASE Finished(NextKey(b)) /\ branch' = [branch EXCEPT ![b].got = Append(@, task[NextKey(b)].got)]
    BY <2>1, <2>2, <2>3, AnswerKeepsReads
  <2>4. CASE branch' = [branch EXCEPT ![b].state = "failed"]
    BY <2>1, <2>4, StateKeepsReads
  <2>. QED
    BY <1>6, <2>3, <2>4 DEF Await
<1>7. ASSUME NEW k \in DOMAIN task, RunTask(k) PROVE ReadsInv'
  BY <1>7, RunKeepsReads
<1>8. CASE Fail
  <2>1. events < MaxEvents /\ events' = events + 1 /\ UNCHANGED <<store, page>>
    BY <1>8 DEF Fail
  <2>2. ASSUME NEW b \in Busy, branch' = [branch EXCEPT ![b].state = "failed"], UNCHANGED task PROVE ReadsInv'
    <3>1. b \in DOMAIN branch
      BY DEF Busy
    <3>. QED BY <2>1, <2>2, <3>1, StateKeepsReads
  <2>3. ASSUME NEW k \in DOMAIN task, task' = [task EXCEPT ![k].state = "failed"], UNCHANGED branch PROVE ReadsInv'
    BY <2>1, <2>3, TaskFailKeepsReads
  <2>. QED
    BY <1>8, <2>2, <2>3 DEF Fail
<1>9. CASE UNCHANGED vars
  <2>1. UNCHANGED <<store, events, page, branch, task>>
    BY <1>9 DEF vars
  <2>2. (\A b \in DOMAIN branch : Calm => BranchIsCurrent(b)') /\ \A k \in DOMAIN task : Calm => TaskIsCurrent(k)'
    BY <2>1, TaskStaysCurrent, BranchStaysCurrent
  <2>3. (\A c, i : Key(c, i)' = Key(c, i)) /\ (\A j : Finished(j)' = Finished(j)) /\ Calm' = Calm
    BY <2>1 DEF Key, Finished, Calm
  <2>. QED
    BY <2>1, <2>2, <2>3 DEF ReadsInv, Lists, IsBranch, IsTask, Sharing, IsShared, Current
<1>. QED
  BY <1>1, <1>2, <1>3, <1>4, <1>5, <1>6, <1>7, <1>8, <1>9 DEF Next, Progress

(***************************************************************************)
(* One dashboard, one truth.                                               *)
(***************************************************************************)
(* What two branches of a dashboard read of a shared computation for their  *)
(* own periods is the same, if the periods are, or the computation has none. *)
Complete(b) == b \in DOMAIN branch /\ Len(branch[b].got) = Len(Program(b))
Asks(b, q) == Complete(b) /\ \E i \in DOMAIN Program(b) : Program(b)[i].do = q

LEMMA SharedReads ==
    ASSUME ReadsInv, page.cached, NEW q \in Shared, NEW b, Asks(b, q)
    PROVE  LET k == [do |-> q, p |-> IF q = "fresh" THEN None ELSE b.p, of |-> None]
           IN  k \in DOMAIN task /\ Finished(k) /\ Read(b, q, b.p) = task[k].got
<1>1. b.name \in Parts /\ IsList(branch[b].got) /\ b \in DOMAIN branch
      /\ Len(branch[b].got) = Len(Program(b))
  BY DEF Asks, Complete, ReadsInv, Lists, IsBranch
<1>2. \E i \in DOMAIN Program(b) : Program(b)[i] = [do |-> q, p |-> b.p]
  BY <1>1, Programs DEF Asks
<1>3. PICK i \in DOMAIN Program(b) : Program(b)[i] = [do |-> q, p |-> b.p] /\ Read(b, q, b.p) = branch[b].got[i]
  BY <1>1, <1>2, Reading
<1>4. DOMAIN branch[b].got = 1..Len(branch[b].got)
  BY <1>1, LenProperties DEF IsList
<1>5. i \in DOMAIN branch[b].got
  BY <1>1, <1>4, Programs
<1>6. Key(b, i) \in DOMAIN task /\ Finished(Key(b, i)) /\ branch[b].got[i] = task[Key(b, i)].got
  BY <1>1, <1>3, <1>5 DEF ReadsInv, Sharing, IsShared
<1>7. Key(b, i) = [do |-> q, p |-> IF q = "fresh" THEN None ELSE b.p, of |-> None]
  BY <1>3 DEF Key, PeriodOf
<1>. QED
  BY <1>3, <1>6, <1>7

LEMMA ProgramsAsk ==
    ASSUME NEW b
    PROVE  /\ b.name \in {"revenue", "finance"} => \A q \in {"trust", "kpis"} :
                  \E i \in DOMAIN Program(b) : Program(b)[i].do = q
           /\ b.name = "costs" => \A q \in {"selling", "costs"} :
                  \E i \in DOMAIN Program(b) : Program(b)[i].do = q
<1>1. CASE b.name = "revenue"
  BY <1>1 DEF Program, Steps
<1>2. CASE b.name = "finance"
  BY <1>2 DEF Program, Steps
<1>3. CASE b.name = "costs"
  BY <1>3 DEF Program, Steps
<1>. QED
  BY <1>1, <1>2, <1>3

(* A branch's own reads, as long as nothing is committed.                  *)
LEMMA OwnReads ==
    ASSUME ReadsInv, Calm, NEW q \in Quiet, NEW b, Asks(b, q)
    PROVE  \E i \in DOMAIN Program(b) :
              /\ Program(b)[i] = [do |-> q, p |-> b.p]
              /\ Read(b, q, b.p) = Select(q, b.p, Known(Program(b), b.p, i))
<1>1. b.name \in Parts /\ IsList(branch[b].got) /\ b \in DOMAIN branch
      /\ Len(branch[b].got) = Len(Program(b))
  BY DEF Asks, Complete, ReadsInv, Lists, IsBranch
<1>2. \E i \in DOMAIN Program(b) : Program(b)[i] = [do |-> q, p |-> b.p]
  BY <1>1, Programs DEF Asks
<1>3. PICK i \in DOMAIN Program(b) : Program(b)[i] = [do |-> q, p |-> b.p] /\ Read(b, q, b.p) = branch[b].got[i]
  BY <1>1, <1>2, Reading
<1>4. DOMAIN branch[b].got = 1..Len(branch[b].got)
  BY <1>1, LenProperties DEF IsList
<1>5. i \in DOMAIN branch[b].got
  BY <1>1, <1>4, Programs
<1>. QED
  BY <1>1, <1>3, <1>5 DEF ReadsInv, Current, BranchIsCurrent, Now

(* ... and what it awaited, from whatever task.                            *)
LEMMA TaskReads ==
    ASSUME ReadsInv, Calm, NEW q \in {"kpis", "trust"}, NEW b, Asks(b, q)
    PROVE  LET k == [do |-> q, p |-> b.p]
           IN  /\ Len(Read(b, q, b.p)) = Len(TaskProgram(k))
               /\ \A j \in DOMAIN TaskProgram(k) : Read(b, q, b.p)[j] = Now(TaskProgram(k), b.p, j)
<1>1. b.name \in Parts /\ IsList(branch[b].got) /\ b \in DOMAIN branch
      /\ Len(branch[b].got) = Len(Program(b))
  BY DEF Asks, Complete, ReadsInv, Lists, IsBranch
<1>2. \E i \in DOMAIN Program(b) : Program(b)[i] = [do |-> q, p |-> b.p]
  BY <1>1, Programs DEF Asks
<1>3. PICK i \in DOMAIN Program(b) : Program(b)[i] = [do |-> q, p |-> b.p] /\ Read(b, q, b.p) = branch[b].got[i]
  BY <1>1, <1>2, Reading
<1>4. DOMAIN branch[b].got = 1..Len(branch[b].got)
  BY <1>1, LenProperties DEF IsList
<1>5. i \in DOMAIN branch[b].got
  BY <1>1, <1>4, Programs
<1>6. PICK k : k = Key(b, i)
  OBVIOUS
<1>7. k \in DOMAIN task /\ Finished(k) /\ branch[b].got[i] = task[k].got
  BY <1>1, <1>3, <1>5, <1>6 DEF ReadsInv, Sharing, IsShared, Shared
<1>8. k.do = q /\ k.p = b.p
  BY <1>3, <1>6 DEF Key, PeriodOf
<1>9. TaskProgram(k) = TaskProgram([do |-> q, p |-> b.p])
  BY <1>8 DEF TaskProgram
<1>10. DOMAIN task[k].got = 1..Len(task[k].got)
  BY <1>7, LenProperties DEF ReadsInv, Lists, IsTask, IsList
<1>11. \A j \in DOMAIN TaskProgram(k) : j \in DOMAIN task[k].got
  BY <1>7, <1>8, <1>10, TaskPrograms DEF Finished
<1>12. \A j \in DOMAIN task[k].got : task[k].got[j] = Now(TaskProgram(k), k.p, j)
  BY <1>7, <1>8 DEF ReadsInv, Current, TaskIsCurrent
<1>. QED
  BY <1>3, <1>7, <1>8, <1>9, <1>11, <1>12 DEF Finished

LEMMA TrustIsNow ==
    ASSUME ReadsInv, Calm, NEW b, Asks(b, "trust")
    PROVE  TrustOf(b, b.p) = Trust(Select("selling", b.p, {}), costs, b.p)
<1>0. PICK k : k = [do |-> "trust", p |-> b.p]
  OBVIOUS
<1>1. /\ Len(TaskProgram(k)) = 2 /\ DOMAIN TaskProgram(k) = 1..2
      /\ TaskProgram(k)[1] = [do |-> "selling", p |-> b.p] /\ TaskProgram(k)[2] = [do |-> "costs", p |-> b.p]
  <2>1. k.do = "trust" /\ k.p = b.p
    BY <1>0
  <2>. QED BY <2>1, TrustProgram
<1>2. \A j \in DOMAIN TaskProgram(k) : Read(b, "trust", b.p)[j] = Now(TaskProgram(k), b.p, j)
  BY <1>0, TaskReads
<1>3. /\ Read(b, "trust", b.p)[1] = Now(TaskProgram(k), b.p, 1)
      /\ Read(b, "trust", b.p)[2] = Now(TaskProgram(k), b.p, 2)
  BY <1>1, <1>2
<1>4. \A ids, is : Select("selling", b.p, ids) = Select("selling", b.p, is) /\ Select("costs", b.p, ids) = costs
  BY DEF Select
<1>. QED
  BY <1>1, <1>3, <1>4 DEF TrustOf, Now

LEMMA KpisAreNow ==
    ASSUME ReadsInv, Calm, NEW b, Asks(b, "kpis")
    PROVE  KpisOf(b, b.p) = SellerKpis(Select("ledger", b.p, Selected(b.p)), Select("refunds", b.p, Selected(b.p)),
                                       Select("cogs", b.p, {}))
<1>0. PICK k : k = [do |-> "kpis", p |-> b.p]
  OBVIOUS
<1>1. /\ Len(TaskProgram(k)) = 4 /\ DOMAIN TaskProgram(k) = 1..4
      /\ TaskProgram(k)[1] = [do |-> "cogs", p |-> b.p] /\ TaskProgram(k)[2] = [do |-> "canon", p |-> b.p]
      /\ TaskProgram(k)[3] = [do |-> "ledger", p |-> b.p] /\ TaskProgram(k)[4] = [do |-> "refunds", p |-> b.p]
  <2>1. k.do = "kpis" /\ k.p = b.p
    BY <1>0
  <2>. QED BY <2>1, KpisProgram
<1>2. \A j \in DOMAIN TaskProgram(k) : Read(b, "kpis", b.p)[j] = Now(TaskProgram(k), b.p, j)
  BY <1>0, TaskReads
<1>3. /\ Read(b, "kpis", b.p)[1] = Now(TaskProgram(k), b.p, 1)
      /\ Read(b, "kpis", b.p)[3] = Now(TaskProgram(k), b.p, 3)
      /\ Read(b, "kpis", b.p)[4] = Now(TaskProgram(k), b.p, 4)
  BY <1>1, <1>2
<1>4. /\ Known(TaskProgram(k), b.p, 1) = {}
      /\ Known(TaskProgram(k), b.p, 3) = Selected(b.p) /\ Known(TaskProgram(k), b.p, 4) = Selected(b.p)
  <2>1. 2 \in 1..(3 - 1) /\ 2 \in 1..(4 - 1) /\ \A j : j \notin 1..(1 - 1)
    OBVIOUS
  <2>2. TaskProgram(k)[2].do = "canon"
    BY <1>1
  <2>. QED BY <2>1, <2>2, Zenon DEF Known
<1>. QED
  BY <1>1, <1>3, <1>4 DEF KpisOf, Now

LEMMA FullIsAllCosted ==
    ASSUME NEW selling, NEW priced, NEW p
    PROVE  Trust(selling, priced, p) = "full" <=> FullyCosted(selling, priced, p.to)
BY DEF Trust, FullyCosted

(* Whatever commits while a dashboard is put together, its branches agree.  *)
THEOREM OneTruth == Spec => []OneDashboardOneTruth
<1>1. Spec => []ReadsInv
  BY ReadsInit, ReadsStep, PTL DEF Spec
<1>2. ReadsInv => OneDashboardOneTruth
  <2> SUFFICES ASSUME ReadsInv, page # None, page.cached PROVE OneDashboardOneTruth
    BY DEF OneDashboardOneTruth
  <2> DEFINE Have(q) == {b \in DOMAIN branch : \E i \in DOMAIN branch[b].got : Program(b)[i].do = q
                                              /\ Len(branch[b].got) = Len(Program(b))}
  <2>1. \A q, b : b \in Have(q) => Asks(b, q)
    <3> SUFFICES ASSUME NEW q, NEW b \in Have(q) PROVE Asks(b, q)
      OBVIOUS
    <3>1. DOMAIN branch[b].got = 1..Len(branch[b].got) /\ b.name \in Parts
      BY LenProperties DEF ReadsInv, Lists, IsBranch, IsList
    <3>2. DOMAIN branch[b].got = DOMAIN Program(b)
      BY <3>1, Programs
    <3>. QED
      BY <3>2 DEF Asks, Complete
  <2>2. \A b \in Answered("revenue") \cup Answered("finance") : Asks(b, "trust") /\ Asks(b, "kpis")
    BY ProgramsAsk DEF Answered, Asks, Complete
  <2>3. \A b \in Answered("costs") : Asks(b, "selling") /\ Asks(b, "costs")
    BY ProgramsAsk DEF Answered, Asks, Complete
  <2>4. \A q \in {"trust", "kpis"} : \A b, c : Asks(b, q) /\ Asks(c, q) /\ b.p = c.p =>
          Read(b, q, b.p) = Read(c, q, c.p)
    <3>1. \A q \in {"trust", "kpis"} : q \in Shared /\ q # "fresh"
      BY DEF Shared
    <3>2. ASSUME NEW q \in {"trust", "kpis"}, NEW b, Asks(b, q)
          PROVE  Read(b, q, b.p) = task[[do |-> q, p |-> b.p, of |-> None]].got
      BY <3>1, <3>2, SharedReads
    <3>3. QED
      BY <3>2
  <2>5. \A b, c : Asks(b, "fresh") /\ Asks(c, "fresh") => Read(b, "fresh", b.p) = Read(c, "fresh", c.p)
    BY SharedReads DEF Shared
  <2>6. \A b, c \in Have("trust") : b.p = c.p => TrustOf(b, b.p) = TrustOf(c, c.p)
    BY <2>1, <2>4 DEF TrustOf
  <2>7. ASSUME NEW b \in Answered("costs"), NEW c \in Have("trust"), b.p = c.p, Calm
        PROVE  AllCosted(b) <=> TrustOf(c, c.p) = "full"
    <3>1. \A q \in {"selling", "costs"} : \E ids : Read(b, q, b.p) = Select(q, b.p, ids)
      BY <2>3, <2>7, OwnReads DEF Quiet
    <3>2. Read(b, "selling", b.p) = Select("selling", b.p, {}) /\ Read(b, "costs", b.p) = costs
      BY <3>1 DEF Select
    <3>3. TrustOf(c, c.p) = Trust(Select("selling", b.p, {}), costs, b.p)
      BY <2>1, <2>7, TrustIsNow
    <3>. QED
      BY <3>2, <3>3, FullIsAllCosted DEF AllCosted
  <2>8. \A b, c \in Have("fresh") : Read(b, "fresh", b.p) = Read(c, "fresh", c.p)
    BY <2>1, <2>5
  <2>9. \A b \in Answered("revenue"), c \in Answered("finance") :
           b.p = c.p => RevenueProfit(b, b.p) = FinanceProfit(c, c.p)
    BY <2>2, <2>4 DEF RevenueProfit, FinanceProfit, TrustOf, KpisOf
  <2> HIDE DEF Have
  <2>. QED
    BY <2>6, <2>7, <2>8, <2>9 DEF OneDashboardOneTruth, Have
<1>. QED
  BY <1>1, <1>2, PTL

-------------------------------------------------------------------------------
(***************************************************************************)
(* The selection of reports.                                               *)
(***************************************************************************)
(* Before is a strict total order of the reports with a span.              *)
LEMMA BeforeOrders ==
    ASSUME NEW q \in Spanning(Report), NEW r \in Spanning(Report), NEW s \in Spanning(Report)
    PROVE  /\ ~Before(r, r)
           /\ Before(q, r) /\ Before(r, s) => Before(q, s)
           /\ r # s => Before(r, s) \/ Before(s, r)
           /\ Before(r, s) => ~IsProperSubset(r, s)
           /\ Before(r, s) /\ Span(r) = Span(s) => Book[s].born < Book[r].born
<1>1. \A x \in {q, r, s} : x \in Report /\ Book[x].start \in Int /\ Book[x].end \in Int /\ Book[x].born \in Nat
  BY ReadsAssumption DEF Spanning
<1>2. \A x, y \in {q, r, s} : Book[x].born = Book[y].born => x = y
  BY <1>1, ReadsAssumption
<1>3. \A x, y \in {q, r, s} : Span(x) = Span(y) <=> Book[x].start = Book[y].start /\ Book[x].end = Book[y].end
  BY DEF Span
<1>4. ~Before(r, r)
  BY <1>1 DEF Before
<1>5. Before(q, r) /\ Before(r, s) => Before(q, s)
  BY <1>1, <1>3 DEF Before
<1>6. r # s => Before(r, s) \/ Before(s, r)
  BY <1>1, <1>2, <1>3 DEF Before
<1>7. Before(r, s) => ~IsProperSubset(r, s)
  BY <1>1, <1>3 DEF Before, IsProperSubset
<1>8. Before(r, s) /\ Span(r) = Span(s) => Book[s].born < Book[r].born
  BY <1>1, <1>3 DEF Before
<1>. QED
  BY <1>4, <1>5, <1>6, <1>7, <1>8

(* A report has as many before it as its place in the order says, ...       *)
Sooner(r) == {s \in Spanning(Report) : Before(s, r)}
Place(r) == Cardinality(Sooner(r)) + 1

LEMMA Places ==
    /\ IsFiniteSet(Spanning(Report)) /\ Cardinality(Spanning(Report)) \in Nat
    /\ \A r \in Spanning(Report) : Place(r) \in Ranks
    /\ \A r, s \in Spanning(Report) : Before(r, s) => Place(r) < Place(s)
<1> DEFINE R == Spanning(Report)
<1>1. IsFiniteSet(R) /\ Cardinality(R) \in Nat
  BY ReadsAssumption, FS_Subset, FS_CardinalityType DEF Spanning
<1>2. ASSUME NEW r \in R PROVE IsFiniteSet(Sooner(r)) /\ Cardinality(Sooner(r)) \in Nat /\ Place(r) \in Ranks
  <2>1. Sooner(r) \in SUBSET R /\ r \notin Sooner(r)
    BY BeforeOrders DEF Sooner
  <2>2. IsFiniteSet(Sooner(r)) /\ Cardinality(Sooner(r)) <= Cardinality(R) /\ Cardinality(Sooner(r)) # Cardinality(R)
    BY <1>1, <2>1, FS_Subset
  <2>3. Cardinality(Sooner(r)) \in Nat
    BY <2>2, FS_CardinalityType
  <2>. QED
    BY <1>1, <2>2, <2>3 DEF Place, Ranks
<1>3. ASSUME NEW r \in R, NEW s \in R, Before(r, s) PROVE Place(r) < Place(s)
  <2>1. Sooner(r) \in SUBSET Sooner(s) /\ r \in Sooner(s) /\ r \notin Sooner(r)
    BY <1>3, BeforeOrders DEF Sooner
  <2>2. Cardinality(Sooner(r)) <= Cardinality(Sooner(s)) /\ Cardinality(Sooner(r)) # Cardinality(Sooner(s))
    BY <1>2, <2>1, FS_Subset
  <2>. QED
    BY <1>2, <2>2 DEF Place
<1>. QED
  BY <1>1, <1>2, <1>3

(* ... so that they can be listed in it.                                   *)
LEMMA OrderExists ==
    /\ Ordered \in [Ranks -> Spanning(Report)]
    /\ \A i, j \in Ranks : i < j => Before(Ordered[i], Ordered[j])
    /\ \A r \in Spanning(Report) : \E i \in Ranks : Ordered[i] = r
<1> DEFINE R == Spanning(Report)
           place == [r \in R |-> Place(r)]
           N == Cardinality(R)
           IsOrder(f) == \A i, j \in Ranks : i < j => Before(f[i], f[j])
<1>0. N \in Nat /\ IsFiniteSet(R) /\ Ranks = 1..N
  BY Places DEF Ranks
<1>1. IsFiniteSet(Ranks) /\ Cardinality(Ranks) = N
  <2> HIDE DEF N
  <2>1. 1 \in Int /\ N \in Int
    BY <1>0
  <2>2. IsFiniteSet(1..N) /\ Cardinality(1..N) = IF 1 > N THEN 0 ELSE N - 1 + 1
    BY <2>1, FS_Interval
  <2>. QED
    BY <1>0, <2>2
<1>2. place \in Injection(R, Ranks)
  <2>1. \A r, s \in R : r # s => Before(r, s) \/ Before(s, r)
    BY BeforeOrders
  <2>2. \A r \in R : Place(r) \in Ranks /\ Place(r) \in Int
    BY <1>0, Places
  <2>3. \A r, s \in R : r # s => Place(r) # Place(s)
    BY <2>1, <2>2, Places
  <2>. QED
    BY <2>2, <2>3 DEF Injection, IsInjective
<1>3. place \in Surjection(R, Ranks)
  BY <1>0, <1>1, <1>2, FS_Injection
<1>4. \A i \in Ranks : \E r \in R : Place(r) = i
  BY <1>3 DEF Surjection
<1> DEFINE g == [i \in Ranks |-> CHOOSE r \in R : Place(r) = i]
<1>5. g \in [Ranks -> R] /\ \A i \in Ranks : Place(g[i]) = i
  BY <1>4
<1>6. IsOrder(g)
  <2> HIDE DEF g
  <2>1. \A i, j \in Ranks : i < j => ~(j < i) /\ i # j
    BY <1>0
  <2>2. \A i, j \in Ranks : i < j => g[i] # g[j] /\ ~Before(g[j], g[i])
    BY <1>5, <2>1, Places
  <2>. QED
    BY <1>5, <2>2, BeforeOrders
<1>7. Ordered \in [Ranks -> R] /\ IsOrder(Ordered)
  <2>1. \E f \in [Ranks -> R] : IsOrder(f)
    BY <1>5, <1>6
  <2>. QED
    BY <2>1 DEF Ordered
<1>8. Ordered \in Injection(Ranks, R)
  <2>1. \A i, j \in Ranks : i # j => i < j \/ j < i
    BY <1>0
  <2>2. \A i, j \in Ranks : i # j => Ordered[i] # Ordered[j]
    BY <1>7, <2>1, BeforeOrders
  <2>. QED
    BY <1>7, <2>2 DEF Injection, IsInjective
<1>9. Ordered \in Surjection(Ranks, R)
  BY <1>0, <1>1, <1>8, FS_Injection
<1>. QED
  BY <1>7, <1>9 DEF Surjection

(* What is kept of the first n reports of the list.                        *)
HowMany == Cardinality(Spanning(Report))
KeptOf(C, g, n) ==
    IF n = 0 THEN {} ELSE IF Ordered[n] \in C THEN Keep(g[n - 1], Ordered[n]) ELSE g[n - 1]
IsKept(C, g, n) == g = [i \in {0} \cup 1..n |-> KeptOf(C, g, i)]

LEMMA KeptExists ==
    ASSUME NEW C
    PROVE  \E g : IsKept(C, g, HowMany)
<1>0. HowMany \in Nat
  BY Places DEF HowMany
<1> DEFINE bad == {n \in 0..HowMany : ~\E g : IsKept(C, g, n)}
<1>1. SUFFICES ASSUME bad # {} PROVE FALSE
  BY <1>0
<1>2. PICK n \in bad : \A m \in bad : n <= m
  <2>1. bad \in SUBSET Nat
    OBVIOUS
  <2> HIDE DEF bad
  <2>. QED BY <1>1, <2>1, LeastExists
<1>3. CASE n = 0
  <2> DEFINE g == [i \in {0} \cup 1..n |-> {}]
  <2>1. g = [i \in {0} \cup 1..n |-> KeptOf(C, g, i)]
    BY <1>3 DEF KeptOf
  <2>. QED
    BY <1>2, <2>1 DEF IsKept
<1>4. CASE n # 0
  <2>1. n \in Nat /\ n - 1 \in 0..HowMany /\ n - 1 \notin bad
    <3>1. n \in 0..HowMany
      BY <1>2
    <3>2. n \in Nat /\ n - 1 \in 0..HowMany /\ ~(n <= n - 1)
      BY <1>0, <1>4, <3>1
    <3> HIDE DEF bad
    <3>. QED BY <1>2, <3>2
  <2>2. PICK h : IsKept(C, h, n - 1)
    BY <2>1
  <2> DEFINE g == [i \in {0} \cup 1..n |-> IF i = n THEN KeptOf(C, h, n) ELSE h[i]]
  <2>3. ASSUME NEW i \in {0} \cup 1..n PROVE g[i] = KeptOf(C, g, i)
    <3>1. CASE i = n
      <4>1. g[n - 1] = h[n - 1] /\ g[n] = KeptOf(C, h, n)
        BY <1>4, <2>1
      <4> HIDE DEF g
      <4>. QED BY <1>4, <3>1, <4>1 DEF KeptOf
    <3>2. CASE i # n
      <4>1. g[i] = h[i] /\ h[i] = KeptOf(C, h, i)
        BY <2>1, <2>2, <3>2 DEF IsKept
      <4>2. i # 0 => g[i - 1] = h[i - 1]
        BY <2>1, <3>2
      <4> HIDE DEF g
      <4>. QED BY <4>1, <4>2 DEF KeptOf
    <3>. QED BY <3>1, <3>2
  <2>4. IsKept(C, g, n)
    BY <2>3 DEF IsKept
  <2>. QED
    BY <1>2, <2>4
<1>. QED
  BY <1>3, <1>4

LEMMA Selection ==
    ASSUME NEW C
    PROVE  \E g : /\ SelectCanonical(C) = g[HowMany] /\ g[0] = {}
                  /\ \A n \in 1..HowMany : g[n] = IF Ordered[n] \in C THEN Keep(g[n - 1], Ordered[n]) ELSE g[n - 1]
<1> DEFINE g == CHOOSE g : IsKept(C, g, HowMany)
<1>1. IsKept(C, g, HowMany)
  BY KeptExists
<1>2. SelectCanonical(C) = g[HowMany]
  BY DEF SelectCanonical, IsKept, KeptOf, Ranks, HowMany
<1> HIDE DEF g
<1>3. HowMany \in Nat
  BY Places DEF HowMany
<1>4. \A n \in {0} \cup 1..HowMany : g[n] = KeptOf(C, g, n)
  BY <1>1 DEF IsKept
<1>. QED
  BY <1>2, <1>3, <1>4 DEF KeptOf

(* No report that was passed over is lost, none that is kept lies within    *)
(* another one or is an older copy.                                        *)
Covers(S, D) == \A r \in D : \E s \in S : Span(r) = Span(s) \/ IsProperSubset(r, s)
NoneMissed(S, C) == \A s \in S, r \in C : Before(r, s) => Span(r) # Span(s) /\ ~IsProperSubset(s, r)
First(n) == {Ordered[i] : i \in 1..n}

LEMMA Nested ==
    ASSUME NEW q \in Spanning(Report), NEW r \in Spanning(Report), NEW s \in Spanning(Report),
           Span(r) = Span(s) \/ IsProperSubset(r, s)
    PROVE  /\ Span(q) = Span(r) => Span(q) = Span(s) \/ IsProperSubset(q, s)
           /\ IsProperSubset(q, r) => IsProperSubset(q, s)
<1>1. \A x \in {q, r, s} : Book[x].start \in Int /\ Book[x].end \in Int
  BY ReadsAssumption DEF Spanning
<1>2. \A x, y \in {q, r, s} : Span(x) = Span(y) <=> Book[x].start = Book[y].start /\ Book[x].end = Book[y].end
  BY DEF Span
<1>. QED
  BY <1>1, <1>2 DEF IsProperSubset

LEMMA KeptIsCover ==
    ASSUME NEW C \in SUBSET Spanning(Report)
    PROVE  /\ SelectCanonical(C) \subseteq C
           /\ Covers(SelectCanonical(C), C) /\ NoneMissed(SelectCanonical(C), C)
<1>0. HowMany \in Nat /\ Ranks = 1..HowMany
  BY Places DEF HowMany, Ranks
<1>1. PICK g : /\ SelectCanonical(C) = g[HowMany] /\ g[0] = {}
               /\ \A n \in 1..HowMany : g[n] = IF Ordered[n] \in C THEN Keep(g[n - 1], Ordered[n]) ELSE g[n - 1]
  BY Selection
<1> DEFINE IsGood(n) == g[n] \subseteq C \cap First(n) /\ Covers(g[n], C \cap First(n)) /\ NoneMissed(g[n], C)
           bad == {n \in 0..HowMany : ~IsGood(n)}
<1>2. bad = {}
  <2> SUFFICES ASSUME bad # {} PROVE FALSE
    OBVIOUS
  <2>1. PICK n \in bad : \A m \in bad : n <= m
    <3>1. bad \in SUBSET Nat
      OBVIOUS
    <3> HIDE DEF bad
    <3>. QED BY <3>1, LeastExists
  <2>2. n # 0
    <3>1. First(0) = {}
      BY DEF First
    <3>. QED BY <1>1, <2>1, <3>1 DEF Covers, NoneMissed
  <2>3. n \in 1..HowMany /\ n \in Ranks /\ IsGood(n - 1)
    <3>1. n \in 0..HowMany
      BY <2>1
    <3>2. n \in 1..HowMany /\ n - 1 \in 0..HowMany /\ ~(n <= n - 1)
      BY <1>0, <2>2, <3>1
    <3>3. n - 1 \notin bad
      <4> HIDE DEF bad
      <4>. QED BY <2>1, <3>2
    <3> HIDE DEF IsGood
    <3>. QED BY <1>0, <3>2, <3>3
  <2>4. First(n) = First(n - 1) \cup {Ordered[n]}
    BY <2>3 DEF First
  <2>5. First(n) \subseteq Spanning(Report)
    BY <1>0, <2>3, OrderExists DEF First
  <2>6. IsGood(n)
    <3>1. CASE Ordered[n] \notin C
      BY <1>1, <2>3, <2>4, <3>1
    <3>2. CASE Ordered[n] \in C /\ \E k \in g[n - 1] : Span(Ordered[n]) = Span(k) \/ IsProperSubset(Ordered[n], k)
      <4>1. g[n] = g[n - 1]
        BY <1>1, <2>3, <3>2 DEF Keep
      <4>. QED
        BY <2>3, <2>4, <3>2, <4>1 DEF Covers
    <3>3. CASE Ordered[n] \in C /\ ~\E k \in g[n - 1] : Span(Ordered[n]) = Span(k) \/ IsProperSubset(Ordered[n], k)
      <4>1. g[n] = g[n - 1] \cup {Ordered[n]}
        BY <1>1, <2>3, <3>3 DEF Keep
      <4>2. Covers(g[n], C \cap First(n))
        BY <2>3, <2>4, <4>1 DEF Covers
      <4>3. \A r \in C : Before(r, Ordered[n]) => r \in First(n - 1)
        <5> SUFFICES ASSUME NEW r \in C, Before(r, Ordered[n]) PROVE r \in First(n - 1)
          OBVIOUS
        <5>1. PICK i \in Ranks : Ordered[i] = r
          BY OrderExists
        <5>2. Ordered[n] \in Spanning(Report) /\ r \in Spanning(Report)
          BY <2>3, OrderExists
        <5>3. ~(n < i) /\ n # i
          BY <2>3, <5>1, <5>2, OrderExists, BeforeOrders
        <5>4. i \in 1..(n - 1)
          BY <1>0, <2>3, <5>3
        <5>. QED BY <5>1, <5>4 DEF First
      <4>4. \A r \in C : Before(r, Ordered[n]) => Span(r) # Span(Ordered[n]) /\ ~IsProperSubset(Ordered[n], r)
        <5> SUFFICES ASSUME NEW r \in C, Before(r, Ordered[n])
                     PROVE  Span(r) # Span(Ordered[n]) /\ ~IsProperSubset(Ordered[n], r)
          OBVIOUS
        <5>1. PICK s \in g[n - 1] : Span(r) = Span(s) \/ IsProperSubset(r, s)
          BY <2>3, <4>3 DEF Covers
        <5>2. Ordered[n] \in Spanning(Report) /\ r \in Spanning(Report) /\ s \in Spanning(Report)
          BY <2>3, OrderExists
        <5>. QED BY <3>3, <5>1, <5>2, Nested
      <4>5. NoneMissed(g[n], C)
        BY <2>3, <4>1, <4>4 DEF NoneMissed
      <4>. QED
        BY <2>3, <2>4, <3>3, <4>1, <4>2, <4>5
    <3>. QED BY <3>1, <3>2, <3>3
  <2>. QED BY <2>1, <2>6
<1>3. IsGood(HowMany)
  <2>1. HowMany \in 0..HowMany
    BY <1>0
  <2> HIDE DEF IsGood
  <2>. QED BY <1>2, <2>1
<1>4. C \subseteq First(HowMany)
  BY <1>0, OrderExists DEF First
<1>. QED
  BY <1>1, <1>3, <1>4 DEF Covers

(***************************************************************************)
(* The tables.                                                             *)
(***************************************************************************)
Stored == done \subseteq loaded /\ loaded \subseteq Report

LEMMA StoredInvariance == Spec => []Stored
<1>1. Init => Stored
  BY ReadsAssumption DEF Init, Stored
<1>2. Stored /\ [Next]_vars => Stored'
  <2> SUFFICES ASSUME Stored, [Next]_vars PROVE Stored'
    OBVIOUS
  <2>1. CASE \E r \in Report : Load(r) \/ Finish(r) \/ Delete(r)
    BY <2>1 DEF Stored, Load, Finish, Delete
  <2>2. CASE EditCosts \/ Refresh
    BY <2>2 DEF Stored, EditCosts, Refresh
  <2>3. CASE (\E pg \in Pages : Ask(pg)) \/ Progress \/ Fail \/ UNCHANGED vars
    BY <2>3 DEF Stored, Ask, Progress, Connect, SelectOwn, StartTask, Await, RunTask, Fail, vars, store
  <2>. QED
    BY <2>1, <2>2, <2>3 DEF Next
<1>. QED
  BY <1>1, <1>2, PTL DEF Spec

(* For any reports whatever their spans: those whose ledgers make up the    *)
(* KPIs cover all candidates, and none of them counts twice.               *)
THEOREM SelectionCovers == Spec => []SelectionIsCover
<1>1. Stored => SelectionIsCover
  <2> SUFFICES ASSUME Stored, NEW p \in Periods
               PROVE  LET C == Candidates(p)
                          S == SelectCanonical(C)
                      IN  /\ S \subseteq C
                          /\ \A r \in C : \E s \in S : Span(r) = Span(s) \/ IsProperSubset(r, s)
                          /\ \A s \in S, r \in C : ~IsProperSubset(s, r)
                          /\ \A s \in S, r \in C : Span(r) = Span(s) => Book[r].born <= Book[s].born
    BY DEF SelectionIsCover
  <2> DEFINE C == Candidates(p)
             S == SelectCanonical(C)
  <2>1. C \in SUBSET Spanning(Report)
    BY DEF Stored, Candidates, Overlapping, Spanning
  <2>2. S \subseteq C /\ Covers(S, C) /\ NoneMissed(S, C)
    BY <2>1, KeptIsCover
  <2> HIDE DEF C, S
  <2>3. ASSUME NEW s \in S, NEW r \in C
        PROVE  ~IsProperSubset(s, r) /\ (Span(r) = Span(s) => Book[r].born <= Book[s].born)
    <3>1. s \in Spanning(Report) /\ r \in Spanning(Report) /\ Book[r].born \in Nat /\ Book[s].born \in Nat
      BY <2>1, <2>2, ReadsAssumption DEF Spanning
    <3>2. CASE Before(r, s)
      BY <2>2, <3>2 DEF NoneMissed
    <3>3. CASE Before(s, r)
      BY <3>1, <3>3, BeforeOrders
    <3>4. CASE r = s
      BY <3>1, <3>4, BeforeOrders DEF IsProperSubset
    <3>. QED
      BY <3>1, <3>2, <3>3, <3>4, BeforeOrders
  <2>. QED
    BY <2>2, <2>3 DEF Covers, C, S
<1>. QED
  BY <1>1, StoredInvariance, PTL

(***************************************************************************)
(* The ledger of some reports.                                             *)
(***************************************************************************)
LEMMA LedgersAreDrafts ==
    ASSUME NEW R \in SUBSET Report
    PROVE  /\ AreDrafts(Ledger(R)) /\ \A e \in Ledger(R) : e.day \in Int
           /\ IsFiniteSet(Returns(R)) /\ \A n \in Returns(R) : n.day \in Int /\ n.amount \in Int
<1>1. IsFiniteSet(R) /\ \A r \in R : IsBook(Book[r])
  BY FS_Subset, ReadsAssumption
<1>2. IsFiniteSet(Ledger(R))
  <2> DEFINE T == {Book[r].entries : r \in R}
             f == [r \in R |-> Book[r].entries]
  <2>1. f \in Surjection(R, T)
    BY DEF Surjection
  <2>2. \A t \in T : IsFiniteSet(t)
    BY <1>1 DEF IsBook, AreDrafts, AreEntries
  <2>3. Ledger(R) = UNION T
    BY DEF Ledger
  <2> HIDE DEF T, f
  <2>. QED BY <1>1, <2>1, <2>2, <2>3, FS_Surjection, FS_UNION
<1>3. IsFiniteSet(Returns(R))
  <2> DEFINE T == {Book[r].refunds : r \in R}
             f == [r \in R |-> Book[r].refunds]
  <2>1. f \in Surjection(R, T)
    BY DEF Surjection
  <2>2. \A t \in T : IsFiniteSet(t)
    BY <1>1 DEF IsBook
  <2>3. Returns(R) = UNION T
    BY DEF Returns
  <2> HIDE DEF T, f
  <2>. QED BY <1>1, <2>1, <2>2, <2>3, FS_Surjection, FS_UNION
<1>4. \A e \in Ledger(R) : IsEntry(e) /\ Quantity(e) = 1 /\ e.day \in Int
  BY <1>1 DEF Ledger, IsBook, AreDrafts, AreEntries
<1>5. \A n \in Returns(R) : n.day \in Int /\ n.amount \in Int
  BY <1>1 DEF Returns, IsBook
<1>. QED
  BY <1>2, <1>3, <1>4, <1>5 DEF AreDrafts, AreEntries

(***************************************************************************)
(* The tables: what each day was drawn from.                               *)
(***************************************************************************)
DaysAreDrawn ==
    /\ costs \in CostTables
    /\ \A d \in DOMAIN drawn :
          /\ drawn[d].costs \in CostTables /\ drawn[d].from \subseteq Report /\ drawn[d].from # {}
          /\ \A r \in drawn[d].from : d \in Days(Book[r].entries)
DoneIsDrawn ==
    \A r \in done : \A d \in Days(Book[r].entries) : d \in DOMAIN drawn /\ r \in drawn[d].from
CostsAreDrawn ==
    ~owed => \A d \in DOMAIN drawn : drawn[d].from \subseteq done => drawn[d].costs = costs
TablesInv == Stored /\ DaysAreDrawn /\ DoneIsDrawn /\ CostsAreDrawn

LEMMA LedgerDays ==
    ASSUME NEW R, NEW d
    PROVE  d \in Days(Ledger(R)) <=> \E r \in R : d \in Days(Book[r].entries)
BY DEF Days, Ledger

(* A redraw of the days D from all that is loaded.                         *)
LEMMA RedrawnDays ==
    ASSUME NEW D, NEW W, W = Redrawn(D, loaded, costs)
    PROVE  /\ \A d \in DOMAIN W : d \notin D => d \in DOMAIN drawn /\ W[d] = drawn[d]
           /\ \A d \in DOMAIN W : d \in D =>
                 /\ d \in Days(Ledger(loaded)) /\ W[d].costs = costs
                 /\ \A r : r \in W[d].from <=> r \in loaded /\ d \in Days(Book[r].entries)
           /\ \A d \in D : d \in Days(Ledger(loaded)) => d \in DOMAIN W
           /\ \A d \in DOMAIN drawn : d \notin D => d \in DOMAIN W
BY DEF Redrawn

LEMMA RedrawKeepsDays ==
    ASSUME TablesInv, NEW D, drawn' = Redrawn(D, loaded, costs), costs' = costs
    PROVE  DaysAreDrawn'
<1>1. /\ \A d \in DOMAIN drawn' : d \notin D => d \in DOMAIN drawn /\ drawn'[d] = drawn[d]
      /\ \A d \in DOMAIN drawn' : d \in D =>
            /\ d \in Days(Ledger(loaded)) /\ drawn'[d].costs = costs
            /\ \A r : r \in drawn'[d].from <=> r \in loaded /\ d \in Days(Book[r].entries)
  BY RedrawnDays
<1>2. ASSUME NEW d \in DOMAIN drawn'
      PROVE  /\ drawn'[d].costs \in CostTables /\ drawn'[d].from \subseteq Report /\ drawn'[d].from # {}
             /\ \A r \in drawn'[d].from : d \in Days(Book[r].entries)
  <2>1. CASE d \notin D
    BY <1>1, <2>1 DEF TablesInv, DaysAreDrawn
  <2>2. CASE d \in D
    <3>1. \E r \in loaded : d \in Days(Book[r].entries)
      BY <1>1, <2>2, LedgerDays
    <3>. QED BY <1>1, <2>2, <3>1 DEF TablesInv, DaysAreDrawn, Stored
  <2>. QED BY <2>1, <2>2
<1>. QED
  BY <1>2 DEF TablesInv, DaysAreDrawn

LEMMA RedrawKeepsDone ==
    ASSUME TablesInv, NEW D, drawn' = Redrawn(D, loaded, costs), done' \subseteq loaded,
           \A r \in done' \ done : \A d \in Days(Book[r].entries) : d \in D
    PROVE  DoneIsDrawn'
<1> SUFFICES ASSUME NEW r \in done', NEW d \in Days(Book[r].entries)
             PROVE  d \in DOMAIN drawn' /\ r \in drawn'[d].from
  BY DEF DoneIsDrawn
<1>1. /\ \A e \in DOMAIN drawn' : e \notin D => e \in DOMAIN drawn /\ drawn'[e] = drawn[e]
      /\ \A e \in DOMAIN drawn' : e \in D =>
            \A s : s \in drawn'[e].from <=> s \in loaded /\ e \in Days(Book[s].entries)
      /\ \A e \in D : e \in Days(Ledger(loaded)) => e \in DOMAIN drawn'
      /\ \A e \in DOMAIN drawn : e \notin D => e \in DOMAIN drawn'
  BY RedrawnDays
<1>2. d \in Days(Ledger(loaded))
  BY LedgerDays
<1>3. CASE d \in D
  BY <1>1, <1>2, <1>3
<1>4. CASE d \notin D
  BY <1>1, <1>4 DEF TablesInv, DoneIsDrawn
<1>. QED BY <1>3, <1>4

LEMMA RedrawKeepsCosts ==
    ASSUME TablesInv, NEW D, drawn' = Redrawn(D, loaded, costs), costs' = costs,
           \A d \in DOMAIN drawn : ~owed' /\ d \notin D /\ drawn[d].from \subseteq done' =>
                ~owed /\ drawn[d].from \subseteq done
    PROVE  CostsAreDrawn'
<1> SUFFICES ASSUME ~owed', NEW d \in DOMAIN drawn', drawn'[d].from \subseteq done' PROVE drawn'[d].costs = costs
  BY DEF CostsAreDrawn
<1>1. /\ \A e \in DOMAIN drawn' : e \notin D => e \in DOMAIN drawn /\ drawn'[e] = drawn[e]
      /\ \A e \in DOMAIN drawn' : e \in D => drawn'[e].costs = costs
  BY RedrawnDays
<1>. QED
  BY <1>1 DEF TablesInv, CostsAreDrawn

LEMMA TablesInit == Init => TablesInv
<1> SUFFICES ASSUME Init PROVE TablesInv
  OBVIOUS
<1>1. done = loaded /\ loaded \subseteq Report /\ costs \in CostTables
  BY ReadsAssumption DEF Init
<1>2. /\ \A d : d \in DOMAIN drawn <=> \E r \in loaded : d \in Days(Book[r].entries)
      /\ \A d \in DOMAIN drawn :
            drawn[d].costs = costs /\ \A r : r \in drawn[d].from <=> r \in loaded /\ d \in Days(Book[r].entries)
  BY LedgerDays DEF Init
<1>. QED
  BY <1>1, <1>2 DEF TablesInv, Stored, DaysAreDrawn, DoneIsDrawn, CostsAreDrawn

LEMMA TablesStep == TablesInv /\ [Next]_vars => TablesInv'
<1> SUFFICES ASSUME TablesInv, [Next]_vars PROVE TablesInv'
  OBVIOUS
<1>1. ASSUME NEW r \in Report, Load(r) PROVE TablesInv'
  BY <1>1 DEF Load, TablesInv, Stored, DaysAreDrawn, DoneIsDrawn, CostsAreDrawn
<1>2. ASSUME NEW r \in Report, Finish(r) PROVE TablesInv'
  <2>1. /\ r \in loaded /\ done' = done \cup {r} /\ drawn' = Redrawn(Days(Book[r].entries), loaded, costs)
        /\ loaded' = loaded /\ costs' = costs /\ owed' = owed
    BY <1>2 DEF Finish
  <2>2. Stored' /\ done' \subseteq loaded
    BY <2>1 DEF TablesInv, Stored
  <2>3. DaysAreDrawn'
    BY <2>1, RedrawKeepsDays
  <2>4. DoneIsDrawn'
    BY <2>1, <2>2, RedrawKeepsDone
  <2>5. \A d \in DOMAIN drawn : d \notin Days(Book[r].entries) => r \notin drawn[d].from
    BY DEF TablesInv, DaysAreDrawn
  <2>6. CostsAreDrawn'
    BY <2>1, <2>5, RedrawKeepsCosts
  <2>. QED
    BY <2>2, <2>3, <2>4, <2>6 DEF TablesInv
<1>3. ASSUME NEW r \in Report, Delete(r) PROVE TablesInv'
  <2>1. /\ done' = done \ {r} /\ drawn' = Redrawn(Days(Book[r].entries), loaded, costs)
        /\ loaded' = loaded \ {r} /\ costs' = costs /\ owed' = owed
    BY <1>3 DEF Delete
  <2>2. Stored' /\ done' \subseteq loaded /\ done' \subseteq done
    BY <2>1 DEF TablesInv, Stored
  <2>3. DaysAreDrawn'
    BY <2>1, RedrawKeepsDays
  <2>4. DoneIsDrawn'
    BY <2>1, <2>2, RedrawKeepsDone
  <2>5. CostsAreDrawn'
    BY <2>1, <2>2, RedrawKeepsCosts
  <2>. QED
    BY <2>2, <2>3, <2>4, <2>5 DEF TablesInv
<1>4. CASE EditCosts
  BY <1>4 DEF EditCosts, TablesInv, Stored, DaysAreDrawn, DoneIsDrawn, CostsAreDrawn
<1>5. CASE Refresh
  <2>1. /\ drawn' = Redrawn(Days(Ledger(loaded)), loaded, costs)
        /\ loaded' = loaded /\ done' = done /\ costs' = costs /\ owed' = FALSE
    BY <1>5 DEF Refresh
  <2>2. Stored' /\ done' \subseteq loaded
    BY <2>1 DEF TablesInv, Stored
  <2>3. DaysAreDrawn'
    BY <2>1, RedrawKeepsDays
  <2>4. DoneIsDrawn'
    BY <2>1, <2>2, RedrawKeepsDone
  <2>5. \A d \in DOMAIN drawn : drawn[d].from \subseteq done => d \in Days(Ledger(loaded))
    BY LedgerDays DEF TablesInv, DaysAreDrawn, Stored
  <2>6. CostsAreDrawn'
    BY <2>1, <2>5, RedrawKeepsCosts
  <2>. QED
    BY <2>2, <2>3, <2>4, <2>6 DEF TablesInv
<1>6. CASE (\E pg \in Pages : Ask(pg)) \/ Progress \/ Fail \/ UNCHANGED vars
  <2>1. UNCHANGED store
    BY <1>6 DEF Ask, Progress, Connect, SelectOwn, StartTask, Await, RunTask, Fail, vars
  <2>. QED
    BY <2>1 DEF store, TablesInv, Stored, DaysAreDrawn, DoneIsDrawn, CostsAreDrawn
<1>. QED
  BY <1>1, <1>2, <1>3, <1>4, <1>5, <1>6 DEF Next

LEMMA TablesInvariance == Spec => []TablesInv
BY TablesInit, TablesStep, PTL DEF Spec

(* A charge never adds.                                                    *)
LEMMA ChargesBelow ==
    ASSUME NEW E, AreEntries(E), NEW op, op \notin {"sale", "payout", "compensation"}
    PROVE  Total(E, {op}) \in Int /\ Total(E, {op}) <= 0
<1> DEFINE S == {e \in E : e.op \in {op}}
<1>1. Total(E, {op}) = Sum(AmountsIn(E), S) /\ Total(E, {op}) \in Int
  BY TotalIs
<1>2. IsFiniteSet(S) /\ \A e \in S : AmountsIn(E)[e] \in Int /\ AmountsIn(E)[e] <= 0
  BY FS_Subset DEF AreEntries, IsEntry, AmountsIn
<1> HIDE DEF S
<1>. QED
  BY <1>1, <1>2, SumBelow

(* compute_seller_kpis and expected_payout take the charges' magnitudes.    *)
Payable == {"payout", "logistics", "storage_fee", "deduction"}

LEMMA KpisProfit ==
    ASSUME NEW E, AreEntries(E), NEW R \in Int, NEW G \in Int
    PROVE  SellerKpis(Amounts(E), R, G).profit = Total(E, Payable) - R - G
<1>1. \A op \in {"logistics", "storage_fee", "deduction"} :
         Total(E, {op}) \in Int /\ Total(E, {op}) <= 0 /\ Abs(Total(E, {op})) = -Total(E, {op})
  <2> SUFFICES ASSUME NEW op \in {"logistics", "storage_fee", "deduction"}
               PROVE  Total(E, {op}) \in Int /\ Total(E, {op}) <= 0 /\ Abs(Total(E, {op})) = -Total(E, {op})
    OBVIOUS
  <2>1. op \notin {"sale", "payout", "compensation"}
    OBVIOUS
  <2>2. Total(E, {op}) \in Int /\ Total(E, {op}) <= 0
    BY <2>1, ChargesBelow
  <2>. QED BY <2>2 DEF Abs
<1>2. Total(E, {"payout"}) \in Int
  BY TotalIs
<1> DEFINE A == {"payout"}
           B == A \cup {"logistics"}
           C == B \cup {"storage_fee"}
<1>3. Total(E, B) = Total(E, A) + Total(E, {"logistics"})
  BY TotalOfOps
<1>4. Total(E, C) = Total(E, B) + Total(E, {"storage_fee"})
  BY TotalOfOps
<1>5. Total(E, C \cup {"deduction"}) = Total(E, C) + Total(E, {"deduction"})
  BY TotalOfOps
<1>6. Payable = C \cup {"deduction"}
  BY DEF Payable
<1>7. SellerKpis(Amounts(E), R, G).profit =
        Total(E, A) - R - Abs(Total(E, {"logistics"})) - Abs(Total(E, {"storage_fee"}))
            - Abs(Total(E, {"deduction"})) - G
  BY DEF SellerKpis, Amounts, Ops
<1> HIDE DEF A, B, C
<1>. QED
  BY <1>1, <1>2, <1>3, <1>4, <1>5, <1>6, <1>7 DEF A

Deducted == Ops \ {"sale", "compensation", "payout"}

LEMMA MagnitudesSum ==
    ASSUME NEW a, NEW S
    PROVE  MapThenSumSet(LAMBDA op : Abs(a[op]), S) = Sum([op \in S |-> Abs(a[op])], S)
<1> DEFINE w == [op \in S |-> Abs(a[op])]
           A(g) == [s \in SUBSET S |-> IF s = {} THEN 0
                      ELSE Abs(a[CHOOSE x \in s : TRUE]) + g[s \ {CHOOSE x \in s : TRUE}]]
           B(g) == [s \in SUBSET S |-> IF s = {} THEN 0
                      ELSE w[CHOOSE x \in s : TRUE] + g[s \ {CHOOSE x \in s : TRUE}]]
<1>1. ASSUME NEW g PROVE A(g) = B(g)
  OBVIOUS
<1>2. MapThenSumSet(LAMBDA op : Abs(a[op]), S) = (CHOOSE g : g = A(g))[S]
  BY DEF MapThenSumSet, MapThenFoldSet
<1>3. Sum(w, S) = (CHOOSE g : g = B(g))[S]
  BY DEF Sum, MapThenSumSet, MapThenFoldSet
<1>4. (CHOOSE g : g = A(g)) = (CHOOSE g : g = B(g))
  <2> HIDE DEF A, B
  <2>. QED BY <1>1
<1>. QED
  BY <1>2, <1>3, <1>4

LEMMA PayoutIsNet ==
    ASSUME NEW E, AreEntries(E)
    PROVE  ExpectedPayout(Amounts(E)) = NetAmount(E)
<1> DEFINE v == [op \in Deducted |-> Abs(Amounts(E)[op])]
           h == [op \in Deducted |-> Total(E, {op})]
           S == {e \in E : e.op \in Deducted}
           g == [e \in S |-> e.op]
           G == [op \in Deducted |-> {e \in E : e.op \in {op}}]
           w == AmountsIn(E)
<1>1. IsFiniteSet(Deducted)
  BY NamesFinite, FS_Subset DEF Deducted
<1>2. \A op \in Deducted : v[op] = -1 * h[op] /\ h[op] \in Int /\ h[op] = Sum(w, G[op])
  <2> SUFFICES ASSUME NEW op \in Deducted PROVE v[op] = -1 * h[op] /\ h[op] \in Int /\ h[op] = Sum(w, G[op])
    OBVIOUS
  <2>1. op \in Ops /\ op \notin {"sale", "payout", "compensation"}
    BY DEF Deducted
  <2>2. Total(E, {op}) \in Int /\ Total(E, {op}) <= 0
    BY <2>1, ChargesBelow
  <2>3. Total(E, {op}) = Sum(w, G[op])
    BY TotalIs
  <2>4. Amounts(E)[op] = Total(E, {op})
    BY <2>1 DEF Amounts
  <2> HIDE DEF w, G
  <2>. QED BY <2>2, <2>3, <2>4 DEF Abs
<1>3. /\ IsParted(S, g, Deducted, G) /\ IsFiniteSet(S) /\ \A e \in S : w[e] \in Int
  <2>1. IsParted(S, g, Deducted, G)
    BY DEF IsParted
  <2>2. IsFiniteSet(S) /\ \A e \in S : w[e] \in Int
    BY FS_Subset DEF AreEntries, IsEntry, AmountsIn
  <2>. QED BY <2>1, <2>2
<1>4. Total(E, Deducted) = Sum(w, S) /\ \A ops : Total(E, ops) \in Int
  BY TotalIs
<1>5. ExpectedPayout(Amounts(E)) = Total(E, {"sale"}) + Total(E, {"compensation"}) - Sum(v, Deducted)
  <2>1. MapThenSumSet(LAMBDA op : Abs(Amounts(E)[op]), Deducted) = Sum(v, Deducted)
    BY MagnitudesSum
  <2>2. Amounts(E)["sale"] = Total(E, {"sale"}) /\ Amounts(E)["compensation"] = Total(E, {"compensation"})
    BY DEF Amounts, Ops
  <2> HIDE DEF v
  <2>. QED BY <2>1, <2>2 DEF ExpectedPayout, Deducted
<1> HIDE DEF v, h, S, g, G, w
<1>6. Sum(h, Deducted) = Sum(w, S)
  <2>1. \A op \in Deducted : h[op] = Sum(w, G[op])
    BY <1>2
  <2>. QED BY <1>1, <1>3, <2>1, SumParts
<1>7. Sum(v, Deducted) = -Sum(h, Deducted) /\ Sum(h, Deducted) \in Int
  <2>1. PICK c \in Int : c = -1
    OBVIOUS
  <2>2. \A op \in Deducted : h[op] \in Int /\ v[op] = c * h[op]
    BY <1>2, <2>1
  <2>3. Sum(v, Deducted) = c * Sum(h, Deducted)
    BY <1>1, <2>2, SumScale
  <2>4. Sum(h, Deducted) \in Int
    BY <1>1, <2>2, SumType
  <2>. QED BY <2>1, <2>3, <2>4
<1> DEFINE A == {"sale"} \cup {"compensation"}
<1>8. Total(E, A) = Total(E, {"sale"}) + Total(E, {"compensation"})
  BY TotalOfOps
<1>9. Total(E, A \cup Deducted) = Total(E, A) + Total(E, Deducted)
  <2>1. A \cap Deducted = {}
    BY DEF Deducted
  <2>. QED BY <2>1, TotalOfOps
<1>10. Ops \ {"payout"} = A \cup Deducted
  BY DEF Ops, Deducted
<1>11. NetAmount(E) = Total(E, A \cup Deducted)
  BY <1>10 DEF NetAmount
<1> HIDE DEF A
<1>. QED
  BY <1>4, <1>5, <1>6, <1>7, <1>8, <1>9, <1>11

(* The costs of what a set sold.                                           *)
LEMMA SoldGoods ==
    ASSUME NEW F, AreDrafts(F), NEW T, IsCosts(T), NEW E \in SUBSET F
    PROVE  Cogs(Sold(E), T) = Sum(GoodsOf(F, T), E)
<1> DEFINE S == Sold(E)
           w == GoodsOf(F, T)
<1>1. S \in SUBSET E /\ S \in SUBSET F
  BY DEF Sold
<1>2. Cogs(S, T) = Sum(w, S) /\ \A e \in F : w[e] \in Int
  BY <1>1, Weighed
<1>3. \A e \in E : w[e] = IF e \in S THEN w[e] ELSE 0
  BY DEF AreDrafts, AreEntries, IsEntry, Sold, GoodsOf
<1>4. IsFiniteSet(E)
  BY FS_Subset DEF AreDrafts, AreEntries
<1> HIDE DEF S, w
<1>5. \A e \in S : w[e] \in Int
  BY <1>1, <1>2
<1>6. Sum(w, E) = Sum(w, S)
  BY <1>1, <1>3, <1>4, <1>5, SumWithin
<1>. QED
  BY <1>2, <1>6 DEF S, w

(* The profits of a day's SKUs and the costs of its goods make up the net     *)
(* amount of the entries that have a SKU.                                  *)
LEMMA DayAddsUp ==
    ASSUME NEW F, AreDrafts(F), NEW T, IsCosts(T), NEW day, \A e \in F : e.day = day, NEW P,
           \A s \in Skus(F) : P[s] = UnitEconomics({e \in F : e.sku = s}, T, s, day).profit
    PROVE  /\ Sum(P, Skus(F)) = Sum(NetOf(F), {e \in F : e.sku # None}) - Cogs(Sold(F), T)
           /\ Sum(P, Skus(F)) \in Int /\ Cogs(Sold(F), T) \in Int
<1> DEFINE own == {e \in F : e.sku # None}
           rest == {e \in F : e.sku = None}
           N == NetOf(F)
           C == GoodsOf(F, T)
           W == [e \in F |-> N[e] - C[e]]
           g == [e \in own |-> e.sku]
           G == [s \in Skus(F) |-> {e \in F : e.sku = s}]
<1>1. /\ \A e \in F : N[e] \in Int /\ C[e] \in Int /\ W[e] = N[e] - C[e] /\ W[e] \in Int
      /\ IsFiniteSet(F)
  <2>1. \A e \in F : N[e] \in Int /\ C[e] \in Int
    BY Weighed
  <2>2. IsFiniteSet(F)
    BY DEF AreDrafts, AreEntries
  <2> HIDE DEF N, C
  <2>. QED BY <2>1, <2>2
<1>2. ASSUME NEW s \in Skus(F) PROVE P[s] = Sum(W, G[s])
  <2> DEFINE E == {e \in F : e.sku = s}
  <2>1. E \in SUBSET F /\ s # None /\ \A e \in E : e.sku = s /\ e.day = day
    BY DEF Skus
  <2>2. AreDrafts(E) /\ NetAmount(E) = Sum(N, E) /\ Cogs(E, T) = Sum(C, E)
    BY <2>1, Weighed
  <2>3. IsFiniteSet(E) /\ \A e \in E : N[e] \in Int /\ C[e] \in Int /\ W[e] = N[e] - C[e]
    BY <1>1, <2>1, FS_Subset
  <2>4. P[s] = UnitEconomics(E, T, s, day).profit /\ G[s] = E
    OBVIOUS
  <2> HIDE DEF E, N, C, W, G
  <2>5. UnitEconomics(E, T, s, day) = Profit(E, T)
    BY <2>1, <2>2, EconomicsIsProfit
  <2>6. Sum(W, E) = Sum(N, E) - Sum(C, E)
    BY <2>3, SumMinus
  <2>. QED
    BY <2>2, <2>4, <2>5, <2>6 DEF Profit
<1>3. own \cup rest = F /\ own \cap rest = {} /\ own \in SUBSET F /\ rest \in SUBSET F
  OBVIOUS
<1>4. \A e \in rest : C[e] = 0
  BY DEF GoodsOf
<1>5. IsGrouped(own, g, Skus(F), G)
  BY DEF IsGrouped, Skus
<1>6. Cogs(Sold(F), T) = Sum(C, F)
  BY SoldGoods
<1> HIDE DEF own, rest, N, C, W, g, G
<1>7. IsFiniteSet(own) /\ IsFiniteSet(rest)
  BY <1>1, <1>3, FS_Subset
<1>8. /\ \A e \in own : N[e] \in Int /\ C[e] \in Int /\ W[e] = N[e] - C[e] /\ W[e] \in Int
      /\ \A e \in own \cup rest : C[e] \in Int
  BY <1>1, <1>3
<1>9. Sum(P, Skus(F)) = Sum(W, own)
  BY <1>2, <1>5, <1>7, <1>8, SumGroups
<1>10. Sum(W, own) = Sum(N, own) - Sum(C, own)
  BY <1>7, <1>8, SumMinus
<1>11. Sum(C, F) = Sum(C, own) + Sum(C, rest)
  <2>1. Sum(C, own \cup rest) = Sum(C, own) + Sum(C, rest)
    BY <1>3, <1>7, <1>8, SumSplit
  <2>. QED BY <1>3, <2>1
<1>12. Sum(C, rest) = 0
  BY <1>4, <1>7, SumZero
<1>13. Sum(C, own) \in Int /\ Sum(N, own) \in Int
  BY <1>7, <1>8, SumType
<1>14. Sum(P, Skus(F)) = Sum(N, own) - Cogs(Sold(F), T) /\ Sum(P, Skus(F)) \in Int /\ Cogs(Sold(F), T) \in Int
  BY <1>6, <1>9, <1>10, <1>11, <1>12, <1>13
<1>. QED
  BY <1>14 DEF own, N

(* Sums over entries, payouts and goods, day by day.                       *)
LEMMA TotalByDay ==
    ASSUME NEW E, AreEntries(E), NEW K, IsFiniteSet(K), \A e \in E : e.day \in K, NEW ops, NEW a,
           \A d \in K : a[d] = Total({e \in E : e.day = d}, ops)
    PROVE  Sum(a, K) = Total(E, ops) /\ \A d \in K : a[d] \in Int
<1> DEFINE S == {e \in E : e.op \in ops}
           On(d) == {e \in E : e.day = d}
           g == [e \in S |-> e.day]
           G == [d \in K |-> {e \in S : e.day = d}]
           w == AmountsIn(E)
<1>1. IsFiniteSet(E) /\ IsFiniteSet(S) /\ \A e \in S : w[e] \in Int
  BY FS_Subset DEF AreEntries, IsEntry, AmountsIn
<1>2. ASSUME NEW d \in K PROVE a[d] = Sum(w, G[d]) /\ a[d] \in Int
  <2>1. AreEntries(On(d))
    BY FS_Subset DEF AreEntries
  <2>2. Total(On(d), ops) = Sum(AmountsIn(On(d)), {e \in On(d) : e.op \in ops}) /\ Total(On(d), ops) \in Int
    BY <2>1, TotalIs
  <2>3. {e \in On(d) : e.op \in ops} = G[d] /\ G[d] \in SUBSET S
    OBVIOUS
  <2>4. \A e \in G[d] : AmountsIn(On(d))[e] = w[e]
    BY DEF AmountsIn
  <2>5. a[d] = Total(On(d), ops)
    OBVIOUS
  <2> HIDE DEF On, G, w, S
  <2>6. IsFiniteSet(G[d]) /\ \A e \in G[d] : w[e] \in Int /\ AmountsIn(On(d))[e] = w[e]
    BY <1>1, <2>3, <2>4, FS_Subset
  <2>7. Sum(AmountsIn(On(d)), G[d]) = Sum(w, G[d])
    BY <2>6, SumSame
  <2>. QED BY <2>2, <2>3, <2>5, <2>7
<1>3. IsParted(S, g, K, G)
  BY DEF IsParted
<1>4. Total(E, ops) = Sum(w, S)
  BY TotalIs
<1> HIDE DEF S, On, g, G, w
<1>5. \A d \in K : a[d] = Sum(w, G[d])
  BY <1>2
<1>6. Sum(a, K) = Sum(w, S)
  BY <1>1, <1>3, <1>5, SumParts
<1>. QED
  BY <1>2, <1>4, <1>6

LEMMA PaidIs ==
    ASSUME NEW N, IsFiniteSet(N), \A n \in N : n.amount \in Int
    PROVE  \A s \in SUBSET N : Paid(s) = Sum(AmountsIn(N), s) /\ Paid(s) \in Int
<1> SUFFICES ASSUME NEW s \in SUBSET N PROVE Paid(s) = Sum(AmountsIn(N), s) /\ Paid(s) \in Int
  OBVIOUS
<1>1. IsFiniteSet(s) /\ \A n \in s : AmountsIn(N)[n] \in Int /\ AmountsIn(s)[n] = AmountsIn(N)[n]
  BY FS_Subset DEF AmountsIn
<1>2. Paid(s) = Sum(AmountsIn(s), s)
  BY AmountsSum DEF Paid
<1>3. Sum(AmountsIn(s), s) = Sum(AmountsIn(N), s) /\ Sum(AmountsIn(N), s) \in Int
  BY <1>1, SumSame, SumType
<1>. QED BY <1>2, <1>3

LEMMA PaidByDay ==
    ASSUME NEW N, IsFiniteSet(N), \A n \in N : n.amount \in Int,
           NEW K, IsFiniteSet(K), \A n \in N : n.day \in K, NEW a,
           \A d \in K : a[d] = Paid({n \in N : n.day = d})
    PROVE  Sum(a, K) = Paid(N) /\ Paid(N) \in Int /\ \A d \in K : a[d] \in Int
<1> DEFINE g == [n \in N |-> n.day]
           G == [d \in K |-> {n \in N : n.day = d}]
           w == AmountsIn(N)
<1>1. \A s \in SUBSET N : Paid(s) = Sum(w, s) /\ Paid(s) \in Int
  BY PaidIs
<1>2. \A d \in K : a[d] = Sum(w, G[d]) /\ a[d] \in Int
  <2> SUFFICES ASSUME NEW d \in K PROVE a[d] = Sum(w, G[d]) /\ a[d] \in Int
    OBVIOUS
  <2>1. G[d] \in SUBSET N /\ a[d] = Paid(G[d])
    OBVIOUS
  <2> HIDE DEF G, w
  <2>. QED BY <1>1, <2>1
<1>3. IsParted(N, g, K, G)
  BY DEF IsParted
<1>4. \A n \in N : w[n] \in Int
  BY DEF AmountsIn
<1> HIDE DEF g, G, w
<1>5. \A d \in K : a[d] = Sum(w, G[d])
  BY <1>2
<1>6. Sum(a, K) = Sum(w, N)
  BY <1>3, <1>4, <1>5, SumParts
<1>7. N \in SUBSET N
  OBVIOUS
<1>8. Paid(N) = Sum(w, N) /\ Paid(N) \in Int
  BY <1>1, <1>7
<1>. QED BY <1>2, <1>6, <1>8

LEMMA GoodsByDay ==
    ASSUME NEW E, AreDrafts(E), NEW T, IsCosts(T), NEW K, IsFiniteSet(K), \A e \in E : e.day \in K, NEW a,
           \A d \in K : a[d] = Cogs(Sold({e \in E : e.day = d}), T)
    PROVE  Sum(a, K) = Cogs(Sold(E), T)
<1> DEFINE g == [e \in E |-> e.day]
           G == [d \in K |-> {e \in E : e.day = d}]
           w == GoodsOf(E, T)
<1>1. \A e \in E : w[e] \in Int
  BY Weighed
<1>2. \A s \in SUBSET E : Cogs(Sold(s), T) = Sum(w, s)
  BY SoldGoods
<1>3. \A d \in K : a[d] = Sum(w, G[d])
  <2> SUFFICES ASSUME NEW d \in K PROVE a[d] = Sum(w, G[d])
    OBVIOUS
  <2>1. G[d] \in SUBSET E /\ a[d] = Cogs(Sold(G[d]), T)
    OBVIOUS
  <2> HIDE DEF G, w
  <2>. QED BY <1>2, <2>1
<1>4. IsParted(E, g, K, G)
  BY DEF IsParted
<1>5. IsFiniteSet(E)
  BY DEF AreDrafts, AreEntries
<1>6. E \in SUBSET E
  OBVIOUS
<1> HIDE DEF g, G, w
<1>7. Sum(a, K) = Sum(w, E)
  BY <1>1, <1>3, <1>4, <1>5, SumParts
<1>. QED BY <1>2, <1>6, <1>7

(* What the projections say of a day is drawn from drafts.                 *)
LEMMA DrawnDays ==
    ASSUME TablesInv, NEW p, IsPeriod(p)
    PROVE  /\ IsFiniteSet(DaysOf(p)) /\ IsFiniteSet(Drawn(p)) /\ Drawn(p) = DOMAIN drawn \cap DaysOf(p)
           /\ \A d \in DOMAIN drawn : /\ AreDrafts(EntriesOn(drawn, d)) /\ IsCosts(drawn[d].costs)
                                      /\ \A e \in EntriesOn(drawn, d) : e.day = d
                                      /\ CogsOf(drawn, d) = Cogs(Sold(EntriesOn(drawn, d)), drawn[d].costs)
           /\ \A d : CogsOf(drawn, d) \in Int
<1>1. IsFiniteSet(DaysOf(p))
  BY FS_Interval DEF DaysOf, IsPeriod
<1>2. ASSUME NEW d \in DOMAIN drawn
      PROVE  /\ d \in Int /\ AreDrafts(EntriesOn(drawn, d)) /\ IsCosts(drawn[d].costs)
             /\ CogsOf(drawn, d) \in Int
  <2>1. drawn[d].from \in SUBSET Report /\ IsCosts(drawn[d].costs) /\ drawn[d].from # {}
    BY ReadsAssumption DEF TablesInv, DaysAreDrawn
  <2>2. AreDrafts(Ledger(drawn[d].from))
    BY <2>1, LedgersAreDrafts
  <2>3. EntriesOn(drawn, d) \in SUBSET Ledger(drawn[d].from)
    BY DEF EntriesOn
  <2>4. AreDrafts(EntriesOn(drawn, d))
    BY <2>1, <2>2, <2>3, Weighed
  <2>5. d \in Int
    <3>1. PICK r \in drawn[d].from : d \in Days(Book[r].entries)
      BY <2>1 DEF TablesInv, DaysAreDrawn
    <3>2. r \in Report /\ IsBook(Book[r])
      BY <2>1, ReadsAssumption
    <3>. QED BY <3>1, <3>2 DEF IsBook, Days
  <2>6. CogsOf(drawn, d) \in Int
    <3> DEFINE F == EntriesOn(drawn, d)
               T == drawn[d].costs
    <3>1. CogsOf(drawn, d) = Cogs(Sold(F), T)
      BY DEF CogsOf
    <3>2. F \in SUBSET F
      OBVIOUS
    <3>3. IsFiniteSet(F)
      BY <2>4 DEF AreDrafts, AreEntries
    <3>4. Cogs(Sold(F), T) = Sum(GoodsOf(F, T), F) /\ \A e \in F : GoodsOf(F, T)[e] \in Int
      BY <2>1, <2>4, <3>2, SoldGoods, Weighed
    <3> HIDE DEF F, T
    <3>. QED BY <3>1, <3>3, <3>4, SumType
  <2>. QED BY <2>1, <2>4, <2>5, <2>6
<1>3. Drawn(p) = DOMAIN drawn \cap DaysOf(p)
  BY <1>2 DEF Drawn, DaysOf, IsPeriod
<1>4. IsFiniteSet(Drawn(p))
  BY <1>1, <1>3, FS_Intersection
<1>. QED
  BY <1>1, <1>2, <1>3, <1>4 DEF CogsOf, EntriesOn

LEMMA CogsByDay ==
    ASSUME TablesInv, NEW p, IsPeriod(p), NEW a, \A d \in DaysOf(p) : a[d] = CogsOf(drawn, d)
    PROVE  /\ Sum(a, DaysOf(p)) = Sum([d \in Drawn(p) |-> CogsOf(drawn, d)], Drawn(p))
           /\ \A d \in DaysOf(p) : a[d] \in Int
           /\ Sum(a, DaysOf(p)) \in Int
<1> DEFINE w == [d \in Drawn(p) |-> CogsOf(drawn, d)]
<1>1. /\ IsFiniteSet(DaysOf(p)) /\ Drawn(p) \in SUBSET DaysOf(p) /\ Drawn(p) = DOMAIN drawn \cap DaysOf(p)
      /\ \A d : CogsOf(drawn, d) \in Int
  BY DrawnDays
<1>2. \A d \in Drawn(p) : w[d] \in Int
  BY <1>1
<1>3. \A d \in DaysOf(p) : a[d] = IF d \in Drawn(p) THEN w[d] ELSE 0
  BY <1>1 DEF CogsOf
<1>4. \A d \in DaysOf(p) : a[d] \in Int
  BY <1>1
<1> HIDE DEF w
<1>5. Sum(a, DaysOf(p)) = Sum(w, Drawn(p)) /\ Sum(a, DaysOf(p)) \in Int
  BY <1>1, <1>2, <1>3, <1>4, SumWithin, SumType
<1>. QED BY <1>4, <1>5 DEF w

(* The daily profits make up the profit of the same entries, payouts and goods. *)
LEMMA DailyProfits ==
    ASSUME TablesInv, NEW p, IsPeriod(p),
           NEW E, AreDrafts(E), \A e \in E : e.day \in DaysOf(p),
           NEW N, IsFiniteSet(N), \A n \in N : n.amount \in Int /\ n.day \in DaysOf(p), NEW h,
           \A d \in DaysOf(p) : h[d] = SellerKpis(Amounts({e \in E : e.day = d}), Paid({n \in N : n.day = d}),
                                                  CogsOf(drawn, d)).profit
    PROVE  Sum(h, DaysOf(p)) = SellerKpis(Amounts(E), Paid(N), Sum([d \in Drawn(p) |-> CogsOf(drawn, d)], Drawn(p))).profit
<1> DEFINE K == DaysOf(p)
           a == [d \in K |-> Total({e \in E : e.day = d}, Payable)]
           r == [d \in K |-> Paid({n \in N : n.day = d})]
           c == [d \in K |-> CogsOf(drawn, d)]
           u == [d \in K |-> a[d] - r[d]]
<1>1. IsFiniteSet(K) /\ AreEntries(E)
  BY DrawnDays DEF AreDrafts
<1>2. \A d \in K : AreEntries({e \in E : e.day = d})
  BY <1>1, FS_Subset DEF AreEntries
<1>3. Sum(a, K) = Total(E, Payable) /\ \A d \in K : a[d] \in Int
  <2>1. \A d \in K : a[d] = Total({e \in E : e.day = d}, Payable)
    OBVIOUS
  <2> HIDE DEF a, K
  <2>2. \A e \in E : e.day \in K
    BY DEF K
  <2>. QED BY <1>1, <2>1, <2>2, TotalByDay
<1>4. Sum(r, K) = Paid(N) /\ Paid(N) \in Int /\ \A d \in K : r[d] \in Int
  <2>1. \A d \in K : r[d] = Paid({n \in N : n.day = d})
    OBVIOUS
  <2> HIDE DEF r, K
  <2>2. (\A n \in N : n.day \in K) /\ (\A n \in N : n.amount \in Int)
    BY DEF K
  <2>. QED BY <1>1, <2>1, <2>2, PaidByDay
<1>5. /\ Sum(c, K) = Sum([d \in Drawn(p) |-> CogsOf(drawn, d)], Drawn(p)) /\ Sum(c, K) \in Int
      /\ \A d \in K : c[d] \in Int
  <2>1. \A d \in DaysOf(p) : c[d] = CogsOf(drawn, d)
    OBVIOUS
  <2> HIDE DEF c
  <2>. QED BY <2>1, CogsByDay
<1>6. ASSUME NEW d \in K PROVE h[d] = u[d] - c[d] /\ u[d] = a[d] - r[d]
  <2>1. SellerKpis(Amounts({e \in E : e.day = d}), r[d], c[d]).profit
          = Total({e \in E : e.day = d}, Payable) - r[d] - c[d]
    <3> HIDE DEF r, c
    <3>. QED BY <1>2, <1>4, <1>5, KpisProfit
  <2>2. h[d] = SellerKpis(Amounts({e \in E : e.day = d}), r[d], c[d]).profit
    OBVIOUS
  <2>3. a[d] = Total({e \in E : e.day = d}, Payable) /\ u[d] = a[d] - r[d]
    OBVIOUS
  <2> HIDE DEF a, r, c, u
  <2>. QED BY <2>1, <2>2, <2>3
<1> HIDE DEF a, r, c, u, K
<1>7. \A d \in K : u[d] \in Int
  BY <1>3, <1>4, <1>6
<1>8. Sum(h, K) = Sum(u, K) - Sum(c, K)
  BY <1>1, <1>5, <1>6, <1>7, SumMinus
<1>9. Sum(u, K) = Sum(a, K) - Sum(r, K)
  BY <1>1, <1>3, <1>4, <1>6, SumMinus
<1>10. SellerKpis(Amounts(E), Paid(N), Sum(c, K)).profit = Total(E, Payable) - Paid(N) - Sum(c, K)
  BY <1>1, <1>4, <1>5, KpisProfit
<1>. QED
  BY <1>3, <1>4, <1>5, <1>8, <1>9, <1>10 DEF K

(***************************************************************************)
(* What the branches that are compared read.                               *)
(***************************************************************************)
LEMMA TrendAsks ==
    ASSUME NEW b, b.name = "trend"
    PROVE  /\ \A q \in {"by_day", "cogs_day", "back_day", "trust"} : \E i \in DOMAIN Program(b) : Program(b)[i].do = q
           /\ \A i \in DOMAIN Program(b) : Program(b)[i].do \in {"by_day", "back_day"} => 1 \in 1..(i - 1)
           /\ Program(b)[1].do = "canon"
BY SMTT(30) DEF Program, Steps

LEMMA ReconcileAsks ==
    ASSUME NEW b, b.name = "reconcile"
    PROVE  /\ \A q \in {"ledger", "econ"} : \E i \in DOMAIN Program(b) : Program(b)[i].do = q
           /\ \A i \in 1..4 : Program(b)[i].do # "canon"
           /\ DOMAIN Program(b) = 1..4
BY DEF Program, Steps

LEMMA AnsweredAsks ==
    ASSUME NEW name, NEW b \in Answered(name)
    PROVE  b.name = name /\ \A q : (\E i \in DOMAIN Program(b) : Program(b)[i].do = q) => Asks(b, q)
BY DEF Answered, Asks, Complete

LEMMA PeriodOfBranch ==
    ASSUME ReadsInv, NEW name, NEW b \in Answered(name) PROVE IsPeriod(b.p)
BY DEF ReadsInv, Lists, IsBranch, Answered

LEMMA TrendReads ==
    ASSUME ReadsInv, Calm, NEW b \in Answered("trend")
    PROVE  /\ Asks(b, "trust")
           /\ Read(b, "by_day", b.p) = Select("by_day", b.p, Selected(b.p))
           /\ Read(b, "back_day", b.p) = Select("back_day", b.p, Selected(b.p))
           /\ Read(b, "cogs_day", b.p) = [d \in DaysOf(b.p) |-> CogsOf(drawn, d)]
<1>0. b.name = "trend" /\ \A q \in {"by_day", "cogs_day", "back_day", "trust"} : Asks(b, q)
  BY AnsweredAsks, TrendAsks
<1>1. ASSUME NEW q \in {"by_day", "back_day"} PROVE Read(b, q, b.p) = Select(q, b.p, Selected(b.p))
  <2>1. q \in Quiet /\ Asks(b, q)
    BY <1>0 DEF Quiet
  <2>2. PICK i \in DOMAIN Program(b) : /\ Program(b)[i] = [do |-> q, p |-> b.p]
                                       /\ Read(b, q, b.p) = Select(q, b.p, Known(Program(b), b.p, i))
    BY <2>1, OwnReads
  <2>3. 1 \in 1..(i - 1) /\ Program(b)[1].do = "canon"
    BY <1>0, <2>2, TrendAsks
  <2>4. Known(Program(b), b.p, i) = Selected(b.p)
    BY <2>3 DEF Known
  <2>. QED BY <2>2, <2>4
<1>2. Read(b, "cogs_day", b.p) = [d \in DaysOf(b.p) |-> CogsOf(drawn, d)]
  <2>1. "cogs_day" \in Quiet /\ Asks(b, "cogs_day")
    BY <1>0 DEF Quiet
  <2>2. PICK i \in DOMAIN Program(b) : Read(b, "cogs_day", b.p) = Select("cogs_day", b.p, Known(Program(b), b.p, i))
    BY <2>1, OwnReads
  <2>. QED BY <2>2, DrawnIsTold, Zenon DEF DrawnTells
<1>. QED BY <1>0, <1>1, <1>2

LEMMA ReconcileReads ==
    ASSUME ReadsInv, Calm, NEW b \in Answered("reconcile")
    PROVE  /\ Read(b, "ledger", b.p) = Amounts(In(Ledger(loaded), b.p))
           /\ Read(b, "econ", b.p) = [cogs |-> Sum([d \in Drawn(b.p) |-> CogsOf(drawn, d)], Drawn(b.p)),
                                      profit |-> Sum([d \in Drawn(b.p) |-> GainsOf(drawn, d)], Drawn(b.p))]
<1>0. b.name = "reconcile" /\ \A q \in {"ledger", "econ"} : Asks(b, q)
  BY AnsweredAsks, ReconcileAsks
<1>1. Read(b, "ledger", b.p) = Amounts(In(Ledger(loaded), b.p))
  <2>1. "ledger" \in Quiet /\ Asks(b, "ledger")
    BY <1>0 DEF Quiet
  <2>2. PICK i \in DOMAIN Program(b) : Read(b, "ledger", b.p) = Select("ledger", b.p, Known(Program(b), b.p, i))
    BY <2>1, OwnReads
  <2>3. \A j \in 1..(i - 1) : Program(b)[j].do # "canon"
    BY <1>0, ReconcileAsks
  <2>4. Known(Program(b), b.p, i) = {}
    BY <2>3 DEF Known
  <2>5. Select("ledger", b.p, {}) = Amounts(In(Ledger(loaded), b.p))
    BY DEF Select
  <2>. QED BY <2>2, <2>4, <2>5
<1>2. Read(b, "econ", b.p) = [cogs |-> Sum([d \in Drawn(b.p) |-> CogsOf(drawn, d)], Drawn(b.p)),
                              profit |-> Sum([d \in Drawn(b.p) |-> GainsOf(drawn, d)], Drawn(b.p))]
  <2>1. "econ" \in Quiet /\ Asks(b, "econ")
    BY <1>0 DEF Quiet
  <2>2. PICK i \in DOMAIN Program(b) : Read(b, "econ", b.p) = Select("econ", b.p, Known(Program(b), b.p, i))
    BY <2>1, OwnReads
  <2>. QED BY <2>2, DrawnIsTold, Zenon DEF DrawnTells
<1>. QED BY <1>1, <1>2

LEMMA PointsSum ==
    ASSUME NEW b, NEW S
    PROVE  MapThenSumSet(LAMBDA d : TrendPoint(b, d).profit, S) = Sum([d \in S |-> TrendPoint(b, d).profit], S)
<1> DEFINE w == [d \in S |-> TrendPoint(b, d).profit]
           A(g) == [s \in SUBSET S |-> IF s = {} THEN 0
                      ELSE TrendPoint(b, CHOOSE x \in s : TRUE).profit + g[s \ {CHOOSE x \in s : TRUE}]]
           B(g) == [s \in SUBSET S |-> IF s = {} THEN 0
                      ELSE w[CHOOSE x \in s : TRUE] + g[s \ {CHOOSE x \in s : TRUE}]]
<1>1. ASSUME NEW g PROVE A(g) = B(g)
  OBVIOUS
<1>2. MapThenSumSet(LAMBDA d : TrendPoint(b, d).profit, S) = (CHOOSE g : g = A(g))[S]
  BY DEF MapThenSumSet, MapThenFoldSet
<1>3. Sum(w, S) = (CHOOSE g : g = B(g))[S]
  BY DEF Sum, MapThenSumSet, MapThenFoldSet
<1>4. (CHOOSE g : g = A(g)) = (CHOOSE g : g = B(g))
  <2> HIDE DEF A, B
  <2>. QED BY <1>1
<1>. QED
  BY <1>2, <1>3, <1>4

(* The ledger and the payouts of the reports that are counted, none of whose *)
(* entries lies outside.                                                   *)
Counted(ids, p) == IF ids = {} THEN In(Ledger(loaded), p) ELSE Ledger(ids \cap loaded)
Refunded(ids, p) == IF ids = {} THEN In(Returns(loaded), p) ELSE Returns(ids \cap loaded)

LEMMA CountedTypes ==
    ASSUME TablesInv, NEW p, IsPeriod(p), NEW ids, Within(ids, p)
    PROVE  /\ AreDrafts(Counted(ids, p)) /\ \A e \in Counted(ids, p) : e.day \in DaysOf(p)
           /\ IsFiniteSet(Refunded(ids, p)) /\ \A n \in Refunded(ids, p) : n.amount \in Int /\ n.day \in DaysOf(p)
           /\ OfCanonical(ids, p) = Counted(ids, p)
           /\ \A d \in DaysOf(p) : {n \in Returns(IF ids = {} THEN loaded ELSE ids \cap loaded) : n.day = d}
                                     = {n \in Refunded(ids, p) : n.day = d}
<1> DEFINE R == IF ids = {} THEN loaded ELSE ids \cap loaded
<1>1. R \in SUBSET Report
  BY DEF TablesInv, Stored
<1> HIDE DEF R
<1>2. /\ AreDrafts(Ledger(R)) /\ \A e \in Ledger(R) : e.day \in Int
      /\ IsFiniteSet(Returns(R)) /\ \A n \in Returns(R) : n.day \in Int /\ n.amount \in Int
  BY <1>1, LedgersAreDrafts
<1>3. ids # {} => \A x \in Ledger(R) \cup Returns(R) : p.from <= x.day /\ x.day <= p.to
  BY DEF R, Within, Ledger, Returns
<1>4. /\ Counted(ids, p) = In(Ledger(R), p) /\ Refunded(ids, p) = In(Returns(R), p)
      /\ OfCanonical(ids, p) = In(Ledger(R), p)
  <2>1. OfCanonical(ids, p) = In(Ledger(R), p)
    BY DEF OfCanonical, R
  <2>2. CASE ids = {}
    BY <2>1, <2>2 DEF R, Counted, Refunded
  <2>3. CASE ids # {}
    <3>1. Counted(ids, p) = Ledger(R) /\ Refunded(ids, p) = Returns(R)
      BY <2>3 DEF R, Counted, Refunded
    <3>. QED BY <1>3, <2>1, <2>3, <3>1 DEF In
  <2>. QED BY <2>2, <2>3
<1>5. In(Ledger(R), p) \in SUBSET Ledger(R) /\ In(Returns(R), p) \in SUBSET Returns(R)
  BY DEF In
<1>6. AreDrafts(In(Ledger(R), p)) /\ IsFiniteSet(In(Returns(R), p))
  BY <1>2, <1>5, FS_Subset DEF AreDrafts, AreEntries
<1>7. /\ \A e \in In(Ledger(R), p) : e.day \in DaysOf(p)
      /\ \A n \in In(Returns(R), p) : n.amount \in Int /\ n.day \in DaysOf(p)
      /\ \A d \in DaysOf(p) : {n \in Returns(R) : n.day = d} = {n \in In(Returns(R), p) : n.day = d}
  BY <1>2 DEF In, DaysOf, IsPeriod
<1>. QED
  BY <1>4, <1>6, <1>7 DEF R

LEMMA KpisOfCounted ==
    ASSUME ReadsInv, Calm, NEW b, Asks(b, "kpis")
    PROVE  KpisOf(b, b.p) = SellerKpis(Amounts(Counted(Selected(b.p), b.p)), Paid(Refunded(Selected(b.p), b.p)),
                                       Sum([d \in Drawn(b.p) |-> CogsOf(drawn, d)], Drawn(b.p)))
<1> DEFINE ids == Selected(b.p)
           G == Sum([d \in Drawn(b.p) |-> CogsOf(drawn, d)], Drawn(b.p))
<1>1. KpisOf(b, b.p) = SellerKpis(Select("ledger", b.p, ids), Select("refunds", b.p, ids), Select("cogs", b.p, {}))
  BY KpisAreNow
<1>2. Select("cogs", b.p, {}) = G
  BY DrawnIsTold, Zenon DEF DrawnTells
<1> HIDE DEF ids, G
<1>3. Select("ledger", b.p, ids) = Amounts(Counted(ids, b.p))
  BY DEF Select, Counted
<1>4. Select("refunds", b.p, ids) = Paid(Refunded(ids, b.p))
  BY DEF Select, Refunded
<1>. QED BY <1>1, <1>2, <1>3, <1>4 DEF ids, G

LEMMA TrendIsSummary ==
    ASSUME ReadsInv, TablesInv, Calm, NEW b \in Answered("trend"), NEW c \in Answered("revenue"),
           b.p = c.p, Within(Selected(b.p), b.p)
    PROVE  TrendProfit(b) = RevenueProfit(c, c.p)
<1>0. PICK p : p = b.p
  OBVIOUS
<1>1. IsPeriod(p) /\ Asks(b, "trust") /\ Asks(c, "trust") /\ Asks(c, "kpis") /\ c.p = p
  <2>1. IsPeriod(p) /\ Asks(b, "trust") /\ c.p = p
    BY <1>0, PeriodOfBranch, TrendReads
  <2>2. c.name = "revenue" /\ \A q : (\E i \in DOMAIN Program(c) : Program(c)[i].do = q) => Asks(c, q)
    BY AnsweredAsks
  <2>3. \A q \in {"trust", "kpis"} : \E i \in DOMAIN Program(c) : Program(c)[i].do = q
    BY <2>2, ProgramsAsk
  <2>. QED BY <2>1, <2>2, <2>3
<1>2. TrustOf(b, p) = TrustOf(c, p)
  BY <1>0, <1>1, TrustIsNow
<1> DEFINE ids == Selected(p)
           E == Counted(ids, p)
           N == Refunded(ids, p)
           G == Sum([d \in Drawn(p) |-> CogsOf(drawn, d)], Drawn(p))
           h == [d \in DaysOf(p) |-> TrendPoint(b, d).profit]
<1>3. KpisOf(c, p) = SellerKpis(Amounts(E), Paid(N), G)
  BY <1>1, KpisOfCounted
<1>4. /\ AreDrafts(E) /\ \A e \in E : e.day \in DaysOf(p)
      /\ IsFiniteSet(N) /\ \A n \in N : n.amount \in Int /\ n.day \in DaysOf(p)
      /\ OfCanonical(ids, p) = E
      /\ \A d \in DaysOf(p) : {n \in Returns(IF ids = {} THEN loaded ELSE ids \cap loaded) : n.day = d}
                                = {n \in N : n.day = d}
  BY <1>0, <1>1, CountedTypes, ZenonT(60)
<1>5. /\ Read(b, "by_day", p) = Select("by_day", p, ids) /\ Read(b, "back_day", p) = Select("back_day", p, ids)
      /\ Read(b, "cogs_day", p) = [d \in DaysOf(p) |-> CogsOf(drawn, d)]
  BY <1>0, TrendReads
<1>6. TrendProfit(b) = Shown(TrustOf(b, p), Sum(h, DaysOf(p)))
  <2>1. MapThenSumSet(LAMBDA d : TrendPoint(b, d).profit, DaysOf(p)) = Sum(h, DaysOf(p))
    BY PointsSum
  <2> HIDE DEF h
  <2>. QED BY <1>0, <2>1 DEF TrendProfit
<1> HIDE DEF ids, E, N, G
<1>7. \A d \in DaysOf(p) : h[d] = SellerKpis(Amounts({e \in E : e.day = d}), Paid({n \in N : n.day = d}),
                                             CogsOf(drawn, d)).profit
  <2> SUFFICES ASSUME NEW d \in DaysOf(p)
               PROVE  h[d] = SellerKpis(Amounts({e \in E : e.day = d}), Paid({n \in N : n.day = d}),
                                        CogsOf(drawn, d)).profit
    OBVIOUS
  <2>1. Read(b, "by_day", p)[d] = Amounts({e \in E : e.day = d})
    BY <1>4, <1>5 DEF Select
  <2>2. Read(b, "back_day", p)[d] = Paid({n \in N : n.day = d})
    BY <1>4, <1>5, ZenonT(60) DEF Select
  <2>3. Read(b, "cogs_day", p)[d] = CogsOf(drawn, d)
    BY <1>5
  <2>4. TrendPoint(b, d) = SellerKpis(Amounts({e \in E : e.day = d}), Paid({n \in N : n.day = d}), CogsOf(drawn, d))
    BY <1>0, <2>1, <2>2, <2>3 DEF TrendPoint
  <2>. QED BY <2>4
<1> HIDE DEF h
<1>8. Sum(h, DaysOf(p)) = SellerKpis(Amounts(E), Paid(N), G).profit
  BY <1>1, <1>4, <1>7, DailyProfits DEF G
<1>. QED
  BY <1>1, <1>2, <1>3, <1>6, <1>8 DEF RevenueProfit

(* The days of the projections as the ledger has them.                     *)
LEMMA ExpectedIsDrawn ==
    ASSUME TablesInv, NEW p, IsPeriod(p), NEW E, E = In(Ledger(loaded), p),
           \A d \in DaysOf(p) : d \in Days(E) \cup DOMAIN drawn =>
              d \in DOMAIN drawn /\ drawn[d].from = {r \in loaded : d \in Days(Book[r].entries)}
    PROVE  ExpectedPayout(Amounts(E)) =
              Sum([d \in Drawn(p) |-> GainsOf(drawn, d)], Drawn(p))
                + Sum([d \in Drawn(p) |-> CogsOf(drawn, d)], Drawn(p)) + NetAmount({e \in E : e.sku = None})
<1> DEFINE K == Drawn(p)
           gains == [d \in K |-> GainsOf(drawn, d)]
           cogs == [d \in K |-> CogsOf(drawn, d)]
           own == {e \in E : e.sku # None}
           rest == {e \in E : e.sku = None}
           N == NetOf(E)
           g == [e \in own |-> e.day]
           G == [d \in K |-> {e \in own : e.day = d}]
           h == [d \in K |-> Sum(N, G[d])]
<1>1. AreDrafts(E) /\ AreEntries(E) /\ IsFiniteSet(E) /\ \A e \in E : e.day \in DaysOf(p)
  <2>1. loaded \in SUBSET Report
    BY DEF TablesInv, Stored
  <2>2. AreDrafts(Ledger(loaded)) /\ (\A e \in Ledger(loaded) : e.day \in Int) /\ E \in SUBSET Ledger(loaded)
    BY <2>1, LedgersAreDrafts DEF In
  <2>3. IsFiniteSet(E)
    BY <2>2, FS_Subset DEF AreDrafts, AreEntries
  <2>. QED BY <2>2, <2>3 DEF AreDrafts, AreEntries, In, DaysOf, IsPeriod
<1>2. /\ IsFiniteSet(K) /\ K = DOMAIN drawn \cap DaysOf(p)
      /\ \A d \in K : /\ AreDrafts(EntriesOn(drawn, d)) /\ IsCosts(drawn[d].costs)
                      /\ \A e \in EntriesOn(drawn, d) : e.day = d
                      /\ CogsOf(drawn, d) = Cogs(Sold(EntriesOn(drawn, d)), drawn[d].costs)
  BY DrawnDays
<1>3. \A e \in E : e.day \in K
  BY <1>1, <1>2 DEF Days
<1>4. ASSUME NEW d \in K PROVE EntriesOn(drawn, d) = {e \in E : e.day = d}
  <2>1. \A r : r \in drawn[d].from <=> r \in loaded /\ d \in Days(Book[r].entries)
    BY <1>2
  <2>2. \A e : e \in EntriesOn(drawn, d) <=> e \in Ledger(loaded) /\ e.day = d
    BY <2>1 DEF EntriesOn, Ledger, Days
  <2>3. d \in DaysOf(p)
    BY <1>2
  <2>. QED BY <2>2, <2>3 DEF In, DaysOf, IsPeriod
<1>5. ASSUME NEW d \in K
      PROVE  gains[d] = h[d] - cogs[d] /\ cogs[d] \in Int /\ gains[d] \in Int
  <2> DEFINE F == EntriesOn(drawn, d)
             T == drawn[d].costs
             P == [s \in Skus(F) |-> GainOf(drawn, d, s)]
  <2>1. AreDrafts(F) /\ IsCosts(T) /\ \A e \in F : e.day = d
    BY <1>2
  <2>2. \A s \in Skus(F) : P[s] = UnitEconomics({e \in F : e.sku = s}, T, s, d).profit
    BY DEF GainOf
  <2>3. gains[d] = Sum(P, Skus(F)) /\ cogs[d] = Cogs(Sold(F), T)
    <3>1. gains[d] = GainsOf(drawn, d) /\ cogs[d] = CogsOf(drawn, d)
      OBVIOUS
    <3>2. GainsOf(drawn, d) = Sum(P, Skus(F))
      BY Zenon DEF GainsOf
    <3>3. CogsOf(drawn, d) = Cogs(Sold(F), T)
      <4>1. d \in DOMAIN drawn
        BY <1>2
      <4>. QED BY <4>1 DEF CogsOf
    <3> HIDE DEF gains, cogs, P, F, T
    <3>. QED BY <3>1, <3>2, <3>3
  <2>4. F = {e \in E : e.day = d} /\ h[d] = Sum(N, G[d]) /\ G[d] = {e \in own : e.day = d}
    BY <1>4
  <2> HIDE DEF P, T, N, G, h, gains, cogs
  <2>5. /\ Sum(P, Skus(F)) = Sum(NetOf(F), {e \in F : e.sku # None}) - Cogs(Sold(F), T)
        /\ Sum(P, Skus(F)) \in Int /\ Cogs(Sold(F), T) \in Int
    <3> HIDE DEF F
    <3>. QED BY <2>1, <2>2, DayAddsUp
  <2>6. Sum(NetOf(F), G[d]) = Sum(N, G[d])
    <3>1. G[d] \in SUBSET E /\ IsFiniteSet(G[d])
      BY <1>1, <2>4, FS_Subset
    <3>2. \A e \in G[d] : e \in F /\ e \in E /\ e.amount \in Int
      BY <1>1, <2>4 DEF AreEntries, IsEntry
    <3> HIDE DEF F
    <3>3. \A e \in G[d] : NetOf(F)[e] = N[e] /\ N[e] \in Int
      BY <3>2 DEF NetOf, N
    <3>. QED BY <3>1, <3>3, SumSame
  <2>7. {e \in F : e.sku # None} = G[d]
    BY <2>4
  <2> HIDE DEF F
  <2>. QED BY <2>3, <2>4, <2>5, <2>6, <2>7
<1>6. IsParted(own, g, K, G) /\ IsFiniteSet(own) /\ (\A e \in own : N[e] \in Int)
  <2>1. IsParted(own, g, K, G)
    BY <1>3 DEF IsParted
  <2>2. IsFiniteSet(own)
    BY <1>1, FS_Subset
  <2>3. \A e \in own : N[e] \in Int
    BY <1>1 DEF AreEntries, IsEntry, NetOf
  <2>. QED BY <2>1, <2>2, <2>3
<1>7. NetAmount(rest) = Sum(N, rest) /\ NetAmount(E) = Sum(N, E) /\ \A e \in E : N[e] \in Int
  <2>1. rest \in SUBSET E /\ E \in SUBSET E
    OBVIOUS
  <2>2. \A e \in E : N[e] \in Int
    BY <1>1 DEF AreEntries, IsEntry, NetOf
  <2>. QED BY <1>1, <2>1, <2>2, NetIs
<1>8. own \cup rest = E /\ own \cap rest = {} /\ rest \in SUBSET E /\ own \in SUBSET E
  OBVIOUS
<1>9. \A d \in K : h[d] = Sum(N, G[d])
  OBVIOUS
<1> HIDE DEF K, gains, cogs, own, rest, N, g, G, h
<1>10. Sum(h, K) = Sum(N, own)
  BY <1>2, <1>6, <1>9, SumParts
<1>11. \A d \in K : h[d] \in Int
  <2>1. \A d \in K : G[d] \in SUBSET own
    BY <1>6 DEF IsParted
  <2>2. \A s \in SUBSET own : Sum(N, s) \in Int
    BY <1>6, FS_Subset, SumType
  <2>. QED BY <1>9, <2>1, <2>2
<1>12. Sum(gains, K) = Sum(h, K) - Sum(cogs, K) /\ Sum(cogs, K) \in Int /\ Sum(h, K) \in Int
  <2>1. \A d \in K : h[d] \in Int /\ cogs[d] \in Int /\ gains[d] = h[d] - cogs[d]
    BY <1>5, <1>11
  <2>. QED BY <1>2, <2>1, SumMinus, SumType
<1>13. Sum(N, E) = Sum(N, own) + Sum(N, rest)
  <2>1. IsFiniteSet(own) /\ IsFiniteSet(rest) /\ \A e \in own \cup rest : N[e] \in Int
    BY <1>1, <1>7, <1>8, FS_Subset
  <2>2. Sum(N, own \cup rest) = Sum(N, own) + Sum(N, rest)
    BY <1>8, <2>1, SumSplit
  <2>. QED BY <1>8, <2>2
<1>14. ExpectedPayout(Amounts(E)) = NetAmount(E)
  BY <1>1, PayoutIsNet
<1>15. Sum(N, rest) \in Int
  BY <1>1, <1>7, <1>8, FS_Subset, SumType
<1>16. ExpectedPayout(Amounts(E)) = Sum(gains, K) + Sum(cogs, K) + NetAmount(rest)
  BY <1>7, <1>10, <1>12, <1>13, <1>14, <1>15
<1>. QED
  BY <1>16 DEF K, gains, cogs, rest

(* For any books, requests and commits before a request that meets none: the *)
(* days of the trend (revenue_trend) add up to the profit of the summary     *)
(* (revenue_summary), and what the reconciliation expects to be paid is what *)
(* the projections of SKUs hold of profit and costs, and the entries without *)
(* SKU.  By ReadsInv what was read is what the tables say; by TablesInv what *)
(* a day was drawn from; and either side is a sum over the same entries.     *)
THEOREM SurfacesStayEqual == Spec => []SurfacesAddUp
<1>1. Spec => []ReadsInv
  BY ReadsInit, ReadsStep, PTL DEF Spec
<1>2. ReadsInv /\ TablesInv => SurfacesAddUp
  <2> SUFFICES ASSUME ReadsInv, TablesInv, Calm PROVE SurfacesAddUp
    BY DEF SurfacesAddUp
  <2>1. \A b \in Answered("trend"), c \in Answered("revenue") :
           b.p = c.p /\ Within(Selected(b.p), b.p) => TrendProfit(b) = RevenueProfit(c, c.p)
    BY TrendIsSummary
  <2>2. ASSUME NEW b \in Answered("reconcile"), NEW E, E = In(Ledger(loaded), b.p),
               \A d \in DaysOf(b.p) : d \in Days(E) \cup DOMAIN drawn =>
                  d \in DOMAIN drawn /\ drawn[d].from = {r \in loaded : d \in Days(Book[r].entries)}
        PROVE  ExpectedPayout(Read(b, "ledger", b.p)) =
                  Read(b, "econ", b.p).profit + Read(b, "econ", b.p).cogs + NetAmount({e \in E : e.sku = None})
    <3> DEFINE gains == Sum([d \in Drawn(b.p) |-> GainsOf(drawn, d)], Drawn(b.p))
               cogs == Sum([d \in Drawn(b.p) |-> CogsOf(drawn, d)], Drawn(b.p))
    <3>1. IsPeriod(b.p)
      BY PeriodOfBranch
    <3>2. ExpectedPayout(Amounts(E)) = gains + cogs + NetAmount({e \in E : e.sku = None})
      BY <2>2, <3>1, ExpectedIsDrawn
    <3>3. Read(b, "ledger", b.p) = Amounts(E) /\ Read(b, "econ", b.p) = [cogs |-> cogs, profit |-> gains]
      BY <2>2, ReconcileReads
    <3> HIDE DEF gains, cogs
    <3>. QED BY <3>2, <3>3
  <2>. QED
    BY <2>1, <2>2 DEF SurfacesAddUp
<1>. QED
  BY <1>1, <1>2, TablesInvariance, PTL

(* After any uploads, deletions and changes of the costs, a profit that the  *)
(* gate (gate_profit_decimal) shows is what the processed reports say of the *)
(* period less the unit costs of the day of each sale, known or not - where  *)
(* GovernedIsExact's conditions hold: no change of the costs awaits its      *)
(* redraw, and the reports the KPIs count are the ones the days were drawn   *)
(* from and the goods returned in, with no entries outside the period.       *)
THEOREM GovernedStaysExact == Spec => []GovernedIsExact
<1>1. Spec => []ReadsInv
  BY ReadsInit, ReadsStep, PTL DEF Spec
<1>2. ReadsInv /\ TablesInv => GovernedIsExact
  <2> SUFFICES ASSUME ReadsInv, TablesInv, Calm, ~owed, NEW b \in Answered("revenue"), NEW p, p = b.p,
                      NEW E, E = In(Ledger(done), p), TrustOf(b, p) # "insufficient",
                      DrawnFrom(p) \cup Returning(p) \subseteq Selected(p), Within(Selected(p), p)
               PROVE  RevenueProfit(b, p) =
                         Total(E, {"payout", "logistics", "storage_fee", "deduction"}) - Paid(In(Returns(done), p))
                            - Cogs(Sold(E), costs)
    BY DEF GovernedIsExact
  <2>1. IsPeriod(p) /\ Asks(b, "trust") /\ Asks(b, "kpis")
    <3>1. b.name = "revenue" /\ \A q : (\E i \in DOMAIN Program(b) : Program(b)[i].do = q) => Asks(b, q)
      BY AnsweredAsks
    <3>2. \A q \in {"trust", "kpis"} : \E i \in DOMAIN Program(b) : Program(b)[i].do = q
      BY <3>1, ProgramsAsk
    <3>. QED BY <3>1, <3>2, PeriodOfBranch
  <2> DEFINE S == Selected(p)
             G == Sum([d \in Drawn(p) |-> CogsOf(drawn, d)], Drawn(p))
  <2>2. S \subseteq done /\ done \subseteq loaded /\ loaded \subseteq Report
    <3>1. Candidates(p) \in SUBSET Spanning(Report) /\ Candidates(p) \subseteq done
      BY DEF TablesInv, Stored, Candidates, Overlapping, Spanning
    <3>. QED BY <3>1, KeptIsCover DEF Selected, TablesInv, Stored
  <2>3. \A d \in Drawn(p) : d \in DOMAIN drawn /\ drawn[d].from \subseteq S /\ drawn[d].from # {}
    BY DEF DrawnFrom, Drawn, TablesInv, DaysAreDrawn
  <2>4. S # {}
    <3> SUFFICES ASSUME S = {} PROVE FALSE
      OBVIOUS
    <3>1. Drawn(p) = {}
      BY <2>3
    <3>2. Select("selling", p, {}) = {}
      BY <3>1 DEF Select, Skus, Sold
    <3>3. TrustOf(b, p) = Trust({}, costs, p)
      BY <2>1, <3>2, TrustIsNow
    <3>. QED BY <3>3 DEF Trust
  <2>5. /\ AreDrafts(Ledger(done)) /\ (\A e \in Ledger(done) : e.day \in Int)
        /\ IsFiniteSet(Returns(done)) /\ \A n \in Returns(done) : n.day \in Int /\ n.amount \in Int
    BY <2>2, LedgersAreDrafts
  <2>6. E = Ledger(S)
    <3>1. ASSUME NEW e \in E PROVE e \in Ledger(S)
      <4>1. PICK r \in done : e \in Book[r].entries
        BY DEF In, Ledger
      <4>2. e.day \in DOMAIN drawn /\ r \in drawn[e.day].from
        BY <4>1 DEF TablesInv, DoneIsDrawn, Days
      <4>3. e.day \in Drawn(p)
        BY <4>2 DEF In, Drawn
      <4>. QED BY <2>3, <4>1, <4>2, <4>3 DEF Ledger
    <3>2. ASSUME NEW e \in Ledger(S) PROVE e \in E
      BY <2>2 DEF Within, In, Ledger
    <3>. QED BY <3>1, <3>2
  <2>7. In(Returns(done), p) = Returns(S)
    <3>1. ASSUME NEW n \in In(Returns(done), p) PROVE n \in Returns(S)
      <4>1. PICK r \in done : n \in Book[r].refunds
        BY DEF In, Returns
      <4>2. r \in Returning(p)
        BY <4>1 DEF In, Returning
      <4>. QED BY <4>1, <4>2 DEF Returns
    <3>2. ASSUME NEW n \in Returns(S) PROVE n \in In(Returns(done), p)
      BY <2>2 DEF Within, In, Returns
    <3>. QED BY <3>1, <3>2
  <2>8. Counted(S, p) = E /\ Refunded(S, p) = In(Returns(done), p)
    <3>1. S \cap loaded = S
      BY <2>2
    <3> HIDE DEF S
    <3>. QED BY <2>4, <2>6, <2>7, <3>1 DEF Counted, Refunded
  <2>9. AreDrafts(E) /\ AreEntries(E) /\ \A e \in E : e.day \in Drawn(p)
    <3>1. E \in SUBSET Ledger(done)
      BY DEF In
    <3>2. AreDrafts(E) /\ AreEntries(E)
      BY <2>5, <3>1, FS_Subset DEF AreDrafts, AreEntries
    <3>3. ASSUME NEW e \in E PROVE e.day \in Drawn(p)
      BY DEF In, Ledger, Drawn, TablesInv, DoneIsDrawn, Days
    <3>. QED BY <3>2, <3>3
  <2>10. G = Cogs(Sold(E), costs)
    <3> DEFINE a == [d \in Drawn(p) |-> CogsOf(drawn, d)]
    <3>1. IsFiniteSet(Drawn(p)) /\ IsCosts(costs)
      BY <2>1, DrawnDays, ReadsAssumption DEF TablesInv, DaysAreDrawn
    <3>2. ASSUME NEW d \in Drawn(p) PROVE a[d] = Cogs(Sold({e \in E : e.day = d}), costs)
      <4>1. d \in DOMAIN drawn /\ drawn[d].from \subseteq S /\ drawn[d].costs = costs
        <5>1. d \in DOMAIN drawn /\ drawn[d].from \subseteq S
          BY <2>3
        <5>2. drawn[d].from \subseteq done
          BY <2>2, <5>1
        <5>. QED BY <5>1, <5>2 DEF TablesInv, CostsAreDrawn
      <4>2. EntriesOn(drawn, d) = {e \in E : e.day = d}
        <5>1. ASSUME NEW e \in EntriesOn(drawn, d) PROVE e \in E /\ e.day = d
          BY <2>6, <4>1 DEF EntriesOn, Ledger
        <5>2. ASSUME NEW e \in E, e.day = d PROVE e \in EntriesOn(drawn, d)
          <6>1. PICK r \in done : e \in Book[r].entries
            BY DEF In, Ledger
          <6>2. r \in drawn[d].from
            BY <5>2, <6>1 DEF TablesInv, DoneIsDrawn, Days
          <6>. QED BY <5>2, <6>1, <6>2 DEF EntriesOn, Ledger
        <5>. QED BY <5>1, <5>2 DEF EntriesOn
      <4>3. a[d] = CogsOf(drawn, d)
        OBVIOUS
      <4> HIDE DEF a, S
      <4>. QED BY <4>1, <4>2, <4>3 DEF CogsOf
    <3>3. PICK K, T : K = Drawn(p) /\ T = costs
      OBVIOUS
    <3>4. IsFiniteSet(K) /\ IsCosts(T) /\ AreDrafts(E) /\ \A e \in E : e.day \in K
      <4>1. IsFiniteSet(K) /\ IsCosts(T)
        BY <3>1, <3>3
      <4>2. \A e \in E : e.day \in K
        BY <2>9, <3>3
      <4>. QED BY <2>9, <4>1, <4>2
    <3> HIDE DEF a
    <3>5. \A d \in K : a[d] = Cogs(Sold({e \in E : e.day = d}), T)
      BY <3>2, <3>3
    <3>6. Sum(a, K) = Cogs(Sold(E), T)
      BY <3>4, <3>5, GoodsByDay
    <3>. QED BY <3>3, <3>6 DEF a
  <2>11. KpisOf(b, p) = SellerKpis(Amounts(E), Paid(In(Returns(done), p)), G)
    <3>1. KpisOf(b, p) = SellerKpis(Amounts(Counted(S, p)), Paid(Refunded(S, p)), G)
      BY <2>1, KpisOfCounted
    <3> HIDE DEF S, G
    <3>. QED BY <2>8, <3>1
  <2>12. Paid(In(Returns(done), p)) \in Int /\ G \in Int
    <3>1. In(Returns(done), p) \in SUBSET Returns(done)
      BY DEF In
    <3>2. Paid(In(Returns(done), p)) \in Int
      BY <2>5, <3>1, PaidIs
    <3>3. G \in Int
      <4> DEFINE a == [d \in DaysOf(p) |-> CogsOf(drawn, d)]
      <4>1. \A d \in DaysOf(p) : a[d] = CogsOf(drawn, d)
        OBVIOUS
      <4> HIDE DEF a
      <4>. QED BY <2>1, <4>1, CogsByDay
    <3>. QED BY <3>2, <3>3
  <2> HIDE DEF S, G
  <2>13. KpisOf(b, p).profit = Total(E, Payable) - Paid(In(Returns(done), p)) - Cogs(Sold(E), costs)
    BY <2>9, <2>10, <2>11, <2>12, KpisProfit
  <2>. QED
    BY <2>13 DEF RevenueProfit, Shown, Payable
<1>. QED
  BY <1>1, <1>2, TablesInvariance, PTL

-------------------------------------------------------------------------------
(***************************************************************************)
(* THE READING OF FILES.                                                   *)
(***************************************************************************)
(***************************************************************************)
(* Least and largest numbers.                                              *)
(***************************************************************************)
LEMMA MinIs ==
    ASSUME NEW S \in SUBSET Nat, S # {}
    PROVE  Min(S) \in S /\ \A x \in S : Min(S) <= x
<1>1. \E n \in S : \A m \in S : n <= m
  BY LeastExists
<1>. QED
  BY <1>1 DEF Min

LEMMA MinIsLeast ==
    ASSUME NEW S \in SUBSET Nat, NEW n \in S, \A x \in S : n <= x
    PROVE  Min(S) = n
<1>1. Min(S) \in S /\ Min(S) <= n
  BY MinIs
<1>2. n \in Nat /\ Min(S) \in Nat /\ n <= Min(S)
  BY <1>1
<1>. QED
  BY <1>1, <1>2

LEMMA MinJoin ==
    ASSUME NEW S \in SUBSET Nat, S # {}, NEW T \in SUBSET Nat
    PROVE  Min(T \cup {Min(S)}) = Min(T \cup S)
<1>1. Min(S) \in S /\ \A x \in S : Min(S) <= x
  BY MinIs
<1>2. Min(T \cup S) \in T \cup S /\ \A x \in T \cup S : Min(T \cup S) <= x
  BY MinIs
<1> DEFINE m == Min(S)
           n == Min(T \cup S)
<1>3. n \in T \cup {m} /\ \A x \in T \cup {m} : n <= x
  <2>1. n \in T \/ n = m
    <3>1. n \notin T => n \in S /\ n <= m /\ m <= n
      BY <1>1, <1>2
    <3>2. m \in Nat /\ n \in Nat
      BY <1>1, <1>2
    <3> HIDE DEF m, n
    <3>. QED
      BY <3>1, <3>2
  <2>. QED
    BY <1>1, <1>2, <2>1
<1> HIDE DEF m, n
<1>4. T \cup {m} \in SUBSET Nat
  BY <1>1 DEF m
<1>5. Min(T \cup {m}) = n
  BY <1>3, <1>4, MinIsLeast
<1>. QED
  BY <1>5 DEF m, n

LEMMA LargestOf ==
    ASSUME NEW D \in SUBSET Nat, D # {}, IsFiniteSet(D), NEW v, \A i \in D : v[i] \in Nat
    PROVE  Max({v[i] : i \in D}) \in {v[i] : i \in D}
<1> DEFINE S == {v[i] : i \in D}
<1>0. \A i \in D : v[i] \in Int
  OBVIOUS
<1>1. PICK x \in D : \A y \in D : v[y] <= v[x]
  BY <1>0, LargestExists
<1>2. \E m \in S : \A n \in S : m >= n
  BY <1>1
<1>. QED
  BY <1>2 DEF Max

LEMMA ForemostIs ==
    ASSUME NEW D \in SUBSET Nat, D # {}, IsFiniteSet(D), NEW v, DOMAIN v = D, \A i \in D : v[i] \in Nat
    PROVE  Foremost(v) \in D
<1> DEFINE top == Max({v[i] : i \in D})
<1>1. top \in {v[i] : i \in D}
  BY LargestOf
<1>2. Foremost(v) = Min({i \in D : v[i] = top})
  BY DEF Foremost
<1> HIDE DEF top
<1>3. {i \in D : v[i] = top} # {} /\ {i \in D : v[i] = top} \in SUBSET Nat
  BY <1>1
<1>. QED
  BY <1>2, <1>3, MinIs

(***************************************************************************)
(* Where the table is.                                                     *)
(***************************************************************************)
LEMMA ImageFinite ==
    ASSUME NEW D, IsFiniteSet(D), NEW v
    PROVE  IsFiniteSet({v[i] : i \in D})
<1> DEFINE T == {v[i] : i \in D}
           f == [i \in D |-> v[i]]
<1>1. f \in Surjection(D, T)
  BY DEF Surjection
<1> HIDE DEF f, T
<1>2. IsFiniteSet(T)
  BY <1>1, FS_Surjection
<1>. QED
  BY <1>2 DEF T

LEMMA FieldsFinite == IsFiniteSet(Fields)
<1> DEFINE names == <<"operation_date", "sale_date", "sku", "nm_id", "operation_type", "retail_amount",
                      "wb_realized_amount", "commission", "logistics", "storage_fee", "penalty",
                      "acquiring", "compensation", "payment_integration_compensation",
                      "loyalty_compensation", "voluntary_compensation", "deduction", "payout",
                      "advertisement", "quantity", "return_amount", "return_wb", "warehouse_name">>
           f == [i \in 1..23 |-> names[i]]
<1>1. ASSUME NEW x \in Fields PROVE \E i \in 1..23 : f[i] = x
  <2>1. /\ f[1] = "operation_date" /\ f[2] = "sale_date" /\ f[3] = "sku" /\ f[4] = "nm_id"
        /\ f[5] = "operation_type" /\ f[6] = "retail_amount" /\ f[7] = "wb_realized_amount"
        /\ f[8] = "commission" /\ f[9] = "logistics" /\ f[10] = "storage_fee" /\ f[11] = "penalty"
        /\ f[12] = "acquiring" /\ f[13] = "compensation"
        /\ f[14] = "payment_integration_compensation" /\ f[15] = "loyalty_compensation"
        /\ f[16] = "voluntary_compensation" /\ f[17] = "deduction" /\ f[18] = "payout"
        /\ f[19] = "advertisement" /\ f[20] = "quantity" /\ f[21] = "return_amount"
        /\ f[22] = "return_wb" /\ f[23] = "warehouse_name"
    OBVIOUS
  <2> HIDE DEF f
  <2>2. x \in {"operation_date", "sale_date", "sku", "nm_id", "operation_type", "retail_amount",
               "wb_realized_amount", "commission", "logistics", "storage_fee", "penalty",
               "acquiring", "compensation", "payment_integration_compensation",
               "loyalty_compensation", "voluntary_compensation", "deduction", "payout",
               "advertisement", "quantity", "return_amount", "return_wb", "warehouse_name"}
    BY DEF Fields, Aliases
  <2>. QED
    BY <2>1, <2>2
<1>2. f \in [1..23 -> {f[i] : i \in 1..23}]
  OBVIOUS
<1>3. IsFiniteSet(1..23)
  <2>1. 1 \in Int /\ 23 \in Int
    OBVIOUS
  <2>. QED
    BY <2>1, FS_Interval
<1> HIDE DEF f
<1>4. IsFiniteSet({f[i] : i \in 1..23})
  BY <1>3, ImageFinite
<1>5. Fields \subseteq {f[i] : i \in 1..23}
  BY <1>1
<1>. QED
  BY <1>4, <1>5, FS_Subset

LEMMA NamesAre ==
    ASSUME NEW row, IsLine(row)
    PROVE  /\ DOMAIN Names(row) \in SUBSET Nat /\ DOMAIN Names(row) = DOMAIN row
           /\ IsFiniteSet(ToSet(Names(row)))
<1>1. DOMAIN Names(row) = 1..Len(row) /\ Len(row) \in Nat /\ DOMAIN row = 1..Len(row)
  BY DEF IsLine, Names
<1>2. IsFiniteSet(DOMAIN Names(row))
  BY <1>1, FS_Interval
<1>3. ToSet(Names(row)) = {Names(row)[i] : i \in DOMAIN Names(row)}
  BY DEF ToSet
<1>4. IsFiniteSet({Names(row)[i] : i \in DOMAIN Names(row)})
  BY <1>2, ImageFinite
<1>. QED
  BY <1>1, <1>3, <1>4

LEMMA HitsAre ==
    ASSUME NEW row, IsLine(row)
    PROVE  Hits(Names(row)) \in Nat /\ Signature(Names(row)) \in Nat
<1> DEFINE names == Names(row)
           known == ToSet(names) \ {None}
           C(s) == Cardinality(s \cap known)
           sharing == Max({C(s) : s \in {V1Signature, V2Signature}})
           marked == Cardinality({n \in known : Holds[n] \cap RuMarkers # {}})
<1>1. IsFiniteSet(known)
  BY NamesAre, FS_Subset
<1>2. C(V1Signature) \in Nat /\ C(V2Signature) \in Nat /\ marked \in Nat
  <2>1. ASSUME NEW S \in SUBSET known PROVE Cardinality(S) \in Nat
    BY <1>1, FS_Subset, FS_CardinalityType
  <2>. QED
    BY <2>1
<1>3. Hits(names) = IF sharing < 2 THEN Max({sharing, marked}) ELSE sharing
  BY DEF Hits
<1>4. Signature(names) = Hits(names) * 100 + Cardinality({f \in Fields : ColumnMap(names)[f] # 0})
  BY DEF Signature
<1>5. {C(s) : s \in {V1Signature, V2Signature}} = {C(V1Signature), C(V2Signature)}
  OBVIOUS
<1>6. ASSUME NEW m \in Nat, NEW n \in Nat PROVE Max({m, n}) \in Nat
  <2>1. \E x \in {m, n} : \A y \in {m, n} : x >= y
    OBVIOUS
  <2>. QED
    BY <2>1 DEF Max
<1> HIDE DEF C
<1>7. sharing \in Nat
  BY <1>2, <1>5, <1>6
<1> HIDE DEF sharing, marked
<1>8. Hits(names) \in Nat
  BY <1>2, <1>3, <1>6, <1>7
<1>9. Cardinality({f \in Fields : ColumnMap(names)[f] # 0}) \in Nat
  BY FieldsFinite, FS_Subset, FS_CardinalityType
<1>. QED
  BY <1>4, <1>8, <1>9

IsSheet(rows) ==
    Len(rows) \in Nat /\ DOMAIN rows = 1 .. Len(rows) /\ \A i \in DOMAIN rows : IsLine(rows[i])

LEMMA DataIsCounted ==
    ASSUME NEW rows, NEW i \in Nat, NEW last \in Nat
    PROVE  DataAfter(rows, i, last) \in Nat
<1>1. IsFiniteSet(i + 1 .. last)
  BY FS_Interval
<1>2. IsFiniteSet({j \in i + 1 .. last : HasData(rows[j])})
  BY <1>1, FS_Subset
<1>. QED
  BY <1>2, FS_CardinalityType DEF DataAfter

LEMMA HeaderIs ==
    ASSUME NEW rows, IsSheet(rows)
    PROVE  HeaderRow(rows) \in {0} \cup DOMAIN rows
<1> DEFINE last == Min({MaxScan, Len(rows)})
           able == {i \in 1 .. last : Hits(Names(rows[i])) >= 2}
           V(i) == Signature(Names(rows[i])) * 10000 + DataAfter(rows, i, last)
           v == [i \in able |-> V(i)]
<1>1. last \in Nat /\ last <= Len(rows)
  BY MinIs, ReadingAssumption DEF IsSheet
<1>2. HeaderRow(rows) = IF able = {} THEN 0 ELSE Foremost(v)
  BY DEF HeaderRow
<1> HIDE DEF last
<1>3. able \in SUBSET (1..last) /\ 1..last \subseteq DOMAIN rows
  BY <1>1 DEF IsSheet
<1>4. IsFiniteSet(able) /\ able \in SUBSET Nat /\ able \subseteq DOMAIN rows
  <2>1. IsFiniteSet(1..last)
    BY <1>1, FS_Interval
  <2>2. able \in SUBSET (1..last)
    BY <1>3
  <2> HIDE DEF able
  <2>3. IsFiniteSet(able)
    BY <2>1, <2>2, FS_Subset
  <2>. QED
    BY <1>3, <2>2, <2>3
<1>5. ASSUME NEW i \in able PROVE V(i) \in Nat
  <2>1. IsLine(rows[i]) /\ i \in Nat
    BY <1>4 DEF IsSheet
  <2>. QED
    BY <1>1, <2>1, HitsAre, DataIsCounted
<1> HIDE DEF able, V
<1>6. able # {} => Foremost(v) \in able
  BY <1>4, <1>5, ForemostIs
<1>. QED
  BY <1>2, <1>4, <1>6

LEMMA LocatedIs ==
    ASSUME NEW f \in Files, Located(f) # None
    PROVE  Located(f)[1] \in DOMAIN f.sheets /\ Located(f)[2] \in DOMAIN f.sheets[Located(f)[1]]
<1> DEFINE able == {s \in DOMAIN f.sheets : HeaderRow(f.sheets[s]) # 0}
           Worth(s) == Signature(Names(f.sheets[s][HeaderRow(f.sheets[s])])) * 10000
                         + DataAfter(f.sheets[s], HeaderRow(f.sheets[s]), Len(f.sheets[s]))
           v == [s \in able |-> Worth(s)]
<1>1. /\ DOMAIN f.sheets = 1..Len(f.sheets) /\ Len(f.sheets) \in Nat
      /\ \A s \in DOMAIN f.sheets : IsSheet(f.sheets[s])
  BY ReadingAssumption DEF IsFile, IsSheet
<1>2. IsFiniteSet(able) /\ able \in SUBSET Nat /\ able \subseteq DOMAIN f.sheets
  <2>1. IsFiniteSet(1..Len(f.sheets))
    BY <1>1, FS_Interval
  <2>. QED
    BY <1>1, <2>1, FS_Subset
<1>3. \A s \in able : HeaderRow(f.sheets[s]) \in DOMAIN f.sheets[s]
  BY <1>1, HeaderIs
<1>4. Located(f) = IF able = {} THEN None ELSE <<Foremost(v), HeaderRow(f.sheets[Foremost(v)])>>
  BY DEF Located
<1>5. ASSUME NEW s \in able PROVE Worth(s) \in Nat
  <2> DEFINE h == HeaderRow(f.sheets[s])
  <2>1. IsSheet(f.sheets[s]) /\ h \in DOMAIN f.sheets[s]
    BY <1>1, <1>3
  <2> HIDE DEF h
  <2>2. IsLine(f.sheets[s][h]) /\ h \in Nat /\ Len(f.sheets[s]) \in Nat
    BY <2>1 DEF IsSheet
  <2>. QED
    BY <2>2, HitsAre, DataIsCounted DEF h
<1> HIDE DEF Worth, able
<1>6. able # {} => Foremost(v) \in able
  BY <1>2, <1>5, ForemostIs
<1>7. able # {}
  BY <1>4
<1>8. Located(f) = <<Foremost(v), HeaderRow(f.sheets[Foremost(v)])>>
  BY <1>4, <1>7
<1>9. Foremost(v) \in DOMAIN f.sheets /\ HeaderRow(f.sheets[Foremost(v)]) \in DOMAIN f.sheets[Foremost(v)]
  BY <1>2, <1>3, <1>6, <1>7
<1> HIDE DEF v
<1>. QED
  BY <1>8, <1>9

LEMMA StreamTableIs ==
    ASSUME NEW f \in Files, StreamTable(f) # None
    PROVE  StreamTable(f)[1] \in DOMAIN f.sheets /\ StreamTable(f)[2] \in DOMAIN f.sheets[StreamTable(f)[1]]
<1>1. WhereFound[f] = Located(f)
  BY DEF WhereFound
<1>2. f.active \in DOMAIN f.sheets /\ IsSheet(f.sheets[f.active])
  BY ReadingAssumption DEF IsFile, IsSheet
<1>3. CASE WhereFound[f] # None
  BY <1>1, <1>3, LocatedIs DEF StreamTable
<1>4. CASE WhereFound[f] = None
  <2>1. f.sheets[f.active] # << >> /\ StreamTable(f) = <<f.active, 1>>
    BY <1>4 DEF StreamTable
  <2>2. 1 \in DOMAIN f.sheets[f.active]
    BY <1>2, <2>1 DEF IsSheet
  <2>. QED
    BY <1>2, <2>1, <2>2
<1>. QED
  BY <1>3, <1>4

(***************************************************************************)
(* Rows that were read.                                                    *)
(***************************************************************************)
(* Every line of every sheet, and every row the stream makes of one, read   *)
(* below another.                                                          *)
Lines == UNION {UNION {{f.sheets[s][i] : i \in DOMAIN f.sheets[s]} : s \in DOMAIN f.sheets} : f \in Files}
StreamedRows == {StreamedRow(Names(h), row, i) : h \in Lines, row \in Lines, i \in Nat}

LEMMA LinesAre ==
    /\ \A row \in Lines : IsLine(row)
    /\ \A f \in Files : \A s \in DOMAIN f.sheets : \A i \in DOMAIN f.sheets[s] : f.sheets[s][i] \in Lines
BY ReadingAssumption DEF IsFile, Lines

LEMMA CellsAre ==
    ASSUME NEW row, IsLine(row), NEW c
    PROVE  IsCell(Valued(row, c))
BY DEF IsLine, Valued, IsCell, Blank

LEMMA OfIs ==
    ASSUME NEW row, IsLine(row), NEW names, NEW map, NEW field
    PROVE  IsCell(Of(names, map, row, field))
<1>1. IsCell(Blank) /\ \A c : IsCell(Valued(row, c))
  BY CellsAre DEF IsCell, Blank
<1>. QED
  BY <1>1 DEF Of, Mapped

LEMMA FreightIs ==
    ASSUME NEW row, IsLine(row), NEW names, DOMAIN names \in SUBSET Nat
    PROVE  \A c \in DOMAIN Freight(names, row) : Freight(names, row)[c] \in Int
<1> DEFINE Charged(k) == {c \in DOMAIN names : names[c] # None /\ LogisticsKeys[k] \in Holds[names[c]]
                            /\ Mapped(names, row, c).is = "number" /\ Mapped(names, row, c).n # 0}
           Named(k) == {c \in Charged(k) : names[c] = LogisticsKeys[k]}
           keys == {k \in DOMAIN LogisticsKeys : Charged(k) # {}}
           Taken(k) == Min(IF Named(k) # {} THEN Named(k) ELSE Charged(k))
           c0 == Taken(Min(keys))
<1>1. Freight(names, row) = IF keys = {} THEN << >> ELSE [logistics_raw |-> Mapped(names, row, c0).n]
  BY DEF Freight
<1>2. CASE keys = {}
  <2>1. PICK amount : amount = Mapped(names, row, c0).n
    OBVIOUS
  <2> HIDE DEF c0, keys
  <2>2. DOMAIN Freight(names, row) = {}
    BY <1>1, <1>2, <2>1
  <2>. QED
    BY <2>2
<1>3. CASE keys # {}
  <2>1. DOMAIN LogisticsKeys \in SUBSET Nat
    BY DEF LogisticsKeys
  <2>2. keys \in SUBSET Nat
    BY <2>1
  <2>3. Min(keys) \in keys
    BY <1>3, <2>2, MinIs
  <2>4. PICK k : k = Min(keys)
    OBVIOUS
  <2>5. Charged(k) # {} /\ Charged(k) \in SUBSET Nat
    BY <2>3, <2>4
  <2>6. PICK S \in SUBSET Charged(k) : S # {} /\ c0 = Min(S)
    BY <2>4, <2>5
  <2>7. c0 \in S
    BY <2>5, <2>6, MinIs
  <2>8. Mapped(names, row, c0).is = "number"
    BY <2>6, <2>7
  <2>9. IsCell(Mapped(names, row, c0))
    BY CellsAre DEF Mapped
  <2> HIDE DEF c0, keys, Charged
  <2>10. Mapped(names, row, c0).n \in Int
    BY <2>8, <2>9 DEF IsCell
  <2>. QED
    BY <1>1, <1>3, <2>10
<1>. QED
  BY <1>2, <1>3

LEMMA RowsAre ==
    ASSUME NEW r \in StreamedRows
    PROVE  IsRow(LedgerRow(r)) /\ DayOf(r) \in Nat /\ r.index \in Nat
<1>1. PICK h \in Lines, row \in Lines, i \in Nat : r = StreamedRow(Names(h), row, i)
  BY DEF StreamedRows
<1> DEFINE names == Names(h)
           map == ColumnMap(names)
<1>2. /\ r.index = i /\ r.freight = Freight(names, row)
      /\ r.read = Canonical(names, map, row, "day")
  BY <1>1 DEF StreamedRow
<1>3. IsLine(row) /\ DOMAIN names \in SUBSET Nat /\ CreatedOn \in Nat
  BY LinesAre, NamesAre, ReadingAssumption
<1> HIDE DEF names
<1>4. \A c \in DOMAIN r.freight : r.freight[c] \in Int
  BY <1>2, <1>3, FreightIs
<1>5. \A field : IsCell(Of(names, map, row, field))
  BY <1>3, OfIs
<1>6. \A f \in Fields : r.read[f] = Value(f, Of(names, map, row, f), "day")
  BY <1>2 DEF Canonical
<1> HIDE DEF map
<1>7. \A a \in AmountFields : r.read[a] # None => r.read[a] \in Int
  <2> SUFFICES ASSUME NEW a \in AmountFields, r.read[a] # None PROVE r.read[a] \in Int
    OBVIOUS
  <2>1. a \in Fields /\ a \notin Texts /\ a \notin DateFields
    BY DEF AmountFields
  <2>2. PICK cell : cell = Of(names, map, row, a)
    OBVIOUS
  <2>3. r.read[a] = IF cell.is = "number" THEN cell.n ELSE None
    BY <1>6, <2>1, <2>2 DEF Value
  <2>. QED
    BY <1>5, <2>2, <2>3 DEF IsCell
<1>8. IsRow(LedgerRow(r))
  BY <1>4, <1>7 DEF IsRow, LedgerRow
<1>9. DayOf(r) \in Nat
  <2>1. "operation_date" \in Fields /\ "operation_date" \in DateFields /\ "operation_date" \notin Texts
    BY DEF Fields, Aliases, DateFields, Texts
  <2>2. PICK cell : cell = Of(names, map, row, "operation_date")
    OBVIOUS
  <2>3. r.read["operation_date"] = Dated(cell, "day")
    BY <1>6, <2>1, <2>2 DEF Value
  <2>4. Dated(cell, "day") = None \/ Dated(cell, "day") \in Nat
    BY <1>5, <2>2 DEF Dated, IsCell
  <2>. QED
    BY <1>3, <2>3, <2>4 DEF DayOf
<1>. QED
  BY <1>2, <1>8, <1>9

(***************************************************************************)
(* What rows become, and what they become together.                        *)
(***************************************************************************)
EntriesOfRow(r) == Entries(r.index, LedgerRow(r), DayOf(r))
MovesOfRow(r) ==
    {[row |-> m.row, sku |-> m.sku, house |-> r.read.warehouse_name, day |-> m.day] :
        m \in Movements(r.index, LedgerRow(r), DayOf(r))}

LEMMA OfRows ==
    ASSUME NEW s \in Seq(StreamedRows)
    PROVE  /\ \A e : e \in EntriesOf(s) <=> \E i \in DOMAIN s : e \in EntriesOfRow(s[i])
           /\ \A m : m \in MovesOf(s) <=> \E i \in DOMAIN s : m \in MovesOfRow(s[i])
BY DEF EntriesOf, MovesOf, EntriesOfRow, MovesOfRow

LEMMA EntriesAre ==
    ASSUME NEW s \in Seq(StreamedRows)
    PROVE  /\ AreEntries(EntriesOf(s))
           /\ \A e \in EntriesOf(s) : \E i \in DOMAIN s : e.row = s[i].index
<1>1. ASSUME NEW i \in DOMAIN s
      PROVE  /\ IsFiniteSet(EntriesOfRow(s[i]))
             /\ \A e \in EntriesOfRow(s[i]) : IsEntry(e) /\ e.row = s[i].index
  <2>1. s[i] \in StreamedRows
    OBVIOUS
  <2>2. IsRow(LedgerRow(s[i]))
    BY <2>1, RowsAre
  <2>. QED
    BY <2>2, RowEntries DEF EntriesOfRow
<1> DEFINE v == [i \in DOMAIN s |-> EntriesOfRow(s[i])]
           P == {v[i] : i \in DOMAIN s}
<1>2. EntriesOf(s) = UNION P
  BY DEF EntriesOf, EntriesOfRow
<1>3. IsFiniteSet(DOMAIN s)
  <2>1. DOMAIN s = 1..Len(s) /\ Len(s) \in Int /\ 1 \in Int
    OBVIOUS
  <2>. QED
    BY <2>1, FS_Interval
<1>4. \A T \in P : IsFiniteSet(T)
  BY <1>1
<1>5. IsFiniteSet(P)
  <2> HIDE DEF v
  <2>. QED
    BY <1>3, ImageFinite
<1>6. IsFiniteSet(UNION P)
  <2> HIDE DEF P
  <2>. QED
    BY <1>4, <1>5, FS_UNION
<1>7. \A e \in EntriesOf(s) : IsEntry(e) /\ \E i \in DOMAIN s : e.row = s[i].index
  BY <1>1, OfRows
<1>. QED
  BY <1>2, <1>6, <1>7 DEF AreEntries

LEMMA MovesAre ==
    ASSUME NEW s \in Seq(StreamedRows)
    PROVE  \A m \in MovesOf(s) : m.day \in Nat
<1> SUFFICES ASSUME NEW i \in DOMAIN s, NEW m \in MovesOfRow(s[i]) PROVE m.day \in Nat
  BY OfRows
<1>1. PICK n \in Movements(s[i].index, LedgerRow(s[i]), DayOf(s[i])) : m.day = n.day
  BY DEF MovesOfRow
<1>2. PICK op, r, id, day : /\ op = StockOperation(LedgerRow(s[i])) /\ r = LedgerRow(s[i])
                            /\ id = s[i].index /\ day = DayOf(s[i])
  OBVIOUS
<1>3. n.day = day
  BY <1>2 DEF Movements
<1>4. s[i] \in StreamedRows
  OBVIOUS
<1>. QED
  BY <1>1, <1>2, <1>3, <1>4, RowsAre

(* Rows that are numbered apart make entries that are apart. *)
LEMMA RowsJoin ==
    ASSUME NEW s \in Seq(StreamedRows), NEW t \in Seq(StreamedRows)
    PROVE  /\ s \o t \in Seq(StreamedRows)
           /\ EntriesOf(s \o t) = EntriesOf(s) \cup EntriesOf(t)
           /\ MovesOf(s \o t) = MovesOf(s) \cup MovesOf(t)
           /\ (\A i \in DOMAIN s, j \in DOMAIN t : s[i].index # t[j].index) =>
                 EntriesOf(s) \cap EntriesOf(t) = {}
<1> DEFINE u == s \o t
<1>1. /\ u \in Seq(StreamedRows)
      /\ DOMAIN s = 1..Len(s) /\ DOMAIN t = 1..Len(t) /\ DOMAIN u = 1..(Len(s) + Len(t))
      /\ Len(s) \in Nat /\ Len(t) \in Nat
      /\ \A i \in 1..(Len(s) + Len(t)) : u[i] = IF i <= Len(s) THEN s[i] ELSE t[i - Len(s)]
  OBVIOUS
<1> HIDE DEF u
<1>2. \A i \in DOMAIN s : i \in DOMAIN u /\ u[i] = s[i]
  BY <1>1
<1>3. \A i \in DOMAIN t : i + Len(s) \in DOMAIN u /\ u[i + Len(s)] = t[i]
  BY <1>1
<1>4. \A i \in DOMAIN u : i \in DOMAIN s \/ (i - Len(s) \in DOMAIN t)
  BY <1>1
<1>5. \A i \in DOMAIN u : (\E j \in DOMAIN s : u[i] = s[j]) \/ (\E j \in DOMAIN t : u[i] = t[j])
  <2> SUFFICES ASSUME NEW i \in DOMAIN u
               PROVE  (\E j \in DOMAIN s : u[i] = s[j]) \/ (\E j \in DOMAIN t : u[i] = t[j])
    OBVIOUS
  <2>1. CASE i <= Len(s)
    BY <1>1, <2>1
  <2>2. CASE ~(i <= Len(s))
    <3>1. i - Len(s) \in DOMAIN t /\ u[i] = t[i - Len(s)]
      BY <1>1, <2>2
    <3>. QED
      BY <3>1
  <2>. QED
    BY <2>1, <2>2
<1>6. \A e : e \in EntriesOf(u) <=> e \in EntriesOf(s) \/ e \in EntriesOf(t)
  <2>1. \A e : e \in EntriesOf(u) => e \in EntriesOf(s) \/ e \in EntriesOf(t)
    BY <1>1, <1>5, OfRows
  <2>2. \A e : e \in EntriesOf(s) => e \in EntriesOf(u)
    BY <1>1, <1>2, OfRows
  <2>3. \A e : e \in EntriesOf(t) => e \in EntriesOf(u)
    BY <1>1, <1>3, OfRows
  <2>. QED
    BY <2>1, <2>2, <2>3
<1>7. \A m : m \in MovesOf(u) <=> m \in MovesOf(s) \/ m \in MovesOf(t)
  <2>1. \A m : m \in MovesOf(u) => m \in MovesOf(s) \/ m \in MovesOf(t)
    BY <1>1, <1>5, OfRows
  <2>2. \A m : m \in MovesOf(s) => m \in MovesOf(u)
    BY <1>1, <1>2, OfRows
  <2>3. \A m : m \in MovesOf(t) => m \in MovesOf(u)
    BY <1>1, <1>3, OfRows
  <2>. QED
    BY <2>1, <2>2, <2>3
<1>8. ASSUME \A i \in DOMAIN s, j \in DOMAIN t : s[i].index # t[j].index
      PROVE  EntriesOf(s) \cap EntriesOf(t) = {}
  <2>1. ASSUME NEW e, e \in EntriesOf(s), e \in EntriesOf(t) PROVE FALSE
    <3>1. PICK i \in DOMAIN s : e.row = s[i].index
      BY <2>1, EntriesAre
    <3>2. PICK j \in DOMAIN t : e.row = t[j].index
      BY <2>1, EntriesAre
    <3>. QED
      BY <1>8, <3>1, <3>2
  <2>. QED
    BY <2>1
<1>. QED
  BY <1>1, <1>6, <1>7, <1>8 DEF u

(***************************************************************************)
(* What the stream has to say of rows, told at once.                       *)
(***************************************************************************)
EarliestOf(moves) == IF moves = {} THEN None ELSE Min({m.day : m \in moves})
Placed(moves) == {m \in moves : m.sku # None}
DaysOn(moves, k) == {m.day : m \in {n \in Placed(moves) : Shelf(n) = k}}
FirstsOf(moves) == [k \in {Shelf(m) : m \in Placed(moves)} |-> Min(DaysOn(moves, k))]
SkusOf(rows) == {rows[i].read.sku : i \in DOMAIN rows} \ {None}
ColumnsOf(rows) == UNION {DOMAIN rows[i].raw : i \in DOMAIN rows}
LateOf(moves) == {m.row : m \in {n \in moves : n.day > CreatedOn}}

Tells(s, rows) ==
    /\ s = [count |-> Len(rows), earliest |-> EarliestOf(MovesOf(rows)),
            firsts |-> FirstsOf(MovesOf(rows)), skus |-> SkusOf(rows), columns |-> ColumnsOf(rows),
            late |-> LateOf(MovesOf(rows)), recon |-> s.recon]
    /\ s.recon \in Reconciliation /\ s.recon.sums = Sums(EntriesOf(rows))

HasDays(moves) == \A m \in moves : m.day \in Nat

LEMMA EarliestJoin ==
    ASSUME NEW A, HasDays(A), NEW B, HasDays(B)
    PROVE  Earlier(EarliestOf(A), EarliestOf(B)) = EarliestOf(A \cup B)
<1> DEFINE D(X) == {m.day : m \in X}
<1>1. /\ D(A \cup B) = D(A) \cup D(B) /\ D(A) \in SUBSET Nat /\ D(B) \in SUBSET Nat
      /\ \A X : D(X) = {} <=> X = {}
      /\ \A X : EarliestOf(X) = IF X = {} THEN None ELSE Min(D(X))
  BY DEF HasDays, EarliestOf
<1> HIDE DEF D
<1>2. CASE A = {}
  BY <1>1, <1>2 DEF Earlier
<1>3. CASE B = {}
  BY <1>1, <1>3 DEF Earlier
<1>4. CASE A # {} /\ B # {}
  <2>1. Min(D(A)) \in Nat /\ Min(D(B)) \in Nat
    BY <1>1, <1>4, MinIs
  <2>2. Min(D(A)) # None /\ Min(D(B)) # None
    BY <2>1, ReadingAssumption
  <2>3. Earlier(EarliestOf(A), EarliestOf(B)) = Min({Min(D(A)), Min(D(B))})
    BY <1>1, <1>4, <2>2 DEF Earlier
  <2>4. Min({Min(D(A))} \cup {Min(D(B))}) = Min({Min(D(A))} \cup D(B))
    <3>1. {Min(D(A))} \in SUBSET Nat
      BY <2>1
    <3>. QED
      BY <1>1, <1>4, <3>1, MinJoin
  <2>5. Min(D(B) \cup {Min(D(A))}) = Min(D(B) \cup D(A))
    BY <1>1, <1>4, MinJoin
  <2>6. /\ {Min(D(A)), Min(D(B))} = {Min(D(A))} \cup {Min(D(B))}
        /\ {Min(D(A))} \cup D(B) = D(B) \cup {Min(D(A))} /\ D(B) \cup D(A) = D(A \cup B)
    BY <1>1
  <2>7. EarliestOf(A \cup B) = Min(D(A \cup B))
    BY <1>1, <1>4
  <2>. QED
    BY <2>3, <2>4, <2>5, <2>6, <2>7
<1>. QED
  BY <1>2, <1>3, <1>4

LEMMA FirstsJoin ==
    ASSUME NEW A, HasDays(A), NEW B, HasDays(B), NEW s, s.firsts = FirstsOf(A)
    PROVE  Firsts(s, B) = FirstsOf(A \cup B)
<1> DEFINE K(X) == {Shelf(m) : m \in Placed(X)}
           K3 == K(A \cup B)
<1>1. K(A \cup B) = K(A) \cup K(B)
  BY DEF Placed
<1>2. \A k : DaysOn(A \cup B, k) = DaysOn(B, k) \cup DaysOn(A, k)
  BY DEF DaysOn, Placed
<1>3. \A k : DaysOn(A, k) \in SUBSET Nat /\ DaysOn(B, k) \in SUBSET Nat
  BY DEF HasDays, DaysOn, Placed
<1>4. \A k : k \in K(A) <=> DaysOn(A, k) # {}
  BY DEF DaysOn
<1>5. Firsts(s, B) = [k \in DOMAIN s.firsts \cup K(B) |->
                        Min(DaysOn(B, k) \cup (IF k \in DOMAIN s.firsts THEN {s.firsts[k]} ELSE {}))]
  BY DEF Firsts, DaysOn, Placed
<1>6. DOMAIN s.firsts = K(A) /\ \A k \in K(A) : s.firsts[k] = Min(DaysOn(A, k))
  BY DEF FirstsOf
<1>7. FirstsOf(A \cup B) = [k \in K(A \cup B) |-> Min(DaysOn(A \cup B, k))]
  BY DEF FirstsOf
<1> HIDE DEF K
<1>8. ASSUME NEW k
      PROVE  Min(DaysOn(B, k) \cup (IF k \in K(A) THEN {s.firsts[k]} ELSE {})) = Min(DaysOn(A \cup B, k))
  <2>1. CASE k \in K(A)
    <3>1. Min(DaysOn(B, k) \cup {Min(DaysOn(A, k))}) = Min(DaysOn(B, k) \cup DaysOn(A, k))
      BY <1>3, <1>4, <2>1, MinJoin
    <3>. QED
      BY <1>2, <1>6, <2>1, <3>1
  <2>2. CASE k \notin K(A)
    <3>1. DaysOn(A \cup B, k) = DaysOn(B, k) \cup {}
      BY <1>2, <1>4, <2>2
    <3>. QED
      BY <2>2, <3>1
  <2>. QED
    BY <2>1, <2>2
<1>. QED
  BY <1>1, <1>5, <1>6, <1>7, <1>8

LEMMA NothingFirst ==
    ASSUME NEW B
    PROVE  Firsts(NoSums, B) = FirstsOf(B)
<1>1. DOMAIN NoSums.firsts = {}
  BY DEF NoSums
<1>2. \A k : DaysOn(B, k) \cup {} = DaysOn(B, k)
  OBVIOUS
<1>3. Firsts(NoSums, B) = [k \in {Shelf(m) : m \in Placed(B)} |-> Min(DaysOn(B, k) \cup {})]
  BY <1>1 DEF Firsts, DaysOn, Placed
<1>. QED
  BY <1>2, <1>3 DEF FirstsOf

(* The first chunk tells of itself ... *)
LEMMA FirstTells ==
    ASSUME NEW rows \in Seq(StreamedRows)
    PROVE  Tells(Added(NoSums, rows), rows)
<1> DEFINE M == MovesOf(rows)
           E == EntriesOf(rows)
           s == Added(NoSums, rows)
<1>1. s = [count |-> 0 + Len(rows), earliest |-> Earlier(None, EarliestOf(M)), firsts |-> Firsts(NoSums, M),
           skus |-> {} \cup SkusOf(rows), columns |-> {} \cup ColumnsOf(rows),
           late |-> {} \cup LateOf(M), recon |-> Calculate(E)]
  BY DEF Added, NoSums, EarliestOf, SkusOf, ColumnsOf, LateOf
<1>2. 0 + Len(rows) = Len(rows) /\ Earlier(None, EarliestOf(M)) = EarliestOf(M)
  BY DEF Earlier
<1>3. /\ {} \cup SkusOf(rows) = SkusOf(rows) /\ {} \cup ColumnsOf(rows) = ColumnsOf(rows)
      /\ {} \cup LateOf(M) = LateOf(M) /\ Firsts(NoSums, M) = FirstsOf(M)
  BY NothingFirst
<1>4. s = [count |-> Len(rows), earliest |-> EarliestOf(M), firsts |-> FirstsOf(M),
           skus |-> SkusOf(rows), columns |-> ColumnsOf(rows), late |-> LateOf(M), recon |-> Calculate(E)]
  BY <1>1, <1>2, <1>3
<1>5. AreEntries(E)
  BY EntriesAre
<1>6. [f \in {"gross", "commissions", "logistics", "deductions", "returns", "payout"} |-> 0] \in Summed
  BY DEF Summed
<1>7. \E a : a \in Reconciliation
  <2>1. [sums |-> [f \in {"gross", "commissions", "logistics", "deductions", "returns", "payout"} |-> 0],
         expected |-> 0, difference |-> 0] \in Reconciliation
    BY <1>6 DEF Reconciliation
  <2>. QED
    BY <2>1
<1> HIDE DEF E, M, s
<1>8. Calculate(E) \in Reconciliation /\ Calculate(E).sums = Sums(E)
  BY <1>5, <1>7, MergeTypes
<1>9. s.recon = Calculate(E)
  BY <1>4
<1>. QED
  BY <1>4, <1>8, <1>9 DEF Tells, E, M, s

(* ... and one that is added to what was told tells of both. *)
LEMMA AddedTells ==
    ASSUME NEW rows \in Seq(StreamedRows), NEW more \in Seq(StreamedRows),
           \A i \in DOMAIN rows, j \in DOMAIN more : rows[i].index # more[j].index,
           NEW s, Tells(s, rows)
    PROVE  Tells(Added(s, more), rows \o more)
<1> DEFINE all == rows \o more
           A == MovesOf(rows)
           B == MovesOf(more)
           E == EntriesOf(rows)
           F == EntriesOf(more)
           told == Added(s, more)
<1>1. all \in Seq(StreamedRows) /\ EntriesOf(all) = E \cup F /\ MovesOf(all) = A \cup B /\ E \cap F = {}
  BY RowsJoin
<1>2. HasDays(A) /\ HasDays(B)
  BY MovesAre DEF HasDays
<1>3. AreEntries(E) /\ AreEntries(F)
  BY EntriesAre
<1>4. /\ s.count = Len(rows) /\ s.earliest = EarliestOf(A) /\ s.firsts = FirstsOf(A)
      /\ s.skus = SkusOf(rows) /\ s.columns = ColumnsOf(rows) /\ s.late = LateOf(A)
      /\ s.recon \in Reconciliation /\ s.recon.sums = Sums(E)
  BY DEF Tells
<1>5. s.recon # None
  BY <1>4, ReadingAssumption
<1>6. told = [count |-> s.count + Len(more), earliest |-> Earlier(s.earliest, EarliestOf(B)),
              firsts |-> Firsts(s, B), skus |-> s.skus \cup SkusOf(more),
              columns |-> s.columns \cup ColumnsOf(more), late |-> s.late \cup LateOf(B),
              recon |-> Merge(s.recon, Calculate(F))]
  BY <1>5 DEF Added, EarliestOf, SkusOf, ColumnsOf, LateOf
<1>7. Len(rows) + Len(more) = Len(all)
  OBVIOUS
<1>8. SkusOf(rows) \cup SkusOf(more) = SkusOf(all) /\ ColumnsOf(rows) \cup ColumnsOf(more) = ColumnsOf(all)
  <2>1. /\ DOMAIN rows = 1..Len(rows) /\ DOMAIN more = 1..Len(more) /\ DOMAIN all = 1..(Len(rows) + Len(more))
        /\ Len(rows) \in Nat /\ Len(more) \in Nat
        /\ \A i \in 1..(Len(rows) + Len(more)) : all[i] = IF i <= Len(rows) THEN rows[i] ELSE more[i - Len(rows)]
    OBVIOUS
  <2> HIDE DEF all
  <2>2. \A i \in DOMAIN rows : i \in DOMAIN all /\ all[i] = rows[i]
    BY <2>1
  <2>3. \A i \in DOMAIN more : i + Len(rows) \in DOMAIN all /\ all[i + Len(rows)] = more[i]
    BY <2>1
  <2>4. \A i \in DOMAIN all : (\E j \in DOMAIN rows : all[i] = rows[j]) \/ (\E j \in DOMAIN more : all[i] = more[j])
    <3> SUFFICES ASSUME NEW i \in DOMAIN all
                 PROVE  (\E j \in DOMAIN rows : all[i] = rows[j]) \/ (\E j \in DOMAIN more : all[i] = more[j])
      OBVIOUS
    <3>1. CASE i <= Len(rows)
      BY <2>1, <3>1
    <3>2. CASE ~(i <= Len(rows))
      <4>1. i - Len(rows) \in DOMAIN more /\ all[i] = more[i - Len(rows)]
        BY <2>1, <3>2
      <4>. QED
        BY <4>1
    <3>. QED
      BY <3>1, <3>2
  <2>5. \A x : x \in SkusOf(all) <=> x \in SkusOf(rows) \/ x \in SkusOf(more)
    <3>1. \A x : x \in SkusOf(all) => x \in SkusOf(rows) \/ x \in SkusOf(more)
      BY <2>4 DEF SkusOf
    <3>2. \A x : x \in SkusOf(rows) => x \in SkusOf(all)
      BY <2>2 DEF SkusOf
    <3>3. \A x : x \in SkusOf(more) => x \in SkusOf(all)
      BY <2>3 DEF SkusOf
    <3>. QED
      BY <3>1, <3>2, <3>3
  <2>6. \A x : x \in ColumnsOf(all) <=> x \in ColumnsOf(rows) \/ x \in ColumnsOf(more)
    <3>1. \A x : x \in ColumnsOf(all) => x \in ColumnsOf(rows) \/ x \in ColumnsOf(more)
      BY <2>4 DEF ColumnsOf
    <3>2. \A x : x \in ColumnsOf(rows) => x \in ColumnsOf(all)
      BY <2>2 DEF ColumnsOf
    <3>3. \A x : x \in ColumnsOf(more) => x \in ColumnsOf(all)
      BY <2>3 DEF ColumnsOf
    <3>. QED
      BY <3>1, <3>2, <3>3
  <2>. QED
    BY <2>5, <2>6
<1>9. LateOf(A) \cup LateOf(B) = LateOf(A \cup B)
  BY DEF LateOf
<1>10. Earlier(EarliestOf(A), EarliestOf(B)) = EarliestOf(A \cup B) /\ Firsts(s, B) = FirstsOf(A \cup B)
  BY <1>2, <1>4, EarliestJoin, FirstsJoin
<1> HIDE DEF all, A, B, E, F, told
<1>11. told = [count |-> Len(all), earliest |-> EarliestOf(MovesOf(all)), firsts |-> FirstsOf(MovesOf(all)),
               skus |-> SkusOf(all), columns |-> ColumnsOf(all), late |-> LateOf(MovesOf(all)),
               recon |-> Merge(s.recon, Calculate(F))]
  BY <1>1, <1>4, <1>6, <1>7, <1>8, <1>9, <1>10
<1>12. /\ Merge(s.recon, Calculate(F)) \in Reconciliation
       /\ Merge(s.recon, Calculate(F)).sums = Sums(EntriesOf(all))
  <2>1. /\ Merge(s.recon, Calculate(F)) \in Reconciliation
        /\ Merge(s.recon, Calculate(F)) = Reconciled([f \in DOMAIN s.recon.sums |-> s.recon.sums[f] + Sums(F)[f]], 0)
    BY <1>3, <1>4, MergeTypes
  <2>2. Sums(E \cup F) = [f \in DOMAIN Sums(E) |-> Sums(E)[f] + Sums(F)[f]]
    BY <1>1, <1>3, SumsJoin
  <2>3. Merge(s.recon, Calculate(F)) = Reconciled(Sums(E \cup F), 0)
    BY <1>4, <2>1, <2>2
  <2>4. \A x : Reconciled(x, 0).sums = x
    BY DEF Reconciled
  <2>. QED
    BY <1>1, <2>1, <2>3, <2>4
<1>13. told.recon = Merge(s.recon, Calculate(F))
  BY <1>11
<1>. QED
  BY <1>11, <1>12, <1>13 DEF Tells, told, all

(***************************************************************************)
(* The invariant.                                                          *)
(***************************************************************************)
(* The reader is below a header that is there, and has numbered the rows it *)
(* read, over the chunks, by their order.                                  *)
Placing ==
    /\ file \in Files
    /\ pc \in {"read", "done", "stopped"} =>
          /\ table[1] \in DOMAIN file.sheets /\ table[2] \in DOMAIN Rows
          /\ at \in Nat /\ table[2] < at
    /\ pc \notin {"read", "done", "stopped"} => out = << >> /\ chunk = << >>
    /\ out \in Seq(StreamedRows) /\ chunk \in Seq(StreamedRows)

Numbering ==
    /\ \A i \in DOMAIN out : out[i].index = i - 1
    /\ \A i \in DOMAIN chunk : chunk[i].index = Len(out) + i - 1

Telling == IF out = << >> THEN sums = NoSums ELSE Tells(sums, out)

ReadingInv == Placing /\ Numbering /\ Telling

LEMMA ReadingStarts == ReadingInit => ReadingInv
BY DEF ReadingInit, ReadingInv, Placing, Numbering, Telling

LEMMA LocateKeeps == ASSUME ReadingInv, Locate PROVE ReadingInv'
<1>1. /\ pc = "locate" /\ table' = StreamTable(file) /\ file' = file /\ out' = out /\ chunk' = chunk
      /\ sums' = sums /\ out = << >> /\ chunk = << >> /\ file \in Files
      /\ \/ table' = None /\ pc' = "refused"
         \/ table' # None /\ pc' = "read" /\ at' = table'[2] + 1
  BY DEF Locate, ReadingInv, Placing
<1>2. CASE table' = None /\ pc' = "refused"
  BY <1>1, <1>2 DEF ReadingInv, Placing, Numbering, Telling
<1>3. CASE table' # None /\ pc' = "read" /\ at' = table'[2] + 1
  <2>1. table'[1] \in DOMAIN file.sheets /\ table'[2] \in DOMAIN file.sheets[table'[1]]
    BY <1>1, <1>3, StreamTableIs
  <2>2. IsSheet(file.sheets[table'[1]])
    BY <1>1, <2>1, ReadingAssumption DEF IsFile, IsSheet
  <2>3. table'[2] \in Nat
    BY <2>1, <2>2 DEF IsSheet
  <2>4. Placing'
    BY <1>1, <1>3, <2>1, <2>3 DEF Placing, Rows
  <2>5. Numbering' /\ Telling'
    BY <1>1 DEF ReadingInv, Numbering, Telling
  <2>. QED
    BY <2>4, <2>5 DEF ReadingInv
<1>. QED
  BY <1>1, <1>2, <1>3

LEMMA HeaderIsALine ==
    ASSUME Placing, pc = "read"
    PROVE  /\ file.sheets[table[1]][table[2]] \in Lines
           /\ \A i \in DOMAIN Rows : Rows[i] \in Lines
           /\ Len(Rows) \in Nat /\ DOMAIN Rows = 1..Len(Rows)
<1>1. IsSheet(Rows)
  BY ReadingAssumption DEF Placing, Rows, IsFile, IsSheet
<1>. QED
  BY <1>1, LinesAre DEF Placing, Rows, IsSheet

LEMMA ReadRowKeeps == ASSUME ReadingInv, ReadRow PROVE ReadingInv'
<1> DEFINE n == Len(out) + Len(chunk)
           r == StreamedRow(Header, Rows[at], n)
<1>1. /\ pc = "read" /\ pc' = pc /\ file' = file /\ table' = table /\ out' = out /\ sums' = sums
      /\ at <= Len(Rows) /\ at' = at + 1
      /\ chunk' = chunk \/ chunk' = Append(chunk, r)
  BY DEF ReadRow
<1>2. /\ at \in DOMAIN Rows /\ Rows[at] \in Lines /\ file.sheets[table[1]][table[2]] \in Lines
      /\ at \in Nat /\ table[2] \in Nat /\ table[2] < at
  <2>1. at \in Nat /\ table[2] \in DOMAIN Rows /\ table[2] < at
    BY <1>1 DEF ReadingInv, Placing
  <2>2. /\ \A i \in DOMAIN Rows : Rows[i] \in Lines
        /\ Len(Rows) \in Nat /\ DOMAIN Rows = 1..Len(Rows)
        /\ file.sheets[table[1]][table[2]] \in Lines
    BY <1>1, HeaderIsALine DEF ReadingInv
  <2>. QED
    BY <1>1, <2>1, <2>2
<1>3. out \in Seq(StreamedRows) /\ chunk \in Seq(StreamedRows) /\ n \in Nat
  BY DEF ReadingInv, Placing
<1>4. r \in StreamedRows /\ r.index = n
  <2> HIDE DEF n
  <2>1. r \in StreamedRows
    BY <1>2, <1>3 DEF StreamedRows, Header
  <2>2. r.index = n
    BY DEF StreamedRow
  <2>. QED
    BY <2>1, <2>2
<1> HIDE DEF r
<1>5. chunk' \in Seq(StreamedRows)
  BY <1>1, <1>3, <1>4
<1>6. Placing'
  BY <1>1, <1>2, <1>5 DEF ReadingInv, Placing, Rows
<1>7. \A i \in DOMAIN chunk' : chunk'[i].index = Len(out) + i - 1
  <2>1. CASE chunk' = chunk
    BY <2>1 DEF ReadingInv, Numbering
  <2>2. CASE chunk' = Append(chunk, r)
    <3>1. /\ DOMAIN chunk = 1..Len(chunk) /\ DOMAIN chunk' = 1..(Len(chunk) + 1) /\ Len(chunk) \in Nat
          /\ \A i \in 1..Len(chunk) : chunk'[i] = chunk[i]
          /\ chunk'[Len(chunk) + 1] = r
      BY <1>3, <1>4, <2>2
    <3>2. \A i \in 1..Len(chunk) : chunk[i].index = Len(out) + i - 1
      BY <3>1 DEF ReadingInv, Numbering
    <3>3. r.index = Len(out) + (Len(chunk) + 1) - 1
      BY <1>3, <1>4, <3>1
    <3>. QED
      BY <3>1, <3>2, <3>3
  <2>. QED
    BY <1>1, <2>1, <2>2
<1>8. Numbering' /\ Telling'
  BY <1>1, <1>7 DEF ReadingInv, Numbering, Telling
<1>. QED
  BY <1>6, <1>8 DEF ReadingInv

LEMMA HandOverKeeps == ASSUME ReadingInv, HandOver PROVE ReadingInv'
<1>1. /\ pc = "read" /\ pc' \in {"read", "stopped"} /\ file' = file /\ table' = table /\ at' = at
      /\ out' = out \o chunk /\ sums' = Added(sums, chunk) /\ chunk' = << >>
  BY DEF HandOver, Ready
<1>2. out \in Seq(StreamedRows) /\ chunk \in Seq(StreamedRows)
  BY DEF ReadingInv, Placing
<1>3. chunk # << >>
  BY <1>2, ReadingAssumption DEF HandOver, Ready
<1>4. /\ out' \in Seq(StreamedRows)
      /\ DOMAIN out = 1..Len(out) /\ DOMAIN chunk = 1..Len(chunk)
      /\ DOMAIN out' = 1..(Len(out) + Len(chunk)) /\ Len(out) \in Nat /\ Len(chunk) \in Nat
      /\ \A i \in 1..(Len(out) + Len(chunk)) : out'[i] = IF i <= Len(out) THEN out[i] ELSE chunk[i - Len(out)]
  BY <1>1, <1>2
<1>5. Placing'
  BY <1>1, <1>4 DEF ReadingInv, Placing, Rows
<1>6. Numbering'
  <2>1. ASSUME NEW i \in DOMAIN out' PROVE out'[i].index = i - 1
    <3>1. CASE i <= Len(out)
      <4>1. i \in DOMAIN out /\ out'[i] = out[i]
        BY <1>4, <3>1
      <4>. QED
        BY <4>1 DEF ReadingInv, Numbering
    <3>2. CASE ~(i <= Len(out))
      <4>1. i - Len(out) \in DOMAIN chunk /\ out'[i] = chunk[i - Len(out)] /\ i \in Nat
        BY <1>4, <3>2
      <4>2. chunk[i - Len(out)].index = Len(out) + (i - Len(out)) - 1
        BY <4>1 DEF ReadingInv, Numbering
      <4>. QED
        BY <1>4, <4>1, <4>2
    <3>. QED
      BY <3>1, <3>2
  <2>. QED
    BY <1>1, <2>1 DEF Numbering
<1>7. Telling'
  <2>1. CASE out = << >>
    <3>1. sums = NoSums /\ out' = chunk
      BY <1>1, <1>2, <2>1 DEF ReadingInv, Telling
    <3>2. Tells(Added(NoSums, chunk), chunk)
      BY <1>2, FirstTells
    <3>. QED
      BY <1>1, <1>3, <3>1, <3>2 DEF Telling, Tells
  <2>2. CASE out # << >>
    <3>1. Tells(sums, out)
      BY <2>2 DEF ReadingInv, Telling
    <3>2. \A i \in DOMAIN out, j \in DOMAIN chunk : out[i].index # chunk[j].index
      <4> SUFFICES ASSUME NEW i \in DOMAIN out, NEW j \in DOMAIN chunk PROVE out[i].index # chunk[j].index
        OBVIOUS
      <4>1. out[i].index = i - 1 /\ chunk[j].index = Len(out) + j - 1
        BY DEF ReadingInv, Numbering
      <4>2. i \in 1..Len(out) /\ j \in 1..Len(chunk)
        BY <1>4
      <4>3. i - 1 # Len(out) + j - 1
        BY <1>4, <4>2
      <4>. QED
        BY <4>1, <4>3
    <3>3. Tells(Added(sums, chunk), out \o chunk)
      BY <1>2, <3>1, <3>2, AddedTells
    <3>4. out' # << >>
      BY <1>1, <1>2, <2>2
    <3>. QED
      BY <1>1, <3>3, <3>4 DEF Telling, Tells
  <2>. QED
    BY <2>1, <2>2
<1>. QED
  BY <1>5, <1>6, <1>7 DEF ReadingInv

LEMMA ReadingStep == ReadingInv /\ [ReadingNext]_readingVars => ReadingInv'
<1> SUFFICES ASSUME ReadingInv, [ReadingNext]_readingVars PROVE ReadingInv'
  OBVIOUS
<1>1. CASE Upload
  BY <1>1 DEF Upload, ReadingInv, Placing, Numbering, Telling
<1>2. CASE Locate
  BY <1>2, LocateKeeps
<1>3. CASE ReadRow
  BY <1>3, ReadRowKeeps
<1>4. CASE HandOver
  BY <1>4, HandOverKeeps
<1>5. CASE Ends
  <2>1. pc' \in {"refused", "done"} /\ (pc' = "refused" => out = << >> /\ chunk = << >>) /\ pc = "read"
    BY <1>5 DEF Ends
  <2>2. UNCHANGED <<file, table, at, chunk, out, sums>>
    BY <1>5 DEF Ends
  <2>. QED
    BY <2>1, <2>2 DEF ReadingInv, Placing, Numbering, Telling, Rows
<1>6. CASE Stop
  <2>1. pc' = "stopped" /\ pc = "read" /\ UNCHANGED <<file, table, at, chunk, out, sums>>
    BY <1>6 DEF Stop, Ready
  <2>. QED
    BY <2>1 DEF ReadingInv, Placing, Numbering, Telling, Rows
<1>7. CASE UNCHANGED readingVars
  BY <1>7 DEF readingVars, ReadingInv, Placing, Numbering, Telling, Rows
<1>. QED
  BY <1>1, <1>2, <1>3, <1>4, <1>5, <1>6, <1>7 DEF ReadingNext

(***************************************************************************)
(* The upload and the worker.                                              *)
(***************************************************************************)
(* Only files the upload accepted are read, and until a row is found there  *)
(* was none to find.                                                       *)
Foretelling ==
    /\ pc = "turned" => ~Accepted(file)
    /\ pc \notin {"upload", "turned"} => Accepted(file)
    /\ pc = "read" => table = StreamTable(file) /\ table # None
    /\ pc = "read" /\ out = << >> /\ chunk = << >> =>
          \A i \in table[2] + 1 .. at - 1 : ~HasData(Rows[i])
    /\ pc = "refused" => ~Streams(file)

LEMMA NothingStreams ==
    ASSUME NEW f, NEW t, StreamTable(f) = t
    PROVE  Streams(f) <=> /\ t # None
                          /\ \E i \in t[2] + 1 .. Len(f.sheets[t[1]]) : HasData(f.sheets[t[1]][i])
BY DEF Streams

LEMMA ReadForetells == ASSUME ReadingInv, Foretelling, ReadRow PROVE Foretelling'
<1>1. /\ pc = "read" /\ pc' = pc /\ file' = file /\ table' = table /\ out' = out /\ at' = at + 1
      /\ chunk' = IF HasData(Rows[at])
                  THEN Append(chunk, StreamedRow(Header, Rows[at], Len(out) + Len(chunk))) ELSE chunk
  BY DEF ReadRow
<1>2. at \in Nat /\ table[2] \in Nat /\ chunk \in Seq(StreamedRows)
  BY <1>1, HeaderIsALine DEF ReadingInv, Placing
<1>3. ASSUME out' = << >>, chunk' = << >>
      PROVE  \A i \in table[2] + 1 .. at' - 1 : ~HasData(Rows[i])
  <2>1. ~HasData(Rows[at]) /\ chunk = << >>
    BY <1>1, <1>2, <1>3
  <2>2. \A i \in table[2] + 1 .. at - 1 : ~HasData(Rows[i])
    BY <1>1, <1>3, <2>1 DEF Foretelling
  <2>3. \A i \in table[2] + 1 .. at' - 1 : i = at \/ i \in table[2] + 1 .. at - 1
    BY <1>1, <1>2
  <2>. QED
    BY <2>1, <2>2, <2>3
<1>. QED
  BY <1>1, <1>3 DEF Foretelling, Rows

LEMMA HandedOverForetells == ASSUME ReadingInv, Foretelling, HandOver PROVE Foretelling'
<1>1. /\ pc = "read" /\ pc' \in {"read", "stopped"} /\ file' = file /\ table' = table /\ at' = at /\ out' = out \o chunk
  BY DEF HandOver, Ready
<1>2. out \in Seq(StreamedRows) /\ chunk \in Seq(StreamedRows)
  BY DEF ReadingInv, Placing
<1>3. chunk # << >>
  BY <1>2, ReadingAssumption DEF HandOver, Ready
<1>4. out' # << >>
  BY <1>1, <1>2, <1>3
<1>. QED
  BY <1>1, <1>4 DEF Foretelling

LEMMA EndForetells == ASSUME ReadingInv, Foretelling, Ends PROVE Foretelling'
<1>1. /\ pc = "read" /\ at > Len(Rows) /\ chunk = << >>
      /\ pc' = IF out = << >> THEN "refused" ELSE "done"
      /\ UNCHANGED <<file, table, at, chunk, out, sums>>
  BY DEF Ends
<1>2. /\ Accepted(file) /\ table = StreamTable(file) /\ at \in Nat /\ table[2] \in Nat
      /\ Len(Rows) \in Nat
  BY <1>1, HeaderIsALine DEF ReadingInv, Placing, Foretelling
<1>3. ASSUME out = << >> PROVE ~Streams(file)
  <2>1. \A i \in table[2] + 1 .. at - 1 : ~HasData(Rows[i])
    BY <1>1, <1>3 DEF Foretelling
  <2>2. \A i \in table[2] + 1 .. Len(Rows) : i \in table[2] + 1 .. at - 1
    BY <1>1, <1>2
  <2>3. PICK t : t = table
    OBVIOUS
  <2>4. Streams(file) <=> /\ t # None
                          /\ \E i \in t[2] + 1 .. Len(file.sheets[t[1]]) : HasData(file.sheets[t[1]][i])
    BY <1>2, <2>3, NothingStreams
  <2>. QED
    BY <2>1, <2>2, <2>3, <2>4 DEF Rows
<1>. QED
  BY <1>1, <1>2, <1>3 DEF Foretelling

LEMMA ForetellingStep == ReadingInv /\ Foretelling /\ [ReadingNext]_readingVars => Foretelling'
<1> SUFFICES ASSUME ReadingInv, Foretelling, [ReadingNext]_readingVars PROVE Foretelling'
  OBVIOUS
<1>1. CASE Upload
  BY <1>1 DEF Upload, Foretelling
<1>2. CASE Locate
  <2>1. /\ pc = "locate" /\ table' = StreamTable(file) /\ file' = file /\ Accepted(file)
        /\ out' = out /\ chunk' = chunk
        /\ \/ table' = None /\ pc' = "refused"
           \/ table' # None /\ pc' = "read" /\ at' = table'[2] + 1
    BY <1>2 DEF Locate, Foretelling
  <2>2. CASE table' = None /\ pc' = "refused"
    <3>1. ~Streams(file)
      BY <2>1, <2>2 DEF Streams
    <3>. QED
      BY <2>1, <2>2, <3>1 DEF Foretelling
  <2>3. CASE table' # None /\ pc' = "read" /\ at' = table'[2] + 1
    <3>1. table'[2] \in Nat
      <4>1. file \in Files
        BY DEF ReadingInv, Placing
      <4>2. PICK t : t = table'
        OBVIOUS
      <4>3. t[1] \in DOMAIN file.sheets /\ t[2] \in DOMAIN file.sheets[t[1]]
        BY <2>1, <2>3, <4>1, <4>2, StreamTableIs
      <4>4. IsSheet(file.sheets[t[1]])
        BY <4>1, <4>3, ReadingAssumption DEF IsFile, IsSheet
      <4>. QED
        BY <4>2, <4>3, <4>4 DEF IsSheet
    <3>2. \A i \in table'[2] + 1 .. at' - 1 : FALSE
      BY <2>3, <3>1
    <3>. QED
      BY <2>1, <2>3, <3>2 DEF Foretelling
  <2>. QED
    BY <2>1, <2>2, <2>3
<1>3. CASE ReadRow
  BY <1>3, ReadForetells
<1>4. CASE HandOver
  BY <1>4, HandedOverForetells
<1>5. CASE Ends
  BY <1>5, EndForetells
<1>6. CASE Stop
  BY <1>6 DEF Stop, Ready, Foretelling
<1>7. CASE UNCHANGED readingVars
  BY <1>7 DEF readingVars, Foretelling, Rows
<1>. QED
  BY <1>1, <1>2, <1>3, <1>4, <1>5, <1>6, <1>7 DEF ReadingNext

LEMMA OneTable ==
    ASSUME NEW f \in Files, OneView(f), StreamTable(f) # None
    PROVE  /\ FrameTable(f) = StreamTable(f)
           /\ f.csv => StreamTable(f)[1] = 1
BY StreamTableIs, ReadingAssumption DEF OneView, FrameTable, StreamTable, IsFile

(* A line with data below the header is a line of the frame, and the last   *)
(* line of a workbook's frame has data.                                    *)
LEMMA FrameLinesAre ==
    ASSUME NEW f \in Files, NEW t, t[1] \in DOMAIN f.sheets, t[2] \in DOMAIN f.sheets[t[1]]
    PROVE  /\ FrameLines(f, t) \subseteq t[2] + 1 .. Len(f.sheets[t[1]])
           /\ \A i \in t[2] + 1 .. Len(f.sheets[t[1]]) : HasData(f.sheets[t[1]][i]) => i \in FrameLines(f, t)
           /\ ~f.csv /\ FrameLines(f, t) # {} =>
                 \E i \in t[2] + 1 .. Len(f.sheets[t[1]]) : HasData(f.sheets[t[1]][i])
<1> DEFINE rows == f.sheets[t[1]]
           S == {t[2]} \cup {i \in DOMAIN rows : HasData(rows[i])}
           last == Max(S)
<1>1. IsSheet(rows)
  BY ReadingAssumption DEF IsFile, IsSheet
<1>2. FrameLines(f, t) = IF f.csv THEN {i \in t[2] + 1 .. Len(rows) : rows[i] # << >>}
                         ELSE t[2] + 1 .. last
  BY DEF FrameLines
<1> HIDE DEF rows
<1>3. DOMAIN rows = 1..Len(rows) /\ Len(rows) \in Nat /\ t[2] \in DOMAIN rows /\ t[2] \in Nat
  BY <1>1 DEF IsSheet, rows
<1>4. /\ S \in SUBSET Nat /\ S # {} /\ \A x \in S : x <= Len(rows)
  BY <1>3
<1>5. last \in S /\ \A x \in S : x <= last
  <2> HIDE DEF S
  <2>. QED
    BY <1>3, <1>4, MaxExists
<1>6. last = t[2] \/ (last \in DOMAIN rows /\ HasData(rows[last]))
  BY <1>5
<1>7. \A i \in DOMAIN rows : HasData(rows[i]) => i <= last
  BY <1>5
<1>8. last \in Nat /\ last <= Len(rows)
  BY <1>4, <1>5
<1>9. \A row : HasData(row) => row # << >>
  BY DEF HasData
<1> HIDE DEF last, S
<1>10. FrameLines(f, t) \subseteq t[2] + 1 .. Len(rows)
  BY <1>2, <1>3, <1>8
<1>11. \A i \in t[2] + 1 .. Len(rows) : HasData(rows[i]) => i \in FrameLines(f, t)
  BY <1>2, <1>3, <1>7, <1>8, <1>9
<1>12. ASSUME ~f.csv, FrameLines(f, t) # {}
       PROVE  \E i \in t[2] + 1 .. Len(rows) : HasData(rows[i])
  <2>1. t[2] < last
    BY <1>2, <1>3, <1>8, <1>12
  <2>2. last \in t[2] + 1 .. Len(rows) /\ HasData(rows[last])
    BY <1>3, <1>6, <1>8, <2>1
  <2>. QED
    BY <2>2
<1>. QED
  BY <1>10, <1>11, <1>12 DEF rows

(* A .csv none of whose lines is wider than its header moves no name, and     *)
(* so the upload accepts it.                                               *)
LEMMA UnshiftedIs ==
    ASSUME NEW f \in Files, NEW t, t[1] \in DOMAIN f.sheets, t[2] \in DOMAIN f.sheets[t[1]],
           f.csv => t[1] = 1, FrameLines(f, t) # {},
           FrameLines(f, t) \subseteq t[2] + 1 .. Len(f.sheets[t[1]]),
           f.csv => \A i \in FrameLines(f, t) : Len(f.sheets[1][i]) <= Len(f.sheets[1][t[2]])
    PROVE  Shift(f, t) = 0
<1>1. PICK rows, lines : rows = f.sheets[t[1]] /\ lines = FrameLines(f, t)
  OBVIOUS
<1>2. CASE ~f.csv
  BY <1>2 DEF Shift
<1>3. CASE f.csv
  <2>1. IsSheet(rows) /\ t[2] \in DOMAIN rows /\ rows = f.sheets[1]
    BY <1>1, <1>3, ReadingAssumption DEF IsFile, IsSheet
  <2>2. t[2] \in Nat /\ Len(rows) \in Nat /\ DOMAIN rows = 1..Len(rows)
    BY <2>1 DEF IsSheet
  <2>3. lines \in SUBSET Nat /\ lines # {} /\ lines \subseteq DOMAIN rows
    BY <1>1, <2>2
  <2>4. PICK first : first = Min(lines)
    OBVIOUS
  <2>5. first \in lines
    BY <2>3, <2>4, MinIs
  <2>6. PICK a, b : a = Len(rows[first]) /\ b = Len(rows[t[2]])
    OBVIOUS
  <2>7. a \in Nat /\ b \in Nat /\ a <= b
    BY <1>1, <1>3, <2>1, <2>3, <2>5, <2>6 DEF IsSheet, IsLine
  <2>8. Max({0, a - b}) = 0
    <3>1. \A y \in {0, a - b} : 0 >= y
      BY <2>7
    <3>2. \A x \in {0, a - b} : (\A y \in {0, a - b} : x >= y) => x = 0
      BY <2>7
    <3>. QED
      BY <3>1, <3>2 DEF Max
  <2>. QED
    BY <1>1, <1>3, <2>3, <2>4, <2>6, <2>8 DEF Shift
<1>. QED
  BY <1>2, <1>3

LEMMA NotShifted ==
    ASSUME NEW f \in Files, NEW t, t \in {FrameTable(f)} \ {None}, FrameLines(f, t) # {}, Shift(f, t) = 0,
           t[2] \in DOMAIN f.sheets[t[1]], f.csv => t[1] = 1,
           f.csv => \A i \in FrameLines(f, t) : Len(f.sheets[1][i]) <= Len(f.sheets[1][t[2]])
    PROVE  Accepted(f)
<1>1. ASSUME f.csv PROVE Len(f.sheets[1][t[2]]) \in Nat
  <2>1. IsSheet(f.sheets[1]) /\ t[2] \in DOMAIN f.sheets[1]
    BY <1>1, ReadingAssumption DEF IsFile, IsSheet
  <2>. QED
    BY <2>1 DEF IsSheet, IsLine
<1>2. Shift(f, t) <= 1 /\ Shift(f, t) # 1
  OBVIOUS
<1>3. ASSUME f.csv, NEW i \in FrameLines(f, t)
      PROVE  Len(f.sheets[1][i]) <= Len(f.sheets[1][t[2]]) + Shift(f, t)
  <2>1. PICK b : b = Len(f.sheets[1][t[2]])
    OBVIOUS
  <2>2. b + 0 = b
    BY <1>1, <1>3, <2>1
  <2>. QED
    BY <1>3, <2>1, <2>2
<1>. QED
  BY <1>2, <1>3 DEF Accepted

(* The worker never finds a file without rows that the upload accepted, nor  *)
(* could it have read one the upload turned away, as long as both see one   *)
(* table - but for a .csv of blank rows, or of rows wider than its header.  *)
THEOREM UploadsForetell == ReadingSpec => []UploadForetells
<1>1. ReadingInit => ReadingInv /\ Foretelling
  BY ReadingStarts DEF ReadingInit, Foretelling
<1>2. ReadingInv /\ Foretelling /\ [ReadingNext]_readingVars => ReadingInv' /\ Foretelling'
  BY ReadingStep, ForetellingStep
<1>3. ReadingInv /\ Foretelling => UploadForetells
  <2> SUFFICES ASSUME ReadingInv, Foretelling, OneView(file), NEW t, t = FrameTable(file)
               PROVE  /\ pc = "refused" =>
                            file.csv /\ \A i \in FrameLines(file, t) : ~HasData(file.sheets[1][i])
                      /\ pc = "turned" /\ Streams(file) =>
                            file.csv /\ \E i \in FrameLines(file, t) :
                                Len(file.sheets[1][i]) > Len(file.sheets[1][t[2]])
    BY DEF UploadForetells
  <2>0. PICK f \in Files : f = file
    BY DEF ReadingInv, Placing
  <2>1. PICK u : u = StreamTable(f)
    OBVIOUS
  <2>2. ASSUME u # None
        PROVE  /\ t = u /\ t[1] \in DOMAIN f.sheets /\ t[2] \in DOMAIN f.sheets[t[1]]
               /\ f.csv => t[1] = 1
    BY <2>0, <2>1, <2>2, OneTable, StreamTableIs
  <2>3. Streams(f) <=> /\ u # None
                       /\ \E i \in u[2] + 1 .. Len(f.sheets[u[1]]) : HasData(f.sheets[u[1]][i])
    BY <2>1, NothingStreams
  <2>4. ASSUME pc = "refused"
        PROVE  f.csv /\ \A i \in FrameLines(f, t) : ~HasData(f.sheets[1][i])
    <3>1. Accepted(f) /\ ~Streams(f)
      BY <2>0, <2>4 DEF Foretelling
    <3>2. t # None /\ FrameLines(f, t) # {}
      BY <2>0, <3>1 DEF Accepted
    <3>3. CASE u = None
      BY <2>0, <2>1, <3>2, <3>3 DEF OneView, FrameTable, StreamTable
    <3>4. CASE u # None
      <4>1. /\ FrameLines(f, t) \subseteq t[2] + 1 .. Len(f.sheets[t[1]])
            /\ ~f.csv /\ FrameLines(f, t) # {} =>
                  \E i \in t[2] + 1 .. Len(f.sheets[t[1]]) : HasData(f.sheets[t[1]][i])
        BY <2>2, <3>4, FrameLinesAre
      <4>2. \A i \in t[2] + 1 .. Len(f.sheets[t[1]]) : ~HasData(f.sheets[t[1]][i])
        BY <2>2, <2>3, <3>1, <3>4
      <4>3. f.csv
        <5>1. f.csv \in BOOLEAN
          BY ReadingAssumption DEF IsFile
        <5>. QED
          BY <3>2, <4>1, <4>2, <5>1
      <4>. QED
        BY <2>2, <3>4, <4>1, <4>2, <4>3
    <3>. QED
      BY <3>3, <3>4
  <2>5. ASSUME pc = "turned", Streams(f)
        PROVE  f.csv /\ \E i \in FrameLines(f, t) : Len(f.sheets[1][i]) > Len(f.sheets[1][t[2]])
    <3>1. ~Accepted(f)
      BY <2>0, <2>5 DEF Foretelling
    <3>2. u # None /\ \E i \in u[2] + 1 .. Len(f.sheets[u[1]]) : HasData(f.sheets[u[1]][i])
      BY <2>3, <2>5
    <3>3. t = u /\ t[1] \in DOMAIN f.sheets /\ t[2] \in DOMAIN f.sheets[t[1]] /\ (f.csv => t[1] = 1)
      BY <2>2, <3>2
    <3>4. FrameLines(f, t) # {} /\ FrameLines(f, t) \subseteq t[2] + 1 .. Len(f.sheets[t[1]])
      BY <3>2, <3>3, FrameLinesAre
    <3>5. f.csv /\ \E i \in FrameLines(f, t) : ~(Len(f.sheets[1][i]) <= Len(f.sheets[1][t[2]]))
      <4>1. t \in {FrameTable(f)} \ {None}
        BY <2>0, <3>2, <3>3
      <4>2. ASSUME f.csv => \A i \in FrameLines(f, t) : Len(f.sheets[1][i]) <= Len(f.sheets[1][t[2]])
            PROVE  FALSE
        <5>1. Shift(f, t) = 0
          BY <3>3, <3>4, <4>2, UnshiftedIs
        <5>. QED
          BY <3>1, <3>3, <3>4, <4>1, <4>2, <5>1, NotShifted
      <4>. QED
        BY <4>2
    <3>6. f.csv
      BY <3>5
    <3>7. PICK i \in FrameLines(f, t) : ~(Len(f.sheets[1][i]) <= Len(f.sheets[1][t[2]]))
      BY <3>5
    <3>8. IsSheet(f.sheets[1]) /\ t[1] = 1
      BY <3>3, <3>6, ReadingAssumption DEF IsFile, IsSheet
    <3>9. i \in 1 .. Len(f.sheets[1]) /\ t[2] \in DOMAIN f.sheets[1]
      <4>1. t[2] \in Nat /\ Len(f.sheets[1]) \in Nat /\ t[2] \in DOMAIN f.sheets[1]
        BY <3>3, <3>8 DEF IsSheet
      <4>. QED
        BY <3>4, <3>8, <4>1
    <3>10. Len(f.sheets[1][i]) \in Nat /\ Len(f.sheets[1][t[2]]) \in Nat
      BY <3>8, <3>9 DEF IsSheet, IsLine
    <3>11. Len(f.sheets[1][i]) > Len(f.sheets[1][t[2]])
      BY <3>7, <3>10
    <3>. QED
      BY <3>6, <3>11
  <2>. QED
    BY <2>0, <2>4, <2>5
<1>. QED
  BY <1>1, <1>2, <1>3, PTL DEF ReadingSpec

(***************************************************************************)
(* Orders.  What is ranked can be numbered in the order of the ranks.       *)
(***************************************************************************)
Below(S, r, x) == {y \in S : r[y] < r[x]}

LEMMA Numbered ==
    ASSUME NEW S, IsFiniteSet(S), NEW r, \A x \in S : r[x] \in Nat,
           \A x, y \in S : r[x] = r[y] => x = y
    PROVE  /\ Cardinality(S) \in Nat
           /\ \A x \in S : Cardinality(Below(S, r, x)) \in 0 .. Cardinality(S) - 1
           /\ \A x, y \in S : r[x] < r[y] <=> Cardinality(Below(S, r, x)) < Cardinality(Below(S, r, y))
           /\ \A x, y \in S : Cardinality(Below(S, r, x)) = Cardinality(Below(S, r, y)) => x = y
           /\ \A i \in 0 .. Cardinality(S) - 1 : \E x \in S : Cardinality(Below(S, r, x)) = i
<1> DEFINE N == Cardinality(S)
           place == [x \in S |-> Cardinality(Below(S, r, x))]
<1>1. N \in Nat
  BY FS_CardinalityType
<1>2. ASSUME NEW x \in S PROVE IsFiniteSet(Below(S, r, x)) /\ place[x] \in 0 .. N - 1
  <2>1. Below(S, r, x) \in SUBSET S /\ x \notin Below(S, r, x)
    BY DEF Below
  <2>2. /\ IsFiniteSet(Below(S, r, x)) /\ Cardinality(Below(S, r, x)) <= N
        /\ Cardinality(Below(S, r, x)) # N
    BY <2>1, FS_Subset
  <2>3. Cardinality(Below(S, r, x)) \in Nat
    BY <2>2, FS_CardinalityType
  <2>. QED
    BY <1>1, <2>2, <2>3
<1>3. ASSUME NEW x \in S, NEW y \in S, r[x] < r[y] PROVE place[x] < place[y]
  <2>1. Below(S, r, x) \in SUBSET Below(S, r, y) /\ x \in Below(S, r, y) /\ x \notin Below(S, r, x)
    BY <1>3 DEF Below
  <2>2. /\ Cardinality(Below(S, r, x)) <= Cardinality(Below(S, r, y))
        /\ Cardinality(Below(S, r, x)) # Cardinality(Below(S, r, y))
    BY <1>2, <2>1, FS_Subset
  <2>3. place[x] \in Nat /\ place[y] \in Nat
    BY <1>1, <1>2
  <2>. QED
    BY <2>2, <2>3
<1>4. \A x, y \in S : x # y => r[x] < r[y] \/ r[y] < r[x]
  OBVIOUS
<1>5. \A x, y \in S : x # y => place[x] # place[y]
  <2> HIDE DEF place
  <2>. QED
    BY <1>1, <1>2, <1>3, <1>4
<1>6. \A x, y \in S : place[x] < place[y] => r[x] < r[y]
  <2> HIDE DEF place
  <2>1. \A x, y \in S : place[x] < place[y] => x # y /\ ~(place[y] < place[x])
    BY <1>1, <1>2
  <2>. QED
    BY <1>3, <1>4, <2>1
<1>7. place \in Surjection(S, 0 .. N - 1)
  <2>1. place \in Injection(S, 0 .. N - 1)
    <3>1. place \in [S -> 0 .. N - 1]
      BY <1>2
    <3> HIDE DEF place
    <3>. QED
      BY <1>5, <3>1 DEF Injection, IsInjective
  <2>2. 0 \in Int /\ N - 1 \in Int
    BY <1>1
  <2> HIDE DEF place, N
  <2>3. IsFiniteSet(0 .. N - 1) /\ Cardinality(0 .. N - 1) = IF 0 > N - 1 THEN 0 ELSE (N - 1) - 0 + 1
    BY <2>2, FS_Interval
  <2>4. Cardinality(0 .. N - 1) = N
    BY <1>1, <2>3
  <2>. QED
    BY <2>1, <2>3, <2>4, FS_Injection DEF N
<1>8. \A i \in 0 .. N - 1 : \E x \in S : place[x] = i
  <2> HIDE DEF place
  <2>. QED
    BY <1>7 DEF Surjection
<1>9. \A x \in S : place[x] = Cardinality(Below(S, r, x))
  OBVIOUS
<1> HIDE DEF place
<1>. QED
  BY <1>1, <1>2, <1>3, <1>5, <1>6, <1>8, <1>9

(***************************************************************************)
(* The columns of a header.                                                *)
(***************************************************************************)
IsHeader(names) ==
    /\ \E n \in Nat : DOMAIN names = 1..n
    /\ \A c \in DOMAIN names : names[c] = None \/ names[c] \in DOMAIN Holds

LEMMA HeadersAre ==
    ASSUME NEW row, IsLine(row)
    PROVE  /\ IsHeader(Names(row))
           /\ \A c \in DOMAIN Names(row) : Names(row)[c] = None \/ Names(row)[c] \in DOMAIN JsonRank
BY DEF IsLine, IsCell, IsHeader, Names

(* A field is read from a column of the highest score, and from none if no   *)
(* column has one.                                                         *)
LEMMA ColumnIs ==
    ASSUME NEW names, IsHeader(names), NEW f \in Fields, NEW col, col = ColumnMap(names)[f]
    PROVE  \/ /\ col = 0
              /\ \A c \in DOMAIN names : names[c] # None => Scores[f][names[c]] = 0
           \/ /\ col # 0 /\ col \in DOMAIN names /\ names[col] # None /\ Scores[f][names[col]] > 0
              /\ \A c \in DOMAIN names : names[c] # None => Scores[f][names[c]] <= Scores[f][names[col]]
<1> DEFINE D == {d \in DOMAIN names : names[d] # None}
           v == [c \in D |-> Scores[f][names[c]]]
           S == {0} \cup {v[c] : c \in D}
           best == Max(S)
<1>1. PICK n \in Nat : DOMAIN names = 1..n
  BY DEF IsHeader
<1>2. D \in SUBSET Nat /\ IsFiniteSet(D) /\ \A c \in D : v[c] \in Nat /\ v[c] = Scores[f][names[c]] /\ c # 0
  <2>1. 1 \in Int /\ n \in Int
    OBVIOUS
  <2>2. IsFiniteSet(1..n)
    BY <2>1, FS_Interval
  <2>3. IsFiniteSet(D)
    BY <1>1, <2>2, FS_Subset
  <2>4. \A c \in D : v[c] \in Nat
    BY ScoresAssumption DEF IsHeader
  <2>. QED
    BY <1>1, <2>3, <2>4
<1>3. ColumnMap(names)[f] = IF best = 0 THEN 0
                            ELSE Min({c \in DOMAIN names : names[c] # None /\ Scores[f][names[c]] = best})
  BY DEF ColumnMap
<1>4. best \in S /\ \A x \in S : x <= best
  <2>1. \E x \in S : \A y \in S : x >= y
    <3>1. CASE D = {}
      <4> HIDE DEF D, v
      <4>1. {v[c] : c \in D} = {}
        BY <3>1
      <4>2. S = {0} /\ 0 >= 0
        BY <4>1
      <4> HIDE DEF S
      <4>. QED
        BY <4>2
    <3>2. CASE D # {}
      <4> HIDE DEF D, v
      <4>1. \A c \in D : v[c] \in Int
        BY <1>2
      <4>2. PICK x \in D : \A y \in D : v[y] <= v[x]
        BY <1>2, <3>2, <4>1, LargestExists
      <4>3. v[x] \in S /\ \A y \in S : v[x] >= y
        BY <1>2, <4>2
      <4>. QED
        BY <4>3
    <3>. QED
      BY <3>1, <3>2
  <2>2. best \in S /\ \A x \in S : best >= x
    <3> HIDE DEF S
    <3>. QED
      BY <2>1 DEF Max
  <2>3. S \in SUBSET Nat
    <3> HIDE DEF v
    <3>. QED
      BY <1>2
  <2> HIDE DEF S, best
  <2>. QED
    BY <2>2, <2>3
<1>5. \A c \in DOMAIN names : names[c] # None =>
         c \in D /\ Scores[f][names[c]] \in S /\ Scores[f][names[c]] \in Nat
  BY <1>2
<1>6. CASE best = 0
  <2> HIDE DEF D, v, S, best
  <2>1. \A c \in DOMAIN names : names[c] # None => Scores[f][names[c]] = 0
    BY <1>4, <1>5, <1>6
  <2>. QED
    BY <1>3, <1>6, <2>1
<1>7. CASE best # 0
  <2> DEFINE T == {c \in DOMAIN names : names[c] # None /\ Scores[f][names[c]] = best}
  <2>1. T # {} /\ T \in SUBSET Nat
    <3>1. PICK c \in D : v[c] = best
      BY <1>4, <1>7
    <3> HIDE DEF best
    <3>2. c \in T
      BY <1>2, <3>1
    <3>. QED
      BY <1>1, <3>2
  <2>2. col = Min(T)
    BY <1>3, <1>7
  <2> HIDE DEF T
  <2>3. col \in T
    BY <2>1, <2>2, MinIs
  <2> USE DEF T
  <2> HIDE DEF D, v, S, best
  <2>4. col \in DOMAIN names /\ names[col] # None /\ Scores[f][names[col]] = best
    BY <2>3
  <2>5. col # 0 /\ best > 0
    BY <1>1, <1>5, <1>7, <2>4
  <2>6. \A c \in DOMAIN names : names[c] # None => Scores[f][names[c]] <= best
    BY <1>4, <1>5
  <2>. QED
    BY <2>4, <2>5, <2>6
<1>. QED
  BY <1>6, <1>7

(***************************************************************************)
(* A stored row.                                                           *)
(***************************************************************************)
(* keys are the names a row is stored under, in some order.                *)
AreKeys(keys, raw) ==
    /\ \E n \in Nat : DOMAIN keys = 1..n
    /\ \A i \in DOMAIN keys : keys[i] \in DOMAIN raw
    /\ \A i, j \in DOMAIN keys : keys[i] = keys[j] => i = j
    /\ \A n \in DOMAIN raw : \E i \in DOMAIN keys : keys[i] = n

(* Of the cells of one name the last one is stored.                        *)
LEMMA RawIs ==
    ASSUME NEW names, IsHeader(names), NEW row
    PROVE  /\ \A n : n \in DOMAIN Raw(names, row) <=> n # None /\ \E c \in DOMAIN names : names[c] = n
           /\ \A c \in DOMAIN names : names[c] # None => Raw(names, row)[names[c]] = Mapped(names, row, c)
<1>1. DOMAIN names \in SUBSET Nat
  BY DEF IsHeader
<1>2. \A n : n \in DOMAIN Raw(names, row) <=> n # None /\ \E c \in DOMAIN names : names[c] = n
  BY DEF Raw, ToSet
<1>3. ASSUME NEW c \in DOMAIN names, names[c] # None
      PROVE  Raw(names, row)[names[c]] = Mapped(names, row, c)
  <2>1. PICK S, m : S = {d \in DOMAIN names : names[d] = names[c]} /\ m = Min(S)
    OBVIOUS
  <2>2. S # {} /\ S \in SUBSET Nat
    BY <1>1, <2>1
  <2>3. m \in S
    BY <2>1, <2>2, MinIs
  <2>4. names[m] = names[c]
    BY <2>1, <2>3
  <2>5. names[c] \in DOMAIN Raw(names, row)
    BY <1>2, <1>3
  <2>6. Raw(names, row)[names[c]] = Mapped(names, row, m)
    BY <2>1, <2>5 DEF Raw
  <2>. QED
    BY <2>4, <2>6 DEF Mapped
<1>. QED
  BY <1>2, <1>3

(* In whatever order the keys come, each field is read from its own column    *)
(* or from one that ties with it.                                          *)
LEMMA ReadAgain ==
    ASSUME NEW names, IsHeader(names), NEW row,
           NEW raw, raw = Raw(names, row), NEW keys, AreKeys(keys, raw),
           NEW again, again = [i \in DOMAIN keys |-> raw[keys[i]]], NEW f \in Fields,
           NEW col, col = ColumnMap(names)[f]
    PROVE  \/ Of(keys, ColumnMap(keys), again, f) = Blank /\ Of(names, ColumnMap(names), row, f) = Blank
           \/ /\ col \in DOMAIN names
              /\ names[col] \in DOMAIN raw /\ Of(names, ColumnMap(names), row, f) = raw[names[col]]
              /\ \E n \in DOMAIN raw : /\ Scores[f][n] = Scores[f][names[col]]
                                       /\ Of(keys, ColumnMap(keys), again, f) = raw[n]
<1>2. PICK ken : ken = ColumnMap(keys)[f]
  OBVIOUS
<1>3. /\ \A n : n \in DOMAIN raw <=> n # None /\ \E c \in DOMAIN names : names[c] = n
      /\ \A c \in DOMAIN names : names[c] # None => raw[names[c]] = Mapped(names, row, c)
  BY RawIs
<1>4. IsHeader(keys)
  BY <1>3 DEF AreKeys, IsHeader
<1>5. \/ /\ col = 0
         /\ \A c \in DOMAIN names : names[c] # None => Scores[f][names[c]] = 0
      \/ /\ col # 0 /\ col \in DOMAIN names /\ names[col] # None /\ Scores[f][names[col]] > 0
         /\ \A c \in DOMAIN names : names[c] # None => Scores[f][names[c]] <= Scores[f][names[col]]
  BY ColumnIs
<1>6. \/ /\ ken = 0
         /\ \A c \in DOMAIN keys : keys[c] # None => Scores[f][keys[c]] = 0
      \/ /\ ken # 0 /\ ken \in DOMAIN keys /\ keys[ken] # None /\ Scores[f][keys[ken]] > 0
         /\ \A c \in DOMAIN keys : keys[c] # None => Scores[f][keys[c]] <= Scores[f][keys[ken]]
  BY <1>2, <1>4, ColumnIs
<1>7. /\ Of(names, ColumnMap(names), row, f) = IF col = 0 THEN Blank ELSE Mapped(names, row, col)
      /\ Of(keys, ColumnMap(keys), again, f) = IF ken = 0 THEN Blank ELSE Mapped(keys, again, ken)
  BY <1>2 DEF Of
<1>8. CASE col = 0
  <2>1. ASSUME ken # 0 PROVE FALSE
    <3>1. ken \in DOMAIN keys /\ keys[ken] # None /\ Scores[f][keys[ken]] > 0
      BY <1>6, <2>1
    <3>2. PICK c \in DOMAIN names : names[c] = keys[ken]
      BY <1>3, <3>1 DEF AreKeys
    <3>. QED
      BY <1>5, <1>8, <3>1, <3>2
  <2>. QED
    BY <1>7, <1>8, <2>1
<1>9. CASE col # 0
  <2>1. /\ col \in DOMAIN names /\ names[col] # None /\ Scores[f][names[col]] > 0
        /\ \A c \in DOMAIN names : names[c] # None => Scores[f][names[c]] <= Scores[f][names[col]]
    BY <1>5, <1>9
  <2>2. PICK j \in DOMAIN keys : keys[j] = names[col]
    BY <1>3, <2>1 DEF AreKeys
  <2>3. ken # 0 /\ ken \in DOMAIN keys /\ keys[ken] # None /\ Scores[f][names[col]] <= Scores[f][keys[ken]]
    BY <1>6, <2>1, <2>2
  <2>4. PICK d \in DOMAIN names : names[d] = keys[ken]
    BY <1>3, <2>3 DEF AreKeys
  <2>5. Scores[f][names[d]] = Scores[f][names[col]]
    <3>1. Scores[f][names[d]] \in Nat /\ Scores[f][names[col]] \in Nat
      BY <2>1, <2>3, <2>4, ScoresAssumption DEF IsHeader
    <3>. QED
      BY <2>1, <2>3, <2>4, <3>1
  <2>6. names[col] \in DOMAIN raw /\ raw[names[col]] = Mapped(names, row, col)
    BY <1>3, <2>1
  <2>7. Mapped(keys, again, ken) = raw[keys[ken]]
    <3>1. PICK n \in Nat : DOMAIN keys = 1..n
      BY DEF AreKeys
    <3>2. {i \in DOMAIN keys : keys[i] = keys[ken]} = {ken} /\ ken \in Nat
      BY <2>3, <3>1 DEF AreKeys
    <3>3. Max({ken}) = ken
      <4>1. \A x \in {ken} : ken >= x
        BY <3>2
      <4>. QED
        BY <4>1 DEF Max
    <3>4. Mapped(keys, again, ken) = Valued(again, ken)
      BY <3>2, <3>3 DEF Mapped
    <3>. QED
      BY <2>3, <3>4 DEF Valued
  <2>8. keys[ken] \in DOMAIN raw
    BY <2>3 DEF AreKeys
  <2>9. Of(names, ColumnMap(names), row, f) = raw[names[col]]
    BY <1>7, <1>9, <2>6
  <2>10. Of(keys, ColumnMap(keys), again, f) = raw[keys[ken]]
    BY <1>7, <2>3, <2>7
  <2>. QED
    BY <2>1, <2>4, <2>5, <2>6, <2>8, <2>9, <2>10
<1>. QED
  BY <1>8, <1>9

(* The order of a JSONB object is one.                                      *)
LEMMA KeysAre ==
    ASSUME NEW names, IsHeader(names), \A c \in DOMAIN names : names[c] = None \/ names[c] \in DOMAIN JsonRank,
           NEW row, NEW raw, raw = Raw(names, row)
    PROVE  \E keys : /\ AreKeys(keys, raw)
                     /\ Reread(raw) = Canonical(keys, ColumnMap(keys),
                                                [i \in DOMAIN keys |-> raw[keys[i]]], "pandas")
<1> DEFINE S == DOMAIN raw
           N == Cardinality(S)
           Spot(i) == CHOOSE n \in S : Cardinality({m \in S : JsonRank[m] < JsonRank[n]}) = i - 1
           keys == [i \in 1..N |-> Spot(i)]
<1>1. Reread(raw) = Canonical(keys, ColumnMap(keys), [i \in DOMAIN keys |-> raw[keys[i]]], "pandas")
  BY DEF Reread
<1>2. IsFiniteSet(S) /\ S \subseteq DOMAIN JsonRank
  <2>1. PICK n \in Nat : DOMAIN names = 1..n
    BY DEF IsHeader
  <2>2. 1 \in Int /\ n \in Int
    OBVIOUS
  <2>3. IsFiniteSet({names[c] : c \in DOMAIN names})
    BY <2>1, <2>2, FS_Interval, ImageFinite
  <2>4. S \in SUBSET {names[c] : c \in DOMAIN names}
    BY DEF Raw, ToSet
  <2>5. IsFiniteSet(S)
    BY <2>3, <2>4, FS_Subset
  <2>6. S \subseteq DOMAIN JsonRank
    BY DEF Raw, ToSet
  <2>. QED
    BY <2>5, <2>6
<1>3. /\ \A x \in S : JsonRank[x] \in Nat
      /\ \A x, y \in S : JsonRank[x] = JsonRank[y] => x = y
  BY <1>2, ReadingAssumption
<1> HIDE DEF S
<1>4. /\ N \in Nat
      /\ \A x \in S : Cardinality(Below(S, JsonRank, x)) \in 0 .. N - 1
      /\ \A x, y \in S : Cardinality(Below(S, JsonRank, x)) = Cardinality(Below(S, JsonRank, y)) => x = y
      /\ \A i \in 0 .. N - 1 : \E x \in S : Cardinality(Below(S, JsonRank, x)) = i
  BY <1>2, <1>3, Numbered
<1>5. \A i : Spot(i) = CHOOSE n \in S : Cardinality(Below(S, JsonRank, n)) = i - 1
  BY DEF Below
<1>6. ASSUME NEW i \in 1..N PROVE Spot(i) \in S /\ Cardinality(Below(S, JsonRank, Spot(i))) = i - 1
  <2>1. i - 1 \in 0 .. N - 1
    BY <1>4
  <2>2. \E n \in S : Cardinality(Below(S, JsonRank, n)) = i - 1
    BY <1>4, <2>1
  <2>. QED
    BY <1>5, <2>2
<1>7. ASSUME NEW x \in S PROVE \E i \in 1..N : keys[i] = x
  <2>1. PICK k : k = Cardinality(Below(S, JsonRank, x))
    OBVIOUS
  <2>2. k \in 0 .. N - 1 /\ k + 1 \in 1..N /\ (k + 1) - 1 = k
    BY <1>4, <2>1
  <2> HIDE DEF Spot, N
  <2>3. Spot(k + 1) = x
    <3>1. Spot(k + 1) \in S /\ Cardinality(Below(S, JsonRank, Spot(k + 1))) = (k + 1) - 1
      BY <1>6, <2>2
    <3>. QED
      BY <1>4, <2>1, <2>2, <3>1
  <2>. QED
    BY <2>2, <2>3
<1> HIDE DEF Spot, N
<1>8. \A i, j \in 1..N : keys[i] = keys[j] => i = j
  <2> SUFFICES ASSUME NEW i \in 1..N, NEW j \in 1..N, Spot(i) = Spot(j) PROVE i = j
    OBVIOUS
  <2>1. i - 1 = j - 1
    BY <1>6
  <2>. QED
    BY <1>4, <2>1
<1>9. AreKeys(keys, raw)
  BY <1>4, <1>6, <1>7, <1>8 DEF AreKeys, S
<1>. QED
  BY <1>1, <1>9

(* A date that is clear is read as one day. *)
LEMMA ClearIsSame ==
    ASSUME NEW field, NEW cell, Clear(field, cell)
    PROVE  Value(field, cell, "day") = Value(field, cell, "pandas")
BY DEF Clear, Value, Dated

LEMMA RereadIs ==
    ASSUME NEW h \in Lines, NEW names, names = Names(h), NEW row \in Lines, NEW i
    PROVE  RereadAgrees(StreamedRow(names, row, i), names)
<1>1. PICK r, raw, map : r = StreamedRow(names, row, i) /\ raw = Raw(names, row) /\ map = ColumnMap(names)
  OBVIOUS
<1>2. r.raw = raw /\ r.read = Canonical(names, map, row, "day")
  BY <1>1 DEF StreamedRow
<1>3. /\ IsHeader(names)
      /\ \A c \in DOMAIN names : names[c] = None \/ names[c] \in DOMAIN JsonRank
  BY LinesAre, HeadersAre
<1>4. PICK keys : /\ AreKeys(keys, raw)
                  /\ Reread(raw) = Canonical(keys, ColumnMap(keys),
                                             [k \in DOMAIN keys |-> raw[keys[k]]], "pandas")
  BY <1>1, <1>3, KeysAre
<1>5. PICK again : again = [k \in DOMAIN keys |-> raw[keys[k]]]
  OBVIOUS
<1>6. PICK ken, tale : ken = ColumnMap(keys) /\ tale = Reread(raw)
  OBVIOUS
<1>7. ASSUME NEW f \in Fields, tale[f] # r.read[f]
      PROVE  \/ \E n \in DOMAIN raw \ {names[map[f]]} :
                   Scores[f][n] = Scores[f][names[map[f]]] /\ tale[f] = Value(f, raw[n], "pandas")
             \/ ~Clear(f, raw[names[map[f]]])
  <2>1. PICK col, mine, other : /\ col = map[f] /\ mine = Of(names, map, row, f)
                                /\ other = Of(keys, ken, again, f)
    OBVIOUS
  <2>2. r.read[f] = Value(f, mine, "day") /\ tale[f] = Value(f, other, "pandas")
    BY <1>2, <1>4, <1>5, <1>6, <2>1 DEF Canonical
  <2>3. \/ other = Blank /\ mine = Blank
        \/ /\ col \in DOMAIN names
           /\ names[col] \in DOMAIN raw /\ mine = raw[names[col]]
           /\ \E n \in DOMAIN raw : Scores[f][n] = Scores[f][names[col]] /\ other = raw[n]
    BY <1>1, <1>3, <1>4, <1>5, <1>6, <2>1, ReadAgain
  <2>4. CASE other = Blank /\ mine = Blank
    <3>1. Clear(f, Blank)
      BY DEF Clear, Blank
    <3>. QED
      BY <1>7, <2>2, <2>4, <3>1, ClearIsSame
  <2>5. CASE /\ col \in DOMAIN names /\ names[col] \in DOMAIN raw /\ mine = raw[names[col]]
             /\ \E n \in DOMAIN raw : Scores[f][n] = Scores[f][names[col]] /\ other = raw[n]
    <3>1. PICK n \in DOMAIN raw : Scores[f][n] = Scores[f][names[col]] /\ other = raw[n]
      BY <2>5
    <3>2. CASE n = names[col]
      BY <1>7, <2>1, <2>2, <2>5, <3>1, <3>2, ClearIsSame
    <3>3. CASE n # names[col]
      BY <2>1, <2>2, <3>1, <3>3
    <3>. QED
      BY <3>2, <3>3
  <2>. QED
    BY <2>3, <2>4, <2>5
<1>8. \A f \in Fields : tale[f] # r.read[f] =>
         \/ \E n \in DOMAIN r.raw \ {names[map[f]]} :
               Scores[f][n] = Scores[f][names[map[f]]] /\ tale[f] = Value(f, r.raw[n], "pandas")
         \/ ~Clear(f, r.raw[names[map[f]]])
  BY <1>2, <1>7
<1>9. RereadAgrees(r, names)
  BY <1>1, <1>2, <1>6, <1>8, Zenon DEF RereadAgrees
<1>. QED
  BY <1>1, <1>9

(***************************************************************************)
(* The rows read, and those of the frame.                                  *)
(***************************************************************************)
(* The lines with data below the header h, up to a line; and rows that are   *)
(* what the stream makes of them, in their order.                          *)
DataTo(rows, h, i) == {j \in h + 1 .. i : HasData(rows[j])}
Count(rows, h, i) == Cardinality(DataTo(rows, h, i))

Follows(taken, names, rows, h, last) ==
    /\ Len(taken) = Count(rows, h, last)
    /\ \A i \in DataTo(rows, h, last) :
          taken[Count(rows, h, i)] = StreamedRow(names, rows[i], Count(rows, h, i) - 1)
    /\ \A k \in DOMAIN taken : \E i \in DataTo(rows, h, last), n \in Nat : taken[k] = StreamedRow(names, rows[i], n)

LEMMA DataIs ==
    ASSUME NEW rows, NEW h \in Nat, NEW last \in Nat
    PROVE  /\ IsFiniteSet(DataTo(rows, h, last)) /\ Count(rows, h, last) \in Nat
           /\ \A i \in DataTo(rows, h, last) :
                 i \in Nat /\ Count(rows, h, i) \in 1 .. Count(rows, h, last)
<1>1. ASSUME NEW n \in Nat PROVE IsFiniteSet(DataTo(rows, h, n)) /\ Count(rows, h, n) \in Nat
  <2>1. h + 1 \in Int /\ n \in Int
    OBVIOUS
  <2>2. IsFiniteSet(h + 1 .. n)
    BY <2>1, FS_Interval
  <2>3. IsFiniteSet(DataTo(rows, h, n))
    BY <2>2, FS_Subset DEF DataTo
  <2>. QED
    BY <2>3, FS_CardinalityType DEF Count
<1>2. ASSUME NEW i \in DataTo(rows, h, last) PROVE i \in Nat /\ Count(rows, h, i) \in 1 .. Count(rows, h, last)
  <2>1. i \in Nat /\ i <= last
    BY DEF DataTo
  <2>2. DataTo(rows, h, i) \in SUBSET DataTo(rows, h, last) /\ i \in DataTo(rows, h, i)
    BY <2>1 DEF DataTo
  <2>3. Count(rows, h, i) <= Count(rows, h, last)
    BY <1>1, <2>2, FS_Subset DEF Count
  <2>4. Count(rows, h, i) # 0
    BY <1>1, <2>1, <2>2, FS_EmptySet DEF Count
  <2>5. Count(rows, h, i) \in Nat /\ Count(rows, h, last) \in Nat
    BY <1>1, <2>1
  <2>. QED
    BY <2>1, <2>3, <2>4, <2>5
<1>. QED
  BY <1>1, <1>2

LEMMA FollowsNone ==
    ASSUME NEW names, NEW rows, NEW h \in Nat
    PROVE  Follows(<< >>, names, rows, h, h)
<1>1. DataTo(rows, h, h) = {}
  BY DEF DataTo
<1>2. Count(rows, h, h) = 0
  BY <1>1, FS_EmptySet DEF Count
<1>3. Len(<< >>) = 0 /\ DOMAIN << >> = {}
  OBVIOUS
<1>. QED
  BY <1>1, <1>2, <1>3 DEF Follows

LEMMA FollowsMore ==
    ASSUME NEW names, NEW rows, NEW h \in Nat, NEW last \in Nat, h <= last,
           NEW taken \in Seq(StreamedRows), Follows(taken, names, rows, h, last),
           NEW r \in StreamedRows, r = StreamedRow(names, rows[last + 1], Len(taken))
    PROVE  /\ HasData(rows[last + 1]) => Follows(Append(taken, r), names, rows, h, last + 1)
           /\ ~HasData(rows[last + 1]) => Follows(taken, names, rows, h, last + 1)
<1>1. ASSUME ~HasData(rows[last + 1]) PROVE Follows(taken, names, rows, h, last + 1)
  <2>1. DataTo(rows, h, last + 1) = DataTo(rows, h, last)
    BY <1>1 DEF DataTo
  <2>. QED
    BY <2>1 DEF Follows, Count
<1>2. ASSUME HasData(rows[last + 1]) PROVE Follows(Append(taken, r), names, rows, h, last + 1)
  <2> DEFINE more == Append(taken, r)
             D == DataTo(rows, h, last)
  <2>1. DataTo(rows, h, last + 1) = D \cup {last + 1} /\ last + 1 \notin D
    BY <1>2 DEF DataTo
  <2>2. /\ IsFiniteSet(D) /\ Count(rows, h, last) \in Nat
        /\ \A i \in D : i \in Nat /\ Count(rows, h, i) \in 1 .. Count(rows, h, last)
    BY DataIs
  <2>3. Count(rows, h, last + 1) = Count(rows, h, last) + 1
    BY <2>1, <2>2, FS_AddElement DEF Count
  <2>4. /\ Len(taken) \in Nat /\ Len(more) = Len(taken) + 1 /\ DOMAIN taken = 1..Len(taken)
        /\ DOMAIN more = 1..(Len(taken) + 1) /\ more[Len(taken) + 1] = r
        /\ \A k \in 1..Len(taken) : more[k] = taken[k]
    OBVIOUS
  <2>5. /\ Len(taken) = Count(rows, h, last)
        /\ \A i \in D : taken[Count(rows, h, i)] = StreamedRow(names, rows[i], Count(rows, h, i) - 1)
        /\ \A k \in DOMAIN taken : \E i \in D, n \in Nat : taken[k] = StreamedRow(names, rows[i], n)
    BY DEF Follows
  <2> HIDE DEF more, D
  <2>6. \A i \in D : more[Count(rows, h, i)] = StreamedRow(names, rows[i], Count(rows, h, i) - 1)
    BY <2>2, <2>4, <2>5
  <2>7. more[Count(rows, h, last + 1)] = StreamedRow(names, rows[last + 1], Count(rows, h, last + 1) - 1)
    <3>1. Count(rows, h, last + 1) = Len(taken) + 1 /\ Count(rows, h, last + 1) - 1 = Len(taken)
      BY <2>2, <2>3, <2>4, <2>5
    <3>. QED
      BY <2>4, <3>1
  <2>8. \A k \in DOMAIN more : \E i \in D \cup {last + 1}, n \in Nat : more[k] = StreamedRow(names, rows[i], n)
    <3>1. \A k \in DOMAIN more : k \in DOMAIN taken \/ k = Len(taken) + 1
      BY <2>4
    <3>2. \A k \in DOMAIN taken : \E i \in D, n \in Nat : more[k] = StreamedRow(names, rows[i], n)
      BY <2>4, <2>5
    <3>3. more[Len(taken) + 1] = StreamedRow(names, rows[last + 1], Len(taken))
      BY <2>4
    <3>. QED
      BY <2>4, <3>1, <3>2, <3>3
  <2>9. Len(more) = Count(rows, h, last + 1)
    BY <2>3, <2>4, <2>5
  <2>. QED
    BY <2>1, <2>6, <2>7, <2>8, <2>9 DEF Follows, more
<1>. QED
  BY <1>1, <1>2

LEMMA SameCount ==
    ASSUME NEW M, IsFiniteSet(M), NEW T, NEW g, \A m \in M : g[m] \in T,
           \A i \in T : \E m \in M : g[m] = i, \A m, n \in M : g[m] = g[n] => m = n
    PROVE  Cardinality(M) = Cardinality(T)
<1> DEFINE f == [m \in M |-> g[m]]
<1>1. f \in Bijection(M, T)
  <2>1. f \in [M -> T] /\ \A m \in M : f[m] = g[m]
    OBVIOUS
  <2> HIDE DEF f
  <2>2. f \in Injection(M, T) /\ f \in Surjection(M, T)
    BY <2>1 DEF Injection, IsInjective, Surjection
  <2>. QED
    BY <2>2 DEF Bijection
<1>2. ExistsBijection(M, T)
  BY <1>1 DEF ExistsBijection
<1>. QED
  BY <1>2, FS_Bijection

(* The lines of the frame, numbered.                                       *)
Numbers(place, n, data, rows, lines) ==
    /\ data = [k \in 1..n |-> rows[place[k]]]
    /\ \A k \in 1..n : place[k] \in lines /\ place[k] \in Nat
    /\ \A k, m \in 1..n : place[m] <= place[k] <=> m <= k
    /\ \A i \in lines : \E k \in 1..n : place[k] = i

LEMMA FrameDataIs ==
    ASSUME NEW f \in Files, NEW t, t[1] \in DOMAIN f.sheets, t[2] \in DOMAIN f.sheets[t[1]],
           NEW lines, lines = FrameLines(f, t)
    PROVE  \E place : \E n \in Nat : Numbers(place, n, FrameData(f, t), f.sheets[t[1]], lines)
<1> DEFINE Spot(k) == CHOOSE i \in lines : Cardinality({j \in lines : j <= i}) = k
           N == Cardinality(lines)
           id == [j \in lines |-> j]
           place == [k \in 1..N |-> Spot(k)]
<1>1. FrameData(f, t) = [k \in 1..N |-> f.sheets[t[1]][Spot(k)]]
  BY DEF FrameData
<1>2. lines \in SUBSET Nat /\ IsFiniteSet(lines)
  <2>1. lines \subseteq t[2] + 1 .. Len(f.sheets[t[1]])
    BY FrameLinesAre
  <2>2. IsSheet(f.sheets[t[1]])
    BY ReadingAssumption DEF IsFile, IsSheet
  <2>3. t[2] \in Nat /\ Len(f.sheets[t[1]]) \in Nat
    BY <2>2 DEF IsSheet
  <2>4. t[2] + 1 \in Int /\ Len(f.sheets[t[1]]) \in Int
    BY <2>3
  <2>5. IsFiniteSet(t[2] + 1 .. Len(f.sheets[t[1]]))
    BY <2>4, FS_Interval
  <2>6. IsFiniteSet(lines)
    BY <2>1, <2>5, FS_Subset
  <2>. QED
    BY <2>1, <2>3, <2>6
<1>3. \A x \in lines : id[x] \in Nat /\ id[x] = x
  BY <1>2
<1>4. /\ N \in Nat
      /\ \A x \in lines : Cardinality(Below(lines, id, x)) \in 0 .. N - 1
      /\ \A x, y \in lines : x < y <=> Cardinality(Below(lines, id, x)) < Cardinality(Below(lines, id, y))
      /\ \A i \in 0 .. N - 1 : \E x \in lines : Cardinality(Below(lines, id, x)) = i
  <2>1. \A x, y \in lines : id[x] = id[y] => x = y
    BY <1>3
  <2>2. \A x \in lines : id[x] \in Nat
    BY <1>3
  <2> HIDE DEF id, N
  <2>3. /\ Cardinality(lines) \in Nat
        /\ \A x \in lines : Cardinality(Below(lines, id, x)) \in 0 .. Cardinality(lines) - 1
        /\ \A x, y \in lines : id[x] < id[y] <=> Cardinality(Below(lines, id, x)) < Cardinality(Below(lines, id, y))
        /\ \A i \in 0 .. Cardinality(lines) - 1 : \E x \in lines : Cardinality(Below(lines, id, x)) = i
    BY <1>2, <2>1, <2>2, Numbered
  <2>. QED
    BY <1>3, <2>3 DEF N
<1>5. ASSUME NEW i \in lines
      PROVE  Cardinality({j \in lines : j <= i}) = Cardinality(Below(lines, id, i)) + 1
  <2>1. {j \in lines : j <= i} = Below(lines, id, i) \cup {i} /\ i \notin Below(lines, id, i)
    BY <1>2, <1>3 DEF Below
  <2>2. Below(lines, id, i) \in SUBSET lines
    BY DEF Below
  <2>3. IsFiniteSet(Below(lines, id, i))
    BY <1>2, <2>2, FS_Subset
  <2>. QED
    BY <2>1, <2>3, FS_AddElement
<1> DEFINE B(x) == Cardinality(Below(lines, id, x))
<1> HIDE DEF id, N, B
<1>6. ASSUME NEW k \in 1..N PROVE Spot(k) \in lines /\ B(Spot(k)) = k - 1
  <2>1. k - 1 \in 0 .. N - 1
    BY <1>4
  <2>2. PICK x \in lines : B(x) = k - 1
    BY <1>4, <2>1 DEF B
  <2>3. Cardinality({j \in lines : j <= x}) = k
    BY <1>5, <2>2 DEF B
  <2>4. Spot(k) \in lines /\ Cardinality({j \in lines : j <= Spot(k)}) = k
    BY <2>3
  <2> HIDE DEF Spot
  <2>5. B(Spot(k)) + 1 = k /\ B(Spot(k)) \in Nat
    BY <1>4, <1>5, <2>4 DEF B
  <2>. QED
    BY <2>5, <2>4
<1>7. \A x, y \in lines : x < y <=> B(x) < B(y)
  BY <1>4 DEF B
<1>8. \A k \in 1..N : place[k] = Spot(k)
  OBVIOUS
<1> HIDE DEF Spot, place
<1>9. \A k \in 1..N : place[k] \in lines /\ place[k] \in Nat /\ B(place[k]) = k - 1
  BY <1>2, <1>6, <1>8
<1>10. \A k, m \in 1..N : place[m] <= place[k] <=> m <= k
  <2> SUFFICES ASSUME NEW k \in 1..N, NEW m \in 1..N PROVE place[m] <= place[k] <=> m <= k
    OBVIOUS
  <2>1. place[k] < place[m] <=> k - 1 < m - 1
    BY <1>7, <1>9
  <2>2. place[k] \in Nat /\ place[m] \in Nat /\ k \in Nat /\ m \in Nat
    BY <1>4, <1>9
  <2>. QED
    BY <2>1, <2>2
<1>11. ASSUME NEW i \in lines PROVE \E k \in 1..N : place[k] = i
  <2>1. PICK k : k = B(i) + 1
    OBVIOUS
  <2>2. B(i) \in 0 .. N - 1
    BY <1>4 DEF B
  <2>3. k \in 1..N /\ B(i) = k - 1 /\ B(i) \in Nat
    BY <1>4, <2>1, <2>2
  <2>4. ~(i < place[k]) /\ ~(place[k] < i)
    BY <1>7, <1>9, <2>3
  <2>. QED
    BY <1>2, <1>9, <2>3, <2>4
<1>12. FrameData(f, t) = [k \in 1..N |-> f.sheets[t[1]][place[k]]]
  BY <1>1, <1>8
<1>. QED
  BY <1>4, <1>9, <1>10, <1>11, <1>12 DEF Numbers

LEMMA FrameRowIs ==
    ASSUME NEW read, NEW blank, NEW row, row = [read |-> read, blank |-> blank]
    PROVE  row.read = read /\ row.blank = blank
OBVIOUS

(* The frame has the rows that were read, and blank ones.                   *)
NotBlank(frame, I) == {k \in I : ~frame[k].blank}

LEMMA FrameIs ==
    ASSUME NEW f \in Files, NEW t, t[1] \in DOMAIN f.sheets, t[2] \in DOMAIN f.sheets[t[1]],
           NEW rows, rows = f.sheets[t[1]], NEW names, names = Names(rows[t[2]]),
           Distinct(names), Shift(f, t) = 0,
           NEW taken \in Seq(StreamedRows), Follows(taken, names, rows, t[2], Len(rows)),
           NEW frame, frame = FrameRows(f, t)
    PROVE  /\ Len(taken) = Cardinality(NotBlank(frame, DOMAIN frame))
           /\ \A i \in NotBlank(frame, DOMAIN frame) :
                 FrameAgrees(taken[Cardinality(NotBlank(frame, 1..i))].read, frame[i].read, names,
                             FrameData(f, t), i)
<1> DEFINE h == t[2]
           map == ColumnMap(names)
<1>1. PICK lines : lines = FrameLines(f, t)
  OBVIOUS
<1>2. IsSheet(rows) /\ h \in Nat /\ Len(rows) \in Nat /\ rows[h] \in Lines
  <2>1. IsSheet(rows) /\ h \in DOMAIN rows
    BY ReadingAssumption DEF IsFile, IsSheet
  <2>. QED
    BY <2>1, LinesAre DEF IsSheet
<1>3. /\ lines \subseteq h + 1 .. Len(rows)
      /\ \A i \in h + 1 .. Len(rows) : HasData(rows[i]) => i \in lines
  BY <1>1, FrameLinesAre
<1>4. PICK place : \E n \in Nat : Numbers(place, n, FrameData(f, t), f.sheets[t[1]], lines)
  BY <1>1, FrameDataIs
<1>5. PICK n \in Nat :
              /\ FrameData(f, t) = [k \in 1..n |-> rows[place[k]]]
              /\ \A k \in 1..n : place[k] \in lines /\ place[k] \in Nat
              /\ \A k, m \in 1..n : place[m] <= place[k] <=> m <= k
              /\ \A i \in lines : \E k \in 1..n : place[k] = i
  BY <1>4 DEF Numbers
<1>6. PICK data : data = FrameData(f, t)
  OBVIOUS
<1>7. FrameNames(names, 0) = names
  <2>1. \A c, d \in DOMAIN names : names[d] = names[c] /\ names[c] # None => c = d
    BY DEF Distinct
  <2>2. PICK m \in Nat : DOMAIN names = 1..m
    BY <1>2, LinesAre, HeadersAre DEF IsHeader
  <2> DEFINE S == {names[c] : c \in 1..m}
             G(c) == IF c <= 0 \/ \E d \in 1 .. (c - 0) - 1 : names[d] = names[c - 0]
                     THEN None ELSE names[c - 0]
  <2>3. names = [c \in 1..m |-> names[c]]
    BY <2>2 DEF Names
  <2>4. Len(names) + 0 = m
    <3>1. names \in [1..m -> S]
      BY <2>3
    <3> HIDE DEF S
    <3>2. names \in Seq(S)
      BY <3>1
    <3>3. Len(names) \in Nat /\ DOMAIN names = 1..Len(names)
      BY <3>2, LenProperties
    <3>4. Len(names) = m
      BY <2>2, <3>3
    <3>. QED
      BY <3>4
  <2>5. ASSUME NEW c \in 1..m PROVE G(c) = names[c]
    <3>1. c \in Nat /\ c - 0 = c /\ ~(c <= 0)
      OBVIOUS
    <3>2. ASSUME NEW d \in 1 .. c - 1, names[d] = names[c] PROVE names[c] = None
      <4>1. d \in 1..m /\ d # c
        OBVIOUS
      <4>. QED
        BY <2>1, <2>2, <3>2, <4>1
    <3>. QED
      BY <3>1, <3>2
  <2>6. FrameNames(names, 0) = [c \in 1..m |-> G(c)]
    BY <2>4 DEF FrameNames
  <2> HIDE DEF G
  <2>. QED
    BY <2>3, <2>5, <2>6
<1>8. frame = [k \in 1..n |-> [read |-> FrameRead(names, map, data, k), blank |-> ~HasData(rows[place[k]])]]
  BY <1>5, <1>6, <1>7 DEF FrameRows
<1> HIDE DEF map
<1>9. /\ DOMAIN frame = 1..n
      /\ \A k \in 1..n : /\ frame[k].read = FrameRead(names, map, data, k)
                         /\ ~frame[k].blank <=> HasData(rows[place[k]])
  <2>1. \A k \in 1..n :
           frame[k] = [read |-> FrameRead(names, map, data, k), blank |-> ~HasData(rows[place[k]])]
    BY <1>8
  <2>2. \A k \in 1..n : /\ frame[k].read = FrameRead(names, map, data, k)
                        /\ frame[k].blank = ~HasData(rows[place[k]])
    <3> SUFFICES ASSUME NEW k \in 1..n
                 PROVE  /\ frame[k].read = FrameRead(names, map, data, k)
                        /\ frame[k].blank = ~HasData(rows[place[k]])
      OBVIOUS
    <3>1. frame[k] = [read |-> FrameRead(names, map, data, k), blank |-> ~HasData(rows[place[k]])]
      BY <2>1, Zenon
    <3>2. [read |-> FrameRead(names, map, data, k), blank |-> ~HasData(rows[place[k]])].read
            = FrameRead(names, map, data, k)
      BY FrameRowIs, Zenon
    <3>3. [read |-> FrameRead(names, map, data, k), blank |-> ~HasData(rows[place[k]])].blank
            = ~HasData(rows[place[k]])
      BY FrameRowIs, Zenon
    <3>. QED
      BY <3>1, <3>2, <3>3, Zenon
  <2>3. DOMAIN frame = 1..n
    BY <1>8
  <2>4. \A k \in 1..n : ~frame[k].blank <=> HasData(rows[place[k]])
    BY <2>2, Zenon
  <2>. QED
    BY <2>2, <2>3, <2>4
<1>10. \A k \in 1..n : data[k] = rows[place[k]]
  BY <1>5, <1>6
<1>11. ASSUME NEW i \in 1..n
       PROVE  Cardinality({k \in 1..i : HasData(rows[place[k]])}) = Count(rows, h, place[i])
  <2> DEFINE M == {k \in 1..i : HasData(rows[place[k]])}
             T == DataTo(rows, h, place[i])
  <2>1. IsFiniteSet(M)
    <3>1. 1 \in Int /\ i \in Int
      BY <1>5
    <3>2. IsFiniteSet(1..i)
      BY <3>1, FS_Interval
    <3>. QED
      BY <3>2, FS_Subset
  <2>2. \A k \in M : k \in 1..n /\ place[k] <= place[i]
    BY <1>5
  <2>3. ASSUME NEW k \in M PROVE place[k] \in T
    <3>1. k \in 1..n /\ place[k] <= place[i] /\ HasData(rows[place[k]])
      BY <2>2
    <3>2. place[k] \in h + 1 .. Len(rows) /\ place[k] \in Nat /\ place[i] \in Nat
      BY <1>3, <1>5, <3>1
    <3>. QED
      BY <1>2, <3>1, <3>2 DEF DataTo
  <2>4. ASSUME NEW j \in T PROVE \E k \in M : place[k] = j
    <3>1. j \in h + 1 .. place[i] /\ HasData(rows[j]) /\ place[i] \in h + 1 .. Len(rows)
      BY <1>3, <1>5 DEF DataTo
    <3>2. j \in lines
      BY <1>2, <1>3, <3>1, SMTT(30)
    <3>3. PICK k \in 1..n : place[k] = j
      BY <1>5, <3>2
    <3>4. k <= i
      BY <1>5, <3>1, <3>3
    <3>. QED
      BY <3>1, <3>3, <3>4
  <2>5. \A k, m \in M : place[k] = place[m] => k = m
    <3> SUFFICES ASSUME NEW k \in M, NEW m \in M, place[k] = place[m] PROVE k = m
      OBVIOUS
    <3>1. place[k] <= place[m] /\ place[m] <= place[k] /\ k \in 1..n /\ m \in 1..n
      BY <1>5, <2>2
    <3>2. k <= m /\ m <= k
      BY <1>5, <3>1
    <3>. QED
      BY <3>1, <3>2
  <2> HIDE DEF M, T
  <2>6. Cardinality(M) = Cardinality(T)
    BY <2>1, <2>3, <2>4, <2>5, SameCount
  <2>. QED
    BY <2>6 DEF M, T, Count
<1>12. ASSUME NEW i \in 1..n, HasData(rows[place[i]])
       PROVE  FrameAgrees(taken[Count(rows, h, place[i])].read, frame[i].read, names, data, i)
  <2>1. PICK row \in Lines : row = rows[place[i]]
    <3>1. place[i] \in h + 1 .. Len(rows)
      BY <1>3, <1>5
    <3>2. place[i] \in DOMAIN rows
      BY <1>2, <3>1 DEF IsSheet
    <3>. QED BY <3>2, LinesAre
  <2>2. place[i] \in DataTo(rows, h, Len(rows))
    BY <1>2, <1>3, <1>5, <1>12 DEF DataTo
  <2>3. PICK c : c = Count(rows, h, place[i])
    OBVIOUS
  <2>4. taken[c] = StreamedRow(names, row, c - 1)
    BY <2>1, <2>2, <2>3 DEF Follows
  <2>5. c \in DOMAIN taken
    <3>1. c \in 1 .. Count(rows, h, Len(rows))
      BY <1>2, <2>2, <2>3, DataIs
    <3>. QED
      BY <3>1 DEF Follows
  <2>6. PICK read, framed : read = taken[c].read /\ framed = frame[i].read
    OBVIOUS
  <2>7. read = Canonical(names, map, row, "day") /\ framed = FrameRead(names, map, data, i)
    <3>1. StreamedRow(names, row, c - 1).read = Canonical(names, map, row, "day")
      BY DEF StreamedRow, map
    <3>. QED
      BY <1>9, <2>4, <2>6, <3>1, Zenon
  <2>8. data[i] = row
    BY <1>10, <2>1
  <2>9. ASSUME NEW g \in Fields, framed[g] # read[g], Clear(g, Of(names, map, data[i], g))
        PROVE  g \in Texts /\ Gappy(names, map, data, g) /\ framed[g] = read[g] \o ".0"
    <3>1. PICK cell : cell = Of(names, map, row, g)
      OBVIOUS
    <3>2. PICK seen : seen = Canonical(names, map, row, "pandas")
      OBVIOUS
    <3>3. read[g] = Value(g, cell, "day") /\ seen[g] = Value(g, cell, "pandas")
      BY <2>7, <3>1, <3>2 DEF Canonical
    <3>4. seen[g] = read[g]
      BY <2>8, <2>9, <3>1, <3>3, ClearIsSame
    <3>5. framed[g] = IF g \in Texts /\ Gappy(names, map, data, g) /\ seen[g] # None
                      THEN seen[g] \o ".0" ELSE seen[g]
      BY <2>7, <2>8, <3>2 DEF FrameRead
    <3>. QED
      BY <2>9, <3>4, <3>5
  <2>10. FrameAgrees(read, framed, names, data, i)
    BY <2>9 DEF FrameAgrees, map
  <2>. QED
    BY <2>3, <2>6, <2>10
<1>13. Cardinality({k \in 1..n : HasData(rows[place[k]])}) = Count(rows, h, Len(rows))
  <2> DEFINE M == {k \in 1..n : HasData(rows[place[k]])}
             T == DataTo(rows, h, Len(rows))
  <2>1. IsFiniteSet(M)
    <3>1. 1 \in Int /\ n \in Int
      BY <1>5
    <3>2. IsFiniteSet(1..n)
      BY <3>1, FS_Interval
    <3>. QED
      BY <3>2, FS_Subset
  <2>2. \A k \in M : place[k] \in T
    BY <1>3, <1>5 DEF DataTo
  <2>3. \A j \in T : \E k \in M : place[k] = j
    BY <1>3, <1>5 DEF DataTo
  <2>4. \A k, m \in M : place[k] = place[m] => k = m
    <3> SUFFICES ASSUME NEW k \in M, NEW m \in M, place[k] = place[m] PROVE k = m
      OBVIOUS
    <3>1. place[k] <= place[m] /\ place[m] <= place[k] /\ k \in 1..n /\ m \in 1..n
      BY <1>5
    <3>2. k <= m /\ m <= k
      BY <1>5, <3>1
    <3>. QED
      BY <3>1, <3>2
  <2> HIDE DEF M, T
  <2>5. Cardinality(M) = Cardinality(T)
    BY <2>1, <2>2, <2>3, <2>4, SameCount
  <2>. QED
    BY <2>5 DEF M, T, Count
<1>14. Len(taken) = Cardinality({k \in DOMAIN frame : ~frame[k].blank})
  <2>1. {k \in DOMAIN frame : ~frame[k].blank} = {k \in 1..n : HasData(rows[place[k]])}
    BY <1>9
  <2>. QED
    BY <1>13, <2>1 DEF Follows
<1>15. ASSUME NEW i \in {k \in DOMAIN frame : ~frame[k].blank}
       PROVE  FrameAgrees(taken[Cardinality({k \in 1..i : ~frame[k].blank})].read, frame[i].read, names,
                          FrameData(f, t), i)
  <2>1. i \in 1..n /\ HasData(rows[place[i]])
    BY <1>9
  <2>2. 1..i \subseteq 1..n
    BY <1>5, <2>1
  <2>3. {k \in 1..i : ~frame[k].blank} = {k \in 1..i : HasData(rows[place[k]])}
    BY <1>9, <2>2
  <2>. QED
    BY <1>6, <1>11, <1>12, <2>1, <2>3
<1>. QED
  BY <1>14, <1>15 DEF NotBlank

(***************************************************************************)
(* The readers.                                                            *)
(***************************************************************************)
(* What was read so far follows the lines below the header.                *)
Covering ==
    /\ pc \in {"read", "done"} => /\ at <= Len(Rows) + 1
                                  /\ Follows(out \o chunk, Header, Rows, table[2], at - 1)
    /\ pc = "done" => at > Len(Rows) /\ chunk = << >>

LEMMA ReadCovers == ASSUME ReadingInv, Covering, ReadRow PROVE Covering'
<1> DEFINE n == Len(out) + Len(chunk)
           r == StreamedRow(Header, Rows[at], n)
           taken == out \o chunk
<1>1. /\ pc = "read" /\ pc' = pc /\ file' = file /\ table' = table /\ out' = out
      /\ at <= Len(Rows) /\ at' = at + 1
      /\ chunk' = IF HasData(Rows[at]) THEN Append(chunk, r) ELSE chunk
  BY DEF ReadRow
<1>2. /\ at \in DOMAIN Rows /\ Rows[at] \in Lines /\ file.sheets[table[1]][table[2]] \in Lines
      /\ at \in Nat /\ table[2] \in Nat /\ table[2] < at /\ Len(Rows) \in Nat
  <2>1. at \in Nat /\ table[2] \in DOMAIN Rows /\ table[2] < at
    BY <1>1 DEF ReadingInv, Placing
  <2>2. /\ \A i \in DOMAIN Rows : Rows[i] \in Lines
        /\ Len(Rows) \in Nat /\ DOMAIN Rows = 1..Len(Rows)
        /\ file.sheets[table[1]][table[2]] \in Lines
    BY <1>1, HeaderIsALine DEF ReadingInv
  <2>. QED
    BY <1>1, <2>1, <2>2
<1>3. out \in Seq(StreamedRows) /\ chunk \in Seq(StreamedRows) /\ n \in Nat
  BY DEF ReadingInv, Placing
<1>4. taken \in Seq(StreamedRows) /\ Len(taken) = n
  BY <1>3
<1>5. r \in StreamedRows
  <2> HIDE DEF n
  <2>. QED
    BY <1>2, <1>3 DEF StreamedRows, Header
<1> HIDE DEF r
<1>6. out \o Append(chunk, r) = Append(taken, r)
  BY <1>3, <1>5
<1>7. PICK names, rows, h, last : names = Header /\ rows = Rows /\ h = table[2] /\ last = at - 1
  OBVIOUS
<1>8. h \in Nat /\ last \in Nat /\ h <= last /\ last + 1 = at
  BY <1>2, <1>7
<1>9. Follows(taken, names, rows, h, last) /\ r = StreamedRow(names, rows[last + 1], Len(taken))
  BY <1>1, <1>4, <1>7, <1>8 DEF Covering, r
<1> HIDE DEF taken
<1>10. /\ HasData(rows[last + 1]) => Follows(Append(taken, r), names, rows, h, last + 1)
       /\ ~HasData(rows[last + 1]) => Follows(taken, names, rows, h, last + 1)
  BY <1>4, <1>5, <1>8, <1>9, FollowsMore
<1>11. (out \o chunk)' = IF HasData(rows[last + 1]) THEN Append(taken, r) ELSE taken
  BY <1>1, <1>6, <1>7, <1>8 DEF taken
<1>12. Follows((out \o chunk)', names, rows, h, last + 1)
  BY <1>10, <1>11
<1>13. names = Header' /\ rows = Rows' /\ h = table'[2] /\ last + 1 = at' - 1
  BY <1>1, <1>7, <1>8, <1>2 DEF Header, Rows
<1>14. at' <= Len(Rows') + 1
  BY <1>1, <1>2, <1>7, <1>13
<1>. QED
  BY <1>1, <1>12, <1>13, <1>14 DEF Covering

LEMMA HandedOverCovers == ASSUME ReadingInv, Covering, HandOver PROVE Covering'
<1>1. /\ pc = "read" /\ pc' \in {"read", "stopped"} /\ file' = file /\ table' = table /\ at' = at
      /\ out' = out \o chunk /\ chunk' = << >>
  BY DEF HandOver, Ready
<1>2. out \in Seq(StreamedRows) /\ chunk \in Seq(StreamedRows)
  BY DEF ReadingInv, Placing
<1>3. out' \o chunk' = out \o chunk
  BY <1>1, <1>2
<1>. QED
  BY <1>1, <1>3 DEF Covering, Rows, Header

LEMMA CoveringStep == ReadingInv /\ Covering /\ [ReadingNext]_readingVars => Covering'
<1> SUFFICES ASSUME ReadingInv, Covering, [ReadingNext]_readingVars PROVE Covering'
  OBVIOUS
<1>1. CASE Upload
  BY <1>1 DEF Upload, Covering
<1>2. CASE Locate
  <2>1. /\ pc = "locate" /\ table' = StreamTable(file) /\ file' = file
        /\ out' = out /\ chunk' = chunk /\ out = << >> /\ chunk = << >> /\ file \in Files
        /\ \/ table' = None /\ pc' = "refused"
           \/ table' # None /\ pc' = "read" /\ at' = table'[2] + 1
    BY <1>2 DEF Locate, ReadingInv, Placing
  <2>2. CASE table' = None /\ pc' = "refused"
    BY <2>2 DEF Covering
  <2>3. CASE table' # None /\ pc' = "read" /\ at' = table'[2] + 1
    <3>1. PICK t : t = table'
      OBVIOUS
    <3>2. t[1] \in DOMAIN file.sheets /\ t[2] \in DOMAIN file.sheets[t[1]]
      BY <2>1, <2>3, <3>1, StreamTableIs
    <3>3. IsSheet(file.sheets[t[1]])
      BY <2>1, <3>2, ReadingAssumption DEF IsFile, IsSheet
    <3>4. t[2] \in Nat /\ t[2] <= Len(file.sheets[t[1]]) /\ Len(file.sheets[t[1]]) \in Nat
      BY <3>2, <3>3 DEF IsSheet
    <3>5. at' - 1 = t[2] /\ at' <= Len(Rows') + 1
      BY <2>1, <2>3, <3>1, <3>4 DEF Rows
    <3>6. out' \o chunk' = << >>
      BY <2>1
    <3>7. PICK names, rows : names = Header' /\ rows = Rows'
      OBVIOUS
    <3>8. Follows(<< >>, names, rows, t[2], t[2])
      BY <3>4, FollowsNone
    <3>. QED
      BY <2>3, <3>1, <3>5, <3>6, <3>7, <3>8 DEF Covering
  <2>. QED
    BY <2>1, <2>2, <2>3
<1>3. CASE ReadRow
  BY <1>3, ReadCovers
<1>4. CASE HandOver
  BY <1>4, HandedOverCovers
<1>5. CASE Ends
  BY <1>5 DEF Ends, Covering, Rows, Header
<1>6. CASE Stop
  BY <1>6 DEF Stop, Ready, Covering
<1>7. CASE UNCHANGED readingVars
  BY <1>7 DEF readingVars, Covering, Rows, Header
<1>. QED
  BY <1>1, <1>2, <1>3, <1>4, <1>5, <1>6, <1>7 DEF ReadingNext

(* Wherever the file is cut into chunks, no row with data is lost or held     *)
(* twice, and what is carried from chunk to chunk is what all the rows handed *)
(* over would have told at once.                                           *)
THEOREM ChunksAreInvisible == ReadingSpec => []ChunkingIsInvisible
<1>1. ReadingInit => ReadingInv /\ Covering
  BY ReadingStarts DEF ReadingInit, Covering
<1>2. ReadingInv /\ Covering /\ [ReadingNext]_readingVars => ReadingInv' /\ Covering'
  BY ReadingStep, CoveringStep
<1>3. ReadingInv /\ Covering /\ pc \in {"read", "done"} =>
         Len(out) + Len(chunk) = Cardinality({i \in table[2] + 1 .. at - 1 : HasData(Rows[i])})
  <2> SUFFICES ASSUME ReadingInv, Covering, pc \in {"read", "done"}
               PROVE  Len(out) + Len(chunk) = Cardinality({i \in table[2] + 1 .. at - 1 : HasData(Rows[i])})
    OBVIOUS
  <2>1. Len(out \o chunk) = Count(Rows, table[2], at - 1)
    BY DEF Covering, Follows
  <2>2. Len(out \o chunk) = Len(out) + Len(chunk)
    BY DEF ReadingInv, Placing
  <2>. QED
    BY <2>1, <2>2 DEF Count, DataTo
<1>4. ReadingInv /\ Covering => ChunkingIsInvisible
  <2> SUFFICES ASSUME ReadingInv, out # << >>
               PROVE  /\ [sums EXCEPT !.recon = None] = [Added(NoSums, out) EXCEPT !.recon = None]
                      /\ sums.recon.sums = Added(NoSums, out).recon.sums
                      /\ \A i \in DOMAIN out : out[i].index = i - 1
    BY <1>3 DEF ChunkingIsInvisible
  <2>1. PICK whole : whole = Added(NoSums, out)
    OBVIOUS
  <2>2. Tells(sums, out)
    BY DEF ReadingInv, Telling
  <2>3. Tells(whole, out)
    BY <2>1, FirstTells DEF ReadingInv, Placing
  <2>4. PICK a, b, c, d, e, f, g, h :
          /\ sums = [count |-> a, earliest |-> b, firsts |-> c, skus |-> d, columns |-> e, late |-> f, recon |-> g]
          /\ whole = [count |-> a, earliest |-> b, firsts |-> c, skus |-> d, columns |-> e, late |-> f, recon |-> h]
    BY <2>2, <2>3 DEF Tells
  <2>5. sums.recon.sums = whole.recon.sums
    BY <2>2, <2>3 DEF Tells
  <2>6. [sums EXCEPT !.recon = None] = [whole EXCEPT !.recon = None]
    BY <2>4
  <2>. QED
    BY <2>1, <2>5, <2>6 DEF ReadingInv, Numbering
<1>. QED
  BY <1>1, <1>2, <1>4, PTL DEF ReadingSpec

(* A finished reading gives the rows the upload's frame has, blank ones      *)
(* aside, and the stored rows are read again as they were read - but for     *)
(* the fields ReadersAgree names.                                          *)
THEOREM ReadersStayAgreed == ReadingSpec => []ReadersAgree
<1>1. ReadingInit => ReadingInv /\ Covering
  BY ReadingStarts DEF ReadingInit, Covering
<1>2. ReadingInv /\ Covering /\ [ReadingNext]_readingVars => ReadingInv' /\ Covering'
  BY ReadingStep, CoveringStep
<1>3. ReadingInv /\ Covering => ReadersAgree
  <2> SUFFICES ASSUME ReadingInv, Covering, pc = "done"
               PROVE  /\ \A i \in DOMAIN out : RereadAgrees(out[i], Header)
                      /\ (FrameTable(file) = table /\ Distinct(Header) /\ Shift(file, table) = 0) =>
                           LET rows == FrameRows(file, table)
                               Filled(I) == {k \in I : ~rows[k].blank}
                           IN  /\ Len(out) = Cardinality(Filled(DOMAIN rows))
                               /\ \A i \in Filled(DOMAIN rows) :
                                     FrameAgrees(out[Cardinality(Filled(1..i))].read, rows[i].read, Header,
                                                 FrameData(file, table), i)
    BY DEF ReadersAgree
  <2>1. PICK f \in Files : f = file
    BY DEF ReadingInv, Placing
  <2>2. PICK t, rows, names, taken : t = table /\ rows = Rows /\ names = Header /\ taken = out
    OBVIOUS
  <2>3. /\ t[1] \in DOMAIN f.sheets /\ t[2] \in DOMAIN f.sheets[t[1]] /\ rows = f.sheets[t[1]]
        /\ names = Names(rows[t[2]]) /\ taken \in Seq(StreamedRows)
    BY <2>1, <2>2 DEF ReadingInv, Placing, Rows, Header
  <2>4. IsSheet(rows) /\ rows[t[2]] \in Lines /\ \A i \in DOMAIN rows : rows[i] \in Lines
    BY <2>3, LinesAre, ReadingAssumption DEF IsFile, IsSheet
  <2>5. Follows(taken, names, rows, t[2], Len(rows))
    <3>1. at <= Len(Rows) + 1 /\ at > Len(Rows) /\ chunk = << >> /\ at \in Nat
          /\ Follows(out \o chunk, Header, Rows, table[2], at - 1)
      BY DEF Covering, ReadingInv, Placing
    <3>2. Len(Rows) \in Nat
      BY <2>2, <2>4 DEF IsSheet
    <3>3. at - 1 = Len(Rows)
      BY <3>1, <3>2
    <3>4. out \o chunk = out
      BY <2>2, <2>3, <3>1
    <3>. QED
      BY <2>2, <3>1, <3>3, <3>4
  <2>6. ASSUME NEW k \in DOMAIN taken PROVE RereadAgrees(taken[k], names)
    <3>1. PICK i \in DataTo(rows, t[2], Len(rows)), n \in Nat : taken[k] = StreamedRow(names, rows[i], n)
      BY <2>5 DEF Follows
    <3>2. rows[i] \in Lines
      BY <2>3, <2>4 DEF IsSheet, DataTo
    <3>3. PICK row \in Lines : row = rows[i]
      BY <3>2
    <3>4. RereadAgrees(StreamedRow(names, row, n), names)
      BY <2>3, <2>4, RereadIs
    <3>. QED
      BY <3>1, <3>3, <3>4
  <2>7. \A i \in DOMAIN out : RereadAgrees(out[i], Header)
    BY <2>2, <2>6
  <2>8. PICK frame : frame = FrameRows(f, t)
    OBVIOUS
  <2>9. ASSUME Distinct(names), Shift(f, t) = 0
        PROVE  /\ Len(taken) = Cardinality(NotBlank(frame, DOMAIN frame))
               /\ \A i \in NotBlank(frame, DOMAIN frame) :
                     FrameAgrees(taken[Cardinality(NotBlank(frame, 1..i))].read, frame[i].read, names,
                                 FrameData(f, t), i)
    BY <2>3, <2>5, <2>8, <2>9, FrameIs
  <2>. QED
    BY <2>1, <2>2, <2>7, <2>8, <2>9 DEF NotBlank
<1>. QED
  BY <1>1, <1>2, <1>3, PTL DEF ReadingSpec
=============================================================================
