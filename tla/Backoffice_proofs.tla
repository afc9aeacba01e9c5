-------------------------- MODULE Backoffice_proofs --------------------------
(* Proofs of the invariants of Backoffice, for any administrators, requests  *)
(* and bounds.  BackofficeInv says what a request relies on from one         *)
(* statement to the next: what its session and its body are (RowInv), that   *)
(* the row it has locked is still as it read it (LockInv), that a change of  *)
(* roles knows every role row, as one to delete or one that another change   *)
(* has added (ViewInv), and that its audit event is counted (AuditInv).      *)
EXTENDS Backoffice, FiniteSetTheorems, TLAPS

(* What the place of request r says of its kind, its session and its body.   *)
RowInv(r) ==
  /\ req[r].pc \in {"created", "refused"} => req[r].kind = "login_admin"
  /\ req[r].pc # "idle" /\ req[r].kind \in AdminChanges \cup OwnKinds \cup {"login_admin"} =>
       Actor(r) \in Admins
  /\ req[r].pc # "idle" /\ req[r].kind = "user_status" =>
       req[r].body.status \in {"active", "suspended"}
  /\ req[r].pc # "idle" /\ req[r].kind = "ticket_status" =>
       req[r].body.status \in {"waiting_support", "closed"}
  /\ req[r].pc # "idle" /\ req[r].kind = "set_roles" => req[r].body.admin \in Admins
  /\ req[r].pc \in {"deleting", "locked"} /\ req[r].kind = "set_roles" =>
       (req[r].body.admin = Actor(r) => "super_admin" \in req[r].body.roles)

(* The wallet or the ticket that r has locked is as r has read it. *)
LockInv(r) ==
  /\ At(r, "locked", "adjust") =>
       lock["wallet"] = r /\ req[r].seen.balance = wallet.balance
  /\ At(r, "locked", "reply") =>
       /\ lock["ticket"] = r /\ req[r].seen.status = ticket.status
       /\ ticket.status # "none"

(* Request r is changing roles. *)
Changes(r) == req[r].kind = "set_roles" /\ req[r].pc \in {"deleting", "locked"}

(* The roles of the administrator that r changes are in its view. *)
ViewInv(r) ==
  Changes(r) => roles[req[r].body.admin] \subseteq view[r].rows \cup view[r].added

(* The requests of kind k whose audit event is written and whose change is   *)
(* still to come.                                                            *)
Announced(k) == {r \in Requests : req[r].kind = k /\ req[r].pc \in {"audited", "checked"}}

AuditInv ==
  /\ \A k \in AdminChanges \cup {"login_admin"} : audit[k] = changed[k]
  /\ \A k \in OwnKinds : changed[k] + Cardinality(Announced(k)) <= audit[k]

BackofficeInv ==
  /\ TypeOK
  /\ \A r \in Requests : RowInv(r) /\ LockInv(r) /\ ViewInv(r)
  /\ AuditInv
  /\ WalletIsBacked
  /\ ClosedAtMatches
  /\ SuperAdminRemains
  /\ RolesWereAsked


-----------------------------------------------------------------------------
(* Kinds, bodies and rows of requests                                       *)

(* The kinds of changes, written out. *)
LEMMA ChangeKinds ==
  AdminChanges = {"user_status", "adjust", "reply", "ticket_status", "setting", "set_roles"}
  BY DEF AdminChanges, Permission

SeenRows == [status : TicketStatuses, balance : Int]

BodyRows ==
  [status : {"none", "active", "suspended", "waiting_support", "closed"},
   amount : Int, admin : Admins \cup {None}, roles : SUBSET Roles, code : BOOLEAN]

RequestTypes == req \in [Requests -> RequestRows]

(* The fields of a request. *)
LEMMA RowFields ==
  ASSUME RequestTypes, NEW r \in Requests
  PROVE  /\ req[r] \in RequestRows
         /\ req[r].pc \in Places /\ req[r].kind \in Kinds /\ req[r].session \in Sessions
         /\ req[r].body \in BodyRows /\ req[r].seen \in SeenRows
  BY DEF RequestTypes, RequestRows, BodyRows, SeenRows

(* The row of an idle request. *)
LEMMA IdleRow ==
  /\ Idle \in RequestRows /\ Idle.pc = "idle"
<1>1. Body \in BodyRows
  BY DEF Body, BodyRows
<1>2. Idle.seen \in SeenRows
  BY DEF Idle, SeenRows, TicketStatuses
<1>3. <<User, 1>> \in Sessions
  BY DEF Sessions, Actors
<1>4. "message" \in Kinds /\ "idle" \in Places
  BY DEF Kinds, UserKinds, Places
<1> QED
  BY <1>1, <1>2, <1>3, <1>4 DEF Idle, RequestRows, BodyRows, SeenRows

(* The body of a request of each kind. *)
LEMMA BodyTypes ==
  ASSUME NEW kind \in Kinds, NEW body \in Bodies(kind)
  PROVE  /\ body \in BodyRows
         /\ kind = "user_status" => body.status \in {"active", "suspended"}
         /\ kind = "ticket_status" => body.status \in {"waiting_support", "closed"}
         /\ kind = "set_roles" => body.admin \in Admins
<1>0. Body \in BodyRows
  BY DEF Body, BodyRows
<1>1. CASE kind = "user_status"
  <2>1. Bodies(kind) = {[Body EXCEPT !.status = s] : s \in {"active", "suspended"}}
    BY <1>1 DEF Bodies
  <2>2. PICK s \in {"active", "suspended"} : body = [Body EXCEPT !.status = s]
    BY <2>1, Zenon
  <2> QED
    BY <1>0, <1>1, <2>2 DEF BodyRows
<1>2. CASE kind = "adjust"
  <2>1. Bodies(kind) = {[Body EXCEPT !.amount = n] : n \in {-1, 1}}
    BY <1>2 DEF Bodies
  <2>2. PICK n \in {-1, 1} : body = [Body EXCEPT !.amount = n]
    BY <2>1, Zenon
  <2> QED
    BY <1>0, <1>2, <2>2 DEF BodyRows
<1>3. CASE kind = "ticket_status"
  <2>1. Bodies(kind) = {[Body EXCEPT !.status = s] : s \in {"waiting_support", "closed"}}
    BY <1>3 DEF Bodies
  <2>2. PICK s \in {"waiting_support", "closed"} : body = [Body EXCEPT !.status = s]
    BY <2>1, Zenon
  <2> QED
    BY <1>0, <1>3, <2>2 DEF BodyRows
<1>4. CASE kind = "set_roles"
  <2>1. Bodies(kind) = {RoleBody(a, S) : a \in Admins, S \in RoleLists}
    BY <1>4 DEF Bodies
  <2>2. PICK a \in Admins, S \in RoleLists : body = RoleBody(a, S)
    BY <2>1
  <2>3. S \in SUBSET Roles
    BY ListsNotEmpty
  <2> QED
    BY <1>0, <1>4, <2>2, <2>3 DEF RoleBody, BodyRows
<1>5. CASE kind \in {"totp_enable", "login_admin"}
  <2>1. Bodies(kind) = {[Body EXCEPT !.code = ok] : ok \in BOOLEAN}
    BY <1>5 DEF Bodies
  <2>2. PICK ok \in BOOLEAN : body = [Body EXCEPT !.code = ok]
    BY <2>1, Zenon
  <2> QED
    BY <1>0, <1>5, <2>2 DEF BodyRows
<1>6. CASE kind \notin {"user_status", "adjust", "ticket_status", "set_roles", "totp_enable",
                        "login_admin"}
  <2>1. /\ kind # "user_status" /\ kind # "adjust" /\ kind # "ticket_status"
        /\ kind # "set_roles" /\ kind # "totp_enable" /\ kind # "login_admin"
    BY <1>6
  <2>2. Bodies(kind) = {Body}
    BY <2>1 DEF Bodies
  <2> QED
    BY <1>0, <1>6, <2>2
<1> QED
  BY <1>1, <1>2, <1>3, <1>4, <1>5, <1>6

(* The rows of the other requests are not written. *)
Others(r) == \A q \in Requests : q # r => req'[q] = req[q]

(* Of the row of r all but the place, and what was read, stays. *)
Keeps(r) ==
  req'[r].kind = req[r].kind /\ req'[r].session = req[r].session /\ req'[r].body = req[r].body

(* Goto changes the place of one request. *)
LEMMA GotoRow ==
  ASSUME RequestTypes, NEW r \in Requests, NEW p \in Places, Goto(r, p)
  PROVE  RequestTypes' /\ Others(r) /\ Keeps(r) /\ req'[r].pc = p /\ req'[r].seen = req[r].seen
<1>1. req[r] \in RequestRows
  BY RowFields
<1>2. [req[r] EXCEPT !.pc = p] \in RequestRows
  BY <1>1 DEF RequestRows
<1>3. req' = [req EXCEPT ![r] = [req[r] EXCEPT !.pc = p]]
  BY DEF Goto
<1>4. RequestTypes' /\ Others(r) /\ req'[r] = [req[r] EXCEPT !.pc = p]
  BY <1>2, <1>3, Zenon DEF RequestTypes, Others
<1> QED
  BY <1>1, <1>4 DEF Keeps, RequestRows

(* Answer makes one request idle. *)
LEMMA AnswerRow ==
  ASSUME RequestTypes, NEW r \in Requests, Answer(r)
  PROVE  RequestTypes' /\ Others(r) /\ req'[r] = Idle /\ req'[r].pc = "idle"
  BY IdleRow, Zenon DEF RequestTypes, Answer, Others

(* A locking read changes the place of one request and what it has read. *)
LEMMA LockedRow ==
  ASSUME RequestTypes, TypeOK, NEW r \in Requests, NEW row, ForUpdate(r, row)
  PROVE  /\ RequestTypes' /\ Others(r) /\ Keeps(r) /\ req'[r].pc = "locked"
         /\ req'[r].seen.balance = wallet.balance /\ req'[r].seen.status = ticket.status
<1> DEFINE seen == [req[r].seen EXCEPT !.status = ticket.status, !.balance = wallet.balance]
           new == [req[r] EXCEPT !.pc = "locked", !.seen = seen]
<1>1. req[r] \in RequestRows /\ req[r].seen \in SeenRows
  BY RowFields
<1>2. ticket.status \in TicketStatuses /\ wallet.balance \in Int
  BY DEF TypeOK
<1>3. seen \in SeenRows /\ seen.balance = wallet.balance /\ seen.status = ticket.status
  BY <1>1, <1>2 DEF SeenRows
<1>4. new \in RequestRows
  BY <1>1, <1>3 DEF RequestRows, SeenRows, Places
<1>5. req' = [req EXCEPT ![r] = new]
  BY <1>1 DEF ForUpdate, RequestTypes, RequestRows
<1>6. RequestTypes' /\ Others(r) /\ req'[r] = new
  BY <1>4, <1>5, Zenon DEF RequestTypes, Others
<1>7. new.pc = "locked" /\ new.seen = seen /\ new.kind = req[r].kind
      /\ new.session = req[r].session /\ new.body = req[r].body
  BY <1>1 DEF RequestRows
<1> QED
  BY <1>3, <1>6, <1>7, Zenon DEF Keeps

(* A new request has what the client sent. *)
LEMMA BeginRow ==
  ASSUME RequestTypes, NEW r \in Requests, NEW kind \in Kinds, NEW s \in Sessions,
         NEW body \in Bodies(kind),
         req' = [req EXCEPT ![r] = [Idle EXCEPT !.pc = "begun", !.kind = kind,
                                    !.session = s, !.body = body]]
  PROVE  /\ RequestTypes' /\ Others(r) /\ req'[r].pc = "begun" /\ req'[r].kind = kind
         /\ req'[r].session = s /\ req'[r].body = body
<1> DEFINE new == [Idle EXCEPT !.pc = "begun", !.kind = kind, !.session = s, !.body = body]
<1>1. body \in BodyRows
  BY BodyTypes
<1>2. new \in RequestRows
  BY <1>1, IdleRow DEF RequestRows, BodyRows, Places
<1>3. new.pc = "begun" /\ new.kind = kind /\ new.session = s /\ new.body = body
  BY IdleRow DEF RequestRows
<1>4. RequestTypes' /\ Others(r) /\ req'[r] = new
  BY <1>2, Zenon DEF RequestTypes, Others
<1> QED
  BY <1>3, <1>4, Zenon

(* A request that has answered relies on nothing. *)
LEMMA RowLeft ==
  ASSUME RequestTypes, NEW r \in Requests, Answer(r)
  PROVE  RequestTypes' /\ Others(r) /\ RowInv(r)'
  BY AnswerRow DEF RowInv

(* A request that moves on relies on what it relied on before. *)
LEMMA RowMoved ==
  ASSUME RequestTypes, NEW r \in Requests, RowInv(r), req[r].pc # "idle",
         NEW p \in Places, Goto(r, p),
         p \in {"created", "refused"} => req[r].kind = "login_admin",
         \/ p \in {"deleting", "locked"} => req[r].pc = "deleting"
         \/ req[r].body.admin = Actor(r) => "super_admin" \in req[r].body.roles
  PROVE  RequestTypes' /\ Others(r) /\ RowInv(r)'
<1>1. RequestTypes' /\ Others(r) /\ Keeps(r) /\ req'[r].pc = p
  BY GotoRow
<1> QED
  BY <1>1 DEF RowInv, Keeps, Actor

-----------------------------------------------------------------------------
(* What a step does to the requests                                         *)

(* A step of the request r. *)
StepOf(r) ==
  \/ \E kind \in Kinds, s \in Sessions : Begin(r, kind, s)
  \/ IdentityStep(r) \/ AdminStep(r) \/ TicketStep(r) \/ Fails(r)

(* Every place is one of the program's. *)
LEMMA IsPlace ==
  /\ "handling" \in Places /\ "audited" \in Places /\ "locked" \in Places
  /\ "deleting" \in Places /\ "checked" \in Places /\ "registered" \in Places
  /\ "created" \in Places /\ "refused" \in Places /\ "begun" \in Places
  BY DEF Places

(* A request begins with a session that fits its kind. *)
LEMMA BeginStep ==
  ASSUME RequestTypes, held \subseteq Sessions, NEW r \in Requests,
         NEW kind \in Kinds, NEW s \in Sessions, Begin(r, kind, s)
  PROVE  RequestTypes' /\ Others(r) /\ RowInv(r)' /\ req'[r].pc = "begun"
<1>1. PICK body \in Bodies(kind) :
        req' = [req EXCEPT ![r] = [Idle EXCEPT !.pc = "begun", !.kind = kind,
                                   !.session = s, !.body = body]]
  BY Zenon DEF Begin
<1>2. /\ RequestTypes' /\ Others(r) /\ req'[r].pc = "begun" /\ req'[r].kind = kind
      /\ req'[r].session = s /\ req'[r].body = body
  BY <1>1, BeginRow
<1>3. kind \in AdminChanges \cup OwnKinds \cup {"login_admin"} => s[1] \in Admins
  <2>1. CASE kind \in AdminChanges \cup OwnKinds
    BY <2>1, ChangeKinds DEF Begin, OwnKinds, UserKinds, OpenKinds
  <2>2. CASE kind = "login_admin"
    BY <2>2, ChangeKinds DEF Begin, OwnKinds, UserKinds, OpenKinds
  <2> QED
    BY <2>1, <2>2
<1>4. /\ kind = "user_status" => body.status \in {"active", "suspended"}
      /\ kind = "ticket_status" => body.status \in {"waiting_support", "closed"}
      /\ kind = "set_roles" => body.admin \in Admins
  BY BodyTypes
<1> QED
  BY <1>2, <1>3, <1>4 DEF RowInv, Actor

(* A step of IdentityStep keeps what its request relies on. *)
LEMMA IdentityRow ==
  ASSUME RequestTypes, NEW r \in Requests, RowInv(r), IdentityStep(r)
  PROVE  RequestTypes' /\ Others(r) /\ RowInv(r)'
<1>1. CASE RequireAdmin(r) \/ RequireUser(r)
  <2>1. req[r].pc = "begun" /\ (Goto(r, "handling") \/ Answer(r))
    BY <1>1, Zenon DEF RequireAdmin, RequireUser
  <2> QED
    BY <2>1, RowLeft, RowMoved, IsPlace
<1>2. CASE registerUser(r)
  <2>1. req[r].pc = "begun" /\ (Goto(r, "registered") \/ Answer(r))
    BY <1>2, Zenon DEF registerUser, At
  <2> QED
    BY <2>1, RowLeft, RowMoved, IsPlace
<1>3. CASE newAdminSession(r)
  <2>1. req[r].pc = "begun" /\ req[r].kind = "login_admin" /\ Goto(r, "created")
    BY <1>3, Zenon DEF newAdminSession, At
  <2> QED
    BY <2>1, RowMoved, IsPlace
<1>4. CASE loginAuditFails(r)
  <2>1. req[r].pc = "created" /\ req[r].kind = "login_admin" /\ Goto(r, "refused")
    BY <1>4, Zenon DEF loginAuditFails, RowInv
  <2> QED
    BY <2>1, RowMoved, IsPlace
<1>5. CASE recordAdminAudit(r)
  <2>1. req[r].pc = "handling" /\ Goto(r, "audited")
    BY <1>5, Zenon DEF recordAdminAudit
  <2> QED
    BY <2>1, RowMoved, IsPlace
<1>6. CASE checkTOTP(r)
  <2>1. req[r].pc = "audited" /\ (Goto(r, "checked") \/ Answer(r))
    BY <1>6, Zenon DEF checkTOTP, At
  <2> QED
    BY <2>1, RowLeft, RowMoved, IsPlace
<1>7. CASE \/ newUserSession(r) \/ loginUserFails(r) \/ loginAdminFails(r) \/ loginAdmin(r)
           \/ AdminBySessionFails(r) \/ loginRefused(r) \/ logoutUser(r) \/ logoutAdmin(r) \/ setupAdminTOTP(r)
           \/ enableAdminTOTP(r)
  <2>1. Answer(r)
    BY <1>7, Zenon
    DEF newUserSession, loginUserFails, loginAdminFails, loginAdmin, AdminBySessionFails,
        loginRefused, logoutUser, logoutAdmin, setupAdminTOTP, enableAdminTOTP
  <2> QED
    BY <2>1, RowLeft
<1> QED
  BY <1>1, <1>2, <1>3, <1>4, <1>5, <1>6, <1>7, Zenon DEF IdentityStep

(* The actions of AdminStep end the request, lock a row or move on. *)
LEMMA AdminRow ==
  ASSUME TypeOK, RequestTypes, NEW r \in Requests, RowInv(r), AdminStep(r)
  PROVE  RequestTypes' /\ Others(r) /\ RowInv(r)'
<1>1. CASE \/ UpdateUserStatus(r) \/ UpdateSetting(r) \/ AdjustWallet(r) \/ ReplyTicket(r)
           \/ UpdateTicketStatus(r) \/ InsertRoles(r)
  <2>1. Answer(r)
    BY <1>1, Zenon
    DEF UpdateUserStatus, UpdateSetting, AdjustWallet, ReplyTicket, UpdateTicketStatus,
        InsertRoles, Commit, Rollback
  <2> QED
    BY <2>1, RowLeft
<1>2. CASE LockWallet(r) \/ LockTicket(r)
  <2>1. /\ req[r].pc = "handling" /\ req[r].kind # "set_roles"
        /\ Answer(r) \/ \E row \in Rows : ForUpdate(r, row)
    BY <1>2, Zenon DEF LockWallet, LockTicket, At, Rollback, Rows
  <2>2. ASSUME NEW row \in Rows, ForUpdate(r, row)
        PROVE  RequestTypes' /\ Others(r) /\ RowInv(r)'
    <3>1. RequestTypes' /\ Others(r) /\ Keeps(r) /\ req'[r].pc = "locked"
      BY <2>2, LockedRow
    <3> QED
      BY <2>1, <3>1 DEF RowInv, Keeps, Actor
  <2> QED
    BY <2>1, <2>2, RowLeft
<1>3. CASE StartRoles(r)
  <2>1. /\ req[r].pc = "handling"
        /\ \/ Answer(r)
           \/ /\ Goto(r, "deleting")
              /\ req[r].body.admin = Actor(r) => "super_admin" \in req[r].body.roles
    BY <1>3, Zenon DEF StartRoles, At
  <2> QED
    BY <2>1, RowLeft, RowMoved, IsPlace
<1>4. CASE DeleteRoles(r)
  <2>1. req[r].pc = "deleting" /\ Goto(r, "locked")
    BY <1>4, Zenon DEF DeleteRoles, At
  <2> QED
    BY <2>1, RowMoved, IsPlace
<1> QED
  BY <1>1, <1>2, <1>3, <1>4, Zenon DEF AdminStep

(* So do the user's requests and faults. *)
LEMMA RequestStep ==
  ASSUME TypeOK, NEW r \in Requests, RowInv(r), StepOf(r)
  PROVE  RequestTypes' /\ Others(r) /\ RowInv(r)'
<1>0. RequestTypes /\ held \subseteq Sessions
  BY DEF TypeOK, RequestTypes
<1>1. ASSUME NEW kind \in Kinds, NEW s \in Sessions, Begin(r, kind, s)
      PROVE  RequestTypes' /\ Others(r) /\ RowInv(r)'
  BY <1>0, <1>1, BeginStep
<1>2. CASE GetUserTicket(r)
  <2>1. req[r].pc = "handling" /\ (Goto(r, "checked") \/ Answer(r))
    BY <1>2, Zenon DEF GetUserTicket, At
  <2> QED
    BY <1>0, <2>1, RowLeft, RowMoved, IsPlace
<1>3. CASE CreateTicket(r) \/ AddTicketMessage(r) \/ Fails(r)
  <2>1. Answer(r)
    BY <1>3, Zenon DEF CreateTicket, AddTicketMessage, Fails, Rollback
  <2> QED
    BY <1>0, <2>1, RowLeft
<1> QED
  BY <1>0, <1>1, <1>2, <1>3, IdentityRow, AdminRow, Zenon DEF StepOf, TicketStep

-----------------------------------------------------------------------------
(* Row locks, the wallet and the ticket                                     *)

LockTypes == lock \in [Rows -> Requests \cup {None}]

(* No other request loses a lock. *)
Holding(r) == \A q \in Requests, row \in Rows : q # r /\ lock[row] = q => lock'[row] = q

(* The end of a transaction releases its own locks. *)
LEMMA Released ==
  ASSUME LockTypes, NEW r \in Requests,
         lock' = [row \in Rows |-> IF lock[row] = r THEN None ELSE lock[row]]
  PROVE  LockTypes' /\ Holding(r)
  BY DEF LockTypes, Holding

(* A lock is taken only when it is free. *)
LEMMA Locked ==
  ASSUME LockTypes, NEW r \in Requests, NEW row \in Rows, lock[row] = None,
         lock' = [lock EXCEPT ![row] = r]
  PROVE  LockTypes' /\ Holding(r) /\ lock'[row] = r
  BY NoneIsNobody DEF LockTypes, Holding

(* What a step of r leaves alone: the locks of others; the wallet, unless r  *)
(* has locked it; and the ticket, unless nobody else has or there is none.   *)
Considerate(r) ==
  /\ LockTypes' /\ Holding(r)
  /\ wallet' = wallet \/ At(r, "locked", "adjust")
  /\ ticket' = ticket \/ lock["ticket"] \in {None, r} \/ ticket.status = "none"

(* Most steps change no locks, no wallet and no ticket. *)
LEMMA QuietIsConsiderate ==
  ASSUME LockTypes, NEW r \in Requests,
         lock' = lock \/ lock' = [row \in Rows |-> IF lock[row] = r THEN None ELSE lock[row]],
         wallet' = wallet, ticket' = ticket
  PROVE  Considerate(r)
  BY Released, Zenon DEF Considerate, Holding, LockTypes

(* The rows that AdminStep writes are locked or free. *)
LEMMA AdminIsConsiderate ==
  ASSUME TypeOK, NEW r \in Requests, RowInv(r), LockInv(r), AdminStep(r)
  PROVE  Considerate(r)
<1>0. LockTypes /\ "wallet" \in Rows /\ "ticket" \in Rows
  BY Zenon DEF TypeOK, LockTypes, Rows
<1>1. CASE \/ UpdateUserStatus(r) \/ UpdateSetting(r)
           \/ StartRoles(r) \/ DeleteRoles(r) \/ InsertRoles(r)
  <2>1. /\ lock' = lock \/ lock' = [row \in Rows |-> IF lock[row] = r THEN None ELSE lock[row]]
        /\ wallet' = wallet /\ ticket' = ticket
    BY <1>1, Zenon
    DEF UpdateUserStatus, UpdateSetting, StartRoles, DeleteRoles, InsertRoles, Commit, Rollback,
        dataVars
  <2> QED
    BY <1>0, <2>1, QuietIsConsiderate
<1>2. CASE LockWallet(r) \/ LockTicket(r)
  <2>1. wallet' = wallet /\ ticket' = ticket
    BY <1>2, Zenon DEF LockWallet, LockTicket, dataVars
  <2>2. CASE Rollback(r)
    BY <1>0, <2>1, <2>2, QuietIsConsiderate, Zenon DEF Rollback
  <2>3. CASE ~Rollback(r)
    <3>1. PICK row \in Rows : lock[row] = None /\ lock' = [lock EXCEPT ![row] = r]
      BY <1>0, <1>2, <2>3, Zenon DEF LockWallet, LockTicket, ForUpdate
    <3> QED
      BY <1>0, <2>1, <3>1, Locked, Zenon DEF Considerate
  <2> QED
    BY <2>2, <2>3, Zenon
<1>3. CASE AdjustWallet(r) \/ ReplyTicket(r) \/ UpdateTicketStatus(r)
  <2>1. lock' = [row \in Rows |-> IF lock[row] = r THEN None ELSE lock[row]]
    BY <1>3, Zenon DEF AdjustWallet, ReplyTicket, UpdateTicketStatus, Commit, Rollback
  <2>2. wallet' = wallet \/ At(r, "locked", "adjust")
    BY <1>3, Zenon DEF AdjustWallet, ReplyTicket, UpdateTicketStatus
  <2>3. ticket' = ticket \/ lock["ticket"] \in {None, r}
    BY <1>3, Zenon DEF AdjustWallet, ReplyTicket, UpdateTicketStatus, LockInv
  <2> QED
    BY <1>0, <2>1, <2>2, <2>3, Released, Zenon DEF Considerate
<1> QED
  BY <1>1, <1>2, <1>3, Zenon DEF AdminStep

(* So is every other step. *)
LEMMA StepIsConsiderate ==
  ASSUME TypeOK, NEW r \in Requests, RowInv(r), LockInv(r), StepOf(r)
  PROVE  Considerate(r)
<1>0. LockTypes
  BY Zenon DEF TypeOK, LockTypes
<1>1. CASE IdentityStep(r)
  <2>1. lock' = lock /\ wallet' = wallet /\ ticket' = ticket
    BY <1>1, Zenon
    DEF IdentityStep, RequireAdmin, RequireUser, registerUser, newUserSession,
        loginUserFails, newAdminSession, loginAdminFails, loginAdmin, AdminBySessionFails, loginAuditFails,
        loginRefused, logoutUser, recordAdminAudit, logoutAdmin, setupAdminTOTP, checkTOTP,
        enableAdminTOTP, dataVars
  <2> QED
    BY <1>0, <2>1, QuietIsConsiderate
<1>2. CASE (\E kind \in Kinds, s \in Sessions : Begin(r, kind, s)) \/ GetUserTicket(r)
           \/ AddTicketMessage(r) \/ Fails(r)
  <2>1. /\ lock' = lock \/ lock' = [row \in Rows |-> IF lock[row] = r THEN None ELSE lock[row]]
        /\ wallet' = wallet /\ ticket' = ticket
    BY <1>2, Zenon DEF Begin, GetUserTicket, AddTicketMessage, Fails, Rollback, dataVars
  <2> QED
    BY <1>0, <2>1, QuietIsConsiderate
<1>3. CASE CreateTicket(r)
  BY <1>0, <1>3, Zenon DEF CreateTicket, Considerate, Holding, LockTypes
<1> QED
  BY <1>1, <1>2, <1>3, AdminIsConsiderate, Zenon DEF StepOf, TicketStep

(* The row that another request has locked stays as that one has read it. *)
LEMMA LocksProtect ==
  ASSUME TypeOK, NEW r \in Requests, NEW q \in Requests, q # r, LockInv(r), LockInv(q),
         Others(r), Considerate(r)
  PROVE  LockInv(q)'
<1>1. req'[q] = req[q] /\ "wallet" \in Rows /\ "ticket" \in Rows
  BY Zenon DEF Others, Rows
<1>2. ASSUME At(q, "locked", "adjust")
      PROVE  lock'["wallet"] = q /\ wallet' = wallet
  <2>1. lock["wallet"] = q
    BY <1>2, Zenon DEF LockInv
  <2> QED
    BY <1>1, <2>1, Zenon DEF Considerate, Holding, LockInv
<1>3. ASSUME At(q, "locked", "reply")
      PROVE  lock'["ticket"] = q /\ ticket' = ticket
  <2>1. lock["ticket"] = q /\ ticket.status # "none"
    BY <1>3, Zenon DEF LockInv
  <2> QED
    BY <1>1, <2>1, NoneIsNobody, Zenon DEF Considerate, Holding
<1> QED
  BY <1>1, <1>2, <1>3, Zenon DEF LockInv, At

(* A request that answers, or goes to a place without a lock, relies on none. *)
LEMMA NoLockNeeded ==
  ASSUME RequestTypes, NEW r \in Requests,
         Answer(r) \/ \E p \in Places \ {"locked"} : Goto(r, p)
  PROVE  LockInv(r)'
<1>1. ASSUME NEW p \in Places \ {"locked"}, Goto(r, p)
      PROVE  req'[r].pc # "locked"
  BY <1>1, GotoRow
<1>2. req'[r].pc # "locked"
  BY <1>1, AnswerRow
<1> QED
  BY <1>2, Zenon DEF LockInv, At

(* A request has locked what it goes on to change. *)
LEMMA OwnLock ==
  ASSUME TypeOK, NEW r \in Requests, RowInv(r), LockInv(r), StepOf(r)
  PROVE  LockInv(r)'
<1>0. RequestTypes /\ LockTypes /\ held \subseteq Sessions /\ "wallet" \in Rows /\ "ticket" \in Rows
  BY Zenon DEF TypeOK, RequestTypes, LockTypes, Rows
<1>1. CASE IdentityStep(r) \/ TicketStep(r) \/ Fails(r)
  <2>1. \/ Answer(r) \/ Goto(r, "handling") \/ Goto(r, "registered") \/ Goto(r, "created")
        \/ Goto(r, "refused") \/ Goto(r, "audited") \/ Goto(r, "checked")
    BY <1>1, Zenon
    DEF IdentityStep, RequireAdmin, RequireUser, registerUser, newUserSession,
        loginUserFails, newAdminSession, loginAdminFails, loginAdmin, AdminBySessionFails, loginAuditFails,
        loginRefused, logoutUser, recordAdminAudit, logoutAdmin, setupAdminTOTP, checkTOTP,
        enableAdminTOTP, TicketStep, CreateTicket, GetUserTicket, AddTicketMessage, Fails,
        Rollback
  <2>2. Answer(r) \/ \E p \in Places \ {"locked"} : Goto(r, p)
    BY <2>1, IsPlace
  <2> QED
    BY <1>0, <2>2, NoLockNeeded
<1>2. ASSUME NEW kind \in Kinds, NEW s \in Sessions, Begin(r, kind, s)
      PROVE  LockInv(r)'
  BY <1>0, <1>2, BeginStep DEF LockInv, At
<1>3. CASE \/ UpdateUserStatus(r) \/ UpdateSetting(r) \/ AdjustWallet(r) \/ ReplyTicket(r)
           \/ UpdateTicketStatus(r) \/ InsertRoles(r)
  <2>1. Answer(r)
    BY <1>3, Zenon
    DEF UpdateUserStatus, UpdateSetting, AdjustWallet, ReplyTicket, UpdateTicketStatus,
        InsertRoles, Commit, Rollback
  <2> QED
    BY <1>0, <2>1, NoLockNeeded
<1>4. CASE StartRoles(r) \/ DeleteRoles(r)
  <2>1. req'[r].pc = "idle" \/ req'[r].kind = "set_roles"
    <3>1. req[r].kind = "set_roles" /\ req[r].pc \in {"handling", "deleting"}
      BY <1>4, Zenon DEF StartRoles, DeleteRoles, At
    <3>2. CASE Answer(r)
      BY <1>0, <3>2, AnswerRow
    <3>3. CASE Goto(r, "locked")
      BY <1>0, <3>1, <3>3, GotoRow, IsPlace DEF Keeps
    <3>4. CASE Goto(r, "deleting")
      BY <1>0, <3>1, <3>4, GotoRow, IsPlace DEF Keeps
    <3> QED
      BY <1>4, <3>2, <3>3, <3>4, Zenon DEF StartRoles, DeleteRoles
  <2> QED
    BY <2>1 DEF LockInv, At
<1>5. CASE LockWallet(r) \/ LockTicket(r)
  <2>1. CASE Rollback(r)
    BY <1>0, <2>1, NoLockNeeded, Zenon DEF Rollback
  <2>2. CASE ~Rollback(r)
    <3>1. /\ wallet' = wallet /\ ticket' = ticket /\ req[r].pc = "handling"
          /\ \/ ForUpdate(r, "wallet") /\ req[r].kind = "adjust"
             \/ ForUpdate(r, "ticket") /\ req[r].kind = "reply" /\ ticket.status # "none"
      BY <1>5, <2>2, Zenon DEF LockWallet, LockTicket, At, dataVars
    <3>2. /\ Keeps(r) /\ req'[r].pc = "locked"
          /\ req'[r].seen.balance = wallet.balance /\ req'[r].seen.status = ticket.status
      BY <1>0, <3>1, LockedRow
    <3>3. /\ req[r].kind = "adjust" => lock'["wallet"] = r
          /\ req[r].kind = "reply" => lock'["ticket"] = r
      BY <1>0, <3>1, Locked DEF ForUpdate
    <3> QED
      BY <3>1, <3>2, <3>3 DEF LockInv, At, Keeps
  <2> QED
    BY <2>1, <2>2, Zenon
<1> QED
  BY <1>1, <1>2, <1>3, <1>4, <1>5, Zenon DEF StepOf, AdminStep

(* Who writes the wallet, the ticket and the roles. *)
LEMMA Writers ==
  ASSUME NEW r \in Requests, StepOf(r)
  PROVE  /\ wallet' = wallet \/ AdjustWallet(r)
         /\ ticket' = ticket \/ ReplyTicket(r) \/ UpdateTicketStatus(r) \/ CreateTicket(r)
         /\ UNCHANGED <<roles, asked, stale>> \/ InsertRoles(r)
         /\ view' = view \/ StartRoles(r) \/ InsertRoles(r) \/ Fails(r)
<1>1. CASE IdentityStep(r)
  BY <1>1, Zenon
  DEF IdentityStep, RequireAdmin, RequireUser, registerUser, newUserSession,
      loginUserFails, newAdminSession, loginAdminFails, loginAdmin, AdminBySessionFails, loginAuditFails,
      loginRefused, logoutUser, recordAdminAudit, logoutAdmin, setupAdminTOTP, checkTOTP,
      enableAdminTOTP, dataVars, identityVars, roleVars
<1>2. CASE AdminStep(r)
  <2>1. AdjustWallet(r) => ticket' = ticket /\ UNCHANGED <<roles, asked, stale, view>>
    BY Zenon DEF AdjustWallet, identityVars, roleVars
  <2>2. ReplyTicket(r) \/ UpdateTicketStatus(r) =>
          wallet' = wallet /\ UNCHANGED <<roles, asked, stale, view>>
    BY Zenon DEF ReplyTicket, UpdateTicketStatus, identityVars, roleVars
  <2>3. InsertRoles(r) => wallet' = wallet /\ ticket' = ticket
    BY Zenon DEF InsertRoles, dataVars
  <2>4. \/ UpdateUserStatus(r) \/ UpdateSetting(r) \/ LockWallet(r) \/ LockTicket(r)
        \/ DeleteRoles(r)
        => wallet' = wallet /\ ticket' = ticket /\ UNCHANGED <<roles, asked, stale, view>>
    BY Zenon
    DEF UpdateUserStatus, UpdateSetting, LockWallet, LockTicket, DeleteRoles,
        dataVars, identityVars, roleVars
  <2>5. StartRoles(r) => wallet' = wallet /\ ticket' = ticket /\ UNCHANGED <<roles, asked, stale>>
    BY Zenon DEF StartRoles, dataVars, identityVars
  <2> QED
    BY <1>2, <2>1, <2>2, <2>3, <2>4, <2>5, Zenon DEF AdminStep
<1>3. CASE (\E kind \in Kinds, s \in Sessions : Begin(r, kind, s)) \/ TicketStep(r) \/ Fails(r)
  BY <1>3, Zenon
  DEF Begin, TicketStep, CreateTicket, GetUserTicket, AddTicketMessage, Fails, dataVars,
      identityVars, roleVars
<1> QED
  BY <1>1, <1>2, <1>3, Zenon DEF StepOf

(* The balance that AdjustWallet has checked is the balance it changes. *)
LEMMA WalletStep ==
  ASSUME TypeOK, WalletIsBacked, NEW r \in Requests, LockInv(r), StepOf(r)
  PROVE  wallet' \in [balance : Int, wallet : Int, platform : Int] /\ WalletIsBacked'
<1>0. wallet \in [balance : Int, wallet : Int, platform : Int]
  BY DEF TypeOK
<1>1. CASE wallet' = wallet
  BY <1>0, <1>1 DEF WalletIsBacked
<1>2. CASE wallet' # wallet
  <2>1. AdjustWallet(r) /\ req[r].seen.balance = wallet.balance
    BY <1>2, Writers, Zenon DEF AdjustWallet, LockInv
  <2>2. PICK amount \in Int : amount = req[r].body.amount
    BY RowFields DEF TypeOK, RequestTypes, BodyRows
  <2>3. /\ ~(wallet.balance + amount < 0)
        /\ wallet' = [balance |-> wallet.balance + amount, wallet |-> wallet.wallet + amount,
                      platform |-> wallet.platform - amount]
    BY <1>2, <2>1, <2>2 DEF AdjustWallet
  <2> QED
    BY <1>0, <2>3 DEF WalletIsBacked
<1> QED
  BY <1>1, <1>2, Zenon

(* A reply reopens no ticket: the one it has locked was not final. *)
LEMMA TicketWritten ==
  ASSUME TypeOK, ClosedAtMatches, NEW r \in Requests, RowInv(r), LockInv(r), StepOf(r)
  PROVE  ticket' \in [status : TicketStatuses, closedAt : BOOLEAN] /\ ClosedAtMatches'
<1>0. ticket \in [status : TicketStatuses, closedAt : BOOLEAN]
  BY DEF TypeOK
<1>1. CASE ticket' = ticket
  BY <1>0, <1>1 DEF ClosedAtMatches
<1>2. CASE ReplyTicket(r) /\ ticket' # ticket
  <2>1. ticket.status \notin Final /\ ticket' = [ticket EXCEPT !.status = "waiting_user"]
    BY <1>2, Zenon DEF ReplyTicket, LockInv
  <2> QED
    BY <1>0, <2>1 DEF ClosedAtMatches, TicketStatuses, Final
<1>3. CASE UpdateTicketStatus(r) /\ ticket' # ticket
  <2>1. PICK status \in {"waiting_support", "closed"} : status = req[r].body.status
    BY <1>3, Zenon DEF UpdateTicketStatus, At, RowInv
  <2>2. ticket' = [ticket EXCEPT !.status = status, !.closedAt = status \in Final]
    BY <1>3, <2>1, Zenon DEF UpdateTicketStatus
  <2>3. CASE status = "closed"
    <3>1. ticket' = [ticket EXCEPT !.status = "closed", !.closedAt = TRUE]
      BY <2>2, <2>3, Zenon DEF Final
    <3> QED
      BY <1>0, <3>1 DEF ClosedAtMatches, TicketStatuses, Final
  <2>4. CASE status = "waiting_support"
    <3>1. ticket' = [ticket EXCEPT !.status = "waiting_support", !.closedAt = FALSE]
      <4>1. ("waiting_support" \in Final) = FALSE
        BY DEF Final
      <4> QED
        BY <2>2, <2>4, <4>1, Zenon
    <3> QED
      BY <1>0, <3>1 DEF ClosedAtMatches, TicketStatuses, Final
  <2> QED
    BY <2>1, <2>3, <2>4
<1>4. CASE CreateTicket(r)
  <2>1. ticket.status = "none" /\ ticket' = [ticket EXCEPT !.status = "open"]
    BY <1>4, Zenon DEF CreateTicket, CreateUserTicket
  <2> QED
    BY <1>0, <2>1 DEF ClosedAtMatches, TicketStatuses, Final
<1> QED
  BY <1>1, <1>2, <1>3, <1>4, Writers, Zenon

-----------------------------------------------------------------------------
(* The roles of administrators                                              *)

ViewRows == [rows : SUBSET Roles, added : SUBSET Roles]

RoleTypes ==
  /\ roles \in [Admins -> SUBSET Roles] /\ asked \in [Admins -> SUBSET Roles]
  /\ view \in [Requests -> ViewRows] /\ stale \in BOOLEAN

RoleInv ==
  RoleTypes /\ SuperAdminRemains /\ RolesWereAsked /\ \A q \in Requests : ViewInv(q)

(* A request comes to change roles by StartRoles, and goes on by DeleteRoles. *)
LEMMA ChangesStep ==
  ASSUME TypeOK, NEW r \in Requests, StepOf(r)
  PROVE  ~Changes(r)' \/ (StartRoles(r) /\ Keeps(r)) \/ (DeleteRoles(r) /\ Keeps(r) /\ Changes(r))
<1>0. RequestTypes /\ held \subseteq Sessions
  BY Zenon DEF TypeOK, RequestTypes
<1>1. CASE Answer(r)
  BY <1>0, <1>1, AnswerRow DEF Changes
<1>2. ASSUME NEW p \in Places \ {"deleting", "locked"}, Goto(r, p) PROVE ~Changes(r)'
  BY <1>0, <1>2, GotoRow DEF Changes
<1>3. CASE IdentityStep(r) \/ TicketStep(r) \/ Fails(r)
  <2>1. \/ Answer(r) \/ Goto(r, "handling") \/ Goto(r, "registered") \/ Goto(r, "created")
        \/ Goto(r, "refused") \/ Goto(r, "audited") \/ Goto(r, "checked")
    BY <1>3, Zenon
    DEF IdentityStep, RequireAdmin, RequireUser, registerUser, newUserSession,
        loginUserFails, newAdminSession, loginAdminFails, loginAdmin, AdminBySessionFails,
        loginAuditFails, loginRefused, logoutUser, recordAdminAudit, logoutAdmin,
        setupAdminTOTP, checkTOTP, enableAdminTOTP, TicketStep, CreateTicket, GetUserTicket,
        AddTicketMessage, Fails, Rollback
  <2>2. Answer(r) \/ \E p \in Places \ {"deleting", "locked"} : Goto(r, p)
    BY <2>1, IsPlace
  <2> QED
    BY <1>1, <1>2, <2>2, Zenon
<1>4. ASSUME NEW kind \in Kinds, NEW s \in Sessions, Begin(r, kind, s) PROVE ~Changes(r)'
  BY <1>0, <1>4, BeginStep DEF Changes
<1>5. CASE \/ UpdateUserStatus(r) \/ UpdateSetting(r) \/ AdjustWallet(r) \/ ReplyTicket(r)
           \/ UpdateTicketStatus(r) \/ InsertRoles(r)
  <2>1. Answer(r)
    BY <1>5, Zenon
    DEF UpdateUserStatus, UpdateSetting, AdjustWallet, ReplyTicket, UpdateTicketStatus,
        InsertRoles, Commit, Rollback
  <2> QED
    BY <1>1, <2>1, Zenon
<1>6. CASE LockWallet(r) \/ LockTicket(r)
  <2>1. /\ req[r].kind # "set_roles"
        /\ Answer(r) \/ \E row \in Rows : ForUpdate(r, row)
    BY <1>6, Zenon DEF LockWallet, LockTicket, At, Rollback, Rows
  <2>2. ASSUME NEW row \in Rows, ForUpdate(r, row) PROVE ~Changes(r)'
    <3>1. Keeps(r)
      BY <1>0, <2>2, LockedRow
    <3> QED
      BY <2>1, <3>1, Zenon DEF Keeps, Changes
  <2> QED
    BY <1>1, <2>1, <2>2, Zenon
<1>7. CASE StartRoles(r)
  <2>1. CASE Goto(r, "deleting")
    BY <1>0, <1>7, <2>1, GotoRow, IsPlace
  <2> QED
    BY <1>1, <1>7, <2>1, Zenon DEF StartRoles
<1>8. CASE DeleteRoles(r)
  <2>1. Goto(r, "locked") /\ Changes(r)
    BY <1>8, Zenon DEF DeleteRoles, At, Changes
  <2> QED
    BY <1>0, <1>8, <2>1, GotoRow, IsPlace
<1> QED
  BY <1>3, <1>4, <1>5, <1>6, <1>7, <1>8, Zenon DEF StepOf, AdminStep

(* What the commit of a change of roles does. *)
Committed(r) ==
  /\ roles' = [roles EXCEPT ![req[r].body.admin] =
                 (roles[req[r].body.admin] \ view[r].rows) \cup req[r].body.roles]
  /\ view' = [q \in Requests |-> ViewAfter(r, q)]
  /\ asked' = [asked EXCEPT ![req[r].body.admin] = req[r].body.roles \cup view[r].added]
  /\ stale' = (stale \/ "super_admin" \notin roles[Actor(r)])

(* A change commits: what it keeps was added while it ran, and the others    *)
(* that change the same administrator see what it has deleted and added.     *)
LEMMA InsertKeeps ==
  ASSUME TypeOK, RoleInv, NEW r \in Requests, \A q \in Requests : RowInv(q), Others(r),
         At(r, "locked", "set_roles"), ~Changes(r)', Committed(r)
  PROVE  RoleInv'
<1>0. /\ roles \in [Admins -> SUBSET Roles] /\ asked \in [Admins -> SUBSET Roles]
      /\ view \in [Requests -> ViewRows] /\ stale \in BOOLEAN
  BY Zenon DEF RoleInv, RoleTypes
<1>1. PICK id \in Admins, S \in SUBSET Roles : id = req[r].body.admin /\ S = req[r].body.roles
  <2>1. req[r].body.admin \in Admins
    BY Zenon DEF At, RowInv
  <2>2. req[r].body.roles \in SUBSET Roles
    BY RowFields DEF TypeOK, RequestTypes, BodyRows
  <2> QED
    BY <2>1, <2>2, Zenon
<1>2. PICK D \in SUBSET Roles, A \in SUBSET Roles : D = view[r].rows /\ A = view[r].added
  BY <1>0, Zenon DEF ViewRows
<1>3. /\ roles' = [roles EXCEPT ![id] = (roles[id] \ D) \cup S]
      /\ asked' = [asked EXCEPT ![id] = S \cup A]
      /\ stale' = (stale \/ "super_admin" \notin roles[Actor(r)])
  BY <1>1, <1>2, Zenon DEF Committed
<1>4. /\ roles'[id] = (roles[id] \ D) \cup S /\ asked'[id] = S \cup A
      /\ \A a \in Admins : a # id => roles'[a] = roles[a] /\ asked'[a] = asked[a]
  BY <1>0, <1>3, Zenon
<1>5. roles[id] \subseteq D \cup A
  BY <1>1, <1>2, Zenon DEF RoleInv, ViewInv, Changes, At
<1>6. stale' \in BOOLEAN
  BY <1>3
<1>7. ASSUME NEW q \in Requests PROVE view'[q] \in ViewRows /\ ViewInv(q)'
  <2>1. view'[q] = ViewAfter(r, q) /\ view[q] \in ViewRows
    BY <1>0, Zenon DEF Committed
  <2>2. CASE q = r
    <3>1. NoView \in ViewRows
      BY Zenon DEF NoView, ViewRows
    <3> QED
      BY <2>1, <2>2, <3>1, Zenon DEF ViewAfter, ViewInv
  <2>3. CASE q # r /\ Changes(q) /\ req[q].body.admin = id
    <3>1. PICK rows \in SUBSET Roles, added \in SUBSET Roles :
            rows = view[q].rows \ D /\ added = view[q].added \cup S
      BY <2>1, Zenon DEF ViewRows
    <3>2. view'[q] = [rows |-> rows, added |-> added]
      BY <1>1, <1>2, <2>1, <2>3, <3>1, Zenon DEF ViewAfter, Changes
    <3>3. view'[q] \in ViewRows /\ view'[q].rows = rows /\ view'[q].added = added
      BY <3>2 DEF ViewRows
    <3>4. roles[id] \subseteq view[q].rows \cup view[q].added /\ req'[q] = req[q]
      BY <2>3, Zenon DEF RoleInv, ViewInv, Others
    <3>5. roles'[id] \subseteq rows \cup added
      BY <1>4, <3>1, <3>4, Zenon
    <3> QED
      BY <2>3, <3>3, <3>4, <3>5, Zenon DEF ViewInv
  <2>4. CASE q # r /\ ~(Changes(q) /\ req[q].body.admin = id)
    <3>1. view'[q] = view[q] /\ req'[q] = req[q] /\ (Changes(q)' <=> Changes(q))
      BY <1>1, <2>1, <2>4, Zenon DEF ViewAfter, Others, Changes
    <3>2. ASSUME Changes(q)
          PROVE  roles'[req[q].body.admin] \subseteq view[q].rows \cup view[q].added
      <4>1. req[q].body.admin \in Admins /\ req[q].body.admin # id
        BY <2>4, <3>2, Zenon DEF RowInv, Changes
      <4> QED
        BY <1>4, <3>2, <4>1, Zenon DEF RoleInv, ViewInv
    <3> QED
      BY <2>1, <3>1, <3>2, Zenon DEF ViewInv
  <2> QED
    BY <2>2, <2>3, <2>4, Zenon
<1>8. RoleTypes'
  <2>1. roles' \in [Admins -> SUBSET Roles] /\ asked' \in [Admins -> SUBSET Roles]
    <3>1. (roles[id] \ D) \cup S \in SUBSET Roles /\ S \cup A \in SUBSET Roles
      BY <1>0, Zenon
    <3> QED
      BY <1>0, <1>3, <3>1, Zenon
  <2>2. view' \in [Requests -> ViewRows]
    BY <1>7, Zenon DEF Committed
  <2> QED
    BY <1>6, <2>1, <2>2, Zenon DEF RoleTypes
<1>9. SuperAdminRemains'
  <2>1. Actor(r) \in Admins /\ (id = Actor(r) => "super_admin" \in S)
    BY <1>1, ChangeKinds DEF At, RowInv
  <2>2. SUFFICES ASSUME ~stale' PROVE "super_admin" \in roles'[Actor(r)]
    BY <2>1, Zenon DEF SuperAdminRemains
  <2>3. "super_admin" \in roles[Actor(r)]
    BY <1>3, <2>2, Zenon
  <2>4. CASE id = Actor(r)
    BY <1>4, <2>1, <2>4, Zenon
  <2>5. CASE id # Actor(r)
    BY <1>4, <2>1, <2>3, <2>5, Zenon
  <2> QED
    BY <2>4, <2>5, Zenon
<1>10. ASSUME NEW a \in Admins PROVE roles'[a] \subseteq asked'[a]
  <2>1. CASE a = id
    <3>1. (roles[id] \ D) \cup S \subseteq S \cup A
      BY <1>5, Zenon
    <3> QED
      BY <1>4, <2>1, <3>1, Zenon
  <2>2. CASE a # id
    BY <1>4, <2>2, Zenon DEF RoleInv, RolesWereAsked
  <2> QED
    BY <2>1, <2>2, Zenon
<1> QED
  BY <1>7, <1>8, <1>9, <1>10, Zenon DEF RoleInv, RolesWereAsked

(* A step that does not commit a change of roles changes one view at most. *)
LEMMA ViewKeeps ==
  ASSUME TypeOK, RoleInv, NEW r \in Requests, RowInv(r), Others(r), StepOf(r),
         UNCHANGED <<roles, asked, stale>>,
         \A q \in Requests : q # r => view'[q] = view[q],
         view' \in [Requests -> ViewRows],
         StartRoles(r) => view'[r].rows = roles[req[r].body.admin] \/ Answer(r),
         DeleteRoles(r) => view' = view
  PROVE  RoleInv'
<1>1. RoleTypes'
  BY Zenon DEF RoleInv, RoleTypes
<1>2. SuperAdminRemains' /\ RolesWereAsked'
  BY Zenon DEF RoleInv, SuperAdminRemains, RolesWereAsked
<1>3. ASSUME NEW q \in Requests, q # r PROVE ViewInv(q)'
  <2>1. req'[q] = req[q] /\ view'[q] = view[q] /\ ViewInv(q)
    BY <1>3, Zenon DEF Others, RoleInv
  <2> QED
    BY <2>1, Zenon DEF ViewInv, Changes
<1>4. ViewInv(r)'
  <2>1. CASE ~Changes(r)'
    BY <2>1, Zenon DEF ViewInv
  <2>2. CASE StartRoles(r) /\ Keeps(r)
    <3>1. CASE Answer(r)
      <4>1. req'[r].pc = "idle"
        BY <3>1, AnswerRow DEF TypeOK, RequestTypes
      <4> QED
        BY <4>1 DEF ViewInv, Changes
    <3>2. CASE view'[r].rows = roles[req[r].body.admin]
      BY <2>2, <3>2, Zenon DEF ViewInv, Keeps
    <3> QED
      BY <2>2, <3>1, <3>2, Zenon
  <2>3. CASE DeleteRoles(r) /\ Keeps(r) /\ Changes(r)
    BY <2>3, Zenon DEF ViewInv, Keeps, RoleInv
  <2> QED
    BY <2>1, <2>2, <2>3, ChangesStep, Zenon
<1> QED
  BY <1>1, <1>2, <1>3, <1>4, Zenon DEF RoleInv

(* Whoever changes roles keeps super_admin, unless it was taken from them;   *)
(* and what stays was asked for.                                             *)
LEMMA RolesStep ==
  ASSUME TypeOK, RoleInv, NEW r \in Requests, \A q \in Requests : RowInv(q), Others(r), StepOf(r)
  PROVE  RoleInv'
<1>0. view \in [Requests -> ViewRows] /\ roles \in [Admins -> SUBSET Roles] /\ RowInv(r)
  BY Zenon DEF RoleInv, RoleTypes
<1>1. CASE InsertRoles(r) /\ Committed(r)
  <2>1. At(r, "locked", "set_roles") /\ Answer(r)
    BY <1>1, Zenon DEF InsertRoles, Commit, Rollback
  <2>2. ~Changes(r)'
    <3>1. req'[r].pc = "idle"
      BY <2>1, AnswerRow DEF TypeOK, RequestTypes
    <3> QED
      BY <3>1 DEF Changes
  <2> QED
    BY <1>1, <2>1, <2>2, InsertKeeps, Zenon
<1>2. ASSUME UNCHANGED <<roles, asked, stale>>, NEW row \in ViewRows,
             view' = view \/ view' = [view EXCEPT ![r] = row],
             StartRoles(r) => row.rows = roles[req[r].body.admin] \/ Answer(r),
             StartRoles(r) /\ ~Answer(r) => view' = [view EXCEPT ![r] = row],
             DeleteRoles(r) => view' = view
      PROVE  RoleInv'
  <2>1. view' \in [Requests -> ViewRows] /\ \A q \in Requests : q # r => view'[q] = view[q]
    BY <1>0, <1>2, Zenon
  <2>2. StartRoles(r) => view'[r].rows = roles[req[r].body.admin] \/ Answer(r)
    BY <1>0, <1>2, Zenon
  <2> QED
    BY <1>0, <1>2, <2>1, <2>2, ViewKeeps, Zenon
<1>3. NoView \in ViewRows
  BY Zenon DEF NoView, ViewRows
<1>4. DeleteRoles(r) => view' = view
  BY Zenon DEF DeleteRoles, roleVars
<1>5. CASE InsertRoles(r) /\ ~Committed(r)
  <2>1. /\ UNCHANGED <<roles, asked, stale>> /\ view' = [view EXCEPT ![r] = NoView]
        /\ req[r].pc = "locked"
    BY <1>5, Zenon DEF InsertRoles, Committed, At
  <2>2. ~StartRoles(r)
    BY <2>1, Zenon DEF StartRoles, At
  <2> QED
    BY <1>2, <1>3, <1>4, <2>1, <2>2, Zenon
<1>6. CASE Fails(r)
  <2>1. UNCHANGED <<roles, asked, stale>> /\ view' = [view EXCEPT ![r] = NoView] /\ Answer(r)
    BY <1>6, Zenon DEF Fails, identityVars, Rollback
  <2> QED
    BY <1>2, <1>3, <1>4, <2>1, Zenon
<1>7. CASE StartRoles(r)
  <2>1. UNCHANGED <<roles, asked, stale>> /\ req[r].pc = "handling"
    BY <1>7, Zenon DEF StartRoles, identityVars, At
  <2>2. CASE Answer(r) /\ view' = view
    BY <1>2, <1>3, <1>4, <2>1, <2>2, Zenon
  <2>3. CASE view' = [view EXCEPT ![r] = [rows |-> roles[req[r].body.admin], added |-> {}]]
    <3>1. roles[req[r].body.admin] \in SUBSET Roles
      BY <1>0, <1>7, Zenon DEF StartRoles, At, RowInv
    <3>2. PICK S \in SUBSET Roles : S = roles[req[r].body.admin]
      BY <3>1, Zenon
    <3>3. [rows |-> S, added |-> {}] \in ViewRows
      BY Zenon DEF ViewRows
    <3>4. PICK row \in ViewRows :
            row = [rows |-> roles[req[r].body.admin], added |-> {}]
      BY <3>2, <3>3, Zenon
    <3>5. row.rows = roles[req[r].body.admin]
      BY <3>4, Zenon
    <3> QED
      BY <1>2, <1>4, <2>1, <2>3, <3>4, <3>5, Zenon
  <2> QED
    BY <1>7, <2>2, <2>3, Zenon DEF StartRoles
<1>8. CASE ~InsertRoles(r) /\ ~StartRoles(r) /\ ~Fails(r)
  <2>1. UNCHANGED <<roles, asked, stale>> /\ view' = view
    BY <1>8, Writers, Zenon
  <2> QED
    BY <1>2, <1>3, <1>4, <1>8, <2>1, Zenon
<1> QED
  BY <1>1, <1>5, <1>6, <1>7, <1>8, Zenon

-----------------------------------------------------------------------------
(* Audit events                                                             *)

(* Sets of requests are finite; one with an element more or less counts so.  *)
LEMMA RequestSets ==
  /\ \A S \in SUBSET Requests : Cardinality(S) \in Nat
  /\ \A S \in SUBSET Requests : \A T \in SUBSET S : Cardinality(T) <= Cardinality(S)
  /\ \A S \in SUBSET Requests, r \in Requests : Cardinality(S \cup {r}) <= Cardinality(S) + 1
  /\ \A S \in SUBSET Requests : \A r \in S : Cardinality(S \ {r}) = Cardinality(S) - 1
<1>1. \A S \in SUBSET Requests : IsFiniteSet(S) /\ Cardinality(S) \in Nat
  BY RequestsFinite, FS_Subset, FS_CardinalityType
<1>2. \A S \in SUBSET Requests : \A T \in SUBSET S : Cardinality(T) <= Cardinality(S)
  BY <1>1, FS_Subset
<1>3. ASSUME NEW S \in SUBSET Requests, NEW r \in Requests
      PROVE  Cardinality(S \cup {r}) <= Cardinality(S) + 1
  <2>1. IsFiniteSet(S) /\ Cardinality(S) \in Nat
    BY <1>1, Zenon
  <2>2. Cardinality(S \cup {r}) = IF r \in S THEN Cardinality(S) ELSE Cardinality(S) + 1
    BY <2>1, FS_AddElement, Zenon
  <2> QED
    BY <2>1, <2>2
<1>4. \A S \in SUBSET Requests : \A r \in S : Cardinality(S \ {r}) = Cardinality(S) - 1
  BY <1>1, FS_RemoveElement
<1> QED
  BY <1>1, <1>2, <1>3, <1>4, Zenon

CountTypes == audit \in [Events -> Nat] /\ changed \in [Kinds -> Nat]

(* No request comes to have a change announced. *)
NoneAnnounced == \A k \in OwnKinds : Announced(k)' \subseteq Announced(k)

(* The kinds of requests are events; those that are audited in their own     *)
(* transaction are not those that are announced.                             *)
LEMMA KindFacts ==
  /\ Kinds \subseteq Events /\ AdminChanges \subseteq Kinds /\ OwnKinds \subseteq Kinds
  /\ "login_admin" \in Kinds /\ "login_failed" \in Events /\ "login_failed" \notin Kinds
  /\ UserKinds \cup {"register", "login_user"} \subseteq Kinds
  /\ \A k \in AdminChanges \cup {"login_admin"} : k \notin OwnKinds
  /\ \A k \in UserKinds \cup {"register", "login_user"} :
       k \notin OwnKinds /\ k \notin AdminChanges \cup {"login_admin"}
  BY ChangeKinds DEF Kinds, Events, OwnKinds, UserKinds, OpenKinds

(* A step that counts nothing of kind k leaves enough audit events of it. *)
LEMMA CountsKept ==
  ASSUME CountTypes, AuditInv, NoneAnnounced, NEW k \in OwnKinds,
         changed'[k] = changed[k], audit'[k] = audit[k]
  PROVE  changed'[k] + Cardinality(Announced(k)') <= audit'[k]
<1>1. changed[k] \in Nat /\ audit[k] \in Nat
  BY KindFacts, Zenon DEF CountTypes
<1>2. Announced(k) \in SUBSET Requests /\ Announced(k)' \in SUBSET Announced(k)
  BY Zenon DEF Announced, NoneAnnounced
<1>3. /\ Cardinality(Announced(k)') <= Cardinality(Announced(k))
      /\ Cardinality(Announced(k)') \in Nat /\ Cardinality(Announced(k)) \in Nat
  BY <1>2, RequestSets
<1> QED
  BY <1>1, <1>3 DEF AuditInv

(* Audit event and change of a kind at once: Commit and loginAdmin. *)
LEMMA CountsTogether ==
  ASSUME CountTypes, AuditInv, NEW r \in Requests, NoneAnnounced,
         req[r].kind \in AdminChanges \cup {"login_admin"}, Record(r), Takes(r)
  PROVE  CountTypes' /\ AuditInv'
<1>1. PICK e \in Kinds : e = req[r].kind
  BY KindFacts, Zenon
<1>2. audit' = [audit EXCEPT ![e] = @ + 1] /\ changed' = [changed EXCEPT ![e] = @ + 1]
  BY <1>1, Zenon DEF Record, CreateAuditEvent, Takes
<1>3. CountTypes'
  BY <1>2, KindFacts DEF CountTypes
<1>4. ASSUME NEW k \in AdminChanges \cup {"login_admin"} PROVE audit'[k] = changed'[k]
  BY <1>2, KindFacts DEF CountTypes, AuditInv
<1>5. ASSUME NEW k \in OwnKinds
      PROVE  changed'[k] + Cardinality(Announced(k)') <= audit'[k]
  <2>1. k # e /\ k \in Kinds /\ k \in Events
    BY <1>1, KindFacts, Zenon
  <2>2. changed'[k] = changed[k] /\ audit'[k] = audit[k]
    BY <1>2, <2>1, Zenon DEF CountTypes
  <2> QED
    BY <2>2, CountsKept
<1> QED
  BY <1>3, <1>4, <1>5, Zenon DEF AuditInv

(* The events and changes of other kinds, which nobody compares. *)
LEMMA CountsOther ==
  ASSUME CountTypes, AuditInv, NoneAnnounced,
         \/ UNCHANGED <<audit, changed>>
         \/ changed' = changed /\ CreateAuditEvent("login_failed")
         \/ /\ audit' = audit
            /\ \E k \in UserKinds \cup {"register", "login_user"} :
                 changed' = [changed EXCEPT ![k] = @ + 1]
  PROVE  CountTypes' /\ AuditInv'
<1>1. CountTypes'
  BY KindFacts DEF CountTypes, CreateAuditEvent
<1>2. ASSUME NEW k \in AdminChanges \cup {"login_admin"} \cup OwnKinds
      PROVE  audit'[k] = audit[k] /\ changed'[k] = changed[k]
  <2>1. k \in Kinds /\ k # "login_failed" /\ k \in Events
    BY KindFacts, Zenon
  <2>2. k \notin UserKinds \cup {"register", "login_user"}
    BY KindFacts, Zenon
  <2> QED
    BY <2>1, <2>2, Zenon DEF CountTypes, CreateAuditEvent
<1>3. ASSUME NEW k \in AdminChanges \cup {"login_admin"} PROVE audit'[k] = changed'[k]
  BY <1>2, Zenon DEF AuditInv
<1>4. ASSUME NEW k \in OwnKinds
      PROVE  changed'[k] + Cardinality(Announced(k)') <= audit'[k]
  BY <1>2, CountsKept, Zenon
<1> QED
  BY <1>1, <1>3, <1>4, Zenon DEF AuditInv

(* recordAdminAudit: the event is there before the change is announced. *)
LEMMA CountsAnnounced ==
  ASSUME CountTypes, AuditInv, RequestTypes, NEW r \in Requests, recordAdminAudit(r)
  PROVE  CountTypes' /\ AuditInv'
<1>1. PICK e \in OwnKinds : e = req[r].kind
  BY Zenon DEF recordAdminAudit
<1>2. audit' = [audit EXCEPT ![e] = @ + 1] /\ changed' = changed
  BY <1>1, Zenon DEF recordAdminAudit, Record, CreateAuditEvent
<1>3. Others(r) /\ Keeps(r)
  BY GotoRow, IsPlace DEF recordAdminAudit
<1>4. CountTypes'
  BY <1>2, KindFacts DEF CountTypes
<1>5. ASSUME NEW k \in AdminChanges \cup {"login_admin"} PROVE audit'[k] = changed'[k]
  <2>1. k # e /\ k \in Events
    BY KindFacts, Zenon
  <2> QED
    BY <1>2, <2>1, Zenon DEF CountTypes, AuditInv
<1>6. ASSUME NEW k \in OwnKinds
      PROVE  changed'[k] + Cardinality(Announced(k)') <= audit'[k]
  <2>1. k \in Kinds /\ k \in Events /\ changed[k] \in Nat /\ audit[k] \in Nat
    BY KindFacts, Zenon DEF CountTypes
  <2>2. /\ Announced(k)' \subseteq Announced(k) \cup {r}
        /\ k # e => Announced(k)' \subseteq Announced(k)
    BY <1>1, <1>3, Zenon DEF Announced, Others, Keeps
  <2>3. Announced(k) \in SUBSET Requests /\ Announced(k) \cup {r} \in SUBSET Requests
    BY Zenon DEF Announced
  <2>4. /\ Cardinality(Announced(k)) \in Nat /\ Cardinality(Announced(k) \cup {r}) \in Nat
        /\ Cardinality(Announced(k) \cup {r}) <= Cardinality(Announced(k)) + 1
    BY <2>3, RequestSets, Zenon
  <2>5. CASE k = e
    <3>1. /\ Cardinality(Announced(k)') \in Nat
          /\ Cardinality(Announced(k)') <= Cardinality(Announced(k) \cup {r})
      BY <2>2, <2>3, RequestSets
    <3>2. audit'[k] = audit[k] + 1
      BY <1>2, <2>1, <2>5 DEF CountTypes
    <3> QED
      BY <1>2, <2>1, <2>4, <3>1, <3>2 DEF AuditInv
  <2>6. CASE k # e
    <3>1. /\ Cardinality(Announced(k)') \in Nat
          /\ Cardinality(Announced(k)') <= Cardinality(Announced(k))
      BY <2>2, <2>3, <2>6, RequestSets
    <3>2. audit'[k] = audit[k]
      BY <1>2, <2>1, <2>6, Zenon DEF CountTypes
    <3> QED
      BY <1>2, <2>1, <2>4, <3>1, <3>2 DEF AuditInv
  <2> QED
    BY <2>5, <2>6, Zenon
<1> QED
  BY <1>4, <1>5, <1>6, Zenon DEF AuditInv

(* The announced change takes effect and is announced no longer. *)
LEMMA CountsTaken ==
  ASSUME CountTypes, AuditInv, RequestTypes, NEW r \in Requests, Takes(r), Answer(r),
         audit' = audit, req[r].kind \in OwnKinds, req[r].pc \in {"audited", "checked"}
  PROVE  CountTypes' /\ AuditInv'
<1>1. PICK e \in OwnKinds : e = req[r].kind
  BY Zenon
<1>2. changed' = [changed EXCEPT ![e] = @ + 1]
  BY <1>1, Zenon DEF Takes
<1>3. Others(r) /\ req'[r].pc = "idle"
  BY AnswerRow
<1>4. CountTypes'
  BY <1>2, KindFacts DEF CountTypes
<1>5. ASSUME NEW k \in AdminChanges \cup {"login_admin"} PROVE audit'[k] = changed'[k]
  <2>1. k # e /\ k \in Kinds
    BY KindFacts, Zenon
  <2> QED
    BY <1>2, <2>1, Zenon DEF CountTypes, AuditInv
<1>6. ASSUME NEW k \in OwnKinds
      PROVE  changed'[k] + Cardinality(Announced(k)') <= audit'[k]
  <2>1. k \in Kinds /\ k \in Events /\ changed[k] \in Nat /\ audit[k] \in Nat
    BY KindFacts, Zenon DEF CountTypes
  <2>2. Announced(k)' \subseteq Announced(k) \ {r} /\ Announced(k)' \subseteq Announced(k)
    BY <1>3 DEF Announced, Others
  <2>3. /\ Announced(k) \in SUBSET Requests /\ Announced(k) \ {r} \in SUBSET Requests
        /\ k = e => r \in Announced(k)
    BY <1>1, Zenon DEF Announced
  <2>4. Cardinality(Announced(k)) \in Nat /\ Cardinality(Announced(k) \ {r}) \in Nat
    BY <2>3, RequestSets, Zenon
  <2>5. CASE k = e
    <3>1. /\ Cardinality(Announced(k)') \in Nat
          /\ Cardinality(Announced(k)') <= Cardinality(Announced(k) \ {r})
          /\ Cardinality(Announced(k) \ {r}) = Cardinality(Announced(k)) - 1
      BY <2>2, <2>3, <2>5, RequestSets
    <3>2. changed'[k] = changed[k] + 1
      BY <1>2, <2>1, <2>5 DEF CountTypes
    <3> QED
      BY <2>1, <2>4, <3>1, <3>2 DEF AuditInv
  <2>6. CASE k # e
    <3>1. /\ Cardinality(Announced(k)') \in Nat
          /\ Cardinality(Announced(k)') <= Cardinality(Announced(k))
      BY <2>2, <2>3, RequestSets
    <3>2. changed'[k] = changed[k]
      BY <1>2, <2>1, <2>6, Zenon DEF CountTypes
    <3> QED
      BY <2>1, <2>4, <3>1, <3>2 DEF AuditInv
  <2> QED
    BY <2>5, <2>6, Zenon
<1> QED
  BY <1>4, <1>5, <1>6, Zenon DEF AuditInv

(* Only recordAdminAudit announces a change. *)
LEMMA Unannounced ==
  ASSUME RequestTypes, NEW r \in Requests, Others(r),
         \/ req'[r].pc \notin {"audited", "checked"}
         \/ req'[r].kind \notin OwnKinds
         \/ Keeps(r) /\ req[r].pc \in {"audited", "checked"}
  PROVE  NoneAnnounced
  BY DEF NoneAnnounced, Announced, Others, Keeps

(* A request that answers, or goes on to another place, announces nothing.   *)
LEMMA QuietMove ==
  ASSUME TypeOK, RequestTypes, NEW r \in Requests,
         \/ Answer(r)
         \/ \E p \in Places \ {"audited", "checked"} : Goto(r, p)
         \/ \E row \in Rows : ForUpdate(r, row)
  PROVE  NoneAnnounced
<1>1. CASE Answer(r)
  <2>1. Others(r) /\ req'[r].pc = "idle"
    BY <1>1, AnswerRow
  <2> QED
    BY <2>1, Unannounced
<1>2. ASSUME NEW p \in Places \ {"audited", "checked"}, Goto(r, p) PROVE NoneAnnounced
  <2>1. Others(r) /\ req'[r].pc = p
    BY <1>2, GotoRow
  <2> QED
    BY <2>1, Unannounced
<1>3. ASSUME NEW row \in Rows, ForUpdate(r, row) PROVE NoneAnnounced
  <2>1. Others(r) /\ req'[r].pc = "locked"
    BY <1>3, LockedRow
  <2> QED
    BY <2>1, Unannounced
<1> QED
  BY <1>1, <1>2, <1>3, Zenon

(* Requests for an administrator's or the user's own account. *)
LEMMA IdentityAudit ==
  ASSUME TypeOK, CountTypes, AuditInv, RequestTypes, NEW r \in Requests, RowInv(r),
         IdentityStep(r)
  PROVE  CountTypes' /\ AuditInv'
<1>0. {"handling", "registered", "created", "refused"} \subseteq Places \ {"audited", "checked"}
  BY DEF Places
<1>1. CASE RequireAdmin(r) \/ RequireUser(r) \/ registerUser(r) \/ loginUserFails(r)
           \/ newAdminSession(r) \/ loginAuditFails(r) \/ loginRefused(r)
  <2>1. UNCHANGED <<audit, changed>>
    BY <1>1, Zenon
    DEF RequireAdmin, RequireUser, registerUser, loginUserFails, newAdminSession,
        loginAuditFails, loginRefused
  <2>2. \/ Answer(r) \/ Goto(r, "handling") \/ Goto(r, "registered") \/ Goto(r, "created")
        \/ Goto(r, "refused")
    BY <1>1, Zenon
    DEF RequireAdmin, RequireUser, registerUser, loginUserFails, newAdminSession,
        loginAuditFails, loginRefused
  <2>3. NoneAnnounced
    BY <1>0, <2>2, QuietMove
  <2> QED
    BY <2>1, <2>3, CountsOther
<1>2. CASE newUserSession(r) \/ logoutUser(r)
  <2>1. PICK k \in UserKinds \cup {"register", "login_user"} : k = req[r].kind
    BY <1>2 DEF newUserSession, logoutUser, At, UserKinds
  <2>2. Answer(r) /\ audit' = audit /\ changed' = [changed EXCEPT ![k] = @ + 1]
    BY <1>2, <2>1, Zenon DEF newUserSession, logoutUser, Takes
  <2>3. NoneAnnounced
    BY <2>2, QuietMove
  <2> QED
    BY <2>2, <2>3, CountsOther
<1>3. CASE loginAdminFails(r) \/ AdminBySessionFails(r)
  <2>1. Answer(r) /\ changed' = changed /\ CreateAuditEvent("login_failed")
    BY <1>3, Zenon DEF loginAdminFails, AdminBySessionFails
  <2>2. NoneAnnounced
    BY <2>1, QuietMove
  <2> QED
    BY <2>1, <2>2, CountsOther
<1>4. CASE loginAdmin(r)
  <2>1. Answer(r) /\ Record(r) /\ Takes(r) /\ req[r].kind = "login_admin"
    BY <1>4, Zenon DEF loginAdmin, RowInv
  <2>2. NoneAnnounced
    BY <2>1, QuietMove
  <2> QED
    BY <2>1, <2>2, CountsTogether
<1>5. CASE recordAdminAudit(r)
  BY <1>5, CountsAnnounced
<1>6. CASE logoutAdmin(r) \/ setupAdminTOTP(r) \/ enableAdminTOTP(r)
  <2>1. /\ Takes(r) /\ Answer(r) /\ audit' = audit
        /\ req[r].kind \in OwnKinds /\ req[r].pc \in {"audited", "checked"}
    BY <1>6 DEF logoutAdmin, setupAdminTOTP, enableAdminTOTP, At, OwnKinds
  <2> QED
    BY <2>1, CountsTaken
<1>7. CASE checkTOTP(r)
  <2>1. /\ UNCHANGED <<audit, changed>> /\ req[r].pc = "audited"
        /\ Goto(r, "checked") \/ Answer(r)
    BY <1>7, Zenon DEF checkTOTP, At
  <2>2. CASE Goto(r, "checked")
    <3>1. Others(r) /\ Keeps(r)
      BY <2>2, GotoRow, IsPlace
    <3>2. NoneAnnounced
      BY <2>1, <3>1, Unannounced
    <3> QED
      BY <2>1, <3>2, CountsOther
  <2>3. CASE Answer(r)
    <3>1. NoneAnnounced
      BY <2>3, QuietMove
    <3> QED
      BY <2>1, <3>1, CountsOther
  <2> QED
    BY <2>1, <2>2, <2>3, Zenon
<1> QED
  BY <1>1, <1>2, <1>3, <1>4, <1>5, <1>6, <1>7, Zenon DEF IdentityStep

(* Changes by an administrator commit with their audit event or not at all.  *)
LEMMA AdminAudit ==
  ASSUME TypeOK, CountTypes, AuditInv, RequestTypes, NEW r \in Requests, RowInv(r),
         AdminStep(r)
  PROVE  CountTypes' /\ AuditInv'
<1>1. CASE Commit(r)
  <2>1. Answer(r) /\ Record(r) /\ Takes(r)
    BY <1>1, Zenon DEF Commit
  <2>2. req[r].kind \in AdminChanges
    BY ChangeKinds
    DEF AdminStep, UpdateUserStatus, UpdateSetting, LockWallet, AdjustWallet, LockTicket,
        ReplyTicket, UpdateTicketStatus, StartRoles, DeleteRoles, InsertRoles, At
  <2>3. NoneAnnounced
    BY <2>1, QuietMove
  <2> QED
    BY <2>1, <2>2, <2>3, CountsTogether
<1>2. CASE ~Commit(r)
  <2>1. UNCHANGED <<audit, changed>>
    BY <1>2, Zenon
    DEF AdminStep, UpdateUserStatus, UpdateSetting, LockWallet, AdjustWallet, LockTicket,
        ReplyTicket, UpdateTicketStatus, StartRoles, DeleteRoles, InsertRoles
  <2>2. \/ Answer(r) \/ Goto(r, "locked") \/ Goto(r, "deleting")
        \/ ForUpdate(r, "wallet") \/ ForUpdate(r, "ticket")
    <3>1. UpdateUserStatus(r) \/ UpdateSetting(r) \/ AdjustWallet(r) \/ ReplyTicket(r)
          \/ UpdateTicketStatus(r) \/ InsertRoles(r) => Answer(r)
      BY <1>2, Zenon
      DEF UpdateUserStatus, UpdateSetting, AdjustWallet, ReplyTicket, UpdateTicketStatus,
          InsertRoles, Rollback
    <3>2. LockWallet(r) => Answer(r) \/ ForUpdate(r, "wallet")
      BY Zenon DEF LockWallet, Rollback
    <3>3. LockTicket(r) => Answer(r) \/ ForUpdate(r, "ticket")
      BY Zenon DEF LockTicket, Rollback
    <3>4. DeleteRoles(r) => Goto(r, "locked")
      BY Zenon DEF DeleteRoles
    <3>5. StartRoles(r) => Answer(r) \/ Goto(r, "deleting")
      BY Zenon DEF StartRoles
    <3> QED
      BY <3>1, <3>2, <3>3, <3>4, <3>5, Zenon DEF AdminStep
  <2>3. /\ "wallet" \in Rows /\ "ticket" \in Rows
        /\ "locked" \in Places \ {"audited", "checked"}
        /\ "deleting" \in Places \ {"audited", "checked"}
    BY DEF Rows, Places
  <2>4. NoneAnnounced
    BY <2>2, <2>3, QuietMove, Zenon
  <2> QED
    BY <2>1, <2>4, CountsOther
<1> QED
  BY <1>1, <1>2, Zenon

(* Every step leaves the audit log complete. *)
LEMMA AuditStep ==
  ASSUME TypeOK, AuditInv, NEW r \in Requests, RowInv(r), StepOf(r)
  PROVE  CountTypes' /\ AuditInv'
<1>0. RequestTypes /\ CountTypes /\ held \subseteq Sessions
  BY DEF TypeOK, RequestTypes, CountTypes
<1>1. ASSUME NEW kind \in Kinds, NEW s \in Sessions, Begin(r, kind, s)
      PROVE  CountTypes' /\ AuditInv'
  <2>1. Others(r) /\ req'[r].pc = "begun"
    BY <1>0, <1>1, BeginStep
  <2>2. NoneAnnounced
    BY <1>0, <2>1, Unannounced
  <2>3. UNCHANGED <<audit, changed>>
    BY <1>1, Zenon DEF Begin
  <2> QED
    BY <1>0, <2>2, <2>3, CountsOther
<1>2. CASE CreateTicket(r) \/ AddTicketMessage(r)
  <2>1. PICK k \in UserKinds : k = req[r].kind
    BY <1>2 DEF CreateTicket, AddTicketMessage, At, UserKinds
  <2>2. Answer(r) /\ audit' = audit /\ changed' = [changed EXCEPT ![k] = @ + 1]
    BY <1>2, <2>1, Zenon DEF CreateTicket, AddTicketMessage, Takes
  <2>3. NoneAnnounced
    BY <1>0, <2>2, QuietMove
  <2> QED
    BY <1>0, <2>2, <2>3, CountsOther
<1>3. CASE GetUserTicket(r)
  <2>1. /\ UNCHANGED <<audit, changed>> /\ req[r].kind = "message"
        /\ Goto(r, "checked") \/ Answer(r)
    BY <1>3, Zenon DEF GetUserTicket, At
  <2>2. CASE Goto(r, "checked")
    <3>1. Others(r) /\ req'[r].kind \notin OwnKinds
      BY <1>0, <2>1, <2>2, GotoRow, IsPlace DEF Keeps, OwnKinds
    <3>2. NoneAnnounced
      BY <1>0, <3>1, Unannounced
    <3> QED
      BY <1>0, <2>1, <3>2, CountsOther
  <2>3. CASE Answer(r)
    <3>1. NoneAnnounced
      BY <1>0, <2>3, QuietMove
    <3> QED
      BY <1>0, <2>1, <3>1, CountsOther
  <2> QED
    BY <2>1, <2>2, <2>3, Zenon
<1>4. CASE Fails(r)
  <2>1. Answer(r) /\ UNCHANGED <<audit, changed>>
    BY <1>4, Zenon DEF Fails, Rollback
  <2>2. NoneAnnounced
    BY <1>0, <2>1, QuietMove
  <2> QED
    BY <1>0, <2>1, <2>2, CountsOther
<1> QED
  BY <1>0, <1>1, <1>2, <1>3, <1>4, IdentityAudit, AdminAudit, Zenon DEF StepOf, TicketStep

-----------------------------------------------------------------------------
(* Accounts, sessions, second factors and bounds                            *)

TotpRows == [secret : 0..MaxSecrets, verified : BOOLEAN, enabled : BOOLEAN]

AccountTypes ==
  /\ userStatus \in {"none", "active", "suspended"}
  /\ session \in [Sessions -> {"none", "live", "ended"}]
  /\ totp \in [Admins -> TotpRows]
  /\ held \subseteq Sessions

BoundTypes == total \in 0..MaxRequests /\ faults \in 0..MaxFaults

(* A session is created or revoked. *)
LEMMA SessionWritten ==
  ASSUME session \in [Sessions -> {"none", "live", "ended"}], NEW s \in Sessions,
         \/ CreateUserSession(s) \/ CreateAdminSession(s)
         \/ RevokeUserSession(s) \/ RevokeAdminSession(s) \/ Expire(s)
  PROVE  session' \in [Sessions -> {"none", "live", "ended"}]
  BY Zenon
  DEF CreateUserSession, CreateAdminSession, RevokeUserSession, RevokeAdminSession, Expire

(* A second factor is set up or enabled. *)
LEMMA TotpWritten ==
  ASSUME totp \in [Admins -> TotpRows], NEW a \in Admins,
         BeginAdminTOTP(a) \/ EnableTOTPStatement(a)
  PROVE  totp' \in [Admins -> TotpRows]
<1>0. totp[a] \in TotpRows /\ totp[a].secret \in 0..MaxSecrets
  BY DEF TotpRows
<1>1. CASE BeginAdminTOTP(a)
  <2>1. totp[a].secret + 1 \in 0..MaxSecrets
    BY <1>0, <1>1, SecretsNat DEF BeginAdminTOTP, UpsertAdminTOTPSecret
  <2>2. [totp[a] EXCEPT !.secret = totp[a].secret + 1, !.verified = FALSE] \in TotpRows
    BY <1>0, <2>1 DEF TotpRows
  <2>3. totp' = [totp EXCEPT ![a] = [totp[a] EXCEPT !.secret = totp[a].secret + 1,
                                                    !.verified = FALSE]]
    BY <1>0, <1>1 DEF BeginAdminTOTP, UpsertAdminTOTPSecret
  <2> QED
    BY <2>2, <2>3, Zenon
<1>2. CASE EnableTOTPStatement(a) /\ totp' # totp
  <2>1. [totp[a] EXCEPT !.verified = TRUE, !.enabled = TRUE] \in TotpRows
    BY <1>0 DEF TotpRows
  <2>2. totp' = [totp EXCEPT ![a] = [totp[a] EXCEPT !.verified = TRUE, !.enabled = TRUE]]
    BY <1>0, <1>2 DEF EnableTOTPStatement
  <2> QED
    BY <2>1, <2>2, Zenon
<1> QED
  BY <1>1, <1>2, Zenon

(* The accounts stay typed. *)
LEMMA AccountStep ==
  ASSUME TypeOK, NEW r \in Requests, RowInv(r), StepOf(r)
  PROVE  AccountTypes'
<1>0. AccountTypes /\ req[r].session \in Sessions
  BY RowFields DEF TypeOK, IdentityTypeOK, AccountTypes, RequestTypes, TotpRows
<1>1. CASE IdentityStep(r)
  <2>1. userStatus' \in {"none", "active", "suspended"}
    BY <1>0, <1>1, Zenon
    DEF AccountTypes, IdentityStep, RequireAdmin, RequireUser, registerUser, CreateUser,
        newUserSession, loginUserFails, newAdminSession, loginAdminFails, loginAdmin, AdminBySessionFails,
        loginAuditFails, loginRefused, logoutUser, recordAdminAudit, logoutAdmin,
        setupAdminTOTP, checkTOTP, enableAdminTOTP, identityVars
  <2>2. session' \in [Sessions -> {"none", "live", "ended"}]
    <3>1. \/ session' = session
          \/ CreateUserSession(req[r].session) \/ CreateAdminSession(req[r].session)
          \/ RevokeUserSession(req[r].session) \/ RevokeAdminSession(req[r].session)
      BY <1>1, Zenon
      DEF IdentityStep, RequireAdmin, RequireUser, registerUser, newUserSession,
          loginUserFails, newAdminSession, loginAdminFails, loginAdmin, AdminBySessionFails, loginAuditFails,
          loginRefused, logoutUser, recordAdminAudit, logoutAdmin, setupAdminTOTP,
          checkTOTP, enableAdminTOTP, identityVars
    <3> QED
      BY <1>0, <3>1, SessionWritten, Zenon DEF AccountTypes
  <2>3. totp' \in [Admins -> TotpRows]
    <3>1. \/ totp' = totp
          \/ /\ BeginAdminTOTP(Actor(r)) \/ EnableTOTPStatement(Actor(r))
             /\ req[r].pc # "idle" /\ req[r].kind \in OwnKinds
      BY <1>1, Zenon
      DEF IdentityStep, RequireAdmin, RequireUser, registerUser, newUserSession,
          loginUserFails, newAdminSession, loginAdminFails, loginAdmin, AdminBySessionFails, loginAuditFails,
          loginRefused, logoutUser, recordAdminAudit, logoutAdmin, setupAdminTOTP,
          checkTOTP, enableAdminTOTP, identityVars, At, OwnKinds
    <3>2. totp' = totp \/ Actor(r) \in Admins
      BY <3>1, Zenon DEF RowInv
    <3> QED
      BY <1>0, <3>1, <3>2, TotpWritten, Zenon DEF AccountTypes
  <2>4. held' \subseteq Sessions
    BY <1>0, <1>1, Zenon
    DEF AccountTypes, IdentityStep, RequireAdmin, RequireUser, registerUser, newUserSession,
        loginUserFails, newAdminSession, loginAdminFails, loginAdmin, AdminBySessionFails, loginAuditFails,
        loginRefused, logoutUser, recordAdminAudit, logoutAdmin, setupAdminTOTP, checkTOTP,
        enableAdminTOTP, SetCookie
  <2> QED
    BY <2>1, <2>2, <2>3, <2>4, Zenon DEF AccountTypes
<1>2. CASE UpdateUserStatus(r)
  <2>1. userStatus' = userStatus \/ userStatus' = req[r].body.status
    BY <1>2, Zenon DEF UpdateUserStatus
  <2>2. req[r].body.status \in {"active", "suspended"}
    BY <1>2, Zenon DEF UpdateUserStatus, At, RowInv
  <2>3. session' = session /\ totp' = totp /\ held' = held
    BY <1>2, Zenon DEF UpdateUserStatus
  <2>4. userStatus' \in {"none", "active", "suspended"}
    BY <1>0, <2>1, <2>2, Zenon DEF AccountTypes
  <2> QED
    BY <1>0, <2>3, <2>4, Zenon DEF AccountTypes
<1>3. CASE \/ \E kind \in Kinds, s \in Sessions : Begin(r, kind, s)
           \/ AdminStep(r) /\ ~UpdateUserStatus(r)
           \/ TicketStep(r) \/ Fails(r)
  <2>1. UNCHANGED <<userStatus, session, totp, held>>
    BY <1>3, Zenon
    DEF Begin, AdminStep, UpdateSetting, LockWallet, AdjustWallet, LockTicket, ReplyTicket,
        UpdateTicketStatus, StartRoles, DeleteRoles, InsertRoles, TicketStep, CreateTicket,
        GetUserTicket, AddTicketMessage, Fails, identityVars
  <2> QED
    BY <1>0, <2>1, Zenon DEF AccountTypes
<1> QED
  BY <1>1, <1>2, <1>3, Zenon DEF StepOf

(* Requests and faults stay within their bounds. *)
LEMMA BoundStep ==
  ASSUME TypeOK, NEW r \in Requests, StepOf(r)
  PROVE  BoundTypes'
<1>0. total \in 0..MaxRequests /\ faults \in 0..MaxFaults
  BY DEF TypeOK
<1>1. \/ UNCHANGED <<total, faults>>
      \/ total < MaxRequests /\ total' = total + 1 /\ faults' = faults
      \/ faults < MaxFaults /\ faults' = faults + 1 /\ total' = total
  <2>1. CASE IdentityStep(r)
    BY <2>1, Zenon
    DEF IdentityStep, RequireAdmin, RequireUser, registerUser, newUserSession,
        loginUserFails, newAdminSession, loginAdminFails, loginAdmin, AdminBySessionFails, loginAuditFails,
        loginRefused, logoutUser, recordAdminAudit, logoutAdmin, setupAdminTOTP, checkTOTP,
        enableAdminTOTP, boundVars
  <2>2. CASE AdminStep(r)
    BY <2>2, Zenon
    DEF AdminStep, UpdateUserStatus, UpdateSetting, LockWallet, AdjustWallet, LockTicket,
        ReplyTicket, UpdateTicketStatus, StartRoles, DeleteRoles, InsertRoles, boundVars
  <2>3. CASE (\E kind \in Kinds, s \in Sessions : Begin(r, kind, s)) \/ TicketStep(r) \/ Fails(r)
    BY <2>3, Zenon
    DEF Begin, TicketStep, CreateTicket, GetUserTicket, AddTicketMessage, Fails, boundVars
  <2> QED
    BY <2>1, <2>2, <2>3, Zenon DEF StepOf
<1> QED
  BY <1>0, <1>1, BoundsNat DEF BoundTypes

-----------------------------------------------------------------------------
(* The invariant and what follows from it                                   *)

(* Nothing has happened and every administrator is a super_admin. *)
LEMMA BackofficeInit ==
  ASSUME Init
  PROVE  BackofficeInv
<1>1. userStatus \in {"none", "active", "suspended"} /\ roles = [a \in Admins |-> {"super_admin"}]
  BY Zenon DEF Init, IdentityInit
<1>2. /\ roles \in [Admins -> SUBSET Roles] /\ asked = roles
      /\ view \in [Requests -> [rows : SUBSET Roles, added : SUBSET Roles]]
  BY <1>1, Zenon DEF Init, Roles, NoView
<1>3. session \in [Sessions -> {"none", "live", "ended"}] /\ held \subseteq Sessions
  BY DEF Init, IdentityInit
<1>4. totp \in [Admins -> [secret : 0..MaxSecrets, verified : BOOLEAN, enabled : BOOLEAN]]
  BY SecretsNat DEF Init, IdentityInit
<1>5. /\ wallet \in [balance : Int, wallet : Int, platform : Int] /\ WalletIsBacked
      /\ ticket \in [status : TicketStatuses, closedAt : BOOLEAN] /\ ClosedAtMatches
  BY DEF Init, WalletIsBacked, TicketStatuses, ClosedAtMatches, Final
<1>6. RequestTypes /\ \A r \in Requests : req[r].pc = "idle"
  BY IdleRow, Zenon DEF Init, RequestTypes
<1>7. \A r \in Requests : RowInv(r) /\ LockInv(r) /\ ViewInv(r)
  BY <1>6 DEF RowInv, LockInv, ViewInv, Changes, At
<1>8. CountTypes /\ BoundTypes /\ lock \in [Rows -> Requests \cup {None}] /\ stale \in BOOLEAN
  <2>1. CountTypes /\ BoundTypes
    BY BoundsNat DEF Init, CountTypes, BoundTypes
  <2>2. lock \in [Rows -> Requests \cup {None}] /\ stale \in BOOLEAN
    BY Zenon DEF Init
  <2> QED
    BY <2>1, <2>2, Zenon
<1>9. AuditInv
  <2>1. ASSUME NEW k \in AdminChanges \cup {"login_admin"} PROVE audit[k] = changed[k]
    BY KindFacts DEF Init
  <2>2. ASSUME NEW k \in OwnKinds PROVE changed[k] + Cardinality(Announced(k)) <= audit[k]
    <3>1. Announced(k) = {}
      BY <1>6 DEF Announced
    <3>2. changed[k] = 0 /\ audit[k] = 0
      BY KindFacts DEF Init
    <3> QED
      BY <3>1, <3>2, FS_EmptySet
  <2> QED
    BY <2>1, <2>2, Zenon DEF AuditInv
<1>10. SuperAdminRemains /\ RolesWereAsked
  BY <1>1, <1>2, ActorsDiffer, Zenon DEF SuperAdminRemains, RolesWereAsked
<1>11. TypeOK
  BY <1>1, <1>2, <1>3, <1>4, <1>5, <1>6, <1>8, Zenon
  DEF TypeOK, IdentityTypeOK, RequestTypes, CountTypes, BoundTypes
<1> QED
  BY <1>5, <1>7, <1>9, <1>10, <1>11, Zenon DEF BackofficeInv

(* A request's step keeps the invariant. *)
LEMMA RequestKeeps ==
  ASSUME BackofficeInv, NEW r \in Requests, StepOf(r)
  PROVE  BackofficeInv'
<1>0. TypeOK /\ RowInv(r) /\ LockInv(r) /\ RoleInv /\ \A q \in Requests : RowInv(q)
  BY Zenon DEF BackofficeInv, RoleInv, RoleTypes, ViewRows, TypeOK, IdentityTypeOK
<1>1. RequestTypes' /\ Others(r) /\ RowInv(r)'
  BY <1>0, RequestStep
<1>2. Considerate(r) /\ LockInv(r)'
  BY <1>0, StepIsConsiderate, OwnLock
<1>3. ASSUME NEW q \in Requests PROVE RowInv(q)' /\ LockInv(q)'
  <2>1. CASE q = r
    BY <1>1, <1>2, <2>1, Zenon
  <2>2. CASE q # r
    <3>1. RowInv(q) /\ LockInv(q) /\ req'[q] = req[q]
      BY <1>1, <2>2, Zenon DEF BackofficeInv, Others
    <3>2. RowInv(q)'
      BY <3>1, Zenon DEF RowInv, Actor
    <3>3. LockInv(q)'
      BY <1>0, <1>1, <1>2, <2>2, <3>1, LocksProtect
    <3> QED
      BY <3>2, <3>3, Zenon
  <2> QED
    BY <2>1, <2>2, Zenon
<1>4. CountTypes' /\ AuditInv'
  BY <1>0, AuditStep DEF BackofficeInv
<1>5. wallet' \in [balance : Int, wallet : Int, platform : Int] /\ WalletIsBacked'
  BY <1>0, WalletStep DEF BackofficeInv
<1>6. ticket' \in [status : TicketStatuses, closedAt : BOOLEAN] /\ ClosedAtMatches'
  BY <1>0, TicketWritten DEF BackofficeInv
<1>7. RoleTypes' /\ SuperAdminRemains' /\ RolesWereAsked' /\ \A q \in Requests : ViewInv(q)'
  BY <1>0, <1>1, RolesStep, Zenon DEF RoleInv
<1>8. AccountTypes' /\ BoundTypes' /\ LockTypes'
  BY <1>0, <1>2, AccountStep, BoundStep DEF Considerate
<1>9. TypeOK'
  BY <1>1, <1>4, <1>5, <1>6, <1>7, <1>8, Zenon
  DEF TypeOK, IdentityTypeOK, RequestTypes, CountTypes, AccountTypes, TotpRows, BoundTypes,
      LockTypes, RoleTypes, ViewRows
<1> QED
  BY <1>3, <1>4, <1>5, <1>6, <1>7, <1>9, Zenon DEF BackofficeInv

(* So does a session that expires. *)
LEMMA ExpiryKeeps ==
  ASSUME BackofficeInv, NEW s \in Sessions, SessionExpires(s)
  PROVE  BackofficeInv'
<1>1. UNCHANGED <<userStatus, roles, totp, wallet, ticket, lock, req, held, audit, changed,
                  view, asked, stale, total>>
  BY Zenon DEF SessionExpires, dataVars, roleVars
<1>2. session' \in [Sessions -> {"none", "live", "ended"}]
  BY SessionWritten, Zenon DEF SessionExpires, BackofficeInv, TypeOK, IdentityTypeOK
<1>3. faults' \in 0..MaxFaults
  BY BoundsNat DEF SessionExpires, BackofficeInv, TypeOK
<1>4. TypeOK'
  BY <1>1, <1>2, <1>3, Zenon DEF BackofficeInv, TypeOK, IdentityTypeOK
<1>5. \A r \in Requests : RowInv(r)' /\ LockInv(r)' /\ ViewInv(r)'
  BY <1>1, Zenon DEF BackofficeInv, RowInv, LockInv, ViewInv, Changes, At, Actor
<1>6. AuditInv'
  BY <1>1, Zenon DEF BackofficeInv, AuditInv, Announced
<1>7. WalletIsBacked' /\ ClosedAtMatches' /\ SuperAdminRemains' /\ RolesWereAsked'
  BY <1>1, Zenon
  DEF BackofficeInv, WalletIsBacked, ClosedAtMatches, SuperAdminRemains, RolesWereAsked
<1> QED
  BY <1>4, <1>5, <1>6, <1>7, Zenon DEF BackofficeInv

(* BackofficeInv holds after any requests, faults and expiries. *)
THEOREM BackofficeInvariant == Spec => []BackofficeInv
<1>1. BackofficeInv /\ [Next]_vars => BackofficeInv'
  <2>1. SUFFICES ASSUME BackofficeInv, [Next]_vars PROVE BackofficeInv'
    OBVIOUS
  <2>2. CASE UNCHANGED vars
    <3>1. UNCHANGED <<userStatus, roles, session, totp, wallet, ticket, lock, req, held,
                      audit, changed, view, asked, stale, total, faults>>
      BY <2>2, Zenon DEF vars
    <3>2. TypeOK'
      BY <2>1, <3>1, Zenon DEF BackofficeInv, TypeOK, IdentityTypeOK
    <3>3. \A r \in Requests : RowInv(r)' /\ LockInv(r)' /\ ViewInv(r)'
      BY <2>1, <3>1, Zenon DEF BackofficeInv, RowInv, LockInv, ViewInv, Changes, At, Actor
    <3>4. AuditInv'
      BY <2>1, <3>1, Zenon DEF BackofficeInv, AuditInv, Announced
    <3>5. WalletIsBacked' /\ ClosedAtMatches' /\ SuperAdminRemains' /\ RolesWereAsked'
      BY <2>1, <3>1, Zenon
      DEF BackofficeInv, WalletIsBacked, ClosedAtMatches, SuperAdminRemains, RolesWereAsked
    <3> QED
      BY <3>2, <3>3, <3>4, <3>5, Zenon DEF BackofficeInv
  <2>3. ASSUME NEW r \in Requests, StepOf(r) PROVE BackofficeInv'
    BY <2>1, <2>3, RequestKeeps
  <2>4. ASSUME NEW s \in Sessions, SessionExpires(s) PROVE BackofficeInv'
    BY <2>1, <2>4, ExpiryKeeps
  <2> QED
    BY <2>1, <2>2, <2>3, <2>4, Zenon DEF Next, StepOf
<1> QED
  BY <1>1, BackofficeInit, PTL DEF Spec

(* The variables of the back office keep their types. *)
THEOREM BackofficeTypes == Spec => []TypeOK
<1>1. BackofficeInv => TypeOK
  BY Zenon DEF BackofficeInv
<1> QED
  BY <1>1, BackofficeInvariant, PTL

(* ADR-011: every change by an administrator has its audit event, and no     *)
(* logout, second factor or token is ahead of its own, whatever fails        *)
(* (mutateJSON, recordAdminAudit, loginAdmin).                               *)
THEOREM AuditsAreComplete == Spec => []AuditIsComplete
<1>1. BackofficeInv => AuditIsComplete
  <2>1. SUFFICES ASSUME BackofficeInv PROVE AuditIsComplete
    OBVIOUS
  <2>2. AuditInv /\ CountTypes
    BY <2>1, Zenon DEF BackofficeInv, TypeOK, CountTypes
  <2>3. ASSUME NEW k \in OwnKinds PROVE changed[k] <= audit[k]
    <3>1. changed[k] \in Nat /\ audit[k] \in Nat
      BY <2>2, KindFacts, Zenon DEF CountTypes
    <3>2. Announced(k) \in SUBSET Requests
      BY Zenon DEF Announced
    <3>3. Cardinality(Announced(k)) \in Nat
      BY <3>2, RequestSets, Zenon
    <3> QED
      BY <2>2, <3>1, <3>3 DEF AuditInv
  <2>4. changed["login_admin"] <= audit["login_admin"]
    <3>1. changed["login_admin"] \in Nat /\ audit["login_admin"] = changed["login_admin"]
      BY <2>2, KindFacts, Zenon DEF CountTypes, AuditInv
    <3> QED
      BY <3>1
  <2> QED
    BY <2>2, <2>3, <2>4, Zenon DEF AuditInv, AuditIsComplete
<1> QED
  BY <1>1, BackofficeInvariant, PTL

(* AdjustWallet: balance and ledger agree and the balance is never negative, *)
(* for any number of adjustments at the same time.                           *)
THEOREM WalletStaysBacked == Spec => []WalletIsBacked
<1>1. BackofficeInv => WalletIsBacked
  BY Zenon DEF BackofficeInv
<1> QED
  BY <1>1, BackofficeInvariant, PTL

(* ReplyTicket and UpdateTicketStatus: closed_at is set exactly while the    *)
(* ticket is resolved or closed.                                             *)
THEOREM ClosedAtStaysExact == Spec => []ClosedAtMatches
<1>1. BackofficeInv => ClosedAtMatches
  BY Zenon DEF BackofficeInv
<1> QED
  BY <1>1, BackofficeInvariant, PTL

(* SetAdminRoles: a super_admin is left, unless one whose permission was     *)
(* withdrawn after its check changed roles.                                  *)
THEOREM SuperAdminStays == Spec => []SuperAdminRemains
<1>1. BackofficeInv => SuperAdminRemains
  BY Zenon DEF BackofficeInv
<1> QED
  BY <1>1, BackofficeInvariant, PTL

(* SetAdminRoles replaces: after a change an administrator has only roles    *)
(* that it, or a change that committed while it ran, asked for.  For any     *)
(* number of overlapping changes, and lists of roles.                        *)
THEOREM RolesStayAsked == Spec => []RolesWereAsked
<1>1. BackofficeInv => RolesWereAsked
  BY Zenon DEF BackofficeInv
<1> QED
  BY <1>1, BackofficeInvariant, PTL
=============================================================================
