----------------------------- MODULE Backoffice -----------------------------
(* The administrator control plane and the user's tickets, as concurrent     *)
(* HTTP requests: packages http/identity, http/admin, admin, and the tickets *)
(* of http/portal and portal.                                                *)
(*                                                                           *)
(* A request authenticates once, with the session and the permissions stored *)
(* at that moment, and then runs its handler.  Handlers of different         *)
(* requests interleave statement by statement, except where a row lock of    *)
(* PostgreSQL (READ COMMITTED) keeps them apart.  One wallet and one ticket, *)
(* both of the user, stand for all of them.  Texts, amounts other than one   *)
(* and the values of settings are abstracted away.                           *)
EXTENDS Identity, Integers

CONSTANTS Requests,     \* requests the API server handles at the same time
          RoleLists,    \* bound: the lists of roles that requests ask for
          MaxRequests,  \* bound: requests started
          MaxFaults,    \* bound: failed statements, lost requests, expiries
          None          \* nobody holds the lock

ASSUME BoundsNat == MaxRequests \in Nat /\ MaxFaults \in Nat
ASSUME NoneIsNobody == None \notin Requests
ASSUME RequestsFinite == IsFiniteSet(Requests)
ASSUME ListsNotEmpty == RoleLists \subseteq SUBSET Roles \ {{}}

VARIABLES wallet,   \* the balance, and the sums of its ledger entries
          ticket,   \* the ticket row
          lock,     \* the request that holds the lock on a row
          req,      \* what each request is doing
          held,     \* sessions whose token a client was given
          audit,    \* audit events of each kind
          changed,  \* changes of each kind that took effect
          view,     \* what a change of roles sees of admin_roles
          asked,    \* history: the roles an admin may have, see RolesWereAsked
          stale,    \* history: roles changed by one without the permission
          total, faults

vars == <<userStatus, roles, session, totp, wallet, ticket, lock, req, held,
          audit, changed, view, asked, stale, total, faults>>

(* The routes, by what they ask for: a permission, an administrator, a user  *)
(* or nothing.                                                               *)
Permission == [user_status |-> "users.suspend", adjust |-> "ledger.adjust",
               reply |-> "tickets.reply", ticket_status |-> "tickets.manage",
               setting |-> "settings.manage", set_roles |-> "admins.manage"]

AdminChanges == DOMAIN Permission
OwnKinds == {"logout_admin", "totp_setup", "totp_enable"}
UserKinds == {"logout_user", "create_ticket", "message"}
OpenKinds == {"register", "login_user", "login_admin"}
Kinds == AdminChanges \cup OwnKinds \cup UserKinds \cup OpenKinds

(* Audit events are told apart by the kind of the request; a refused login   *)
(* writes one of its own.                                                    *)
Events == Kinds \cup {"login_failed"}

Final == {"resolved", "closed"}
TicketStatuses == {"none", "open", "waiting_user", "waiting_support"} \cup Final

(* The rows that are locked with FOR UPDATE. *)
Rows == {"wallet", "ticket"}

(* The body of a request; the fields a kind does not use have the default. *)
Body == [status |-> "none", amount |-> 0, admin |-> None, roles |-> {},
         code |-> TRUE]

RoleBody(a, S) == [Body EXCEPT !.admin = a, !.roles = S]

Bodies(kind) ==
  CASE kind = "user_status" ->
         {[Body EXCEPT !.status = s] : s \in {"active", "suspended"}}
    [] kind = "adjust" -> {[Body EXCEPT !.amount = n] : n \in {-1, 1}}
    [] kind = "ticket_status" ->
         {[Body EXCEPT !.status = s] : s \in {"waiting_support", "closed"}}
    [] kind = "set_roles" ->
         {RoleBody(a, S) : a \in Admins, S \in RoleLists}
    [] kind \in {"totp_enable", "login_admin"} ->
         {[Body EXCEPT !.code = ok] : ok \in BOOLEAN}
    [] OTHER -> {Body}

Idle == [pc |-> "idle", kind |-> "message", session |-> <<User, 1>>,
         body |-> Body, seen |-> [status |-> "none", balance |-> 0]]

NoView == [rows |-> {}, added |-> {}]

Places == {"idle", "begun", "handling", "audited", "locked", "deleting",
           "checked", "registered", "created", "refused"}

RequestRows ==
  [pc : Places, kind : Kinds, session : Sessions,
   body : [status : {"none", "active", "suspended", "waiting_support", "closed"},
           amount : Int, admin : Admins \cup {None}, roles : SUBSET Roles,
           code : BOOLEAN],
   seen : [status : TicketStatuses, balance : Int]]

TypeOK ==
  /\ IdentityTypeOK
  /\ wallet \in [balance : Int, wallet : Int, platform : Int]
  /\ ticket \in [status : TicketStatuses, closedAt : BOOLEAN]
  /\ lock \in [Rows -> Requests \cup {None}]
  /\ req \in [Requests -> RequestRows]
  /\ held \subseteq Sessions
  /\ audit \in [Events -> Nat]
  /\ changed \in [Kinds -> Nat]
  /\ view \in [Requests -> [rows : SUBSET Roles, added : SUBSET Roles]]
  /\ asked \in [Admins -> SUBSET Roles]
  /\ stale \in BOOLEAN
  /\ total \in 0..MaxRequests
  /\ faults \in 0..MaxFaults

Init ==
  /\ IdentityInit
  /\ wallet = [balance |-> 0, wallet |-> 0, platform |-> 0]
  /\ ticket = [status |-> "none", closedAt |-> FALSE]
  /\ lock = [row \in Rows |-> None]
  /\ req = [r \in Requests |-> Idle]
  /\ held = {s \in Sessions : session[s] = "live"}
  /\ audit = [k \in Events |-> 0]
  /\ changed = [k \in Kinds |-> 0]
  /\ view = [r \in Requests |-> NoView]
  /\ asked = roles
  /\ stale = FALSE
  /\ total = 0
  /\ faults = 0

(* ------------------------------- Requests ------------------------------- *)

(* The request moves on, or answers and is gone. *)
Goto(r, pc) == req' = [req EXCEPT ![r].pc = pc]

Answer(r) == req' = [req EXCEPT ![r] = Idle]

At(r, pc, kind) == req[r].pc = pc /\ req[r].kind = kind

Actor(r) == req[r].session[1]

(* An audit event is written; a change of the request's kind takes effect. *)
CreateAuditEvent(event) == audit' = [audit EXCEPT ![event] = @ + 1]

Record(r) == CreateAuditEvent(req[r].kind)

Takes(r) == changed' = [changed EXCEPT ![req[r].kind] = @ + 1]

dataVars == <<wallet, ticket>>
roleVars == <<view, asked, stale>>
boundVars == <<total, faults>>

(* A client sends a request, with a session it was given or, to log in or to *)
(* register, for the second session of an account.                           *)
Begin(r, kind, s) ==
  /\ req[r].pc = "idle"
  /\ total < MaxRequests
  /\ CASE kind \in AdminChanges \cup OwnKinds -> s \in held /\ s[1] \in Admins
       [] kind \in UserKinds -> s \in held /\ s[1] = User
       [] kind \in OpenKinds ->
            /\ s[2] = 2 /\ session[s] = "none"
            /\ (kind = "login_admin") = (s[1] \in Admins)
            /\ \A q \in Requests : req[q].pc # "idle" => req[q].session # s
  /\ \E body \in Bodies(kind) :
       req' = [req EXCEPT ![r] = [Idle EXCEPT !.pc = "begun", !.kind = kind,
                                  !.session = s, !.body = body]]
  /\ total' = total + 1
  /\ UNCHANGED <<identityVars, dataVars, lock, held, audit, changed,
                 roleVars, faults>>

(* RequireAdmin and authenticatedAdmin: the session, and the permission when *)
(* the route names one, are read once.                                       *)
MayAdmin(r) ==
  /\ AuthenticateAdmin(req[r].session)
  /\ req[r].kind \in AdminChanges =>
       Permission[req[r].kind] \in ListAdminPermissions(Actor(r))

RequireAdmin(r) ==
  /\ req[r].pc = "begun" /\ req[r].kind \in AdminChanges \cup OwnKinds
  /\ IF MayAdmin(r) THEN Goto(r, "handling") ELSE Answer(r)
  /\ UNCHANGED <<identityVars, dataVars, lock, held, audit, changed,
                 roleVars, boundVars>>

RequireUser(r) ==
  /\ req[r].pc = "begun" /\ req[r].kind \in UserKinds
  /\ IF AuthenticateUser(req[r].session) THEN Goto(r, "handling") ELSE Answer(r)
  /\ UNCHANGED <<identityVars, dataVars, lock, held, audit, changed,
                 roleVars, boundVars>>

(* ------------------------ Accounts and sessions ------------------------- *)

(* The token of the new session reaches the client. *)
SetCookie(r) == held' = held \cup {req[r].session}

registerUser(r) ==
  /\ At(r, "begun", "register")
  /\ \/ CreateUser /\ Goto(r, "registered")
     \/ userStatus # "none" /\ Answer(r) /\ UNCHANGED userStatus
  /\ UNCHANGED <<roles, session, totp, dataVars, lock, held, audit, changed,
                 roleVars, boundVars>>

newUserSession(r) ==
  /\ \/ At(r, "registered", "register")
     \/ At(r, "begun", "login_user") /\ LoginUser
  /\ CreateUserSession(req[r].session)
  /\ SetCookie(r)
  /\ Takes(r)
  /\ Answer(r)
  /\ UNCHANGED <<userStatus, roles, totp, dataVars, lock, audit, roleVars,
                 boundVars>>

loginUserFails(r) ==
  /\ At(r, "begun", "login_user") /\ ~LoginUser
  /\ Answer(r)
  /\ UNCHANGED <<identityVars, dataVars, lock, held, audit, changed,
                 roleVars, boundVars>>

(* loginAdmin: the session is created first and read back, then its audit    *)
(* event is written; only then is the token handed out.  When the audit      *)
(* event fails the session is revoked again.                                 *)
newAdminSession(r) ==
  /\ At(r, "begun", "login_admin")
  /\ LoginAdmin(Actor(r), req[r].body.code)
  /\ CreateAdminSession(req[r].session)
  /\ Goto(r, "created")
  /\ UNCHANGED <<userStatus, roles, totp, dataVars, lock, held, audit, changed,
                 roleVars, boundVars>>

loginAdminFails(r) ==
  /\ At(r, "begun", "login_admin")
  /\ ~LoginAdmin(Actor(r), req[r].body.code)
  /\ CreateAuditEvent("login_failed")
  /\ Answer(r)
  /\ UNCHANGED <<identityVars, dataVars, lock, held, changed, roleVars,
                 boundVars>>

loginAdmin(r) ==
  /\ req[r].pc = "created"
  /\ Record(r)
  /\ SetCookie(r)
  /\ Takes(r)
  /\ Answer(r)
  /\ UNCHANGED <<identityVars, dataVars, lock, roleVars, boundVars>>

(* AdminBySession fails: the login is answered, and recorded, as a refused   *)
(* one, and the session stays without anybody having its token.              *)
AdminBySessionFails(r) ==
  /\ req[r].pc = "created"
  /\ faults < MaxFaults /\ faults' = faults + 1
  /\ CreateAuditEvent("login_failed")
  /\ Answer(r)
  /\ UNCHANGED <<identityVars, dataVars, lock, held, changed, roleVars, total>>

loginAuditFails(r) ==
  /\ req[r].pc = "created"
  /\ faults < MaxFaults /\ faults' = faults + 1
  /\ Goto(r, "refused")
  /\ UNCHANGED <<identityVars, dataVars, lock, held, audit, changed,
                 roleVars, total>>

loginRefused(r) ==
  /\ req[r].pc = "refused"
  /\ RevokeAdminSession(req[r].session)
  /\ Answer(r)
  /\ UNCHANGED <<userStatus, roles, totp, dataVars, lock, held, audit, changed,
                 roleVars, boundVars>>

logoutUser(r) ==
  /\ At(r, "handling", "logout_user")
  /\ RevokeUserSession(req[r].session)
  /\ Takes(r)
  /\ Answer(r)
  /\ UNCHANGED <<userStatus, roles, totp, dataVars, lock, held, audit,
                 roleVars, boundVars>>

(* logoutAdmin, setupAdminTOTP and enableAdminTOTP write their audit event   *)
(* before they act, each in a transaction of its own.                        *)
recordAdminAudit(r) ==
  /\ req[r].pc = "handling" /\ req[r].kind \in OwnKinds
  /\ Record(r)
  /\ Goto(r, "audited")
  /\ UNCHANGED <<identityVars, dataVars, lock, held, changed, roleVars,
                 boundVars>>

logoutAdmin(r) ==
  /\ At(r, "audited", "logout_admin")
  /\ RevokeAdminSession(req[r].session)
  /\ Takes(r)
  /\ Answer(r)
  /\ UNCHANGED <<userStatus, roles, totp, dataVars, lock, held, audit,
                 roleVars, boundVars>>

(* Mutant: the secret is replaced without its audit event. *)
setupUnaudited(r) ==
  /\ At(r, "handling", "totp_setup")
  /\ BeginAdminTOTP(Actor(r))
  /\ Takes(r)
  /\ Answer(r)
  /\ UNCHANGED <<userStatus, roles, session, dataVars, lock, held, audit,
                 roleVars, boundVars>>

setupAdminTOTP(r) ==
  /\ At(r, "audited", "totp_setup")
  /\ BeginAdminTOTP(Actor(r))
  /\ Takes(r)
  /\ Answer(r)
  /\ UNCHANGED <<userStatus, roles, session, dataVars, lock, held, audit,
                 roleVars, boundVars>>

(* enableAdminTOTP: a setup can replace the secret between the check of the  *)
(* code and the update.                                                      *)
checkTOTP(r) ==
  /\ At(r, "audited", "totp_enable")
  /\ IF ValidateTOTP(Actor(r), req[r].body.code)
     THEN Goto(r, "checked") ELSE Answer(r)
  /\ UNCHANGED <<identityVars, dataVars, lock, held, audit, changed,
                 roleVars, boundVars>>

enableAdminTOTP(r) ==
  /\ At(r, "checked", "totp_enable")
  /\ EnableTOTPStatement(Actor(r))
  /\ Takes(r)
  /\ Answer(r)
  /\ UNCHANGED <<userStatus, roles, session, dataVars, lock, held, audit,
                 roleVars, boundVars>>

(* ------------------------ Administrator changes ------------------------- *)

(* A change commits: it takes effect with its audit event, in one            *)
(* transaction, and the transaction's locks are released.                    *)
Commit(r) ==
  /\ Takes(r)
  /\ Record(r)
  /\ lock' = [row \in Rows |-> IF lock[row] = r THEN None ELSE lock[row]]
  /\ Answer(r)

Rollback(r) ==
  /\ lock' = [row \in Rows |-> IF lock[row] = r THEN None ELSE lock[row]]
  /\ Answer(r)

(* For the mutants below: a plain SELECT, which waits for nobody. *)
PlainSelect(r, row) ==
  /\ lock' = lock
  /\ req' = [req EXCEPT ![r].pc = "locked",
                        ![r].seen.status = ticket.status,
                        ![r].seen.balance = wallet.balance]

(* SELECT ... FOR UPDATE: waits for the row, locks it and reads it. *)
ForUpdate(r, row) ==
  /\ lock[row] = None
  /\ lock' = [lock EXCEPT ![row] = r]
  /\ req' = [req EXCEPT ![r].pc = "locked",
                        ![r].seen.status = ticket.status,
                        ![r].seen.balance = wallet.balance]

(* UpdateUserStatus, in mutateJSON; ErrNotFound when there is no account. *)
UpdateUserStatus(r) ==
  /\ At(r, "handling", "user_status")
  /\ IF userStatus = "none"
     THEN Rollback(r) /\ UNCHANGED <<userStatus, audit, changed>>
     ELSE userStatus' = req[r].body.status /\ Commit(r)
  /\ UNCHANGED <<roles, session, totp, dataVars, held, roleVars, boundVars>>

UpdateSetting(r) ==
  /\ At(r, "handling", "setting")
  /\ Commit(r)
  /\ UNCHANGED <<identityVars, dataVars, held, roleVars, boundVars>>

(* Mutant: the balance is read without FOR UPDATE. *)
ReadWallet(r) ==
  /\ At(r, "handling", "adjust")
  /\ IF userStatus = "none" THEN Rollback(r) ELSE PlainSelect(r, "wallet")
  /\ UNCHANGED <<identityVars, dataVars, held, audit, changed, roleVars,
                 boundVars>>

(* AdjustWallet creates the wallet when there is none (the user must exist), *)
(* locks it, and refuses what the balance does not cover.                    *)
LockWallet(r) ==
  /\ At(r, "handling", "adjust")
  /\ IF userStatus = "none" THEN Rollback(r) ELSE ForUpdate(r, "wallet")
  /\ UNCHANGED <<identityVars, dataVars, held, audit, changed, roleVars,
                 boundVars>>

AdjustWallet(r) ==
  LET amount == req[r].body.amount IN
  /\ At(r, "locked", "adjust")
  /\ IF req[r].seen.balance + amount < 0
     THEN Rollback(r) /\ UNCHANGED <<wallet, audit, changed>>
     ELSE /\ wallet' = [balance |-> wallet.balance + amount,
                        wallet |-> wallet.wallet + amount,
                        platform |-> wallet.platform - amount]
          /\ Commit(r)
  /\ UNCHANGED <<identityVars, ticket, held, roleVars, boundVars>>

(* Mutant: the ticket is read without FOR UPDATE. *)
ReadTicket(r) ==
  /\ At(r, "handling", "reply")
  /\ IF ticket.status = "none" THEN Rollback(r) ELSE PlainSelect(r, "ticket")
  /\ UNCHANGED <<identityVars, dataVars, held, audit, changed, roleVars,
                 boundVars>>

LockTicket(r) ==
  /\ At(r, "handling", "reply")
  /\ IF ticket.status = "none" THEN Rollback(r) ELSE ForUpdate(r, "ticket")
  /\ UNCHANGED <<identityVars, dataVars, held, audit, changed, roleVars,
                 boundVars>>

(* ReplyTicket: a finalised ticket takes no reply. *)
ReplyTicket(r) ==
  /\ At(r, "locked", "reply")
  /\ IF req[r].seen.status \in Final
     THEN Rollback(r) /\ UNCHANGED <<ticket, audit, changed>>
     ELSE ticket' = [ticket EXCEPT !.status = "waiting_user"] /\ Commit(r)
  /\ UNCHANGED <<identityVars, wallet, held, roleVars, boundVars>>

UpdateTicketStatus(r) ==
  LET status == req[r].body.status IN
  /\ At(r, "handling", "ticket_status")
  /\ IF ticket.status = "none"
     THEN Rollback(r) /\ UNCHANGED <<ticket, audit, changed>>
     ELSE /\ lock["ticket"] = None
          /\ ticket' = [ticket EXCEPT !.status = status,
                                      !.closedAt = status \in Final]
          /\ Commit(r)
  /\ UNCHANGED <<identityVars, wallet, held, roleVars, boundVars>>

(* Mutant: one may take super_admin from oneself. *)
StartAnyRoles(r) ==
  /\ At(r, "handling", "set_roles")
  /\ Goto(r, "deleting")
  /\ view' = [view EXCEPT ![r] = [rows |-> roles[req[r].body.admin], added |-> {}]]
  /\ UNCHANGED <<identityVars, dataVars, lock, held, audit, changed, asked,
                 stale, boundVars>>

(* SetAdminRoles: nobody takes super_admin from themselves.  The DELETE sees *)
(* the rows committed when it starts; "rows" are those of them that are      *)
(* still there.  A row that is deleted and inserted again is another row.    *)
StartRoles(r) ==
  LET body == req[r].body IN
  /\ At(r, "handling", "set_roles")
  /\ IF body.admin = Actor(r) /\ "super_admin" \notin body.roles
     THEN Answer(r) /\ UNCHANGED view
     ELSE /\ Goto(r, "deleting")
          /\ view' = [view EXCEPT ![r] = [rows |-> roles[body.admin], added |-> {}]]
  /\ UNCHANGED <<identityVars, dataVars, lock, held, audit, changed, asked,
                 stale, boundVars>>

(* The rows of an administrator that q has deleted and not yet committed. *)
Deleted(q, id) ==
  IF At(q, "locked", "set_roles") /\ req[q].body.admin = id THEN view[q].rows
  ELSE {}

(* The DELETE waits for the rows that another transaction has deleted. *)
DeleteRoles(r) ==
  /\ At(r, "deleting", "set_roles")
  /\ \A q \in Requests : Deleted(q, req[r].body.admin) \cap view[r].rows = {}
  /\ Goto(r, "locked")
  /\ UNCHANGED <<identityVars, dataVars, lock, held, audit, changed, roleVars,
                 boundVars>>

(* The change of r commits: the rows it has deleted are gone for the others  *)
(* that change the same administrator, and those it has inserted are there.  *)
ViewAfter(r, q) ==
  IF q = r THEN NoView
  ELSE IF /\ req[q].kind = "set_roles" /\ req[q].pc \in {"deleting", "locked"}
          /\ req[q].body.admin = req[r].body.admin
  THEN [rows |-> view[q].rows \ view[r].rows,
        added |-> view[q].added \cup req[r].body.roles]
  ELSE view[q]

(* Mutant: rows that are there already are kept, and nothing is deleted. *)
AddRoles(r) ==
  LET body == req[r].body IN
  /\ At(r, "locked", "set_roles")
  /\ roles' = [roles EXCEPT ![body.admin] = @ \cup body.roles]
  /\ view' = [q \in Requests |-> ViewAfter(r, q)]
  /\ asked' = [asked EXCEPT ![body.admin] = body.roles \cup view[r].added]
  /\ stale' = (stale \/ "super_admin" \notin roles[Actor(r)])
  /\ Commit(r)
  /\ UNCHANGED <<userStatus, session, totp, dataVars, held, boundVars>>

(* Rows added since the DELETE's snapshot are still there: the INSERT adds   *)
(* to them, or meets the primary key and the transaction fails.  A row that  *)
(* is there and deleted by a transaction still open has to be waited for.    *)
InsertRoles(r) ==
  LET body == req[r].body
      rest == roles[body.admin] \ view[r].rows
  IN /\ At(r, "locked", "set_roles")
     /\ \A q \in Requests \ {r} : Deleted(q, body.admin) \cap rest \cap body.roles = {}
     /\ IF rest \cap body.roles # {}
        THEN /\ Rollback(r) /\ view' = [view EXCEPT ![r] = NoView]
             /\ UNCHANGED <<roles, audit, changed, asked, stale>>
        ELSE /\ roles' = [roles EXCEPT ![body.admin] = rest \cup body.roles]
             /\ view' = [q \in Requests |-> ViewAfter(r, q)]
             /\ asked' = [asked EXCEPT ![body.admin] = body.roles \cup view[r].added]
             /\ stale' = (stale \/ "super_admin" \notin roles[Actor(r)])
             /\ Commit(r)
     /\ UNCHANGED <<userStatus, session, totp, dataVars, held, boundVars>>

(* -------------------------- The user's tickets -------------------------- *)

CreateUserTicket == ticket' = [ticket EXCEPT !.status = "open"]

CreateTicket(r) ==
  /\ At(r, "handling", "create_ticket")
  /\ ticket.status = "none"
  /\ CreateUserTicket
  /\ Takes(r)
  /\ Answer(r)
  /\ UNCHANGED <<identityVars, wallet, lock, held, audit, roleVars,
                 boundVars>>

(* AddTicketMessage checks the status outside its transaction. *)
GetUserTicket(r) ==
  /\ At(r, "handling", "message")
  /\ IF ticket.status \in Final \cup {"none"} THEN Answer(r) ELSE Goto(r, "checked")
  /\ UNCHANGED <<identityVars, dataVars, lock, held, audit, changed,
                 roleVars, boundVars>>

(* The insert waits for a locked ticket row, as its foreign key asks, and    *)
(* does not look at the status again.                                        *)
AddTicketMessage(r) ==
  /\ At(r, "checked", "message")
  /\ lock["ticket"] = None
  /\ Takes(r)
  /\ Answer(r)
  /\ UNCHANGED <<identityVars, dataVars, lock, held, audit, roleVars,
                 boundVars>>

(* -------------------------------- Faults -------------------------------- *)

(* A statement fails, the client goes away or the server stops: the open     *)
(* transaction is rolled back, what was committed stays.                     *)
Fails(r) ==
  /\ req[r].pc # "idle"
  /\ faults < MaxFaults /\ faults' = faults + 1
  /\ Rollback(r)
  /\ view' = [view EXCEPT ![r] = NoView]
  /\ UNCHANGED <<identityVars, dataVars, held, audit, changed, asked, stale,
                 total>>

SessionExpires(s) ==
  /\ Expire(s)
  /\ faults < MaxFaults /\ faults' = faults + 1
  /\ UNCHANGED <<userStatus, roles, totp, dataVars, lock, req, held, audit,
                 changed, roleVars, total>>

IdentityStep(r) ==
  \/ RequireAdmin(r) \/ RequireUser(r)
  \/ registerUser(r) \/ newUserSession(r) \/ loginUserFails(r)
  \/ newAdminSession(r) \/ loginAdminFails(r) \/ loginAdmin(r)
  \/ AdminBySessionFails(r) \/ loginAuditFails(r) \/ loginRefused(r)
  \/ logoutUser(r) \/ recordAdminAudit(r) \/ logoutAdmin(r)
  \/ setupAdminTOTP(r) \/ checkTOTP(r) \/ enableAdminTOTP(r)

AdminStep(r) ==
  \/ UpdateUserStatus(r) \/ UpdateSetting(r)
  \/ LockWallet(r) \/ AdjustWallet(r)
  \/ LockTicket(r) \/ ReplyTicket(r) \/ UpdateTicketStatus(r)
  \/ StartRoles(r) \/ DeleteRoles(r) \/ InsertRoles(r)

TicketStep(r) == CreateTicket(r) \/ GetUserTicket(r) \/ AddTicketMessage(r)

Next ==
  \/ \E r \in Requests :
       \/ \E kind \in Kinds, s \in Sessions : Begin(r, kind, s)
       \/ IdentityStep(r) \/ AdminStep(r) \/ TicketStep(r) \/ Fails(r)
  \/ \E s \in Sessions : SessionExpires(s)

Spec == Init /\ [][Next]_vars

(* ------------------------------ Properties ------------------------------ *)

(* ADR-011: the change of an account, a wallet, a ticket, a setting or the   *)
(* roles of an administrator and its audit event are one transaction, so     *)
(* there are as many of one as of the other whatever fails; logout and TOTP  *)
(* changes, and the handing out of an administrator's token, never happen    *)
(* without the event written before (recordAdminAudit, loginAdmin).          *)
AuditIsComplete ==
  /\ \A k \in AdminChanges : audit[k] = changed[k]
  /\ \A k \in OwnKinds \cup {"login_admin"} : changed[k] <= audit[k]

(* AdjustWallet: the balance is the sum of the wallet's ledger entries, the  *)
(* platform account mirrors it, and it is never negative, however many       *)
(* adjustments run at the same time.                                         *)
WalletIsBacked ==
  /\ wallet.balance = wallet.wallet
  /\ wallet.wallet + wallet.platform = 0
  /\ wallet.balance >= 0

(* tickets.closed_at is set exactly while the ticket is resolved or closed:  *)
(* ReplyTicket, which sets the status alone, never brings a ticket back that *)
(* UpdateTicketStatus finalised in the meantime.                             *)
ClosedAtMatches == ticket.closedAt <=> ticket.status \in Final

(* SetAdminRoles lets nobody drop their own super_admin so that one is left. *)
(* The last one can still be lost, but only through a request whose          *)
(* permission was withdrawn between its check and its effect.                *)
SuperAdminRemains ==
  stale \/ \E a \in Admins : "super_admin" \in roles[a]

(* SetAdminRoles replaces: after a change of an administrator's roles, every *)
(* role they have was asked for by that change or by one that committed      *)
(* while it ran (asked); a role that neither of them lists is taken away,    *)
(* however the deletions and insertions of the two interleave.               *)
RolesWereAsked == \A a \in Admins : roles[a] \subseteq asked[a]

=============================================================================
