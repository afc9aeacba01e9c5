------------------------------ MODULE Identity ------------------------------
(* Accounts, sessions, roles and second factors of the control plane, and    *)
(* the SQL statements that read and write them: packages identity and        *)
(* security, tables users, admins, user_sessions, admin_sessions,            *)
(* admin_roles, role_permissions and admin_totp_secrets.                     *)
(*                                                                           *)
(* One user account is followed, and the administrators of Admins.  A        *)
(* session is named by its owner and a number; its token is abstracted to    *)
(* that name.  A TOTP secret is abstracted to the number of the setup that   *)
(* generated it (0: none yet).                                               *)
EXTENDS Naturals, FiniteSets

CONSTANTS Admins,     \* administrators made by cmd/bootstrap-admin
          User,       \* the user account
          MaxSecrets  \* bound: TOTP setups of one administrator

ASSUME ActorsDiffer == User \notin Admins /\ Admins # {}
ASSUME SecretsNat == MaxSecrets \in Nat

VARIABLES userStatus,  \* users.status; "none" before registration
          roles,       \* admin_roles, as a set of role keys per administrator
          session,     \* status of each session row
          totp         \* admins.two_factor_enabled and admin_totp_secrets

identityVars == <<userStatus, roles, session, totp>>

Actors == Admins \cup {User}

(* The session an actor holds at the start and the one a login can add. *)
Sessions == Actors \X (1..2)

Roles == {"super_admin", "finance", "support"}

(* The permissions of the three roles, of those the routes modelled here ask *)
(* for: migrations 000002 and 000009.                                        *)
AllPermissions == {"users.suspend", "ledger.adjust", "tickets.reply",
                   "tickets.manage", "settings.manage", "admins.manage"}

RolePermissions == [super_admin |-> AllPermissions,
                    finance |-> {"ledger.adjust"},
                    support |-> {"tickets.reply"}]

IdentityTypeOK ==
  /\ userStatus \in {"none", "active", "suspended"}
  /\ roles \in [Admins -> SUBSET Roles]
  /\ session \in [Sessions -> {"none", "live", "ended"}]
  /\ totp \in [Admins -> [secret : 0..MaxSecrets, verified : BOOLEAN,
                          enabled : BOOLEAN]]

(* Every administrator comes from cmd/bootstrap-admin, which gives the role  *)
(* super_admin; each is logged in, and so is the user when registered.       *)
IdentityInit ==
  /\ userStatus \in {"none", "active"}
  /\ roles = [a \in Admins |-> {"super_admin"}]
  /\ session = [s \in Sessions |->
                  IF s[2] = 1 /\ (s[1] = User => userStatus = "active")
                  THEN "live" ELSE "none"]
  /\ totp = [a \in Admins |-> [secret |-> 0, verified |-> FALSE,
                               enabled |-> FALSE]]

(* ------------------------------ Statements ------------------------------ *)

(* users.email is unique: a second account with the address is refused. *)
CreateUser == userStatus = "none" /\ userStatus' = "active"

(* A session row is active until it is revoked or expires. *)
GetActiveUserSession(s) == s[1] = User /\ session[s] = "live"

GetActiveAdminSession(s) == s[1] \in Admins /\ session[s] = "live"

ListAdminPermissions(a) == UNION {RolePermissions[role] : role \in roles[a]}

CreateUserSession(s) ==
  session[s] = "none" /\ session' = [session EXCEPT ![s] = "live"]

CreateAdminSession(s) ==
  session[s] = "none" /\ session' = [session EXCEPT ![s] = "live"]

RevokeUserSession(s) == session' = [session EXCEPT ![s] = "ended"]

RevokeAdminSession(s) == session' = [session EXCEPT ![s] = "ended"]

GetAdminTOTPSecret(a) == totp[a].secret

(* A new setup replaces the secret and forgets that one was verified; it     *)
(* leaves two_factor_enabled as it was.                                      *)
UpsertAdminTOTPSecret(a) ==
  /\ totp[a].secret < MaxSecrets
  /\ totp' = [totp EXCEPT ![a].secret = @ + 1, ![a].verified = FALSE]

EnableTOTPStatement(a) ==
  totp' = IF totp[a].secret = 0 THEN totp
          ELSE [totp EXCEPT ![a].verified = TRUE, ![a].enabled = TRUE]

(* ------------------------------- Service -------------------------------- *)

(* AuthenticateUser: an active session of an account that is active. *)
AuthenticateUser(s) == GetActiveUserSession(s) /\ userStatus = "active"

(* AuthenticateAdmin: no code ever changes admins.status, so an active       *)
(* session is enough.                                                        *)
AuthenticateAdmin(s) == GetActiveAdminSession(s)

(* LoginUser with the right password. *)
LoginUser == userStatus = "active"

(* LoginAdmin with the right password: the code is asked for only when the   *)
(* second factor is enabled, and checked against the stored secret.          *)
LoginAdmin(a, codeIsValid) ==
  totp[a].enabled => GetAdminTOTPSecret(a) # 0 /\ codeIsValid

(* BeginAdminTOTP *)
BeginAdminTOTP(a) == UpsertAdminTOTPSecret(a)

(* The first half of EnableAdminTOTP: the stored secret is read and the code *)
(* is checked against it; the update is a statement of its own.              *)
ValidateTOTP(a, codeIsValid) == GetAdminTOTPSecret(a) # 0 /\ codeIsValid

(* The time of a session runs out. *)
Expire(s) == session[s] = "live" /\ session' = [session EXCEPT ![s] = "ended"]
=============================================================================
