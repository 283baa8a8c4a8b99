------------------------------ MODULE Accounts ------------------------------
(***************************************************************************)
(* user-rpc: accounts, logins, access tokens, roles and permissions        *)
(* (user.go, auth.go, token.go, rbac.go and their repositories).           *)
(*                                                                         *)
(* A replacement of roles is a transaction of three steps: the checks, the *)
(* DELETE and, with COMMIT, the INSERTs. The DELETE locks the user's rows, *)
(* or the gap where they would be. Gap locks are compatible, so two        *)
(* replacements of an empty set both get past their DELETE; each INSERT    *)
(* then waits for the other and InnoDB rolls one back.                     *)
(***************************************************************************)
EXTENDS ShopBase, Functions

CONSTANTS
  Roles,    \* the codes of the roles table
  Grants    \* role_permissions: the permissions of each role

(* The migration that makes the table fills in these two. *)
ASSUME AccountsAssumption ==
  DOMAIN Grants = Roles /\ {"admin", "customer"} \subseteq Roles

VARIABLES
  accounts,    \* users: absent, active or disabled
  tokens,      \* the access token each person holds: none, valid or expired
  roles        \* user_roles, committed

accountVars == <<accounts, tokens, roles>>

userError ==
  [ErrInvalidEmail |-> "InvalidArgument", ErrUserAlreadyExists |-> "AlreadyExists",
   ErrInvalidCredentials |-> "Unauthenticated", ErrUserNotFound |-> "NotFound",
   ErrRoleAssignmentConflict |-> "FailedPrecondition"]

AccountsTypeOK ==
  /\ accounts \in [Users -> {"absent", "active", "disabled"}]
  /\ tokens \in [Users -> {"none", "valid", "expired"}]
  /\ roles \in [Users -> SUBSET Roles]

-----------------------------------------------------------------------------
(* Accounts and tokens. *)

(* Only the unique key on email decides; a new account has no role. *)
Create(r) ==
  LET u == requests[r].user IN
  IF accounts[u] = "absent"
    THEN accounts' = [accounts EXCEPT ![u] = "active"] /\ Written(r, 200)
    ELSE Fail(r, userError, "ErrUserAlreadyExists") /\ UNCHANGED accounts

Register(r) ==
  IF Arg(r).valid
    THEN Create(r)
    ELSE Fail(r, userError, "ErrInvalidEmail") /\ UNCHANGED accounts

gatewayRegister(r) ==
  /\ At(r, "register", "call")
  /\ Register(r)
  /\ UNCHANGED <<tokens, roles>>

(* The credential with its Active flag, if the email is known. *)
FindCredentialByEmail(u) == IF accounts[u] = "absent" THEN {} ELSE {accounts[u] = "active"}

(* An unknown account, a disabled one and a wrong password look alike. *)
Authenticate(u, valid) == valid /\ FindCredentialByEmail(u) = {TRUE}

Issue(u) == tokens' = [tokens EXCEPT ![u] = "valid"]

gatewayLogin(r) ==
  LET u == requests[r].user IN
  /\ At(r, "login", "call")
  /\ IF Authenticate(u, Arg(r).valid)
       THEN Issue(u) /\ Written(r, 200)
       ELSE Fail(r, userError, "ErrInvalidCredentials") /\ UNCHANGED tokens
  /\ UNCHANGED <<accounts, roles>>

(* A token is good up to its end, whatever has become of the account since. *)
ParseUserID(u) == tokens[u] = "valid"

(* The middleware of every operation that is not public. A token that has   *)
(* expired is noticed here and nowhere else, so it expires here.            *)
authenticate(r) ==
  LET q == requests[r] IN
  /\ q.step = "authenticate"
  /\ \/ /\ ParseUserID(q.user)
        /\ IF q.op \in AdminOps THEN GoTo(r, "permit") ELSE Decode(r, q)
        /\ UNCHANGED tokens
     \/ /\ tokens' = [tokens EXCEPT ![q.user] = IF @ = "valid" THEN "expired" ELSE @]
        /\ Answer(r, 401)
  /\ UNCHANGED <<accounts, roles>>

(* Only an active account is found. *)
FindByID(u) == accounts[u] = "active"

(* GET /users/me. A disabled account keeps its token and is told 401 here. *)
gatewayCurrentUser(r) ==
  /\ At(r, "currentUser", "call")
  /\ IF FindByID(requests[r].user) THEN GoTo(r, "roles") ELSE Answer(r, 401)
  /\ UNCHANGED accountVars

(* The roles are read once more, for the answer. *)
UserRoles(r) ==
  /\ requests[r].step = "roles"
  /\ Answer(r, 200)
  /\ UNCHANGED accountVars

-----------------------------------------------------------------------------
(* Permissions and roles. *)

HasPermission(u, permission) == \E role \in roles[u] : permission \in Grants[role]

RequireLogin(r) ==
  /\ requests[r].step = "permit"
  /\ Decode(r, requests[r])
  /\ UNCHANGED accountVars

(* The roles are read anew for every request. *)
gatewayRequirePermission(r) ==
  LET q == requests[r] IN
  /\ q.step = "permit"
  /\ IF HasPermission(q.user, Permission[q.op]) THEN Decode(r, q) ELSE Answer(r, 403)
  /\ UNCHANGED accountVars

(* The service drops duplicates before the repository counts what it finds. *)
Requested(r) == Range(Arg(r).roles)

FindRoleIDs(codes) == codes \cap Roles

(* The checks of the transaction, before it deletes anything. *)
ReplaceUserRoles(r) ==
  IF accounts[Arg(r).target] = "absent" THEN Fail(r, userError, "ErrUserNotFound")
  ELSE IF FindRoleIDs(Requested(r)) # Requested(r)
         THEN Fail(r, userError, "ErrRoleAssignmentConflict")
         ELSE GoTo(r, "clear")

gatewayReplaceRoles(r) ==
  /\ At(r, "replaceRoles", "call")
  /\ ReplaceUserRoles(r)
  /\ UNCHANGED accountVars

(* Who else is between DELETE and COMMIT on the same user. *)
Rivals(r) ==
  {s \in Slots \ {r} : At(s, "replaceRoles", "assign") /\ Arg(s).target = Arg(r).target}

ClearRoles(r) ==
  LET u == Arg(r).target IN
  /\ At(r, "replaceRoles", "clear")
  /\ roles[u] = {} \/ Rivals(r) = {}
  /\ Set(r, [requests[r] EXCEPT !.step = "assign", !.got = roles[u]])
  /\ UNCHANGED accountVars

(* What is left of the user's rows once this transaction's DELETE counts. *)
Remaining(r) == roles[Arg(r).target] \ requests[r].got

AssignUnlocked(r) ==
  LET u == Arg(r).target IN
  /\ At(r, "replaceRoles", "assign")
  /\ roles' = [roles EXCEPT ![u] = Remaining(r) \cup Requested(r)]
  /\ Set(r, [requests[r] EXCEPT !.step = "roles", !.wrote = TRUE])
  /\ UNCHANGED <<accounts, tokens>>

(* The INSERTs and COMMIT. The primary key never refuses one of them, as no *)
(* rival has inserted since the DELETE.                                     *)
AssignRoles(r) ==
  LET u == Arg(r).target IN
  /\ At(r, "replaceRoles", "assign")
  /\ Requested(r) = {} \/ Rivals(r) = {}
  /\ roles' = [roles EXCEPT ![u] = Remaining(r) \cup Requested(r)]
  /\ Set(r, [requests[r] EXCEPT !.step = "roles", !.wrote = TRUE])
  /\ UNCHANGED <<accounts, tokens>>

(* Two INSERTs wait for each other's gap: InnoDB rolls one back. *)
RolesDeadlock(r) ==
  /\ At(r, "replaceRoles", "assign") /\ Requested(r) # {}
  /\ \E s \in Rivals(r) : Requested(s) # {}
  /\ Answer(r, 500)
  /\ UNCHANGED accountVars

AccountsStep(r) ==
  \/ gatewayRegister(r) \/ gatewayLogin(r) \/ authenticate(r) \/ gatewayCurrentUser(r)
  \/ UserRoles(r) \/ gatewayRequirePermission(r) \/ gatewayReplaceRoles(r)
  \/ ClearRoles(r) \/ AssignRoles(r) \/ RolesDeadlock(r)
=============================================================================
