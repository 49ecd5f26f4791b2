----------------------------- MODULE StaffRoles -----------------------------
(***************************************************************************)
(* Staff accounts, their roles and what a token lets them do:              *)
(* user_service.go, role_service.go, auth_service.go with their handlers,  *)
(* auth_middleware.go, and the seeding of roles at start-up.               *)
(*                                                                         *)
(* A token names an account and the slug of the role it had at login;      *)
(* every request reads that role again and asks for a permission. Then it  *)
(* reads what it is to change and writes the whole row, and nothing holds  *)
(* these steps together. Permissions stand for groups of the catalogue:    *)
(* "user" for user.*, "role" for role.*. An account's email is its own,    *)
(* and never used again.                                                   *)
(***************************************************************************)
EXTENDS Naturals

CONSTANTS
    Permissions,  \* groups of the permission catalogue
    Slugs,        \* slugs staff give to roles they create
    Passwords,    \* a hash stands for its password
    Workers,      \* requests being handled at the same time
    MaxId,        \* bound: the largest id of an account and of a role
    MaxRequests   \* bound: requests with a token

ASSUME StaffAssumption ==
    /\ {"user", "role"} \subseteq Permissions
    /\ "admin" \notin Slugs
    /\ MaxId \in Nat \ {0, 1} /\ MaxRequests \in Nat

VARIABLES
    roles,     \* the roles table, by id
    users,     \* the users table, by id
    last,      \* the auto-increment counters
    tokens,    \* tokens that were issued; one that expired is not used
    task,      \* what each worker is doing
    granted,   \* history: permissions that Administrators gave other roles
    assigned,  \* history: the role each account was said to be given last
    requests   \* requests so far

vars == <<roles, users, last, tokens, task, granted, assigned,
          requests>>

-----------------------------------------------------------------------------

Idle == [step |-> "idle"]

\* seedRoles creates this role, and seedAdminUser its first account.
AdminRole == [slug |-> "admin", perms |-> Permissions, system |-> TRUE]

\* The Administrator has logged in and created a role and an account that
\* has it.
Init ==
    /\ \E s \in Slugs, ps \in SUBSET Permissions :
          /\ roles = [r \in 1..2 |->
                        IF r = 1 THEN AdminRole
                        ELSE [slug |-> s, perms |-> ps, system |-> FALSE]]
          /\ granted = ps
    /\ \E k \in Passwords :
          users = [u \in 1..2 |-> [role |-> u, active |-> TRUE, password |-> k]]
    /\ last = [user |-> 2, role |-> 2]
    /\ tokens = {[user |-> 1, slug |-> "admin"]}
    /\ task = [w \in Workers |-> Idle]
    /\ assigned = [u \in 1..2 |-> u]
    /\ requests = 0

At(w, s) == task[w].step = s
Goto(w, t) == task' = [task EXCEPT ![w] = t]
Unchanged == UNCHANGED <<roles, users, last, tokens, granted, assigned>>
Step(w, s) == Goto(w, [task[w] EXCEPT !.step = s])
Finish(w) == Goto(w, Idle)

Put(table, id, row) ==
    [i \in DOMAIN table \cup {id} |-> IF i = id THEN row ELSE table[i]]
Without(table, id) == [i \in DOMAIN table \ {id} |-> table[i]]

WithSlug(s) == {r \in DOMAIN roles : roles[r].slug = s}

\* HasPermission of the role a token names, if there is one.
Owned(token) == UNION {roles[r].perms : r \in WithSlug(token.slug)}

IsAdmin(u) == u \in DOMAIN users /\ roles[users[u].role].slug = "admin"

-----------------------------------------------------------------------------
(* Login, and the permission each request asks for.                        *)

Login(u, k) ==
    /\ u \in DOMAIN users
    /\ users[u].password = k
    /\ users[u].active
    /\ tokens' = tokens \cup {[user |-> u, slug |-> roles[users[u].role].slug]}
    /\ UNCHANGED <<roles, users, last, task, granted, assigned, requests>>

\* AuthMiddleware.
Authenticated(w, token) ==
    /\ At(w, "idle")
    /\ token \in tokens
    /\ requests < MaxRequests

\* RequirePermission.
Permitted(w, token, p) == Authenticated(w, token) /\ p \in Owned(token)

Begin(w, t) ==
    /\ requests' = requests + 1
    /\ Goto(w, t)
    /\ Unchanged

\* UserController: the account and what is to become of it.
CreateUser(w, token, r, k) ==
    Begin(w, [step |-> "assignable", kind |-> "create", by |-> token,
              role |-> r, password |-> k])

UpdateUser(w, u, a) ==
    Begin(w, [step |-> "read", kind |-> "update", user |-> u, active |-> a])

ResetPassword(w, u, k) ==
    Begin(w, [step |-> "read", kind |-> "reset", user |-> u, password |-> k])

AssignRole(w, token, u, r) ==
    Begin(w, [step |-> "assignable", kind |-> "assign", by |-> token,
              user |-> u, role |-> r])

DeleteUser(w, u) == Begin(w, [step |-> "read", kind |-> "delete", user |-> u])

\* ChangePassword is for every token; `old` is the password entered as the
\* current one.
ChangePassword(w, token, old, k) ==
    Begin(w, [step |-> "read", kind |-> "password", user |-> token.user,
              old |-> old, password |-> k])

CreateRole(w, token, s, ps) ==
    Begin(w, [step |-> "allowed", kind |-> "create role", by |-> token,
              slug |-> s, perms |-> ps])

UpdateRole(w, token, r, ps) ==
    Begin(w, [step |-> "read role", kind |-> "update role", by |-> token,
              role |-> r, perms |-> ps])

DeleteRole(w, r) ==
    Begin(w, [step |-> "read role", kind |-> "delete role", role |-> r])

-----------------------------------------------------------------------------
(* Accounts.                                                               *)

\* Mutant of MayAssign: any role that exists may be handed out.
MayAssignAny(token, r) == r \in DOMAIN roles

\* canAssignRole.
MayAssign(token, r) ==
    /\ r \in DOMAIN roles
    /\ roles[r].slug = "admin" => token.slug = "admin"

\* Create goes on to insert, AssignRole to read the account.
CanAssign(w) ==
    /\ At(w, "assignable")
    /\ LET t == task[w] IN
       IF MayAssign(t.by, t.role)
       THEN Step(w, IF t.kind = "create" THEN "insert" ELSE "read")
       ELSE Finish(w)
    /\ UNCHANGED requests
    /\ Unchanged

\* Users.Create; the foreign key asks for the role.
InsertUser(w) ==
    /\ At(w, "insert")
    /\ task[w].role \in DOMAIN roles
    /\ LET u == last.user + 1
           r == task[w].role
       IN /\ u <= MaxId
          /\ users' = Put(users, u, [role |-> r, active |-> TRUE,
                                     password |-> task[w].password])
          /\ assigned' = Put(assigned, u, r)
          /\ last' = [last EXCEPT !.user = u]
    /\ Finish(w)
    /\ UNCHANGED <<roles, tokens, granted, requests>>

\* Mutant of Refused: an Administrator is not refused to be deleted.
RefusedOthers(t, row) ==
    \/ t.kind = "assign" /\ roles[row.role].slug = "admin" /\ t.role # row.role
    \/ t.kind = "password" /\ t.old # row.password

\* What the handlers refuse when they have read the account.
Refused(t, row) ==
    LET admin == roles[row.role].slug = "admin" IN
    \/ t.kind = "delete" /\ admin
    \/ t.kind = "assign" /\ admin /\ t.role # row.role
    \/ t.kind = "password" /\ t.old # row.password

\* Mutant of Changed: a new password enables the account.
ChangedEnabled(t, row) ==
    CASE t.kind = "update"   -> [row EXCEPT !.active = t.active]
      [] t.kind \in {"reset", "password"} ->
            [row EXCEPT !.password = t.password, !.active = TRUE]
      [] t.kind = "assign"   -> [row EXCEPT !.role = t.role]

\* What each request is to change.
Changed(t, row) ==
    CASE t.kind = "update"   -> [row EXCEPT !.active = t.active]
      [] t.kind \in {"reset", "password"} -> [row EXCEPT !.password = t.password]
      [] t.kind = "assign"   -> [row EXCEPT !.role = t.role]

\* FindByIDWithRole: `row` is the account as it is going to be saved, `own`
\* the role it came with. The code reads the role in a statement after the
\* account's; an account deleted between the two, and then its role, is left
\* out (a save of it would fail for want of a role, or as SaveUser says).
ReadUser(w) ==
    /\ At(w, "read")
    /\ LET t == task[w] IN
       IF t.user \notin DOMAIN users \/ Refused(t, users[t.user])
       THEN Finish(w)
       ELSE LET row == users[t.user] IN
            IF t.kind = "delete" THEN Step(w, "delete")
            ELSE Goto(w, [step |-> "save", kind |-> t.kind, user |-> t.user,
                          row |-> Changed(t, row),
                          own |-> [id |-> row.role, row |-> roles[row.role]]])
    /\ UNCHANGED requests
    /\ Unchanged

DeleteRow(w) ==
    /\ At(w, "delete")
    /\ users' = Without(users, task[w].user)
    /\ assigned' = Without(assigned, task[w].user)
    /\ Finish(w)
    /\ UNCHANGED <<roles, last, tokens, granted, requests>>

\* What Save makes of the roles: a role that came with the account is
\* inserted again unless its id or its slug is there.
RolesAfterSave(own) ==
    IF own.id \in DOMAIN roles \/ WithSlug(own.row.slug) # {} THEN roles
    ELSE Put(roles, own.id, own.row)

\* Save takes the role's id from the role that came with the account, and
\* inserts a row that is missing, enabled by the column's default.
SavedRow(t) ==
    [t.row EXCEPT !.role = t.own.id, !.active = @ \/ t.user \notin DOMAIN users]

\* Users.Update: gorm's Save of the account with its role.
SaveUser(w) ==
    /\ At(w, "save")
    /\ LET t == task[w] IN
       /\ t.own.id \in DOMAIN RolesAfterSave(t.own)
       /\ roles' = RolesAfterSave(t.own)
       /\ users' = Put(users, t.user, SavedRow(t))
       /\ assigned' = Put(assigned, t.user,
                          IF t.kind = "assign" THEN t.row.role
                          ELSE IF t.user \in DOMAIN users THEN assigned[t.user]
                          ELSE t.own.id)
    /\ Finish(w)
    /\ UNCHANGED <<last, tokens, granted, requests>>

-----------------------------------------------------------------------------
(* Roles.                                                                  *)

ReadRole(w) ==
    /\ At(w, "read role")
    /\ LET t == task[w] IN
       IF \/ t.role \notin DOMAIN roles
          \/ t.kind = "delete role" /\ roles[t.role].system
       THEN Finish(w)
       ELSE IF t.kind = "delete role" THEN Step(w, "delete role")
       ELSE Goto(w, [step |-> "allowed", kind |-> t.kind, by |-> t.by,
                     role |-> t.role, perms |-> t.perms,
                     row |-> [roles[t.role] EXCEPT !.perms = t.perms]])
    /\ UNCHANGED requests
    /\ Unchanged

\* Mutant of Disallowed: the caller's own permissions are not asked for.
DisallowedNone(t) == {}

\* disallowedPermissions; no role is given "*".
Disallowed(t) == t.perms \ Owned(t.by)

Allowed(w) ==
    /\ At(w, "allowed")
    /\ LET t == task[w] IN
       IF WithSlug(t.by.slug) = {} \/ Disallowed(t) # {} THEN Finish(w)
       ELSE Step(w, IF t.kind = "create role" THEN "insert role" ELSE "save role")
    /\ UNCHANGED requests
    /\ Unchanged

Grant(token, ps) ==
    granted' = IF token.slug = "admin" THEN granted \cup ps ELSE granted

\* Roles.Create; slugs are unique.
InsertRole(w) ==
    /\ At(w, "insert role")
    /\ WithSlug(task[w].slug) = {}
    /\ LET t == task[w]
           r == last.role + 1
       IN /\ r <= MaxId
          /\ roles' = Put(roles, r, [slug |-> t.slug, perms |-> t.perms,
                                     system |-> FALSE])
          /\ last' = [last EXCEPT !.role = r]
          /\ Grant(t.by, t.perms)
    /\ Finish(w)
    /\ UNCHANGED <<users, tokens, assigned, requests>>

\* Roles.Update: Save inserts a row that is missing, or overwrites the one
\* that has its slug by now.
SaveRole(w) ==
    /\ At(w, "save role")
    /\ LET t == task[w]
           taken == IF t.role \in DOMAIN roles THEN {t.role}
                    ELSE WithSlug(t.row.slug)
       IN /\ \E r \in IF taken = {} THEN {t.role} ELSE taken :
                roles' = Put(roles, r, t.row)
          /\ IF t.row.slug = "admin" THEN UNCHANGED granted
             ELSE Grant(t.by, t.perms)
    /\ Finish(w)
    /\ UNCHANGED <<users, last, tokens, assigned, requests>>

\* The foreign key of users keeps a role that is in use.
DeleteRoleRow(w) ==
    /\ At(w, "delete role")
    /\ \A u \in DOMAIN users : users[u].role # task[w].role
    /\ roles' = Without(roles, task[w].role)
    /\ Finish(w)
    /\ UNCHANGED <<users, last, tokens, granted, assigned, requests>>

\* A statement fails, or an index or the foreign key refuses it.
Fail(w) ==
    /\ ~At(w, "idle")
    /\ Finish(w)
    /\ UNCHANGED requests
    /\ Unchanged

\* A restart drops the requests; seedRoles gives the Administrator role the
\* whole catalogue again. There is an account, so seedAdminUser does nothing.
Restart ==
    /\ task' = [w \in Workers |-> Idle]
    /\ roles' = [r \in DOMAIN roles |->
                   IF roles[r].slug = "admin"
                   THEN [roles[r] EXCEPT !.perms = Permissions] ELSE roles[r]]
    /\ UNCHANGED <<users, last, tokens, granted, assigned, requests>>

-----------------------------------------------------------------------------

UserRequest(w, token) ==
    /\ Permitted(w, token, "user")
    /\ \/ \E r \in DOMAIN roles, k \in Passwords : CreateUser(w, token, r, k)
       \/ \E u \in DOMAIN users :
             \/ \E a \in BOOLEAN : UpdateUser(w, u, a)
             \/ \E k \in Passwords : ResetPassword(w, u, k)
             \/ \E r \in DOMAIN roles : AssignRole(w, token, u, r)
             \/ DeleteUser(w, u)

RoleRequest(w, token) ==
    /\ Permitted(w, token, "role")
    /\ \/ \E s \in Slugs, ps \in SUBSET Permissions : CreateRole(w, token, s, ps)
       \/ \E r \in DOMAIN roles :
             \/ \E ps \in SUBSET Permissions : UpdateRole(w, token, r, ps)
             \/ DeleteRole(w, r)

OwnRequest(w, token) ==
    /\ Authenticated(w, token)
    /\ \E old, k \in Passwords : ChangePassword(w, token, old, k)

Handle(w) ==
    \/ CanAssign(w) \/ InsertUser(w) \/ ReadUser(w) \/ DeleteRow(w) \/ SaveUser(w)
    \/ ReadRole(w) \/ Allowed(w) \/ InsertRole(w) \/ SaveRole(w)
    \/ DeleteRoleRow(w) \/ Fail(w)

Next ==
    \/ \E u \in DOMAIN users, k \in Passwords : Login(u, k)
    \/ \E w \in Workers, token \in tokens :
          UserRequest(w, token) \/ RoleRequest(w, token) \/ OwnRequest(w, token)
    \/ \E w \in Workers : Handle(w)
    \/ Restart

Spec == Init /\ [][Next]_vars

-----------------------------------------------------------------------------

Role == [slug: Slugs \cup {"admin"}, perms: SUBSET Permissions, system: BOOLEAN]
User == [role: DOMAIN roles, active: BOOLEAN, password: Passwords]

\* The tables are well formed: slugs are unique and accounts have roles.
TypeOK ==
    /\ \A r \in DOMAIN roles : r \in 1..last.role /\ roles[r] \in Role
    /\ \A u \in DOMAIN users : u \in 1..last.user /\ users[u] \in User
    /\ \A r, q \in DOMAIN roles : roles[r].slug = roles[q].slug => r = q
    /\ last.user <= MaxId /\ last.role <= MaxId
    /\ requests <= MaxRequests

\* However requests overlap, a permission is on another role only if a
\* request of an Administrator once put it there (disallowedPermissions:
\* "nobody can create or edit a role with more power than they themselves
\* have").
NothingFromNowhere ==
    \A r \in DOMAIN roles : roles[r].slug # "admin" => roles[r].perms \subseteq granted

\* A token that says "admin", and so may hand that role out, is of an
\* account that is an Administrator now (canAssignRole asks the token).
AdminTokensAreTrue == \A t \in tokens : t.slug = "admin" => IsAdmin(t.user)

StaffInv == TypeOK /\ NothingFromNowhere /\ AdminTokensAreTrue

\* "Only an existing Administrator can grant the Administrator role", and no
\* Administrator is deleted or moved to another role (user_service.go), in
\* whatever order the checks and the writes of several requests run.
AdministratorsStay ==
    [][\A u \in DOMAIN users \cup DOMAIN users' :
          /\ IsAdmin(u) => IsAdmin(u)'
          /\ ~IsAdmin(u) /\ IsAdmin(u)' =>
                \E w \in Workers : /\ At(w, "insert") /\ task'[w] = Idle
                                   /\ IsAdmin(task[w].by.user)]_<<users, roles>>

\* What was last said to be an account's role is its role (AssignRole
\* "changes which role a user has").
RoleIsAssigned == \A u \in DOMAIN users : users[u].role = assigned[u]

\* The column of users a request is for.
Column(kind) ==
    CASE kind = "update" -> "active"
      [] kind = "assign" -> "role"
      [] kind \in {"reset", "password"} -> "password"

\* A save that changes the accounts gives the one column it is for the value
\* that was asked, in the row as it stands, and leaves all else alone; it
\* brings no row back that was deleted. A role keeps its slug. (That the
\* save of AssignRole changes nothing at all is RoleIsAssigned's subject.)
SavesOneChange ==
    \A w \in Workers :
        LET t == task[w] IN
        /\ (At(w, "save") /\ At(w, "idle")' /\ users' # users) =>
              /\ t.user \in DOMAIN users
              /\ users' = [users EXCEPT
                    ![t.user][Column(t.kind)] = t.row[Column(t.kind)]]
              /\ roles' = roles
        /\ (At(w, "save role") /\ At(w, "idle")') =>
              /\ DOMAIN roles' = DOMAIN roles
              /\ \A r \in DOMAIN roles \ ({t.role} \cup WithSlug("admin")) :
                    roles'[r] = roles[r]
=============================================================================
