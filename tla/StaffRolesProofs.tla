-------------------------- MODULE StaffRolesProofs --------------------------
(***************************************************************************)
(* Proofs about StaffRoles, for any number of overlapping requests, any    *)
(* permissions and any accounts and roles: no role gets a permission that  *)
(* an Administrator did not give, Administrators are made by               *)
(* Administrators only and stay, and while requests are about different    *)
(* accounts and roles no save undoes another.                              *)
(*                                                                         *)
(* A request works on copies, of a row, of the role an account came with   *)
(* and of what a check said. What makes them harmless is what cannot       *)
(* change any more: an id keeps its slug, in the table and in every copy   *)
(* of a role, 1 is the Administrator role, and an account that has it is   *)
(* neither deleted nor moved. In the regime "apart" a request moreover     *)
(* holds the row as it stands.                                             *)
(***************************************************************************)
EXTENDS MCStaffRoles, TLAPS

Token == [user: Nat, slug: Slugs \cup {"admin"}]
Account == [role: Nat, active: BOOLEAN, password: Passwords]

CreateTask == [step: {"assignable", "insert"}, kind: {"create"}, by: Token,
               role: Nat, password: Passwords]
AssignTask == [step: {"assignable", "read"}, kind: {"assign"}, by: Token,
               user: Nat, role: Nat]
UpdateTask == [step: {"read"}, kind: {"update"}, user: Nat, active: BOOLEAN]
ResetTask == [step: {"read"}, kind: {"reset"}, user: Nat, password: Passwords]
PasswordTask == [step: {"read"}, kind: {"password"}, user: Nat, old: Passwords,
                 password: Passwords]
DeleteTask == [step: {"read", "delete"}, kind: {"delete"}, user: Nat]

SaveKinds == {"update", "reset", "password", "assign"}
SaveTask == [step: {"save"}, kind: SaveKinds, user: Nat, row: Account,
             own: [id: Nat, row: Role]]

NewRoleTask == [step: {"allowed", "insert role"}, kind: {"create role"}, by: Token,
                slug: Slugs, perms: SUBSET Permissions]
FindRoleTask == [step: {"read role"}, kind: {"update role"}, by: Token, role: Nat,
                 perms: SUBSET Permissions]
SaveRoleTask == [step: {"allowed", "save role"}, kind: {"update role"}, by: Token,
                 role: Nat, perms: SUBSET Permissions, row: Role]
DropRoleTask == [step: {"read role", "delete role"}, kind: {"delete role"},
                 role: Nat]

Task ==
    {Idle} \cup CreateTask \cup AssignTask \cup UpdateTask \cup ResetTask
    \cup PasswordTask \cup DeleteTask \cup SaveTask \cup NewRoleTask
    \cup FindRoleTask \cup SaveRoleTask \cup DropRoleTask

\* Tables R and U with counters L are well formed.
RolesOK(R, L) ==
    /\ R \in [DOMAIN R -> Role]
    /\ \A r \in DOMAIN R : r \in 1..L.role
    /\ \A r, q \in DOMAIN R : R[r].slug = R[q].slug => r = q

UsersOK(U, R, L) ==
    /\ U \in [DOMAIN U -> Account]
    /\ \A u \in DOMAIN U : u \in 1..L.user /\ U[u].role \in DOMAIN R

Types ==
    /\ RolesOK(roles, last)
    /\ UsersOK(users, roles, last)
    /\ last \in [user: 0..MaxId, role: 0..MaxId]
    /\ tokens \in SUBSET Token
    /\ task \in [Workers -> Task]
    /\ requests \in 0..MaxRequests

\* 1 is the Administrator role.
AdminFirst(R) == 1 \in DOMAIN R /\ R[1].slug = "admin" /\ R[1].system

\* Account u of table U is an Administrator.
Adm(U, u) == u \in DOMAIN U /\ U[u].role = 1

TokensInv == \A k \in tokens : k.slug = "admin" => Adm(users, k.user)

\* Only Administrators have given the permissions in table R; g stands for
\* `granted`.
Given(R, g) == \A r \in DOMAIN R : r # 1 => R[r].perms \subseteq g

\* What a request holds; U stands for `users`, L for `last`, K for `tokens`
\* and g for `granted`.
TaskOK(t, U, L, K, g) ==
    /\ t.step = "assignable" => t.by \in K
    /\ t.step = "insert" => t.by \in K /\ (t.role = 1 => t.by.slug = "admin")
    /\ t.step = "delete" => t.user \in 1..L.user /\ ~Adm(U, t.user)
    /\ t.step = "save" => /\ t.user \in 1..L.user
                          /\ t.own.id \in 1..L.role
                          /\ t.own.id = 1 <=> Adm(U, t.user)
                          /\ t.own.id = 1 <=> t.own.row.slug = "admin"
                          /\ t.own.id # 1 => t.own.row.perms \subseteq g
    /\ t.step = "delete role" => t.role # 1
    /\ t.step \in {"allowed", "save role"} /\ t.kind = "update role" =>
          /\ t.role \in 1..L.role
          /\ t.role = 1 <=> t.row.slug = "admin"
          /\ t.role = 1 => t.row.system
          /\ t.row.perms = t.perms
    /\ t.step \in {"insert role", "save role"} =>
          (t.by.slug # "admin" => t.perms \subseteq g)

HeldInv == \A w \in Workers : TaskOK(task[w], users, last, tokens, granted)

\* A request holds a copy of role i, with slug s.
Holds(t, i, s) ==
    \/ t.step = "save" /\ t.own.id = i /\ t.own.row.slug = s
    \/ /\ t.step \in {"allowed", "save role"} /\ t.kind = "update role"
       /\ t.role = i /\ t.row.slug = s

\* Role i has slug s, in table R or in a copy that one of the tasks k holds.
SlugIs(R, k, i, s) ==
    \/ i \in DOMAIN R /\ R[i].slug = s
    \/ \E w \in Workers : Holds(k[w], i, s)

\* An id keeps its slug.
SlugsInv ==
    \A i \in 1..MaxId : \A s, z \in Slugs \cup {"admin"} :
        SlugIs(roles, task, i, s) /\ SlugIs(roles, task, i, z) => s = z

IInv ==
    /\ Types /\ AdminFirst(roles) /\ TokensInv /\ Given(roles, granted)
    /\ HeldInv /\ SlugsInv

-----------------------------------------------------------------------------
\* A step of a request and its kind say what the request holds.
LEMMA TaskOfStep ==
    ASSUME NEW t \in Task
    PROVE  /\ t.step = "assignable" => t \in CreateTask \cup AssignTask
           /\ t.step = "insert" => t \in CreateTask
           /\ t.step = "read" => t \in AssignTask \cup UpdateTask \cup ResetTask
                                       \cup PasswordTask \cup DeleteTask
           /\ t.step = "delete" => t \in DeleteTask
           /\ t.step = "save" => t \in SaveTask
           /\ t.step = "read role" => t \in FindRoleTask \cup DropRoleTask
           /\ t.step = "allowed" => t \in NewRoleTask \cup SaveRoleTask
           /\ t.step = "insert role" => t \in NewRoleTask
           /\ t.step = "save role" => t \in SaveRoleTask
           /\ t.step = "delete role" => t \in DropRoleTask
<1>1. /\ t \in CreateTask => t.step \in {"assignable", "insert"}
      /\ t \in AssignTask => t.step \in {"assignable", "read"}
    BY DEF CreateTask, AssignTask
<1>2. /\ t \in UpdateTask \cup ResetTask \cup PasswordTask => t.step = "read"
      /\ t \in DeleteTask => t.step \in {"read", "delete"}
    BY DEF UpdateTask, ResetTask, PasswordTask, DeleteTask
<1>3. /\ t \in SaveTask => t.step = "save"
      /\ t \in NewRoleTask => t.step \in {"allowed", "insert role"}
      /\ t \in FindRoleTask => t.step = "read role"
    BY DEF SaveTask, NewRoleTask, FindRoleTask
<1>4. /\ t \in SaveRoleTask => t.step \in {"allowed", "save role"}
      /\ t \in DropRoleTask => t.step \in {"read role", "delete role"}
    BY DEF SaveRoleTask, DropRoleTask
<1>5. t = Idle => t.step = "idle"
    BY DEF Idle
<1> QED BY <1>1, <1>2, <1>3, <1>4, <1>5 DEF Task

\* The Administrator role is the one with its slug, and Administrators have it.
LEMMA AdminIsFirst ==
    ASSUME Types, AdminFirst(roles)
    PROVE  /\ \A r \in DOMAIN roles : roles[r].slug = "admin" <=> r = 1
           /\ \A u : IsAdmin(u) <=> Adm(users, u)
<1>1. \A r \in DOMAIN roles : roles[r].slug = "admin" <=> r = 1
    BY DEF Types, RolesOK, AdminFirst
<1>2. ASSUME NEW u PROVE IsAdmin(u) <=> Adm(users, u)
    BY <1>1 DEF Types, UsersOK, IsAdmin, Adm
<1> QED BY <1>1, <1>2

LEMMA InvParts ==
    ASSUME IInv
    PROVE  StaffInv
<1>1. Types /\ AdminFirst(roles) /\ TokensInv /\ Given(roles, granted)
    BY DEF IInv
<1>2. TypeOK
    BY <1>1, StaffAssumption
       DEF Types, RolesOK, UsersOK, TypeOK, Role, User, Account
<1>3. NothingFromNowhere
    BY <1>1, AdminIsFirst DEF NothingFromNowhere, Given, Types, RolesOK
<1>4. AdminTokensAreTrue
    BY <1>1, AdminIsFirst DEF AdminTokensAreTrue, TokensInv
<1> QED BY <1>2, <1>3, <1>4 DEF StaffInv

LEMMA StaffInit == Init => IInv
<1> SUFFICES ASSUME Init PROVE IInv
    OBVIOUS
<1>1. PICK s \in Slugs, ps \in SUBSET Permissions :
          /\ roles = [r \in 1..2 |->
                        IF r = 1 THEN AdminRole
                        ELSE [slug |-> s, perms |-> ps, system |-> FALSE]]
          /\ granted = ps
    BY DEF Init
<1>2. PICK k \in Passwords :
          users = [u \in 1..2 |-> [role |-> u, active |-> TRUE, password |-> k]]
    BY DEF Init
<1>3. AdminRole \in Role /\ AdminRole.slug = "admin" /\ AdminRole.system
    BY DEF AdminRole, Role
<1>4. [slug |-> s, perms |-> ps, system |-> FALSE] \in Role
    BY DEF Role
<1>5. RolesOK(roles, last)
    <2>1. DOMAIN roles = 1..2 /\ last.role = 2
        BY <1>1 DEF Init
    <2>2. roles[1] = AdminRole /\ roles[2] = [slug |-> s, perms |-> ps, system |-> FALSE]
        BY <1>1
    <2>3. roles[1].slug # roles[2].slug
        BY <2>2, <1>3, StaffAssumption
    <2>4. roles \in [1..2 -> Role]
        BY <1>1, <1>3, <1>4
    <2> QED BY <2>1, <2>3, <2>4 DEF RolesOK
<1>6. UsersOK(users, roles, last)
    BY <1>1, <1>2 DEF Init, UsersOK, Account
<1>7. Types
    <2>1. last \in [user: 0..MaxId, role: 0..MaxId]
        <3>1. 2 \in 0..MaxId
            BY StaffAssumption
        <3> QED BY <3>1 DEF Init
    <2>2. tokens \in SUBSET Token
        BY DEF Init, Token
    <2>3. task \in [Workers -> Task]
        BY DEF Init, Task
    <2>4. requests \in 0..MaxRequests
        BY StaffAssumption DEF Init
    <2> QED BY <1>5, <1>6, <2>1, <2>2, <2>3, <2>4 DEF Types
<1>8. AdminFirst(roles)
    BY <1>1, <1>3 DEF AdminFirst
<1>9. TokensInv
    BY <1>2 DEF Init, TokensInv, Adm
<1>10. Given(roles, granted)
    BY <1>1 DEF Given
<1>11. \A w \in Workers : task[w].step = "idle"
    BY DEF Init, Idle
<1>12. HeldInv
    BY <1>11 DEF HeldInv, TaskOK
<1>13. SlugsInv
    BY <1>11 DEF SlugsInv, SlugIs, Holds
<1> QED BY <1>7, <1>8, <1>9, <1>10, <1>12, <1>13 DEF IInv

-----------------------------------------------------------------------------
(* Steps that leave the tables as they are, and steps that end a request.  *)

\* A copy stays good while Administrators stay Administrators.
LEMMA CopyStays ==
    ASSUME NEW t \in Task, NEW U, NEW V, NEW L, NEW M, NEW K, NEW J, NEW g, NEW h,
           TaskOK(t, U, L, K, g),
           L.user \in Nat, L.role \in Nat, M.user \in Nat, M.role \in Nat,
           L.user <= M.user, L.role <= M.role,
           \A u \in 1..L.user : Adm(V, u) <=> Adm(U, u),
           K \subseteq J, g \subseteq h
    PROVE  TaskOK(t, V, M, J, h)
<1>1. t.step = "save" => t \in SaveTask
    BY TaskOfStep
<1>2. t.step = "delete" => t \in DeleteTask
    BY TaskOfStep
<1>3. t.step = "save" => /\ t.user \in 1..M.user
                         /\ t.own.id \in 1..M.role
                         /\ t.own.id = 1 <=> Adm(V, t.user)
                         /\ t.own.id = 1 <=> t.own.row.slug = "admin"
                         /\ t.own.id # 1 => t.own.row.perms \subseteq h
    BY <1>1 DEF TaskOK, SaveTask
<1>4. t.step = "delete" => t.user \in 1..M.user /\ ~Adm(V, t.user)
    BY <1>2 DEF TaskOK, DeleteTask
<1>5. t.step \in {"allowed", "save role"} /\ t.kind = "update role" =>
          /\ t.role \in 1..M.role
          /\ t.role = 1 <=> t.row.slug = "admin"
          /\ t.role = 1 => t.row.system
          /\ t.row.perms = t.perms
    <2>1. t.step \in {"allowed", "save role"} /\ t.kind = "update role" =>
              /\ t.role \in 1..L.role
              /\ t.role = 1 <=> t.row.slug = "admin"
              /\ t.role = 1 => t.row.system
              /\ t.row.perms = t.perms
        BY DEF TaskOK
    <2>2. \A i \in 1..L.role : i \in 1..M.role
        OBVIOUS
    <2> HIDE DEF TaskOK
    <2> QED BY <2>1, <2>2
<1>6. t.step \in {"insert role", "save role"} =>
          (t.by.slug # "admin" => t.perms \subseteq h)
    BY DEF TaskOK
<1>7. /\ t.step = "assignable" => t.by \in J
      /\ t.step = "insert" => t.by \in J /\ (t.role = 1 => t.by.slug = "admin")
      /\ t.step = "delete role" => t.role # 1
    BY DEF TaskOK
<1> QED BY <1>3, <1>4, <1>5, <1>6, <1>7 DEF TaskOK

LEMMA QuietStep ==
    ASSUME IInv, NEW w \in Workers, NEW t \in Task, Goto(w, t), Unchanged,
           requests' \in 0..MaxRequests,
           TaskOK(t, users, last, tokens, granted),
           \A i, s : Holds(t, i, s) => SlugIs(roles, task, i, s)
    PROVE  IInv' /\ \A u : Adm(users', u) <=> Adm(users, u)
<1> USE DEF Unchanged
<1>1. task \in [Workers -> Task] /\ task' = [task EXCEPT ![w] = t]
    BY DEF IInv, Types, Goto
<1>2. \A v \in Workers : task'[v] = IF v = w THEN t ELSE task[v]
    BY <1>1
<1>3. Types'
    <2>1. task' \in [Workers -> Task]
        BY <1>1
    <2> QED BY <2>1 DEF IInv, Types
<1>4. HeldInv'
    <2>1. \A v \in Workers : TaskOK(task'[v], users, last, tokens, granted)
        BY <1>2 DEF IInv, HeldInv
    <2> QED BY <2>1 DEF HeldInv
<1>5. SlugsInv'
    <2>1. \A i, s : SlugIs(roles, task', i, s) => SlugIs(roles, task, i, s)
        BY <1>2 DEF SlugIs
    <2>2. SlugsInv
        BY DEF IInv
    <2>3. \A i \in 1..MaxId : \A s, z \in Slugs \cup {"admin"} :
              SlugIs(roles, task', i, s) /\ SlugIs(roles, task', i, z) => s = z
        BY <2>1, <2>2 DEF SlugsInv
    <2> QED BY <2>3 DEF SlugsInv
<1>6. AdminFirst(roles') /\ TokensInv' /\ Given(roles', granted')
    BY DEF IInv, TokensInv
<1>7. \A u : Adm(users', u) <=> Adm(users, u)
    OBVIOUS
<1> QED BY <1>3, <1>4, <1>5, <1>6, <1>7 DEF IInv

\* A request ends with a write that keeps every slug with its id, or adds a
\* new id.
LEMMA EndStep ==
    ASSUME IInv, NEW w \in Workers, Finish(w),
           UNCHANGED <<tokens, requests>>,
           RolesOK(roles', last'), UsersOK(users', roles', last'),
           last' \in [user: 0..MaxId, role: 0..MaxId],
           last.user <= last'.user, last.role <= last'.role,
           AdminFirst(roles'), Given(roles', granted'), granted \subseteq granted',
           \A u \in 1..last.user : Adm(users', u) <=> Adm(users, u),
           \A i \in DOMAIN roles' :
               i = last.role + 1 \/ SlugIs(roles, task, i, roles'[i].slug)
    PROVE  IInv'
<1>1. task \in [Workers -> Task] /\ task' = [task EXCEPT ![w] = Idle]
    BY DEF IInv, Types, Finish, Goto
<1>2. \A v \in Workers : task'[v] = IF v = w THEN Idle ELSE task[v]
    BY <1>1
<1>3. task' \in [Workers -> Task]
    BY <1>1 DEF Task
<1>4. Types'
    BY <1>3 DEF IInv, Types
<1>5. /\ last \in [user: 0..MaxId, role: 0..MaxId]
      /\ last.user \in Nat /\ last.role \in Nat
      /\ last'.user \in Nat /\ last'.role \in Nat
    BY StaffAssumption DEF IInv, Types
<1>6. HeldInv'
    <2>1. ASSUME NEW v \in Workers
          PROVE  TaskOK(task'[v], users', last', tokens', granted')
        <3>1. CASE v = w
            <4>1. task'[v] = Idle
                BY <3>1, <1>2
            <4> QED BY <4>1 DEF Idle, TaskOK
        <3>2. CASE v # w
            <4>1. task'[v] = task[v] /\ task[v] \in Task
                BY <3>2, <1>1, <1>2
            <4>2. TaskOK(task[v], users, last, tokens, granted)
                BY DEF IInv, HeldInv
            <4>3. TaskOK(task[v], users', last', tokens', granted')
                BY <4>1, <4>2, <1>5, CopyStays
            <4> QED BY <4>1, <4>3
        <3> QED BY <3>1, <3>2
    <2> QED BY <2>1 DEF HeldInv
<1>7. TokensInv'
    <2>1. \A k \in tokens : k.slug = "admin" => k.user \in 1..last.user
        BY DEF IInv, TokensInv, Adm, Types, UsersOK
    <2>2. TokensInv
        BY DEF IInv
    <2> QED BY <2>1, <2>2 DEF TokensInv
<1>8. SlugsInv'
    <2>1. ASSUME NEW i \in 1..MaxId, NEW s, SlugIs(roles', task', i, s)
          PROVE  \/ SlugIs(roles, task, i, s)
                 \/ i = last.role + 1 /\ i \in DOMAIN roles' /\ roles'[i].slug = s
        <3>1. ~Holds(Idle, i, s)
            BY DEF Holds, Idle
        <3>2. \A v \in Workers : Holds(task'[v], i, s) => Holds(task[v], i, s)
            BY <1>2, <3>1
        <3> QED BY <2>1, <3>2 DEF SlugIs
    <2>2. ASSUME NEW s, SlugIs(roles, task, last.role + 1, s) PROVE FALSE
        <3>1. last.role + 1 \notin DOMAIN roles
            BY <1>5 DEF IInv, Types, RolesOK
        <3>2. PICK v \in Workers : Holds(task[v], last.role + 1, s)
            BY <2>2, <3>1 DEF SlugIs
        <3>3. TaskOK(task[v], users, last, tokens, granted)
            BY DEF IInv, HeldInv
        <3>4. last.role + 1 \in 1..last.role
            BY <3>2, <3>3 DEF Holds, TaskOK
        <3> QED BY <3>4, <1>5
    <2>3. SlugsInv
        BY DEF IInv
    <2>4. ASSUME NEW i \in 1..MaxId, NEW s \in Slugs \cup {"admin"},
                 NEW z \in Slugs \cup {"admin"},
                 SlugIs(roles', task', i, s), SlugIs(roles', task', i, z)
          PROVE  s = z
        <3>1. CASE i = last.role + 1
            <4>1. roles'[i].slug = s /\ roles'[i].slug = z
                BY <3>1, <2>1, <2>2, <2>4
            <4> QED BY <4>1
        <3>2. CASE i # last.role + 1
            <4>1. SlugIs(roles, task, i, s) /\ SlugIs(roles, task, i, z)
                BY <3>2, <2>1, <2>4
            <4> QED BY <4>1, <2>3 DEF SlugsInv
        <3> QED BY <3>1, <3>2
    <2> QED BY <2>4 DEF SlugsInv
<1> QED BY <1>4, <1>6, <1>7, <1>8 DEF IInv
-----------------------------------------------------------------------------
(* Requests begin, and check what they ask for.                            *)

LEMMA BeginStep ==
    ASSUME IInv, NEW w \in Workers, NEW t \in Task, Begin(w, t),
           requests < MaxRequests,
           TaskOK(t, users, last, tokens, granted),
           \A i, s : ~Holds(t, i, s)
    PROVE  IInv' /\ \A u : Adm(users', u) <=> Adm(users, u)
<1>1. requests' \in 0..MaxRequests
    BY StaffAssumption DEF Begin, IInv, Types
<1>2. Goto(w, t) /\ Unchanged
    BY DEF Begin
<1> QED BY <1>1, <1>2, QuietStep

LEMMA UserRequestStep ==
    ASSUME IInv, NEW w \in Workers, NEW token \in tokens, UserRequest(w, token)
    PROVE  IInv' /\ \A u : Adm(users', u) <=> Adm(users, u)
<1>1. requests < MaxRequests
    BY DEF UserRequest, Permitted, Authenticated
<1>2. token \in Token
    BY DEF IInv, Types
<1>3. /\ \A r \in DOMAIN roles : r \in Nat
      /\ \A u \in DOMAIN users : u \in Nat
    BY DEF IInv, Types, RolesOK, UsersOK
<1>4. CASE \E r \in DOMAIN roles, k \in Passwords : CreateUser(w, token, r, k)
    <2>1. PICK r \in DOMAIN roles, k \in Passwords : CreateUser(w, token, r, k)
        BY <1>4
    <2> DEFINE t == [step |-> "assignable", kind |-> "create", by |-> token,
                     role |-> r, password |-> k]
    <2>2. t \in Task
        BY <1>2, <1>3 DEF Task, CreateTask
    <2>3. TaskOK(t, users, last, tokens, granted) /\ \A i, s : ~Holds(t, i, s)
        BY DEF TaskOK, Holds
    <2>4. Begin(w, t)
        BY <2>1 DEF CreateUser
    <2> HIDE DEF t
    <2> QED BY <1>1, <2>2, <2>3, <2>4, BeginStep
<1>5. ASSUME NEW u \in DOMAIN users, NEW a \in BOOLEAN, UpdateUser(w, u, a)
      PROVE  IInv' /\ \A v : Adm(users', v) <=> Adm(users, v)
    <2> DEFINE t == [step |-> "read", kind |-> "update", user |-> u, active |-> a]
    <2>2. t \in Task
        BY <1>3 DEF Task, UpdateTask
    <2>3. TaskOK(t, users, last, tokens, granted) /\ \A i, s : ~Holds(t, i, s)
        BY DEF TaskOK, Holds
    <2>4. Begin(w, t)
        BY <1>5 DEF UpdateUser
    <2> HIDE DEF t
    <2> QED BY <1>1, <2>2, <2>3, <2>4, BeginStep
<1>6. ASSUME NEW u \in DOMAIN users, NEW k \in Passwords, ResetPassword(w, u, k)
      PROVE  IInv' /\ \A v : Adm(users', v) <=> Adm(users, v)
    <2> DEFINE t == [step |-> "read", kind |-> "reset", user |-> u, password |-> k]
    <2>2. t \in Task
        BY <1>3 DEF Task, ResetTask
    <2>3. TaskOK(t, users, last, tokens, granted) /\ \A i, s : ~Holds(t, i, s)
        BY DEF TaskOK, Holds
    <2>4. Begin(w, t)
        BY <1>6 DEF ResetPassword
    <2> HIDE DEF t
    <2> QED BY <1>1, <2>2, <2>3, <2>4, BeginStep
<1>7. ASSUME NEW u \in DOMAIN users, NEW r \in DOMAIN roles,
             AssignRole(w, token, u, r)
      PROVE  IInv' /\ \A v : Adm(users', v) <=> Adm(users, v)
    <2> DEFINE t == [step |-> "assignable", kind |-> "assign", by |-> token,
                     user |-> u, role |-> r]
    <2>2. t \in Task
        BY <1>2, <1>3 DEF Task, AssignTask
    <2>3. TaskOK(t, users, last, tokens, granted) /\ \A i, s : ~Holds(t, i, s)
        BY DEF TaskOK, Holds
    <2>4. Begin(w, t)
        BY <1>7 DEF AssignRole
    <2> HIDE DEF t
    <2> QED BY <1>1, <2>2, <2>3, <2>4, BeginStep
<1>8. ASSUME NEW u \in DOMAIN users, DeleteUser(w, u)
      PROVE  IInv' /\ \A v : Adm(users', v) <=> Adm(users, v)
    <2> DEFINE t == [step |-> "read", kind |-> "delete", user |-> u]
    <2>2. t \in Task
        BY <1>3 DEF Task, DeleteTask
    <2>3. TaskOK(t, users, last, tokens, granted) /\ \A i, s : ~Holds(t, i, s)
        BY DEF TaskOK, Holds
    <2>4. Begin(w, t)
        BY <1>8 DEF DeleteUser
    <2> HIDE DEF t
    <2> QED BY <1>1, <2>2, <2>3, <2>4, BeginStep
<1> QED BY <1>4, <1>5, <1>6, <1>7, <1>8 DEF UserRequest

LEMMA RoleRequestStep ==
    ASSUME IInv, NEW w \in Workers, NEW token \in tokens, RoleRequest(w, token)
    PROVE  IInv' /\ \A u : Adm(users', u) <=> Adm(users, u)
<1>1. requests < MaxRequests
    BY DEF RoleRequest, Permitted, Authenticated
<1>2. token \in Token
    BY DEF IInv, Types
<1>3. \A r \in DOMAIN roles : r \in Nat
    BY DEF IInv, Types, RolesOK
<1>4. ASSUME NEW s \in Slugs, NEW ps \in SUBSET Permissions,
             CreateRole(w, token, s, ps)
      PROVE  IInv' /\ \A v : Adm(users', v) <=> Adm(users, v)
    <2> DEFINE t == [step |-> "allowed", kind |-> "create role", by |-> token,
                     slug |-> s, perms |-> ps]
    <2>2. t \in Task
        BY <1>2 DEF Task, NewRoleTask
    <2>3. TaskOK(t, users, last, tokens, granted) /\ \A i, z : ~Holds(t, i, z)
        BY DEF TaskOK, Holds
    <2>4. Begin(w, t)
        BY <1>4 DEF CreateRole
    <2> HIDE DEF t
    <2> QED BY <1>1, <2>2, <2>3, <2>4, BeginStep
<1>5. ASSUME NEW r \in DOMAIN roles, NEW ps \in SUBSET Permissions,
             UpdateRole(w, token, r, ps)
      PROVE  IInv' /\ \A v : Adm(users', v) <=> Adm(users, v)
    <2> DEFINE t == [step |-> "read role", kind |-> "update role", by |-> token,
                     role |-> r, perms |-> ps]
    <2>2. t \in Task
        BY <1>2, <1>3 DEF Task, FindRoleTask
    <2>3. TaskOK(t, users, last, tokens, granted) /\ \A i, s : ~Holds(t, i, s)
        BY DEF TaskOK, Holds
    <2>4. Begin(w, t)
        BY <1>5 DEF UpdateRole
    <2> HIDE DEF t
    <2> QED BY <1>1, <2>2, <2>3, <2>4, BeginStep
<1>6. ASSUME NEW r \in DOMAIN roles, DeleteRole(w, r)
      PROVE  IInv' /\ \A v : Adm(users', v) <=> Adm(users, v)
    <2> DEFINE t == [step |-> "read role", kind |-> "delete role", role |-> r]
    <2>2. t \in Task
        BY <1>3 DEF Task, DropRoleTask
    <2>3. TaskOK(t, users, last, tokens, granted) /\ \A i, s : ~Holds(t, i, s)
        BY DEF TaskOK, Holds
    <2>4. Begin(w, t)
        BY <1>6 DEF DeleteRole
    <2> HIDE DEF t
    <2> QED BY <1>1, <2>2, <2>3, <2>4, BeginStep
<1> QED BY <1>4, <1>5, <1>6 DEF RoleRequest

LEMMA OwnRequestStep ==
    ASSUME IInv, NEW w \in Workers, NEW token \in tokens, OwnRequest(w, token)
    PROVE  IInv' /\ \A u : Adm(users', u) <=> Adm(users, u)
<1>1. PICK old \in Passwords, k \in Passwords : ChangePassword(w, token, old, k)
    BY DEF OwnRequest
<1> DEFINE t == [step |-> "read", kind |-> "password", user |-> token.user,
                 old |-> old, password |-> k]
<1>2. t \in Task
    <2>1. token.user \in Nat
        BY DEF IInv, Types, Token
    <2> QED BY <2>1 DEF Task, PasswordTask
<1>3. TaskOK(t, users, last, tokens, granted) /\ \A i, s : ~Holds(t, i, s)
    BY DEF TaskOK, Holds
<1>4. Begin(w, t) /\ requests < MaxRequests
    BY <1>1 DEF ChangePassword, OwnRequest, Authenticated
<1> HIDE DEF t
<1> QED BY <1>2, <1>3, <1>4, BeginStep

\* A request goes on with what it holds, or ends without a write.
LEMMA GoOn ==
    ASSUME IInv, NEW w \in Workers, NEW t \in Task, Goto(w, t), Unchanged,
           UNCHANGED requests,
           TaskOK(t, users, last, tokens, granted),
           \A i, s : Holds(t, i, s) => SlugIs(roles, task, i, s)
    PROVE  IInv' /\ \A u : Adm(users', u) <=> Adm(users, u)
<1>1. requests' \in 0..MaxRequests
    BY DEF IInv, Types
<1> QED BY <1>1, QuietStep

LEMMA GiveUp ==
    ASSUME IInv, NEW w \in Workers, Finish(w), Unchanged, UNCHANGED requests
    PROVE  IInv' /\ \A u : Adm(users', u) <=> Adm(users, u)
<1>1. Idle \in Task
    BY DEF Task
<1>2. TaskOK(Idle, users, last, tokens, granted)
    BY DEF TaskOK, Idle
<1>3. \A i, s : ~Holds(Idle, i, s)
    BY DEF Holds, Idle
<1>4. Goto(w, Idle)
    BY DEF Finish
<1> QED BY <1>1, <1>2, <1>3, <1>4, GoOn

LEMMA CanAssignStep ==
    ASSUME IInv, NEW w \in Workers, CanAssign(w)
    PROVE  IInv' /\ \A u : Adm(users', u) <=> Adm(users, u)
<1> DEFINE t == task[w]
           n == [t EXCEPT !.step = IF t.kind = "create" THEN "insert" ELSE "read"]
<1>1. t \in CreateTask \cup AssignTask /\ t.step = "assignable"
    BY TaskOfStep DEF IInv, Types, CanAssign, At
<1>2. UNCHANGED requests /\ Unchanged
    BY DEF CanAssign
<1>3. t.by \in tokens
    BY <1>1 DEF IInv, HeldInv, TaskOK
<1>4. CASE MayAssign(t.by, t.role)
    <2>1. Goto(w, n)
        BY <1>4 DEF CanAssign, Step
    <2>2. t.role = 1 => t.by.slug = "admin"
        BY <1>4, AdminIsFirst DEF MayAssign, IInv
    <2>3. /\ n \in Task /\ n.step \in {"insert", "read"}
          /\ n.by = t.by /\ n.role = t.role
        BY <1>1 DEF CreateTask, AssignTask, Task
    <2> HIDE DEF n, t
    <2>4. TaskOK(n, users, last, tokens, granted)
        BY <2>2, <2>3, <1>3 DEF TaskOK
    <2>5. \A i, s : ~Holds(n, i, s)
        BY <2>3 DEF Holds
    <2> QED BY <1>2, <2>1, <2>3, <2>4, <2>5, GoOn
<1>5. CASE ~MayAssign(t.by, t.role)
    BY <1>2, <1>5, GiveUp DEF CanAssign
<1> QED BY <1>4, <1>5

LEMMA ReadUserStep ==
    ASSUME IInv, NEW w \in Workers, ReadUser(w)
    PROVE  IInv' /\ \A u : Adm(users', u) <=> Adm(users, u)
<1> DEFINE t == task[w]
           row == users[t.user]
<1>1. /\ t \in AssignTask \cup UpdateTask \cup ResetTask \cup PasswordTask \cup DeleteTask
      /\ t.step = "read"
    BY TaskOfStep DEF IInv, Types, ReadUser, At
<1>2. UNCHANGED requests /\ Unchanged
    BY DEF ReadUser
<1>3. CASE t.user \notin DOMAIN users \/ Refused(t, row)
    BY <1>2, <1>3, GiveUp DEF ReadUser
<1>4. CASE t.user \in DOMAIN users /\ ~Refused(t, row)
    <2>1. /\ t.user \in 1..last.user
          /\ row \in Account
          /\ row.role \in DOMAIN roles
          /\ row.role \in 1..last.role
          /\ roles[row.role] \in Role
        BY <1>4 DEF IInv, Types, UsersOK, RolesOK
    <2>2. /\ roles[row.role].slug = "admin" <=> row.role = 1
          /\ Adm(users, t.user) <=> row.role = 1
        BY <1>4, <2>1, AdminIsFirst DEF IInv, Adm
    <2>3. CASE t.kind = "delete"
        <3> DEFINE n == [t EXCEPT !.step = "delete"]
        <3>1. Goto(w, n)
            BY <1>4, <2>3 DEF ReadUser, Step
        <3>2. t \in DeleteTask
            BY <1>1, <2>3 DEF AssignTask, UpdateTask, ResetTask, PasswordTask
        <3>3. n \in Task /\ n.step = "delete" /\ n.user = t.user
            BY <3>2 DEF DeleteTask, Task
        <3>4. ~Adm(users, t.user)
            BY <1>4, <2>2, <2>3 DEF Refused
        <3> HIDE DEF n, t
        <3>5. TaskOK(n, users, last, tokens, granted)
            BY <3>3, <3>4, <2>1 DEF TaskOK
        <3>6. \A i, s : ~Holds(n, i, s)
            BY <3>3 DEF Holds
        <3> QED BY <1>2, <3>1, <3>3, <3>5, <3>6, GoOn
    <2>4. CASE t.kind # "delete"
        <3> DEFINE own == [id |-> row.role, row |-> roles[row.role]]
                   n == [step |-> "save", kind |-> t.kind, user |-> t.user,
                         row |-> Changed(t, row), own |-> own]
        <3>1. Goto(w, n)
            BY <1>4, <2>4 DEF ReadUser
        <3>2. t \in AssignTask \cup UpdateTask \cup ResetTask \cup PasswordTask
            BY <1>1, <2>4 DEF DeleteTask
        <3>3. t.kind \in SaveKinds /\ t.user \in Nat
            BY <3>2 DEF AssignTask, UpdateTask, ResetTask, PasswordTask, SaveKinds
        <3>4. Changed(t, row) \in Account
            <4>1. CASE t \in AssignTask
                BY <4>1, <2>1 DEF AssignTask, Changed, Account
            <4>2. CASE t \in UpdateTask
                BY <4>2, <2>1 DEF UpdateTask, Changed, Account
            <4>3. CASE t \in ResetTask \cup PasswordTask
                BY <4>3, <2>1 DEF ResetTask, PasswordTask, Changed, Account
            <4> QED BY <3>2, <4>1, <4>2, <4>3
        <3>5. own \in [id: Nat, row: Role] /\ own.id = row.role
              /\ own.row = roles[row.role]
            BY <2>1
        <3> HIDE DEF own
        <3>6. /\ n \in Task /\ n.step = "save" /\ n.user = t.user
              /\ n.own = own
            BY <3>3, <3>4, <3>5 DEF Task, SaveTask
        <3> HIDE DEF n, t, row
        <3>7. own.id # 1 => own.row.perms \subseteq granted
            BY <2>1, <3>5 DEF IInv, Given
        <3>8. TaskOK(n, users, last, tokens, granted)
            BY <2>1, <2>2, <3>5, <3>6, <3>7 DEF TaskOK
        <3>9. \A i, s : Holds(n, i, s) => SlugIs(roles, task, i, s)
            BY <2>1, <3>5, <3>6 DEF Holds, SlugIs
        <3> QED BY <1>2, <3>1, <3>6, <3>8, <3>9, GoOn
    <2> QED BY <2>3, <2>4
<1> QED BY <1>3, <1>4

LEMMA ReadRoleStep ==
    ASSUME IInv, NEW w \in Workers, ReadRole(w)
    PROVE  IInv' /\ \A u : Adm(users', u) <=> Adm(users, u)
<1> DEFINE t == task[w]
<1>1. t \in FindRoleTask \cup DropRoleTask /\ t.step = "read role"
    BY TaskOfStep DEF IInv, Types, ReadRole, At
<1>2. UNCHANGED requests /\ Unchanged
    BY DEF ReadRole
<1>3. CASE \/ t.role \notin DOMAIN roles
           \/ t.kind = "delete role" /\ roles[t.role].system
    BY <1>2, <1>3, GiveUp DEF ReadRole
<1>4. CASE /\ t.role \in DOMAIN roles
           /\ ~(t.kind = "delete role" /\ roles[t.role].system)
    <2>1. /\ t.role \in 1..last.role
          /\ roles[t.role] \in Role
          /\ roles[t.role].slug = "admin" <=> t.role = 1
          /\ t.role = 1 => roles[t.role].system
        BY <1>4, AdminIsFirst DEF IInv, Types, RolesOK, AdminFirst
    <2>2. CASE t.kind = "delete role"
        <3> DEFINE n == [t EXCEPT !.step = "delete role"]
        <3>1. Goto(w, n)
            BY <1>4, <2>2 DEF ReadRole, Step
        <3>2. t \in DropRoleTask
            BY <1>1, <2>2 DEF FindRoleTask
        <3>3. n \in Task /\ n.step = "delete role" /\ n.role = t.role
            BY <3>2 DEF DropRoleTask, Task
        <3>4. t.role # 1
            BY <1>4, <2>1, <2>2
        <3> HIDE DEF n, t
        <3>5. TaskOK(n, users, last, tokens, granted)
            BY <3>3, <3>4 DEF TaskOK
        <3>6. \A i, s : ~Holds(n, i, s)
            BY <3>3 DEF Holds
        <3> QED BY <1>2, <3>1, <3>3, <3>5, <3>6, GoOn
    <2>3. CASE t.kind # "delete role"
        <3> DEFINE new == [roles[t.role] EXCEPT !.perms = t.perms]
                   n == [step |-> "allowed", kind |-> t.kind, by |-> t.by,
                         role |-> t.role, perms |-> t.perms, row |-> new]
        <3>1. Goto(w, n)
            BY <1>4, <2>3 DEF ReadRole
        <3>2. t \in FindRoleTask
            BY <1>1, <2>3 DEF DropRoleTask
        <3>3. /\ new \in Role /\ new.perms = t.perms
              /\ new.slug = roles[t.role].slug /\ new.system = roles[t.role].system
            BY <2>1, <3>2 DEF Role, FindRoleTask
        <3> HIDE DEF new
        <3>4. /\ n \in Task /\ n.step = "allowed" /\ n.role = t.role
              /\ n.row = new /\ n.perms = t.perms
            BY <3>2, <3>3 DEF Task, SaveRoleTask, FindRoleTask
        <3> HIDE DEF n, t
        <3>5. TaskOK(n, users, last, tokens, granted)
            BY <2>1, <3>3, <3>4 DEF TaskOK
        <3>6. \A i, s : Holds(n, i, s) => SlugIs(roles, task, i, s)
            BY <1>4, <3>3, <3>4 DEF Holds, SlugIs
        <3> QED BY <1>2, <3>1, <3>4, <3>5, <3>6, GoOn
    <2> QED BY <2>2, <2>3
<1> QED BY <1>3, <1>4

\* Who passes this check has every permission asked for, and has it from an
\* Administrator.
LEMMA AllowedStep ==
    ASSUME IInv, NEW w \in Workers, Allowed(w)
    PROVE  IInv' /\ \A u : Adm(users', u) <=> Adm(users, u)
<1> DEFINE t == task[w]
           n == [t EXCEPT !.step = IF t.kind = "create role" THEN "insert role"
                                   ELSE "save role"]
<1>1. t \in NewRoleTask \cup SaveRoleTask /\ t.step = "allowed"
    BY TaskOfStep DEF IInv, Types, Allowed, At
<1>2. UNCHANGED requests /\ Unchanged
    BY DEF Allowed
<1>3. CASE WithSlug(t.by.slug) = {} \/ Disallowed(t) # {}
    BY <1>2, <1>3, GiveUp DEF Allowed
<1>4. CASE WithSlug(t.by.slug) # {} /\ Disallowed(t) = {}
    <2>1. Goto(w, n)
        BY <1>4 DEF Allowed, Step
    <2>2. t.by.slug # "admin" => t.perms \subseteq granted
        <3>1. t.perms \subseteq Owned(t.by)
            BY <1>4 DEF Disallowed
        <3>2. ASSUME t.by.slug # "admin", NEW r \in WithSlug(t.by.slug)
              PROVE  roles[r].perms \subseteq granted
            BY <3>2, AdminIsFirst DEF WithSlug, IInv, Given
        <3> QED BY <3>1, <3>2 DEF Owned
    <2>3. /\ n \in Task
          /\ n.kind = t.kind /\ n.by = t.by /\ n.perms = t.perms
          /\ n.kind = "create role" => n.step = "insert role"
          /\ n.kind # "create role" =>
                n.step = "save role" /\ n.role = t.role /\ n.row = t.row
          /\ n.kind \in {"create role", "update role"}
        BY <1>1 DEF NewRoleTask, SaveRoleTask, Task
    <2>4. TaskOK(t, users, last, tokens, granted)
        BY DEF IInv, HeldInv
    <2>5. \A i, s : Holds(t, i, s) => SlugIs(roles, task, i, s)
        BY DEF SlugIs
    <2> HIDE DEF n, t
    <2>6. TaskOK(n, users, last, tokens, granted)
        <3>1. CASE n.kind = "create role"
            BY <3>1, <2>2, <2>3 DEF TaskOK
        <3>2. CASE n.kind = "update role"
            BY <3>2, <1>1, <2>2, <2>3, <2>4 DEF TaskOK
        <3> QED BY <3>1, <3>2, <2>3
    <2>7. \A i, s : Holds(n, i, s) => SlugIs(roles, task, i, s)
        BY <1>1, <2>3, <2>5 DEF Holds
    <2> QED BY <1>2, <2>1, <2>3, <2>6, <2>7, GoOn
<1> QED BY <1>3, <1>4
-----------------------------------------------------------------------------
(* The writes.                                                             *)

\* A role is written under a slug that no other has.
LEMMA RoleWritten ==
    ASSUME IInv, NEW r \in 1..MaxId, NEW row \in Role, NEW L, NEW h,
           L.role \in Nat, last.role <= L.role, r <= L.role, granted \subseteq h,
           \A q \in DOMAIN roles : q # r => roles[q].slug # row.slug,
           r = 1 => row.slug = "admin" /\ row.system,
           r # 1 => row.perms \subseteq h
    PROVE  /\ RolesOK(Put(roles, r, row), L)
           /\ AdminFirst(Put(roles, r, row))
           /\ Given(Put(roles, r, row), h)
<1> DEFINE R == Put(roles, r, row)
<1>1. roles \in [DOMAIN roles -> Role]
    BY DEF IInv, Types, RolesOK
<1>2. /\ DOMAIN R = DOMAIN roles \cup {r}
      /\ R \in [DOMAIN R -> Role]
      /\ R[r] = row
      /\ \A i \in DOMAIN roles : i # r => R[i] = roles[i]
    BY <1>1 DEF Put
<1>3. r \in 1..L.role
    BY StaffAssumption
<1>4. \A q \in DOMAIN roles : q \in 1..L.role
    <2>1. last.role \in Nat
        BY StaffAssumption DEF IInv, Types
    <2>2. \A q \in DOMAIN roles : q \in 1..last.role
        BY DEF IInv, Types, RolesOK
    <2> QED BY <2>1, <2>2
<1>5. \A i, j \in DOMAIN roles : roles[i].slug = roles[j].slug => i = j
    BY DEF IInv, Types, RolesOK
<1>6. AdminFirst(roles) /\ Given(roles, granted)
    BY DEF IInv
<1> HIDE DEF R
<1>7. RolesOK(R, L)
    <2>1. \A i, j \in DOMAIN R : R[i].slug = R[j].slug => i = j
        BY <1>2, <1>5
    <2> QED BY <1>2, <1>3, <1>4, <2>1 DEF RolesOK
<1>8. AdminFirst(R)
    BY <1>2, <1>6 DEF AdminFirst
<1>9. Given(R, h)
    <2>1. ASSUME NEW i \in DOMAIN R, i # 1 PROVE R[i].perms \subseteq h
        <3>1. CASE i = r
            BY <3>1, <2>1, <1>2
        <3>2. CASE i # r
            BY <3>2, <2>1, <1>2, <1>6 DEF Given
        <3> QED BY <3>1, <3>2
    <2> QED BY <2>1 DEF Given
<1> QED BY <1>7, <1>8, <1>9 DEF R

\* A new account: an Administrator if the one who made it is.
LEMMA InsertUserStep ==
    ASSUME IInv, NEW w \in Workers, InsertUser(w)
    PROVE  /\ IInv'
           /\ \A u : Adm(users, u) => Adm(users', u)
           /\ \A u : ~Adm(users, u) /\ Adm(users', u) => IsAdmin(task[w].by.user)
<1> DEFINE t == task[w]
           v == last.user + 1
           new == [role |-> t.role, active |-> TRUE, password |-> t.password]
<1>1. t \in CreateTask /\ t.step = "insert"
    BY TaskOfStep DEF IInv, Types, InsertUser, At
<1>2. /\ t.role \in DOMAIN roles
      /\ v <= MaxId
      /\ users' = Put(users, v, new)
      /\ last' = [last EXCEPT !.user = v]
      /\ Finish(w)
      /\ UNCHANGED <<roles, tokens, granted, requests>>
    BY DEF InsertUser
<1>3. /\ last \in [user: 0..MaxId, role: 0..MaxId]
      /\ users \in [DOMAIN users -> Account]
      /\ \A u \in DOMAIN users : u \in 1..last.user /\ users[u].role \in DOMAIN roles
      /\ roles \in [DOMAIN roles -> Role]
      /\ RolesOK(roles, last)
    BY DEF IInv, Types, UsersOK, RolesOK
<1>4. new \in Account
    BY <1>1 DEF CreateTask, Account
<1> HIDE DEF new
<1>5. /\ DOMAIN users' = DOMAIN users \cup {v}
      /\ users' \in [DOMAIN users' -> Account]
      /\ users'[v] = new
      /\ \A u \in DOMAIN users : u # v => users'[u] = users[u]
    BY <1>2, <1>3, <1>4 DEF Put
<1>6. last.user \in Nat /\ last.role \in Nat /\ v \notin DOMAIN users
    <2>1. last.user \in Nat /\ last.role \in Nat
        BY <1>3, StaffAssumption
    <2> QED BY <2>1, <1>3
<1>7. last'.user = v /\ last'.role = last.role
      /\ last' \in [user: 0..MaxId, role: 0..MaxId]
    BY <1>2, <1>3, <1>6, StaffAssumption
<1>8. UsersOK(users', roles', last')
    <2>1. \A u \in DOMAIN users' : u \in 1..v
        BY <1>3, <1>5, <1>6
    <2>2. users'[v].role \in DOMAIN roles
        BY <1>2, <1>5 DEF new
    <2>3. \A u \in DOMAIN users' : users'[u].role \in DOMAIN roles
        BY <1>3, <1>5, <2>2
    <2> QED BY <1>2, <1>5, <1>7, <2>1, <2>3 DEF UsersOK
<1>9. RolesOK(roles', last')
    BY <1>2, <1>3, <1>7 DEF RolesOK
<1>10. \A u : u # v => (Adm(users', u) <=> Adm(users, u))
    BY <1>5 DEF Adm
<1>11. \A u \in 1..last.user : Adm(users', u) <=> Adm(users, u)
    BY <1>6, <1>10
<1>12. AdminFirst(roles') /\ Given(roles', granted') /\ granted \subseteq granted'
    BY <1>2 DEF IInv
<1>13. \A i \in DOMAIN roles' : SlugIs(roles, task, i, roles'[i].slug)
    BY <1>2 DEF SlugIs
<1>14. IInv'
    <2>1. last.user <= last'.user /\ last.role <= last'.role
        BY <1>6, <1>7
    <2> QED BY <1>2, <1>7, <1>8, <1>9, <1>11, <1>12, <1>13, <2>1, EndStep
<1>15. \A u : Adm(users, u) => Adm(users', u)
    BY <1>6, <1>10 DEF Adm
<1>16. Adm(users', v) => IsAdmin(t.by.user)
    <2>1. Adm(users', v) => t.role = 1
        BY <1>5 DEF Adm, new
    <2>2. t.by \in tokens /\ (t.role = 1 => t.by.slug = "admin")
        BY <1>1 DEF IInv, HeldInv, TaskOK
    <2>3. t.by.slug = "admin" => Adm(users, t.by.user)
        BY <2>2 DEF IInv, TokensInv
    <2> HIDE DEF t
    <2> QED BY <2>1, <2>2, <2>3, AdminIsFirst DEF IInv
<1> QED BY <1>10, <1>14, <1>15, <1>16

LEMMA DeleteRowStep ==
    ASSUME IInv, NEW w \in Workers, DeleteRow(w)
    PROVE  IInv' /\ \A u : Adm(users', u) <=> Adm(users, u)
<1> DEFINE d == task[w].user
<1>1. /\ users' = Without(users, d)
      /\ Finish(w)
      /\ UNCHANGED <<roles, last, tokens, granted, requests>>
    BY DEF DeleteRow
<1>2. ~Adm(users, d)
    BY DEF IInv, HeldInv, TaskOK, DeleteRow, At
<1>3. /\ last \in [user: 0..MaxId, role: 0..MaxId]
      /\ users \in [DOMAIN users -> Account]
      /\ \A u \in DOMAIN users : u \in 1..last.user /\ users[u].role \in DOMAIN roles
      /\ RolesOK(roles, last)
    BY DEF IInv, Types, UsersOK
<1> HIDE DEF d
<1>4. /\ DOMAIN users' = DOMAIN users \ {d}
      /\ users' \in [DOMAIN users' -> Account]
      /\ \A u \in DOMAIN users : u # d => users'[u] = users[u]
    BY <1>1, <1>3 DEF Without
<1>5. UsersOK(users', roles', last')
    BY <1>1, <1>3, <1>4 DEF UsersOK
<1>6. \A u : Adm(users', u) <=> Adm(users, u)
    BY <1>2, <1>4 DEF Adm
<1>7. AdminFirst(roles') /\ Given(roles', granted') /\ granted \subseteq granted'
    BY <1>1 DEF IInv
<1>8. \A i \in DOMAIN roles' : SlugIs(roles, task, i, roles'[i].slug)
    BY <1>1 DEF SlugIs
<1>9. last.user \in Nat /\ last.role \in Nat
    BY <1>3, StaffAssumption
<1>10. IInv'
    <2>1. /\ last.user <= last'.user /\ last.role <= last'.role
          /\ RolesOK(roles', last')
          /\ last' \in [user: 0..MaxId, role: 0..MaxId]
        BY <1>1, <1>3, <1>9
    <2> QED BY <1>1, <1>5, <1>6, <1>7, <1>8, <2>1, EndStep
<1> QED BY <1>6, <1>10

\* The account goes back with the role it came with.
LEMMA SaveUserStep ==
    ASSUME IInv, NEW w \in Workers, SaveUser(w)
    PROVE  IInv' /\ \A u : Adm(users', u) <=> Adm(users, u)
<1> DEFINE t == task[w]
           own == t.own
           R == RolesAfterSave(own)
           row == SavedRow(t)
<1>1. t \in SaveTask /\ t.step = "save"
    BY TaskOfStep DEF IInv, Types, SaveUser, At
<1>2. /\ own.id \in DOMAIN R
      /\ roles' = R
      /\ users' = Put(users, t.user, row)
      /\ Finish(w)
      /\ UNCHANGED <<last, tokens, granted, requests>>
    BY DEF SaveUser
<1>3. /\ t.user \in 1..last.user
      /\ own.id \in 1..last.role
      /\ own.id = 1 <=> Adm(users, t.user)
      /\ own.id = 1 <=> own.row.slug = "admin"
      /\ own.id # 1 => own.row.perms \subseteq granted
    BY <1>1 DEF IInv, HeldInv, TaskOK
<1>4. /\ own.id \in Nat /\ own.row \in Role
      /\ row \in Account /\ row.role = own.id
    BY <1>1 DEF SaveTask, SavedRow, Account
<1>5. /\ last \in [user: 0..MaxId, role: 0..MaxId]
      /\ users \in [DOMAIN users -> Account]
      /\ \A u \in DOMAIN users : u \in 1..last.user /\ users[u].role \in DOMAIN roles
      /\ roles \in [DOMAIN roles -> Role]
      /\ RolesOK(roles, last) /\ AdminFirst(roles) /\ Given(roles, granted)
    BY DEF IInv, Types, UsersOK, RolesOK
<1>6. last.user \in Nat /\ last.role \in Nat /\ own.id \in 1..MaxId
    BY <1>3, <1>5, StaffAssumption
<1>7. Holds(t, own.id, own.row.slug)
    BY <1>1 DEF Holds
<1>8. /\ RolesOK(R, last) /\ AdminFirst(R) /\ Given(R, granted)
      /\ DOMAIN roles \subseteq DOMAIN R
      /\ \A i \in DOMAIN R : SlugIs(roles, task, i, R[i].slug)
    <2>1. CASE own.id \in DOMAIN roles \/ WithSlug(own.row.slug) # {}
        <3>1. R = roles
            BY <2>1 DEF RolesAfterSave
        <3> HIDE DEF R, own
        <3> QED BY <3>1, <1>5 DEF SlugIs
    <2>2. CASE own.id \notin DOMAIN roles /\ WithSlug(own.row.slug) = {}
        <3>1. R = Put(roles, own.id, own.row)
            BY <2>2 DEF RolesAfterSave
        <3>2. \A q \in DOMAIN roles : roles[q].slug # own.row.slug
            BY <2>2 DEF WithSlug
        <3>3. own.id # 1
            BY <2>2, <1>5 DEF AdminFirst
        <3>4. /\ DOMAIN R = DOMAIN roles \cup {own.id}
              /\ R[own.id] = own.row
              /\ \A i \in DOMAIN roles : i # own.id => R[i] = roles[i]
            BY <3>1, <1>4, <1>5 DEF Put
        <3>5. \E v \in Workers : Holds(task[v], own.id, own.row.slug)
            BY <1>7
        <3> HIDE DEF R, own
        <3>6. RolesOK(R, last) /\ AdminFirst(R) /\ Given(R, granted)
            BY <1>3, <1>4, <1>6, <3>1, <3>2, <3>3, RoleWritten
        <3>7. ASSUME NEW i \in DOMAIN R PROVE SlugIs(roles, task, i, R[i].slug)
            BY <2>2, <3>4, <3>5 DEF SlugIs
        <3> QED BY <3>4, <3>6, <3>7
    <2> QED BY <2>1, <2>2
<1> HIDE DEF R, row, own
<1>9. /\ DOMAIN users' = DOMAIN users \cup {t.user}
      /\ users' \in [DOMAIN users' -> Account]
      /\ users'[t.user] = row
      /\ \A u \in DOMAIN users : u # t.user => users'[u] = users[u]
    BY <1>2, <1>4, <1>5 DEF Put
<1> HIDE DEF t
<1>10. UsersOK(users', roles', last')
    <2>1. \A u \in DOMAIN users' : users'[u].role \in DOMAIN R
        BY <1>2, <1>4, <1>5, <1>8, <1>9
    <2>2. \A u \in DOMAIN users' : u \in 1..last.user
        BY <1>3, <1>5, <1>9
    <2> QED BY <1>2, <1>9, <2>1, <2>2 DEF UsersOK
<1>11. \A u : Adm(users', u) <=> Adm(users, u)
    <2>1. Adm(users', t.user) <=> Adm(users, t.user)
        BY <1>3, <1>4, <1>9 DEF Adm
    <2>2. \A u : u # t.user => (Adm(users', u) <=> Adm(users, u))
        BY <1>9 DEF Adm
    <2> QED BY <2>1, <2>2
<1>12. IInv'
    <2>1. /\ last.user <= last'.user /\ last.role <= last'.role
          /\ last' \in [user: 0..MaxId, role: 0..MaxId]
          /\ RolesOK(roles', last') /\ AdminFirst(roles') /\ Given(roles', granted')
          /\ granted \subseteq granted'
        BY <1>2, <1>5, <1>6, <1>8
    <2>2. \A i \in DOMAIN roles' : SlugIs(roles, task, i, roles'[i].slug)
        BY <1>2, <1>8
    <2> QED BY <1>2, <1>10, <1>11, <2>1, <2>2, EndStep
<1> QED BY <1>11, <1>12

LEMMA InsertRoleStep ==
    ASSUME IInv, NEW w \in Workers, InsertRole(w)
    PROVE  IInv' /\ \A u : Adm(users', u) <=> Adm(users, u)
<1> DEFINE t == task[w]
           r == last.role + 1
           new == [slug |-> t.slug, perms |-> t.perms, system |-> FALSE]
<1>1. t \in NewRoleTask /\ t.step = "insert role"
    BY TaskOfStep DEF IInv, Types, InsertRole, At
<1>2. /\ WithSlug(t.slug) = {}
      /\ r <= MaxId
      /\ roles' = Put(roles, r, new)
      /\ last' = [last EXCEPT !.role = r]
      /\ Grant(t.by, t.perms)
      /\ Finish(w)
      /\ UNCHANGED <<users, tokens, requests>>
    BY DEF InsertRole
<1>3. /\ last \in [user: 0..MaxId, role: 0..MaxId]
      /\ UsersOK(users, roles, last)
      /\ roles \in [DOMAIN roles -> Role]
      /\ \A q \in DOMAIN roles : q \in 1..last.role
      /\ AdminFirst(roles)
    BY DEF IInv, Types, RolesOK
<1>4. new \in Role /\ new.slug = t.slug /\ new.perms = t.perms
    BY <1>1 DEF NewRoleTask, Role
<1>5. last.user \in Nat /\ last.role \in Nat
    BY <1>3, StaffAssumption
<1>6. r \in 1..MaxId /\ r # 1 /\ r \notin DOMAIN roles
    BY <1>2, <1>3, <1>5, StaffAssumption DEF AdminFirst
<1>7. granted \subseteq granted' /\ t.perms \subseteq granted'
    <2>1. t.by.slug # "admin" => t.perms \subseteq granted
        BY <1>1 DEF IInv, HeldInv, TaskOK
    <2> QED BY <1>2, <2>1 DEF Grant
<1>8. \A q \in DOMAIN roles : roles[q].slug # new.slug
    BY <1>2, <1>4 DEF WithSlug
<1>9. /\ last'.role = r /\ last'.user = last.user
      /\ last' \in [user: 0..MaxId, role: 0..MaxId]
    BY <1>2, <1>3, <1>5, <1>6
<1> HIDE DEF new, t
<1>10. /\ DOMAIN roles' = DOMAIN roles \cup {r}
       /\ \A i \in DOMAIN roles : i # r => roles'[i] = roles[i]
    BY <1>2, <1>3, <1>4 DEF Put
<1>11. RolesOK(roles', last') /\ AdminFirst(roles') /\ Given(roles', granted')
    <2>1. last'.role \in Nat /\ last.role <= last'.role /\ r <= last'.role
        BY <1>5, <1>9
    <2>2. r # 1 => new.perms \subseteq granted'
        BY <1>4, <1>7
    <2> HIDE DEF r
    <2> QED BY <1>2, <1>4, <1>6, <1>7, <1>8, <2>1, <2>2, RoleWritten
<1>12. UsersOK(users', roles', last')
    BY <1>2, <1>3, <1>9, <1>10 DEF UsersOK
<1>13. \A i \in DOMAIN roles' : i = r \/ SlugIs(roles, task, i, roles'[i].slug)
    BY <1>10 DEF SlugIs
<1>14. \A u : Adm(users', u) <=> Adm(users, u)
    BY <1>2
<1>15. IInv'
    <2>1. last.user <= last'.user /\ last.role <= last'.role
        BY <1>5, <1>9
    <2> QED BY <1>2, <1>7, <1>9, <1>11, <1>12, <1>13, <1>14, <2>1, EndStep
<1> QED BY <1>14, <1>15

\* The row has the slug its id has, or is written over the role that has it.
LEMMA SaveRoleStep ==
    ASSUME IInv, NEW w \in Workers, SaveRole(w)
    PROVE  IInv' /\ \A u : Adm(users', u) <=> Adm(users, u)
<1> DEFINE t == task[w]
           new == t.row
           taken == IF t.role \in DOMAIN roles THEN {t.role} ELSE WithSlug(new.slug)
<1>1. t \in SaveRoleTask /\ t.step = "save role"
    BY TaskOfStep DEF IInv, Types, SaveRole, At
<1>2. PICK r \in IF taken = {} THEN {t.role} ELSE taken : roles' = Put(roles, r, new)
    BY DEF SaveRole
<1>3. /\ IF new.slug = "admin" THEN UNCHANGED granted ELSE Grant(t.by, t.perms)
      /\ Finish(w)
      /\ UNCHANGED <<users, last, tokens, requests>>
    BY DEF SaveRole
<1>4. /\ last \in [user: 0..MaxId, role: 0..MaxId]
      /\ UsersOK(users, roles, last)
      /\ roles \in [DOMAIN roles -> Role]
      /\ \A q \in DOMAIN roles : q \in 1..last.role
      /\ \A q, p \in DOMAIN roles : roles[q].slug = roles[p].slug => q = p
      /\ AdminFirst(roles)
    BY DEF IInv, Types, RolesOK
<1>5. new \in Role /\ t.kind = "update role"
    BY <1>1 DEF SaveRoleTask
<1>6. /\ t.role \in 1..last.role
      /\ t.role = 1 <=> new.slug = "admin"
      /\ t.role = 1 => new.system
      /\ new.perms = t.perms
      /\ t.by.slug # "admin" => t.perms \subseteq granted
    BY <1>1, <1>5 DEF IInv, HeldInv, TaskOK
<1>7. last.user \in Nat /\ last.role \in Nat /\ t.role \in 1..MaxId
    BY <1>4, <1>6, StaffAssumption
<1>8. t.role \in DOMAIN roles => roles[t.role].slug = new.slug
    <2>1. SlugIs(roles, task, t.role, new.slug)
        BY <1>1, <1>5 DEF SlugIs, Holds
    <2>2. t.role \in DOMAIN roles => SlugIs(roles, task, t.role, roles[t.role].slug)
        BY DEF SlugIs
    <2>3. t.role \in DOMAIN roles => roles[t.role].slug \in Slugs \cup {"admin"}
        BY <1>4 DEF Role
    <2>4. new.slug \in Slugs \cup {"admin"}
        BY <1>5 DEF Role
    <2> HIDE DEF t, new
    <2> QED BY <1>7, <2>1, <2>2, <2>3, <2>4 DEF IInv, SlugsInv
<1>9. /\ r \in 1..last.role
      /\ r \in DOMAIN roles => roles[r].slug = new.slug
      /\ r \notin DOMAIN roles => r = t.role /\ WithSlug(new.slug) = {}
    <2>1. CASE taken = {}
        BY <2>1, <1>2, <1>6
    <2>2. CASE taken # {} /\ t.role \in DOMAIN roles
        BY <2>2, <1>2, <1>6, <1>8
    <2>3. CASE taken # {} /\ t.role \notin DOMAIN roles
        BY <2>3, <1>2, <1>4 DEF WithSlug
    <2> QED BY <2>1, <2>2, <2>3
<1>10. \E v \in Workers : Holds(task[v], t.role, new.slug)
    BY <1>1, <1>5 DEF Holds
<1> HIDE DEF taken, new, t
<1>11. \A q \in DOMAIN roles : q # r => roles[q].slug # new.slug
    BY <1>4, <1>9 DEF WithSlug
<1>12. r = 1 <=> new.slug = "admin"
    BY <1>4, <1>6, <1>9, <1>11 DEF AdminFirst
<1>13. r \in 1..MaxId
    BY <1>4, <1>7, <1>9, StaffAssumption
<1>14. granted \subseteq granted' /\ (r # 1 => new.perms \subseteq granted')
    BY <1>3, <1>6, <1>12 DEF Grant
<1>15. RolesOK(roles', last') /\ AdminFirst(roles') /\ Given(roles', granted')
    <2>1. last.role <= last.role /\ r <= last.role
        BY <1>7, <1>9
    <2>2. r = 1 => new.slug = "admin" /\ new.system
        BY <1>6, <1>12
    <2> QED BY <1>2, <1>3, <1>5, <1>7, <1>11, <1>13, <1>14, <2>1, <2>2, RoleWritten
<1>16. /\ DOMAIN roles' = DOMAIN roles \cup {r}
       /\ roles'[r] = new
       /\ \A i \in DOMAIN roles : i # r => roles'[i] = roles[i]
    BY <1>2, <1>4, <1>5 DEF Put
<1>17. UsersOK(users', roles', last')
    BY <1>3, <1>4, <1>16 DEF UsersOK
<1>18. ASSUME NEW i \in DOMAIN roles' PROVE SlugIs(roles, task, i, roles'[i].slug)
    <2>1. CASE i \in DOMAIN roles
        BY <2>1, <1>9, <1>16 DEF SlugIs
    <2>2. CASE i \notin DOMAIN roles
        BY <2>2, <1>9, <1>10, <1>16 DEF SlugIs
    <2> QED BY <2>1, <2>2
<1>19. \A u : Adm(users', u) <=> Adm(users, u)
    BY <1>3
<1>20. IInv'
    <2>1. /\ last.user <= last'.user /\ last.role <= last'.role
          /\ last' \in [user: 0..MaxId, role: 0..MaxId]
        BY <1>3, <1>4, <1>7
    <2> QED BY <1>3, <1>14, <1>15, <1>17, <1>18, <1>19, <2>1, EndStep
<1> QED BY <1>19, <1>20

LEMMA DeleteRoleRowStep ==
    ASSUME IInv, NEW w \in Workers, DeleteRoleRow(w)
    PROVE  IInv' /\ \A u : Adm(users', u) <=> Adm(users, u)
<1> DEFINE d == task[w].role
<1>1. /\ \A u \in DOMAIN users : users[u].role # d
      /\ roles' = Without(roles, d)
      /\ Finish(w)
      /\ UNCHANGED <<users, last, tokens, granted, requests>>
    BY DEF DeleteRoleRow
<1>2. d # 1
    BY DEF IInv, HeldInv, TaskOK, DeleteRoleRow, At
<1>3. /\ last \in [user: 0..MaxId, role: 0..MaxId]
      /\ UsersOK(users, roles, last)
      /\ roles \in [DOMAIN roles -> Role]
      /\ RolesOK(roles, last) /\ AdminFirst(roles) /\ Given(roles, granted)
    BY DEF IInv, Types, RolesOK
<1> HIDE DEF d
<1>4. /\ DOMAIN roles' = DOMAIN roles \ {d}
      /\ roles' \in [DOMAIN roles' -> Role]
      /\ \A r \in DOMAIN roles' : roles'[r] = roles[r]
    BY <1>1, <1>3 DEF Without
<1>5. RolesOK(roles', last') /\ AdminFirst(roles') /\ Given(roles', granted')
    BY <1>1, <1>2, <1>3, <1>4 DEF RolesOK, AdminFirst, Given
<1>6. UsersOK(users', roles', last')
    BY <1>1, <1>3, <1>4 DEF UsersOK
<1>7. \A i \in DOMAIN roles' : SlugIs(roles, task, i, roles'[i].slug)
    BY <1>4 DEF SlugIs
<1>8. \A u : Adm(users', u) <=> Adm(users, u)
    BY <1>1
<1>9. last.user \in Nat /\ last.role \in Nat
    BY <1>3, StaffAssumption
<1>10. IInv'
    <2>1. /\ last.user <= last'.user /\ last.role <= last'.role
          /\ last' \in [user: 0..MaxId, role: 0..MaxId]
          /\ granted \subseteq granted'
        BY <1>1, <1>3, <1>9
    <2> QED BY <1>1, <1>5, <1>6, <1>7, <1>8, <2>1, EndStep
<1> QED BY <1>8, <1>10
-----------------------------------------------------------------------------
(* Logins, restarts, and all of it.                                        *)

LEMMA LoginStep ==
    ASSUME IInv, NEW u \in DOMAIN users, NEW k \in Passwords, Login(u, k)
    PROVE  IInv' /\ \A v : Adm(users', v) <=> Adm(users, v)
<1> DEFINE new == [user |-> u, slug |-> roles[users[u].role].slug]
<1>1. /\ tokens' = tokens \cup {new}
      /\ UNCHANGED <<roles, users, last, task, granted, requests>>
    BY DEF Login
<1>2. /\ u \in Nat
      /\ users[u].role \in DOMAIN roles
      /\ roles[users[u].role] \in Role
    BY DEF IInv, Types, UsersOK, RolesOK
<1>3. new \in Token
    BY <1>2 DEF Token, Role
<1>4. new.user = u /\ new.slug = roles[users[u].role].slug
    OBVIOUS
<1> HIDE DEF new
<1>5. new.slug = "admin" => Adm(users, new.user)
    BY <1>2, <1>4, AdminIsFirst DEF IInv, Adm
<1>6. Types'
    BY <1>1, <1>3 DEF IInv, Types
<1>7. TokensInv'
    BY <1>1, <1>5 DEF IInv, TokensInv
<1>8. HeldInv'
    <2>1. ASSUME NEW w \in Workers
          PROVE  TaskOK(task[w], users, last, tokens', granted)
        <3>1. task[w] \in Task /\ TaskOK(task[w], users, last, tokens, granted)
            BY DEF IInv, Types, HeldInv
        <3>2. last.user \in Nat /\ last.role \in Nat
            BY StaffAssumption DEF IInv, Types
        <3>3. last.user <= last.user /\ last.role <= last.role
            BY <3>2
        <3>4. tokens \subseteq tokens' /\ granted \subseteq granted
            BY <1>1
        <3>5. \A v \in 1..last.user : Adm(users, v) <=> Adm(users, v)
            OBVIOUS
        <3> QED BY <3>1, <3>2, <3>3, <3>4, <3>5, CopyStays
    <2> QED BY <1>1, <2>1 DEF HeldInv
<1>9. SlugsInv'
    BY <1>1 DEF IInv, SlugsInv, SlugIs
<1>10. AdminFirst(roles') /\ Given(roles', granted')
    BY <1>1 DEF IInv
<1> QED BY <1>1, <1>6, <1>7, <1>8, <1>9, <1>10 DEF IInv

LEMMA RestartStep ==
    ASSUME IInv, Restart
    PROVE  IInv' /\ \A u : Adm(users', u) <=> Adm(users, u)
<1>1. /\ task' = [w \in Workers |-> Idle]
      /\ roles' = [r \in DOMAIN roles |->
                     IF roles[r].slug = "admin"
                     THEN [roles[r] EXCEPT !.perms = Permissions] ELSE roles[r]]
      /\ UNCHANGED <<users, last, tokens, granted, requests>>
    BY DEF Restart
<1>2. roles \in [DOMAIN roles -> Role]
    BY DEF IInv, Types, RolesOK
<1>3. DOMAIN roles' = DOMAIN roles
    BY <1>1
<1>4. \A r \in DOMAIN roles :
          /\ roles'[r] \in Role
          /\ roles'[r].slug = roles[r].slug
          /\ roles'[r].system = roles[r].system
          /\ roles[r].slug # "admin" => roles'[r].perms = roles[r].perms
    <2>1. ASSUME NEW r \in DOMAIN roles, roles[r].slug = "admin"
          PROVE  /\ roles'[r] \in Role
                 /\ roles'[r].slug = roles[r].slug
                 /\ roles'[r].system = roles[r].system
        <3>1. roles'[r] = [roles[r] EXCEPT !.perms = Permissions] /\ roles[r] \in Role
            BY <1>1, <1>2, <2>1
        <3> QED BY <3>1 DEF Role
    <2>2. ASSUME NEW r \in DOMAIN roles, roles[r].slug # "admin"
          PROVE  roles'[r] = roles[r] /\ roles[r] \in Role
        BY <1>1, <1>2, <2>2
    <2> QED BY <2>1, <2>2
<1>5. RolesOK(roles', last')
    <2>1. roles' \in [DOMAIN roles' -> Role]
        <3>1. roles' = [r \in DOMAIN roles' |-> roles'[r]]
            BY <1>1
        <3> QED BY <1>3, <1>4, <3>1
    <2>2. \A r \in DOMAIN roles : r \in 1..last.role
        BY DEF IInv, Types, RolesOK
    <2>3. \A r, q \in DOMAIN roles : roles[r].slug = roles[q].slug => r = q
        BY DEF IInv, Types, RolesOK
    <2>4. \A r, q \in DOMAIN roles' : roles'[r].slug = roles'[q].slug => r = q
        BY <1>3, <1>4, <2>3
    <2> QED BY <1>1, <1>3, <2>1, <2>2, <2>4 DEF RolesOK
<1>6. UsersOK(users', roles', last')
    BY <1>1, <1>3 DEF IInv, Types, UsersOK
<1>7. task' \in [Workers -> Task] /\ \A w \in Workers : task'[w] = Idle
    BY <1>1 DEF Task
<1>8. Types'
    <2>1. /\ last' \in [user: 0..MaxId, role: 0..MaxId]
          /\ tokens' \in SUBSET Token
          /\ requests' \in 0..MaxRequests
        BY <1>1 DEF IInv, Types
    <2> QED BY <1>5, <1>6, <1>7, <2>1 DEF Types
<1>9. AdminFirst(roles')
    BY <1>3, <1>4 DEF IInv, AdminFirst
<1>10. Given(roles', granted')
    <2>1. \A r \in DOMAIN roles : r # 1 => roles[r].slug # "admin"
        BY AdminIsFirst DEF IInv
    <2> QED BY <1>1, <1>3, <1>4, <2>1 DEF IInv, Given
<1>11. TokensInv'
    BY <1>1 DEF IInv, TokensInv
<1>12. HeldInv'
    <2>1. TaskOK(Idle, users', last', tokens', granted')
        BY DEF TaskOK, Idle
    <2> QED BY <1>7, <2>1 DEF HeldInv
<1>13. SlugsInv'
    <2>1. \A i, s : ~Holds(Idle, i, s)
        BY DEF Holds, Idle
    <2>2. \A i, s : SlugIs(roles', task', i, s) => roles'[i].slug = s
        BY <1>7, <2>1 DEF SlugIs
    <2> QED BY <2>2 DEF SlugsInv
<1>14. \A u : Adm(users', u) <=> Adm(users, u)
    BY <1>1
<1> QED BY <1>8, <1>9, <1>10, <1>11, <1>12, <1>13, <1>14 DEF IInv

\* Every step keeps the invariant, and Administrators; a new one is inserted
\* for an Administrator.
LEMMA StaffStep ==
    ASSUME IInv, [Next]_vars
    PROVE  /\ IInv'
           /\ \A u : Adm(users, u) => Adm(users', u)
           /\ \A u : ~Adm(users, u) /\ Adm(users', u) =>
                 \E w \in Workers : InsertUser(w) /\ IsAdmin(task[w].by.user)
<1> DEFINE Kept == IInv' /\ \A u : Adm(users', u) <=> Adm(users, u)
<1>1. ASSUME NEW u \in DOMAIN users, NEW k \in Passwords, Login(u, k)
      PROVE  Kept
    BY <1>1, LoginStep
<1>2. ASSUME NEW w \in Workers, NEW token \in tokens,
             UserRequest(w, token) \/ RoleRequest(w, token) \/ OwnRequest(w, token)
      PROVE  Kept
    BY <1>2, UserRequestStep, RoleRequestStep, OwnRequestStep
<1>3. ASSUME NEW w \in Workers, InsertUser(w)
      PROVE  /\ IInv'
             /\ \A u : Adm(users, u) => Adm(users', u)
             /\ \A u : ~Adm(users, u) /\ Adm(users', u) =>
                   \E v \in Workers : InsertUser(v) /\ IsAdmin(task[v].by.user)
    BY <1>3, InsertUserStep
<1>4. ASSUME NEW w \in Workers,
             CanAssign(w) \/ ReadUser(w) \/ DeleteRow(w) \/ SaveUser(w)
      PROVE  Kept
    BY <1>4, CanAssignStep, ReadUserStep, DeleteRowStep, SaveUserStep
<1>5. ASSUME NEW w \in Workers,
             ReadRole(w) \/ Allowed(w) \/ InsertRole(w) \/ SaveRole(w)
      PROVE  Kept
    BY <1>5, ReadRoleStep, AllowedStep, InsertRoleStep, SaveRoleStep
<1>6. ASSUME NEW w \in Workers, DeleteRoleRow(w) PROVE Kept
    BY <1>6, DeleteRoleRowStep
<1>7. ASSUME NEW w \in Workers, Fail(w) PROVE Kept
    BY <1>7, GiveUp DEF Fail
<1>8. CASE Restart
    BY <1>8, RestartStep
<1>9. CASE UNCHANGED vars
    <2>1. IInv'
        BY <1>9 DEF vars, IInv, Types, TokensInv, HeldInv, SlugsInv
    <2>2. users' = users
        BY <1>9 DEF vars
    <2> QED BY <2>1, <2>2
<1> QED BY <1>1, <1>2, <1>3, <1>4, <1>5, <1>6, <1>7, <1>8, <1>9 DEF Next, Handle

-----------------------------------------------------------------------------

\* The inductive invariant holds in every state: ids keep their slugs, and
\* every copy a request holds is still good for what it is written to.
THEOREM StaffInductive == Spec => []IInv
<1>1. Init => IInv
    BY StaffInit
<1>2. IInv /\ [Next]_vars => IInv'
    BY StaffStep
<1> QED BY <1>1, <1>2, PTL DEF Spec

\* However requests overlap, tables stay well formed, a role has only the
\* permissions some Administrator gave to a role other than the
\* Administrator's, and a token that says "admin" is of an account that is
\* an Administrator now (disallowedPermissions, canAssignRole).
THEOREM PermissionsAreGiven == Spec => []StaffInv
<1>1. IInv => StaffInv
    BY InvParts
<1> QED BY <1>1, StaffInductive, PTL

\* No Administrator is deleted or moved to another role, and a new one is
\* made by an Administrator only (UserService.Delete, AssignRole,
\* canAssignRole).
THEOREM AdministratorsStayOnes == Spec => AdministratorsStay
<1> DEFINE Stay ==
        \A u \in DOMAIN users \cup DOMAIN users' :
            /\ IsAdmin(u) => IsAdmin(u)'
            /\ ~IsAdmin(u) /\ IsAdmin(u)' =>
                  \E w \in Workers : /\ At(w, "insert") /\ task'[w] = Idle
                                     /\ IsAdmin(task[w].by.user)
<1>1. IInv /\ [Next]_vars => [Stay]_<<users, roles>>
    <2> SUFFICES ASSUME IInv, [Next]_vars PROVE Stay
        OBVIOUS
    <2>1. /\ IInv'
          /\ \A u : Adm(users, u) => Adm(users', u)
          /\ \A u : ~Adm(users, u) /\ Adm(users', u) =>
                \E w \in Workers : InsertUser(w) /\ IsAdmin(task[w].by.user)
        BY StaffStep
    <2>2. \A u : IsAdmin(u) <=> Adm(users, u)
        BY AdminIsFirst DEF IInv
    <2>3. (\A u : IsAdmin(u) <=> Adm(users, u))'
        <3>1. (Types /\ AdminFirst(roles))'
            BY <2>1 DEF IInv
        <3> QED BY <3>1, AdminIsFirst, PTL
    <2>4. \A u : IsAdmin(u)' <=> Adm(users', u)
        BY <2>3
    <2>5. \A w \in Workers : InsertUser(w) => At(w, "insert") /\ task'[w] = Idle
        <3>1. \A w \in Workers : InsertUser(w) => task' = [task EXCEPT ![w] = Idle]
            BY DEF InsertUser, Finish, Goto
        <3>2. task \in [Workers -> Task]
            BY DEF IInv, Types
        <3> QED BY <3>1, <3>2 DEF InsertUser
    <2> QED BY <2>1, <2>2, <2>4, <2>5
<1>2. Spec => [][Stay]_<<users, roles>>
    BY <1>1, StaffInductive, PTL DEF Spec
<1> QED BY <1>2 DEF AdministratorsStay
-----------------------------------------------------------------------------
(* The regime "apart": what a request is about, no other one changes.      *)

\* What request t is going to save is the row as it stands, but for the
\* column it is to change; U and R stand for `users` and `roles`.
StandsOn(t, U, R) ==
    /\ t.step = "save" =>
          /\ t.user \in DOMAIN U
          /\ t.own.id = U[t.user].role
          /\ t.kind # "update" => t.row.active = U[t.user].active
          /\ t.kind \notin {"reset", "password"} => t.row.password = U[t.user].password
    /\ t.step \in {"allowed", "save role"} /\ t.kind = "update role" =>
          t.role \in DOMAIN R

ApartInv ==
    /\ IInv
    /\ regime = "apart" =>
          /\ Apart(task)
          /\ \A w \in Workers : StandsOn(task[w], users, roles)

LEMMA IdleStands == \A U, R : StandsOn(Idle, U, R)
BY DEF StandsOn, Idle

\* Requests that overlap are about different accounts and roles.
LEMMA ApartNames ==
    ASSUME IInv, Apart(task), NEW v \in Workers, NEW w \in Workers, v # w
    PROVE  /\ task[v].step = "save" /\ task[w].step \in {"save", "delete"} =>
                  task[v].user # task[w].user
           /\ task[v].step \in {"allowed", "save role"} /\ task[v].kind = "update role"
              /\ task[w].step = "delete role" => task[v].role # task[w].role
<1>1. /\ task[v] \in Task /\ task[w] \in Task
    BY DEF IInv, Types
<1>2. task[v].step # "idle" /\ task[w].step # "idle" =>
          \A c \in {"user", "role"} : Named(task[v], c) \cap Named(task[w], c) = {}
    BY DEF Apart, Busy
<1>3. \A t \in SaveTask \cup DeleteTask : Named(t, "user") = {t.user}
    BY DEF Named, SaveTask, DeleteTask
<1>4. \A t \in SaveRoleTask \cup DropRoleTask : Named(t, "role") = {t.role}
    BY DEF Named, SaveRoleTask, DropRoleTask
<1>5. ASSUME task[v].step = "save", task[w].step \in {"save", "delete"}
      PROVE  task[v].user # task[w].user
    <2>1. task[v] \in SaveTask /\ task[w] \in SaveTask \cup DeleteTask
        BY <1>1, <1>5, TaskOfStep
    <2>2. Named(task[v], "user") \cap Named(task[w], "user") = {}
        BY <1>2, <1>5
    <2> QED BY <1>3, <2>1, <2>2
<1>6. ASSUME task[v].step \in {"allowed", "save role"}, task[v].kind = "update role",
             task[w].step = "delete role"
      PROVE  task[v].role # task[w].role
    <2>1. task[v] \in SaveRoleTask /\ task[w] \in DropRoleTask
        <3>1. \A t \in NewRoleTask : t.kind = "create role"
            BY DEF NewRoleTask
        <3> QED BY <1>1, <1>6, <3>1, TaskOfStep
    <2>2. Named(task[v], "role") \cap Named(task[w], "role") = {}
        BY <1>2, <1>6
    <2> QED BY <1>4, <2>1, <2>2
<1> QED BY <1>5, <1>6

\* A request begins, goes on or ends, and no table changes.
LEMMA QuietStands ==
    ASSUME IInv, \A v \in Workers : StandsOn(task[v], users, roles),
           NEW w \in Workers, NEW t, Goto(w, t), StandsOn(t, users, roles),
           UNCHANGED <<users, roles>>
    PROVE  \A v \in Workers : StandsOn(task'[v], users', roles')
<1>1. \A v \in Workers : task'[v] = IF v = w THEN t ELSE task[v]
    BY DEF IInv, Types, Goto
<1>2. ASSUME NEW v \in Workers PROVE StandsOn(task'[v], users, roles)
    BY <1>1
<1> QED BY <1>2

\* A request ends with a write that leaves the rows of the others alone.
LEMMA WriteStands ==
    ASSUME IInv, \A v \in Workers : StandsOn(task[v], users, roles),
           NEW w \in Workers, Finish(w),
           \A v \in Workers :
               v # w /\ task[v].step = "save" /\ task[v].user \in DOMAIN users =>
                  task[v].user \in DOMAIN users' /\ users'[task[v].user] = users[task[v].user],
           \A v \in Workers :
               /\ v # w /\ task[v].step \in {"allowed", "save role"}
               /\ task[v].kind = "update role" /\ task[v].role \in DOMAIN roles
               => task[v].role \in DOMAIN roles'
    PROVE  \A v \in Workers : StandsOn(task'[v], users', roles')
<1>1. \A v \in Workers : task'[v] = IF v = w THEN Idle ELSE task[v]
    BY DEF IInv, Types, Finish, Goto
<1>2. ASSUME NEW v \in Workers PROVE StandsOn(task'[v], users', roles')
    <2>1. CASE v = w
        <3>1. task'[v] = Idle
            BY <1>1, <2>1
        <3> QED BY <3>1, IdleStands
    <2>2. CASE v # w
        <3>1. task'[v] = task[v]
            BY <1>1, <2>2
        <3>2. StandsOn(task[v], users, roles)
            OBVIOUS
        <3> QED BY <2>2, <3>1, <3>2 DEF StandsOn
    <2> QED BY <2>1, <2>2
<1> QED BY <1>2

\* A request that begins is not about to save.
LEMMA RequestStands ==
    ASSUME IInv, \A v \in Workers : StandsOn(task[v], users, roles),
           NEW w \in Workers, NEW token,
           UserRequest(w, token) \/ RoleRequest(w, token) \/ OwnRequest(w, token)
    PROVE  \A v \in Workers : StandsOn(task'[v], users', roles')
<1> DEFINE Fresh(t) == \/ t.step \in {"assignable", "read", "read role"}
                       \/ t.step = "allowed" /\ t.kind = "create role"
<1>1. task \in [Workers -> Task]
    BY DEF IInv, Types
<1>2. Fresh(task'[w])
    <2>1. ASSUME NEW r, NEW k, CreateUser(w, token, r, k) PROVE Fresh(task'[w])
        BY <1>1, <2>1 DEF CreateUser, Begin, Goto
    <2>2. ASSUME NEW u, NEW a, UpdateUser(w, u, a) PROVE Fresh(task'[w])
        BY <1>1, <2>2 DEF UpdateUser, Begin, Goto
    <2>3. ASSUME NEW u, NEW k, ResetPassword(w, u, k) PROVE Fresh(task'[w])
        BY <1>1, <2>3 DEF ResetPassword, Begin, Goto
    <2>4. ASSUME NEW u, NEW r, AssignRole(w, token, u, r) PROVE Fresh(task'[w])
        BY <1>1, <2>4 DEF AssignRole, Begin, Goto
    <2>5. ASSUME NEW u, DeleteUser(w, u) PROVE Fresh(task'[w])
        BY <1>1, <2>5 DEF DeleteUser, Begin, Goto
    <2>6. ASSUME NEW s, NEW ps, CreateRole(w, token, s, ps) PROVE Fresh(task'[w])
        BY <1>1, <2>6 DEF CreateRole, Begin, Goto
    <2>7. ASSUME NEW r, NEW ps, UpdateRole(w, token, r, ps) PROVE Fresh(task'[w])
        BY <1>1, <2>7 DEF UpdateRole, Begin, Goto
    <2>8. ASSUME NEW r, DeleteRole(w, r) PROVE Fresh(task'[w])
        BY <1>1, <2>8 DEF DeleteRole, Begin, Goto
    <2>9. ASSUME NEW old, NEW k, ChangePassword(w, token, old, k) PROVE Fresh(task'[w])
        BY <1>1, <2>9 DEF ChangePassword, Begin, Goto
    <2> HIDE DEF Fresh
    <2> QED BY <2>1, <2>2, <2>3, <2>4, <2>5, <2>6, <2>7, <2>8, <2>9
            DEF UserRequest, RoleRequest, OwnRequest
<1>3. StandsOn(task'[w], users, roles)
    BY <1>2 DEF StandsOn
<1>4. \E t : Begin(w, t)
    BY DEF UserRequest, RoleRequest, OwnRequest, CreateUser, UpdateUser, ResetPassword,
           AssignRole, DeleteUser, CreateRole, UpdateRole, DeleteRole, ChangePassword
<1>5. PICK t : Goto(w, t) /\ UNCHANGED <<users, roles>>
    BY <1>4 DEF Begin, Unchanged
<1>6. task'[w] = t
    BY <1>1, <1>5 DEF Goto
<1> QED BY <1>3, <1>5, <1>6, QuietStands

\* What a request reads is the row as it stands.
LEMMA ReadStands ==
    ASSUME IInv, \A v \in Workers : StandsOn(task[v], users, roles),
           NEW w \in Workers,
           CanAssign(w) \/ ReadUser(w) \/ ReadRole(w) \/ Allowed(w) \/ Fail(w)
    PROVE  \A v \in Workers : StandsOn(task'[v], users', roles')
<1> DEFINE t == task[w]
<1>1. t \in Task /\ UNCHANGED <<users, roles>>
    BY DEF IInv, Types, CanAssign, ReadUser, ReadRole, Allowed, Fail, Unchanged
<1>2. StandsOn(Idle, users, roles)
    BY IdleStands
<1>3. CASE CanAssign(w)
    <2>1. \/ Finish(w) \/ Step(w, "insert") \/ Step(w, "read")
        BY <1>3 DEF CanAssign
    <2>2. \A s \in {"insert", "read"} : StandsOn([t EXCEPT !.step = s], users, roles)
        <3>1. t \in CreateTask \cup AssignTask
            BY <1>1, <1>3, TaskOfStep DEF CanAssign, At
        <3>2. \A s \in {"insert", "read"} : [t EXCEPT !.step = s].step = s
            BY <3>1 DEF CreateTask, AssignTask
        <3> QED BY <3>2 DEF StandsOn
    <2> QED BY <1>1, <1>2, <2>1, <2>2, QuietStands DEF Finish, Step
<1>4. CASE ReadUser(w)
    <2> DEFINE row == users[t.user]
               n == [step |-> "save", kind |-> t.kind, user |-> t.user,
                     row |-> Changed(t, row),
                     own |-> [id |-> row.role, row |-> roles[row.role]]]
    <2>1. t \in AssignTask \cup UpdateTask \cup ResetTask \cup PasswordTask \cup DeleteTask
        BY <1>1, <1>4, TaskOfStep DEF ReadUser, At
    <2>2. \/ Finish(w)
          \/ t.kind = "delete" /\ Step(w, "delete")
          \/ t.kind # "delete" /\ t.user \in DOMAIN users /\ Goto(w, n)
        BY <1>4 DEF ReadUser
    <2>3. StandsOn([t EXCEPT !.step = "delete"], users, roles)
        <3>1. [t EXCEPT !.step = "delete"].step = "delete"
            BY <2>1 DEF AssignTask, UpdateTask, ResetTask, PasswordTask, DeleteTask
        <3> QED BY <3>1 DEF StandsOn
    <2>4. ASSUME t.kind # "delete", t.user \in DOMAIN users
          PROVE  StandsOn(n, users, roles)
        <3>1. row \in Account
            BY <2>4 DEF IInv, Types, UsersOK
        <3>2. t.kind \in SaveKinds
            BY <2>1, <2>4 DEF AssignTask, UpdateTask, ResetTask, PasswordTask, DeleteTask,
                              SaveKinds
        <3>3. /\ t.kind # "update" => Changed(t, row).active = row.active
              /\ t.kind \notin {"reset", "password"} => Changed(t, row).password = row.password
            BY <3>1, <3>2 DEF Changed, Account, SaveKinds
        <3>4. /\ n.step = "save" /\ n.kind = t.kind /\ n.user = t.user
              /\ n.row = Changed(t, row) /\ n.own.id = row.role
            OBVIOUS
        <3> HIDE DEF n
        <3> QED BY <2>4, <3>3, <3>4 DEF StandsOn
    <2> HIDE DEF n
    <2> QED BY <1>1, <1>2, <2>2, <2>3, <2>4, QuietStands DEF Finish, Step
<1>5. CASE ReadRole(w)
    <2> DEFINE n == [step |-> "allowed", kind |-> t.kind, by |-> t.by,
                     role |-> t.role, perms |-> t.perms,
                     row |-> [roles[t.role] EXCEPT !.perms = t.perms]]
    <2>1. t \in FindRoleTask \cup DropRoleTask
        BY <1>1, <1>5, TaskOfStep DEF ReadRole, At
    <2>2. \/ Finish(w) \/ Step(w, "delete role")
          \/ t.role \in DOMAIN roles /\ Goto(w, n)
        BY <1>5 DEF ReadRole
    <2>3. StandsOn([t EXCEPT !.step = "delete role"], users, roles)
        <3>1. [t EXCEPT !.step = "delete role"].step = "delete role"
            BY <2>1 DEF FindRoleTask, DropRoleTask
        <3> QED BY <3>1 DEF StandsOn
    <2>4. t.role \in DOMAIN roles => StandsOn(n, users, roles)
        BY DEF StandsOn
    <2> HIDE DEF n
    <2> QED BY <1>1, <1>2, <2>2, <2>3, <2>4, QuietStands DEF Finish, Step
<1>6. CASE Allowed(w)
    <2>1. t \in NewRoleTask \cup SaveRoleTask /\ t.step = "allowed"
        BY <1>1, <1>6, TaskOfStep DEF Allowed, At
    <2>2. \/ Finish(w) \/ Step(w, "insert role") \/ Step(w, "save role")
        BY <1>6 DEF Allowed
    <2>3. StandsOn(t, users, roles)
        OBVIOUS
    <2>4. \A s \in {"insert role", "save role"} :
              LET n == [t EXCEPT !.step = s]
              IN  n.step = s /\ n.kind = t.kind /\ (t.kind = "update role" => n.role = t.role)
        BY <2>1 DEF NewRoleTask, SaveRoleTask
    <2>5. \A s \in {"insert role", "save role"} :
              StandsOn([t EXCEPT !.step = s], users, roles)
        BY <2>1, <2>3, <2>4 DEF StandsOn
    <2> QED BY <1>1, <1>2, <2>2, <2>5, QuietStands DEF Finish, Step
<1>7. CASE Fail(w)
    BY <1>1, <1>2, <1>7, QuietStands DEF Fail, Finish
<1> QED BY <1>3, <1>4, <1>5, <1>6, <1>7

\* What one request writes, no other one stands on.
LEMMA WritesApart ==
    ASSUME IInv, Apart(task), \A v \in Workers : StandsOn(task[v], users, roles),
           NEW w \in Workers,
           \/ InsertUser(w) \/ DeleteRow(w) \/ SaveUser(w)
           \/ InsertRole(w) \/ SaveRole(w) \/ DeleteRoleRow(w)
    PROVE  \A v \in Workers : StandsOn(task'[v], users', roles')
<1> DEFINE t == task[w]
           Users(v) ==
               v # w /\ task[v].step = "save" /\ task[v].user \in DOMAIN users =>
                  task[v].user \in DOMAIN users' /\ users'[task[v].user] = users[task[v].user]
           Roles(v) ==
               /\ v # w /\ task[v].step \in {"allowed", "save role"}
               /\ task[v].kind = "update role" /\ task[v].role \in DOMAIN roles
               => task[v].role \in DOMAIN roles'
<1>1. Finish(w)
    BY DEF InsertUser, DeleteRow, SaveUser, InsertRole, SaveRole, DeleteRoleRow
<1>2. SUFFICES \A v \in Workers : Users(v) /\ Roles(v)
    <2>1. ASSUME \A v \in Workers : Users(v) /\ Roles(v)
          PROVE  /\ \A v \in Workers : Users(v)
                 /\ \A v \in Workers : Roles(v)
        <3> HIDE DEF Users, Roles
        <3> QED BY <2>1
    <2> QED BY <1>1, <2>1, WriteStands
<1>3. \A id, row : \A i \in DOMAIN users : i \in DOMAIN Put(users, id, row)
                                   /\ (i # id => Put(users, id, row)[i] = users[i])
    BY DEF Put
<1>4. \A id, row : \A i \in DOMAIN roles : i \in DOMAIN Put(roles, id, row)
    BY DEF Put
<1>5. CASE InsertUser(w)
    <2>1. /\ roles' = roles
          /\ \E row : users' = Put(users, last.user + 1, row)
        BY <1>5 DEF InsertUser
    <2>2. last.user + 1 \notin DOMAIN users
        <3>1. last.user \in Nat /\ \A u \in DOMAIN users : u \in 1..last.user
            BY StaffAssumption DEF IInv, Types, UsersOK
        <3> QED BY <3>1
    <2>3. \A i \in DOMAIN users : i \in DOMAIN users' /\ users'[i] = users[i]
        <3>1. PICK row : users' = Put(users, last.user + 1, row)
            BY <2>1
        <3>2. \A i \in DOMAIN users : i # last.user + 1
            BY <2>2
        <3> DEFINE n == last.user + 1
        <3> HIDE DEF n
        <3> QED BY <1>3, <3>1, <3>2 DEF n
    <2> QED BY <2>1, <2>3
<1>6. CASE DeleteRow(w)
    <2>1. roles' = roles /\ users' = Without(users, t.user) /\ t.step = "delete"
        BY <1>6 DEF DeleteRow, At
    <2>2. \A v \in Workers : v # w /\ task[v].step = "save" => task[v].user # t.user
        BY <2>1, ApartNames
    <2>3. \A i \in DOMAIN users : i # t.user =>
              i \in DOMAIN Without(users, t.user) /\ Without(users, t.user)[i] = users[i]
        BY DEF Without
    <2> QED BY <2>1, <2>2, <2>3
<1>7. CASE SaveUser(w)
    <2>1. /\ roles' = RolesAfterSave(t.own)
          /\ users' = Put(users, t.user, SavedRow(t))
          /\ t.step = "save"
        BY <1>7 DEF SaveUser, At
    <2>2. \A v \in Workers : v # w /\ task[v].step = "save" => task[v].user # t.user
        BY <2>1, ApartNames
    <2>3. \A r \in DOMAIN roles : r \in DOMAIN roles'
        BY <1>4, <2>1 DEF RolesAfterSave
    <2> HIDE DEF t
    <2> QED BY <1>3, <2>1, <2>2, <2>3
<1>8. CASE InsertRole(w)
    <2>1. users' = users /\ \E r, row : roles' = Put(roles, r, row)
        BY <1>8 DEF InsertRole
    <2> QED BY <1>4, <2>1
<1>9. CASE SaveRole(w)
    <2>1. users' = users /\ \E r, row : roles' = Put(roles, r, row)
        BY <1>9 DEF SaveRole
    <2> QED BY <1>4, <2>1
<1>10. CASE DeleteRoleRow(w)
    <2>1. users' = users /\ roles' = Without(roles, t.role) /\ t.step = "delete role"
        BY <1>10 DEF DeleteRoleRow, At
    <2>2. \A v \in Workers :
              v # w /\ task[v].step \in {"allowed", "save role"}
              /\ task[v].kind = "update role" => task[v].role # t.role
        BY <2>1, ApartNames
    <2>3. \A r \in DOMAIN roles : r # t.role => r \in DOMAIN Without(roles, t.role)
        BY DEF Without
    <2> QED BY <2>1, <2>2, <2>3
<1> QED BY <1>5, <1>6, <1>7, <1>8, <1>9, <1>10

LEMMA ApartStep ==
    ASSUME ApartInv, [RegimeNext]_mcvars
    PROVE  ApartInv'
<1>1. CASE RegimeNext
    <2>1. Next /\ regime' = regime /\ (regime = "apart" => Apart(task'))
        BY <1>1 DEF RegimeNext
    <2>2. IInv'
        BY <2>1, StaffStep DEF ApartInv
    <2>3. ASSUME regime = "apart"
          PROVE  Apart(task') /\ \A v \in Workers : StandsOn(task'[v], users', roles')
        <3>1. Apart(task')
            BY <2>1, <2>3
        <3>2. IInv /\ Apart(task) /\ \A v \in Workers : StandsOn(task[v], users, roles)
            BY <2>3 DEF ApartInv
        <3>3. ASSUME NEW u, NEW k, Login(u, k)
              PROVE  \A v \in Workers : StandsOn(task'[v], users', roles')
            BY <3>2, <3>3 DEF Login
        <3>4. CASE Restart
            <4>1. \A v \in Workers : task'[v] = Idle
                BY <3>4 DEF Restart
            <4> QED BY <3>1, <4>1, IdleStands
        <3>5. ASSUME NEW w \in Workers, NEW token \in tokens,
                     UserRequest(w, token) \/ RoleRequest(w, token) \/ OwnRequest(w, token)
              PROVE  \A v \in Workers : StandsOn(task'[v], users', roles')
            BY <3>2, <3>5, RequestStands
        <3>6. ASSUME NEW w \in Workers, Handle(w)
              PROVE  \A v \in Workers : StandsOn(task'[v], users', roles')
            BY <3>2, <3>6, ReadStands, WritesApart DEF Handle
        <3> QED BY <2>1, <3>1, <3>3, <3>4, <3>5, <3>6 DEF Next
    <2> QED BY <2>1, <2>2, <2>3 DEF ApartInv
<1>2. CASE UNCHANGED mcvars
    <2>1. IInv'
        BY <1>2, StaffStep DEF mcvars, ApartInv
    <2> QED BY <1>2, <2>1 DEF mcvars, vars, ApartInv
<1> QED BY <1>1, <1>2

LEMMA ApartInit == RegimeInit => ApartInv
<1> SUFFICES ASSUME RegimeInit PROVE ApartInv
    OBVIOUS
<1>1. IInv
    BY StaffInit DEF RegimeInit
<1>2. \A w \in Workers : task[w] = Idle
    BY DEF RegimeInit, Init
<1>3. Apart(task)
    BY <1>2 DEF Apart, Busy, Idle
<1>4. \A w \in Workers : StandsOn(task[w], users, roles)
    BY <1>2, IdleStands
<1> QED BY <1>1, <1>3, <1>4 DEF ApartInv

LEMMA AccountColumns ==
    ASSUME NEW x \in Account, NEW r, NEW a, NEW k
    PROVE  /\ [x EXCEPT !.role = r, !.active = a]
                  = [role |-> r, active |-> a, password |-> x.password]
           /\ [x EXCEPT !.active = a, !.password = k]
                  = [role |-> x.role, active |-> a, password |-> k]
<1>1. x = [role |-> x.role, active |-> x.active, password |-> x.password]
    BY DEF Account
<1>2. [x EXCEPT !.role = r, !.active = a]
          = [role |-> r, active |-> a, password |-> x.password]
    <2>1. [x EXCEPT !.role = r] = [role |-> r, active |-> x.active, password |-> x.password]
        BY <1>1
    <2>2. [[role |-> r, active |-> x.active, password |-> x.password] EXCEPT !.active = a]
              = [role |-> r, active |-> a, password |-> x.password]
        OBVIOUS
    <2>3. [[x EXCEPT !.role = r] EXCEPT !.active = a]
              = [role |-> r, active |-> a, password |-> x.password]
        BY <2>1, <2>2, Zenon
    <2> QED BY <2>3
<1>3. [x EXCEPT !.active = a, !.password = k]
          = [role |-> x.role, active |-> a, password |-> k]
    <2>1. [x EXCEPT !.active = a] = [role |-> x.role, active |-> a, password |-> x.password]
        BY <1>1
    <2>2. [[role |-> x.role, active |-> a, password |-> x.password] EXCEPT !.password = k]
              = [role |-> x.role, active |-> a, password |-> k]
        OBVIOUS
    <2>3. [[x EXCEPT !.active = a] EXCEPT !.password = k]
              = [role |-> x.role, active |-> a, password |-> k]
        BY <2>1, <2>2, Zenon
    <2> QED BY <2>3
<1> QED BY <1>2, <1>3

\* A save changes its one column in the row as it stands.
LEMMA SaveChangesOne ==
    ASSUME IInv, NEW w \in Workers, StandsOn(task[w], users, roles), SaveUser(w)
    PROVE  LET t == task[w] IN
           /\ t.user \in DOMAIN users
           /\ users' = [users EXCEPT
                 ![t.user].active = IF t.kind = "update" THEN t.row.active ELSE @,
                 ![t.user].password = IF t.kind \in {"reset", "password"}
                                      THEN t.row.password ELSE @]
           /\ roles' = roles
<1> DEFINE t == task[w]
           u == t.user
           old == users[u]
           new == SavedRow(t)
           a == IF t.kind = "update" THEN t.row.active ELSE old.active
           k == IF t.kind \in {"reset", "password"} THEN t.row.password ELSE old.password
<1>1. t \in SaveTask /\ t.step = "save"
    BY TaskOfStep DEF IInv, Types, SaveUser, At
<1>2. /\ u \in DOMAIN users /\ t.own.id = old.role
      /\ a = t.row.active /\ k = t.row.password
    BY <1>1 DEF StandsOn
<1>3. /\ users \in [DOMAIN users -> Account] /\ old \in Account /\ old.role \in DOMAIN roles
    BY <1>2 DEF IInv, Types, UsersOK
<1>4. t.row \in Account
    BY <1>1 DEF SaveTask
<1>5. roles' = roles
    BY <1>2, <1>3 DEF SaveUser, RolesAfterSave
<1>6. new = [role |-> old.role, active |-> a, password |-> k]
    <2>1. new = [t.row EXCEPT !.role = old.role,
                               !.active = t.row.active \/ u \notin DOMAIN users]
        BY <1>2 DEF SavedRow
    <2>2. new = [role |-> old.role, active |-> t.row.active \/ u \notin DOMAIN users,
                 password |-> t.row.password]
        BY <1>4, <2>1, AccountColumns, Zenon
    <2>3. (t.row.active \/ u \notin DOMAIN users) = t.row.active
        BY <1>2, <1>4 DEF Account
    <2>4. a = t.row.active /\ k = t.row.password
        BY <1>2
    <2> HIDE DEF new, a, k
    <2> QED BY <2>2, <2>3, <2>4
<1>7. users' = Put(users, u, new)
    BY DEF SaveUser
<1> HIDE DEF new
<1>8. users' = [i \in DOMAIN users |-> IF i = u THEN new ELSE users[i]]
    BY <1>2, <1>7 DEF Put
<1>9. [old EXCEPT !.active = a, !.password = k] = new
    <2> HIDE DEF a, k
    <2> QED BY <1>3, <1>6, AccountColumns
<1>10. users' = [users EXCEPT ![u] = [old EXCEPT !.active = a, !.password = k]]
    BY <1>3, <1>8, <1>9
<1> QED BY <1>2, <1>3, <1>5, <1>10

\* That column is the one it is for; one that assigns a role changes none.
LEMMA SaveSetsColumn ==
    ASSUME IInv, NEW w \in Workers, StandsOn(task[w], users, roles), SaveUser(w)
    PROVE  LET t == task[w] IN
           /\ t.user \in DOMAIN users
           /\ users' # users =>
                 users' = [users EXCEPT
                              ![t.user][Column(t.kind)] = t.row[Column(t.kind)]]
           /\ roles' = roles
<1> DEFINE t == task[w]
           u == t.user
<1>1. /\ u \in DOMAIN users
      /\ users' = [users EXCEPT
            ![u].active = IF t.kind = "update" THEN t.row.active ELSE @,
            ![u].password = IF t.kind \in {"reset", "password"}
                            THEN t.row.password ELSE @]
      /\ roles' = roles
    BY SaveChangesOne
<1>2. /\ users \in [DOMAIN users -> Account] /\ users[u] \in Account
      /\ t.kind \in {"update", "assign", "reset", "password"}
    <2>1. t \in SaveTask
        BY TaskOfStep DEF IInv, Types, SaveUser, At
    <2>2. t.kind \in {"update", "assign", "reset", "password"}
        BY <2>1 DEF SaveTask, SaveKinds
    <2> QED BY <1>1, <2>2 DEF IInv, Types, UsersOK
<1> HIDE DEF t, u
<1>3. CASE t.kind = "update"
    <2>1. Column(t.kind) = "active"
        BY <1>3 DEF Column
    <2>2. users' = [users EXCEPT ![u].active = t.row.active]
        BY <1>1, <1>2, <1>3 DEF Account
    <2> QED BY <1>1, <2>1, <2>2 DEF t, u
<1>4. CASE t.kind \in {"reset", "password"}
    <2>1. Column(t.kind) = "password"
        BY <1>4 DEF Column
    <2>2. users' = [users EXCEPT ![u].password = t.row.password]
        BY <1>1, <1>2, <1>4 DEF Account
    <2> QED BY <1>1, <2>1, <2>2 DEF t, u
<1>5. CASE t.kind = "assign"
    <2>1. users' = users
        <3>1. users' = [users EXCEPT ![u] = [@ EXCEPT !.active = users[u].active,
                                                     !.password = users[u].password]]
            BY <1>1, <1>2, <1>5 DEF Account
        <3>2. [users[u] EXCEPT !.active = users[u].active,
                               !.password = users[u].password] = users[u]
            BY <1>2 DEF Account
        <3> QED BY <1>1, <1>2, <3>1, <3>2
    <2> QED BY <1>1, <2>1 DEF t, u
<1> QED BY <1>2, <1>3, <1>4, <1>5

\* Only a request's own steps and a restart end it.
LEMMA OnlyItsSteps ==
    ASSUME task \in [Workers -> Task], Next \/ UNCHANGED vars, ~Restart,
           NEW w \in Workers, task[w].step # "idle", task'[w].step = "idle"
    PROVE  Handle(w)
<1>1. ASSUME NEW v \in Workers, NEW t, Goto(v, t)
      PROVE  v = w
    BY <1>1 DEF Goto
<1>2. task' # task
    OBVIOUS
<1>3. ~\E u \in DOMAIN users, k \in Passwords : Login(u, k)
    BY <1>2 DEF Login
<1>4. ASSUME NEW v \in Workers, NEW token,
             UserRequest(v, token) \/ RoleRequest(v, token) \/ OwnRequest(v, token)
      PROVE  FALSE
    <2>1. At(v, "idle")
        BY <1>4 DEF UserRequest, RoleRequest, OwnRequest, Permitted, Authenticated
    <2>2. \E t : Begin(v, t)
        BY <1>4 DEF UserRequest, RoleRequest, OwnRequest, CreateUser, UpdateUser,
                    ResetPassword, AssignRole, DeleteUser, CreateRole, UpdateRole,
                    DeleteRole, ChangePassword
    <2> QED BY <1>1, <2>1, <2>2 DEF Begin, At
<1>5. ASSUME NEW v \in Workers, Handle(v) PROVE v = w
    <2>1. CASE CanAssign(v) \/ ReadUser(v) \/ ReadRole(v) \/ Allowed(v)
        <3>1. \E t : Goto(v, t)
            BY <2>1 DEF CanAssign, ReadUser, ReadRole, Allowed, Step, Finish
        <3> QED BY <1>1, <3>1
    <2>2. CASE ~(CanAssign(v) \/ ReadUser(v) \/ ReadRole(v) \/ Allowed(v))
        <3>1. Finish(v)
            BY <1>5, <2>2 DEF Handle, InsertUser, DeleteRow, SaveUser, InsertRole, SaveRole,
                              DeleteRoleRow, Fail
        <3> QED BY <1>1, <3>1 DEF Finish
    <2> QED BY <2>1, <2>2
<1> QED BY <1>2, <1>3, <1>4, <1>5 DEF Next, vars

LEMMA SavesApart ==
    ASSUME ApartInv, regime = "apart", [RegimeNext]_mcvars
    PROVE  SavesOneChange
<1>1. IInv /\ task \in [Workers -> Task] /\ \A w \in Workers : StandsOn(task[w], users, roles)
    BY DEF ApartInv, IInv, Types
<1>2. SUFFICES ASSUME NEW w \in Workers, At(w, "idle")', ~At(w, "idle")
               PROVE  LET t == task[w] IN
                      /\ (At(w, "save") /\ users' # users) =>
                           /\ t.user \in DOMAIN users
                           /\ users' = [users EXCEPT
                                 ![t.user][Column(t.kind)] = t.row[Column(t.kind)]]
                           /\ roles' = roles
                      /\ At(w, "save role") =>
                            /\ DOMAIN roles' = DOMAIN roles
                            /\ \A r \in DOMAIN roles \ ({t.role} \cup WithSlug("admin")) :
                                  roles'[r] = roles[r]
    BY DEF SavesOneChange, At
<1>3. task'[w].step = "idle" /\ task[w].step # "idle"
    BY <1>2 DEF At
<1>4. CASE Restart
    <2>1. /\ users' = users
          /\ roles' = [r \in DOMAIN roles |->
                         IF roles[r].slug = "admin"
                         THEN [roles[r] EXCEPT !.perms = Permissions] ELSE roles[r]]
        BY <1>4 DEF Restart
    <2>2. DOMAIN roles' = DOMAIN roles
        BY <2>1
    <2>3. \A r \in DOMAIN roles \ WithSlug("admin") : roles'[r] = roles[r]
        BY <2>1 DEF WithSlug
    <2> QED BY <2>1, <2>2, <2>3
<1>5. CASE ~Restart
    <2>1. Handle(w)
        <3>1. Next \/ UNCHANGED vars
            BY DEF RegimeNext, mcvars
        <3> QED BY <1>1, <1>3, <1>5, <3>1, OnlyItsSteps
    <2>2. CASE SaveUser(w)
        <3>1. ~At(w, "save role")
            BY <2>2 DEF SaveUser, At
        <3>2. StandsOn(task[w], users, roles)
            BY <1>1
        <3> QED BY <1>1, <2>2, <3>1, <3>2, SaveSetsColumn
    <2>3. CASE SaveRole(w)
        <3>1. ~At(w, "save")
            BY <2>3 DEF SaveRole, At
        <3>2. task[w] \in SaveRoleTask /\ task[w].step = "save role"
            BY <1>1, <2>3, TaskOfStep DEF SaveRole, At
        <3>3. task[w].role \in DOMAIN roles
            BY <1>1, <3>2 DEF StandsOn, SaveRoleTask
        <3>4. roles' = Put(roles, task[w].role, task[w].row)
            BY <2>3, <3>3 DEF SaveRole
        <3>5. DOMAIN roles' = DOMAIN roles
              /\ \A r \in DOMAIN roles : r # task[w].role => roles'[r] = roles[r]
            BY <3>3, <3>4 DEF Put
        <3> QED BY <3>1, <3>5
    <2>4. CASE ~(SaveUser(w) \/ SaveRole(w))
        <3>1. Fail(w) \/ (~At(w, "save") /\ ~At(w, "save role"))
            BY <2>1, <2>4 DEF Handle, CanAssign, InsertUser, ReadUser, DeleteRow, ReadRole,
                              Allowed, InsertRole, DeleteRoleRow, At
        <3>2. Fail(w) => users' = users /\ roles' = roles
            BY DEF Fail, Unchanged
        <3> QED BY <3>1, <3>2
    <2> QED BY <2>2, <2>3, <2>4
<1> QED BY <1>4, <1>5

\* While requests about one account or one role do not overlap, a save of a
\* whole account or role changes what it was asked to change and nothing else,
\* and brings back none that was deleted (user_service.go, role_service.go).
THEOREM SavesAreApart == RegimeSpec => SavesOneChangeApart
<1>1. RegimeInit => ApartInv
    BY ApartInit
<1>2. ApartInv /\ [RegimeNext]_mcvars => ApartInv'
    BY ApartStep
<1>3. ApartInv /\ [RegimeNext]_mcvars => [regime = "apart" => SavesOneChange]_<<users, roles>>
    BY SavesApart
<1> QED BY <1>1, <1>2, <1>3, PTL DEF RegimeSpec, SavesOneChangeApart

\* What TLC checks are behaviours that the theorems are about.
THEOREM InstancesAreCovered == MCSpec => RegimeSpec /\ Spec
<1>1. MCInit => RegimeInit /\ Init
    BY DEF MCInit, RegimeInit
<1>2. [MCNext]_mcvars => [RegimeNext]_mcvars /\ [Next]_vars
    BY DEF MCNext, RegimeNext, mcvars
<1> QED BY <1>1, <1>2, PTL DEF MCSpec, RegimeSpec, Spec
=============================================================================
