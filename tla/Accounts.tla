------------------------------ MODULE Accounts ------------------------------
(***************************************************************************)
(* Accounts, invite codes, sessions and API keys: registration and the     *)
(* deletion of accounts (server/userhandler), signing in and out           *)
(* (server/auth.go, server/middleware.go), the invite codes that           *)
(* administrators hand out (server/adminhandler) and the keys of the API   *)
(* (server/apikeyhandler), over internal/store, statement by statement and *)
(* without a transaction.                                                  *)
(*                                                                         *)
(* An account is its id, whether it administers, and the invite it came    *)
(* with: e-mail addresses, passwords and settings are left out.  Ids and   *)
(* codes are random and never issued twice.                                *)
(***************************************************************************)
EXTENDS Integers, FiniteSets

CONSTANTS
  Ids,      \* ids of accounts
  Codes,    \* invite codes
  KeyIds,   \* ids of API keys
  Browsers, \* clients that keep a session cookie
  Slots,    \* requests served at a time
  MaxKeys,  \* maxAPIKeys
  none

ASSUME AccountsAssumption ==
  /\ none \notin Ids \cup Codes
  /\ MaxKeys \in Nat \ {0}
  /\ IsFiniteSet(KeyIds) /\ IsFiniteSet(Slots)

VARIABLES
  users, admins,       \* users, and those with is_admin
  created_by, used_by, \* of an invite code; created_by is none if it has no row
  owner,               \* user_id of an API key, none if it has no row
  session,             \* the account of a browser's session, none if it has no live one
  pc,                  \* the statement a request is about to execute
  user,                \* the account a request acts for, or has created
  code,                \* the invite a registration brings
  needsInvite,
  born,                \* history: accounts there have ever been
  issued,              \* history: invite codes there have ever been
  letin,               \* history: the invite an account came with
  excess,              \* history: the overlaps and lost marks of an invite, see below
  occupied,            \* history: requests since whose beginning there were always accounts
  adminLeft            \* history: an account that administers has been deleted

accounts == <<users, admins>>
invites  == <<created_by, used_by>>
request  == <<pc, user, code, needsInvite>>
history  == <<born, issued, letin, excess, occupied, adminLeft>>
vars     == <<accounts, invites, owner, session, request, history>>

Points == {"idle", "count", "invite", "create", "use", "session", "issue", "revoke",
           "countKeys", "createKey", "removeKey", "removeUser"}

(* The keys of an account, and the requests about to insert one for it. *)
KeysOf(u) == {k \in KeyIds : owner[k] = u}
Inserting(u) == {s \in Slots : pc[s] = "createKey" /\ user[s] = u}

(* The rows that other rows refer to exist (sql/schema.sql). *)
TypeOK ==
  /\ users \subseteq born /\ born \subseteq Ids /\ admins \subseteq users
  /\ created_by \in [Codes -> users \cup {none}]
  /\ used_by \in [Codes -> users \cup {none}]
  /\ \A c \in Codes : created_by[c] # none => c \in issued
  /\ issued \subseteq Codes
  /\ owner \in [KeyIds -> users \cup {none}]
  /\ session \in [Browsers -> users \cup {none}]
  /\ pc \in [Slots -> Points]
  /\ user \in [Slots -> Ids \cup {none}]
  /\ code \in [Slots -> Codes \cup {none}]
  /\ needsInvite \in [Slots -> BOOLEAN]
  /\ letin \in [Ids -> Codes \cup {none}]
  /\ excess \in [Codes -> Int]
  /\ occupied \in [Slots -> BOOLEAN]
  /\ adminLeft \in BOOLEAN

Init ==
  /\ users = {} /\ admins = {} /\ born = {}
  /\ created_by = [c \in Codes |-> none] /\ used_by = [c \in Codes |-> none]
  /\ owner = [k \in KeyIds |-> none]
  /\ session = [b \in Browsers |-> none]
  /\ pc = [s \in Slots |-> "idle"]
  /\ user = [s \in Slots |-> none]
  /\ code = [s \in Slots |-> none]
  /\ needsInvite = [s \in Slots |-> FALSE]
  /\ issued = {} /\ letin = [u \in Ids |-> none]
  /\ excess = [c \in Codes |-> 0]
  /\ occupied = [s \in Slots |-> FALSE]
  /\ adminLeft = FALSE
-----------------------------------------------------------------------------
(* The steps of a request: where it goes on, and what it knows.  It ends   *)
(* with an answer, after which nothing of it is left.                      *)
Continue(s, p) == pc' = [pc EXCEPT ![s] = p]

Answer(s) ==
  /\ Continue(s, "idle")
  /\ user' = [user EXCEPT ![s] = none]
  /\ code' = [code EXCEPT ![s] = none]
  /\ needsInvite' = [needsInvite EXCEPT ![s] = FALSE]

(* Registrations that have found this invite unused and not yet recorded its use. *)
Holds(s) == pc[s] \in {"create", "use"} /\ needsInvite[s]
Holders(c) == {s \in Slots : Holds(s) /\ code[s] = c}

(* What more than one account at a time an invite may have let in: one for *)
(* every registration that found it unused while another held it, unless   *)
(* one of them fails, and one for every mark of its use that was lost.     *)
Exceed(c, n) == excess' = [excess EXCEPT ![c] = @ + n]

(* A statement fails and with it the request; but not CountUsers and       *)
(* UseInviteCode, whose errors registration goes on from.                  *)
StatementFails(s) ==
  /\ pc[s] \notin {"idle", "count", "use"}
  /\ IF Holds(s) /\ Holders(code[s]) # {s} THEN Exceed(code[s], -1) ELSE UNCHANGED excess
  /\ Answer(s)
  /\ UNCHANGED <<accounts, invites, owner, session, born, issued, letin, occupied, adminLeft>>
-----------------------------------------------------------------------------
(* Registration. *)

(* An arbitrary registration, with an invite or without (code is none). *)
Register(s, c) ==
  /\ pc[s] = "idle"
  /\ Continue(s, "count")
  /\ code' = [code EXCEPT ![s] = c]
  /\ occupied' = [occupied EXCEPT ![s] = users # {}]
  /\ UNCHANGED <<accounts, invites, owner, session, user, needsInvite,
                 born, issued, letin, excess, adminLeft>>

(* The rest of the form's checks: one that needs an invite must bring one. *)
Checked(s, needs) ==
  IF needs /\ code[s] = none
  THEN Answer(s)
  ELSE /\ Continue(s, IF needs THEN "invite" ELSE "create")
       /\ needsInvite' = [needsInvite EXCEPT ![s] = needs]
       /\ UNCHANGED <<user, code>>

CountUsers(s) ==
  /\ pc[s] = "count"
  /\ Checked(s, users # {})
  /\ UNCHANGED <<accounts, invites, owner, session, history>>

\* Faulty variant of CountFails: no accounts are seen where they could not be counted.
CountFailsOpen(s) ==
  /\ pc[s] = "count"
  /\ Checked(s, FALSE)
  /\ UNCHANGED <<accounts, invites, owner, session, history>>

(* requireInviteCode answers true on an error. *)
CountFails(s) ==
  /\ pc[s] = "count"
  /\ Checked(s, TRUE)
  /\ UNCHANGED <<accounts, invites, owner, session, history>>

\* Faulty variants of Unused: the one check or the other is missing.
Exists(c) == created_by[c] # none
NotUsed(c) == used_by[c] = none

Unused(c) == created_by[c] # none /\ used_by[c] = none

GetInviteCodeByCode(s) ==
  /\ pc[s] = "invite"
  /\ IF Unused(code[s])
     THEN /\ Continue(s, "create")
          /\ IF Holders(code[s]) = {} THEN UNCHANGED excess ELSE Exceed(code[s], 1)
          /\ UNCHANGED <<user, code, needsInvite>>
     ELSE Answer(s) /\ UNCHANGED excess
  /\ UNCHANGED <<accounts, invites, owner, session, born, issued, letin, occupied, adminLeft>>

CreateUser(s, u) ==
  /\ pc[s] = "create" /\ u \notin born
  /\ users' = users \cup {u} /\ born' = born \cup {u}
  /\ admins' = IF needsInvite[s] THEN admins ELSE admins \cup {u}
  /\ IF needsInvite[s]
     THEN /\ Continue(s, "use")
          /\ user' = [user EXCEPT ![s] = u]
          /\ letin' = [letin EXCEPT ![u] = code[s]]
          /\ UNCHANGED <<code, needsInvite>>
     ELSE Answer(s) /\ UNCHANGED letin
  /\ UNCHANGED <<invites, owner, session, issued, excess, occupied, adminLeft>>

(* The update finds no row if the code has been deleted, and breaks the    *)
(* foreign key if the account has; the request answers alike.              *)
UseInviteCode(s) ==
  /\ pc[s] = "use"
  /\ used_by' = IF created_by[code[s]] # none /\ user[s] \in users
                THEN [used_by EXCEPT ![code[s]] = user[s]]
                ELSE used_by
  /\ Answer(s)
  /\ UNCHANGED <<accounts, created_by, owner, session, history>>

(* An error is logged, and the invite stays unused. *)
UseFails(s) ==
  /\ pc[s] = "use"
  /\ Answer(s)
  /\ Exceed(code[s], 1)
  /\ UNCHANGED <<accounts, invites, owner, session, born, issued, letin, occupied, adminLeft>>
-----------------------------------------------------------------------------
(* Sessions. *)

(* GetUserByEmail has found an account and the password is its. *)
FindUser(s, u) ==
  /\ pc[s] = "idle" /\ u \in users
  /\ Continue(s, "session")
  /\ user' = [user EXCEPT ![s] = u]
  /\ UNCHANGED <<accounts, invites, owner, session, code, needsInvite, history>>

CreateSession(s, b) ==
  /\ pc[s] = "session"
  /\ session' = IF user[s] \in users THEN [session EXCEPT ![b] = user[s]] ELSE session
  /\ Answer(s)
  /\ UNCHANGED <<accounts, invites, owner, history>>

(* handleLogout clears the cookie, whether or not it could delete the row; *)
(* or expires_at passes.                                                   *)
Logout(b) ==
  /\ session' = [session EXCEPT ![b] = none]
  /\ UNCHANGED <<accounts, invites, owner, request, history>>

(* requireAdmin: invite codes are for administrators. *)
Admitted(u, p) == p \in {"issue", "revoke"} => u \in admins

(* requireAuth: the account is that of the session when the request        *)
(* begins, and what it does with it comes after.                           *)
Authenticated(s, b, p) ==
  /\ pc[s] = "idle" /\ session[b] # none /\ Admitted(session[b], p)
  /\ Continue(s, p)
  /\ user' = [user EXCEPT ![s] = session[b]]
  /\ UNCHANGED <<accounts, invites, owner, session, code, needsInvite, history>>
-----------------------------------------------------------------------------
(* Invite codes. *)

CreateInviteCode(s, c) ==
  /\ pc[s] = "issue" /\ c \notin issued
  /\ IF user[s] \in users
     THEN /\ created_by' = [created_by EXCEPT ![c] = user[s]]
          /\ issued' = issued \cup {c}
     ELSE UNCHANGED <<created_by, issued>>
  /\ Answer(s)
  /\ UNCHANGED <<accounts, used_by, owner, session, born, letin, excess, occupied, adminLeft>>

DeleteInviteCode(s, c) ==
  /\ pc[s] = "revoke"
  /\ created_by' = [created_by EXCEPT ![c] = none]
  /\ used_by' = [used_by EXCEPT ![c] = none]
  /\ Answer(s)
  /\ UNCHANGED <<accounts, owner, session, history>>
-----------------------------------------------------------------------------
(* API keys. *)

\* Faulty variant of CountAPIKeys: the limit is taken for the last count that is let pass.
CountAPIKeysBeyond(s) ==
  /\ pc[s] = "countKeys"
  /\ IF Cardinality(KeysOf(user[s])) > MaxKeys
     THEN Answer(s)
     ELSE Continue(s, "createKey") /\ UNCHANGED <<user, code, needsInvite>>
  /\ UNCHANGED <<accounts, invites, owner, session, history>>

CountAPIKeys(s) ==
  /\ pc[s] = "countKeys"
  /\ IF Cardinality(KeysOf(user[s])) >= MaxKeys
     THEN Answer(s)
     ELSE Continue(s, "createKey") /\ UNCHANGED <<user, code, needsInvite>>
  /\ UNCHANGED <<accounts, invites, owner, session, history>>

CreateAPIKey(s, k) ==
  /\ pc[s] = "createKey" /\ owner[k] = none
  /\ owner' = IF user[s] \in users THEN [owner EXCEPT ![k] = user[s]] ELSE owner
  /\ Answer(s)
  /\ UNCHANGED <<accounts, invites, session, history>>

(* Only a key of the account itself is deleted. *)
DeleteAPIKey(s, k) ==
  /\ pc[s] = "removeKey"
  /\ owner' = IF owner[k] = user[s] THEN [owner EXCEPT ![k] = none] ELSE owner
  /\ Answer(s)
  /\ UNCHANGED <<accounts, invites, session, history>>
-----------------------------------------------------------------------------
(* Deleting the row of account u: its sessions, its keys and the invites   *)
(* it created go with it, and the invite it came with is unused again.     *)
Without(f, u) == [x \in DOMAIN f |-> IF f[x] = u THEN none ELSE f[x]]

\* Faulty variant of Cascade: the invites the account created are kept.
CascadeButInvites(u) ==
  /\ session' = Without(session, u)
  /\ owner' = Without(owner, u)
  /\ used_by' = Without(used_by, u)
  /\ UNCHANGED created_by

Cascade(u) ==
  /\ session' = Without(session, u)
  /\ owner' = Without(owner, u)
  /\ created_by' = Without(created_by, u)
  /\ used_by' = [c \in Codes |-> IF created_by[c] = u \/ used_by[c] = u
                                 THEN none ELSE used_by[c]]

DeleteUser(s, u) ==
  /\ pc[s] = "removeUser" /\ u \in users
  /\ users' = users \ {u} /\ admins' = admins \ {u}
  /\ Cascade(u)
  /\ occupied' = IF users = {u} THEN [r \in Slots |-> FALSE] ELSE occupied
  /\ adminLeft' = (adminLeft \/ u \in admins)
  /\ Answer(s)
  /\ UNCHANGED <<born, issued, letin, excess>>
-----------------------------------------------------------------------------
Step(s) ==
  \/ \E c \in Codes \cup {none} : Register(s, c)
  \/ CountUsers(s) \/ CountFails(s) \/ GetInviteCodeByCode(s)
  \/ \E u \in Ids : CreateUser(s, u)
  \/ UseInviteCode(s) \/ UseFails(s)
  \/ \E u \in Ids : FindUser(s, u)
  \/ \E b \in Browsers : CreateSession(s, b)
  \/ \E b \in Browsers, p \in {"issue", "revoke", "countKeys", "removeKey", "removeUser"} :
       Authenticated(s, b, p)
  \/ \E c \in Codes : CreateInviteCode(s, c) \/ DeleteInviteCode(s, c)
  \/ CountAPIKeys(s)
  \/ \E k \in KeyIds : CreateAPIKey(s, k) \/ DeleteAPIKey(s, k)
  \/ \E u \in Ids : DeleteUser(s, u)
  \/ StatementFails(s)

Next ==
  \/ \E s \in Slots : Step(s)
  \/ \E b \in Browsers : Logout(b)

Spec == Init /\ [][Next]_vars
-----------------------------------------------------------------------------
(* An invite admits one account at a time, and one more at most for every  *)
(* registration that overlapped with another of the invite and for every   *)
(* mark that was lost: the accounts there are that came with it are never  *)
(* more, however registrations, deletions of accounts and of codes         *)
(* interleave.  The account deleted, the invite may be used again (used_by *)
(* is set null), also when it has let in others.                           *)
InviteNearOne ==
  \A c \in Codes : Cardinality({u \in users : letin[u] = c}) <= 1 + excess[c]

(* The keys of an account and those about to be inserted for it exceed     *)
(* maxAPIKeys by at most the requests that can overlap, less one: with one *)
(* request at a time the limit is exact (store/apikey.go).                 *)
KeysNearLimit ==
  \A u \in Ids :
    Cardinality(KeysOf(u)) + Cardinality(Inserting(u)) <= MaxKeys - 1 + Cardinality(Slots)

(* As long as no administrator has been deleted, somebody administers: the *)
(* first account does, and no order of first registrations, failed counts  *)
(* and invites lets an ordinary account come before it.                    *)
SomeoneAdministers == users = {} \/ admins # {} \/ adminLeft

(* A registration since whose beginning there have always been accounts    *)
(* creates no administrator, also if it could not count them.              *)
AdminsAreFirst ==
  [][\A s \in Slots : occupied[s] /\ pc[s] = "create" /\ pc'[s] # "create"
       => admins' \subseteq admins]_vars
=============================================================================
