--------------------------- MODULE AccountsProofs ---------------------------
(***************************************************************************)
(* References between accounts, invites, keys and sessions hold, an invite *)
(* admits one account at a time but for overlaps and lost marks, keys stay *)
(* near their limit, and somebody administers: for any numbers of          *)
(* accounts, invites, keys, browsers and requests at a time.               *)
(***************************************************************************)
EXTENDS Accounts, FiniteSetTheorems, TLAPS

\* What a step of the request s leaves of the others.
OthersKept(s) ==
  \A t \in Slots \ {s} : /\ pc'[t] = pc[t] /\ user'[t] = user[t]
                         /\ code'[t] = code[t] /\ needsInvite'[t] = needsInvite[t]

RequestTypeOK ==
  /\ pc \in [Slots -> Points]
  /\ user \in [Slots -> Ids \cup {none}]
  /\ code \in [Slots -> Codes \cup {none}]
  /\ needsInvite \in [Slots -> BOOLEAN]

\* A registration that looks at an invite or holds one has one.
RequestInv ==
  /\ \A s \in Slots : pc[s] = "invite" \/ Holds(s) => code[s] \in Codes
  /\ \A s \in Slots : pc[s] \in {"invite", "use"} => needsInvite[s]

LEMMA AnswerFacts ==
  ASSUME RequestTypeOK, RequestInv, NEW s \in Slots, Answer(s)
  PROVE  /\ RequestTypeOK' /\ RequestInv' /\ OthersKept(s)
         /\ pc'[s] = "idle" /\ ~Holds(s)'
<1>1. RequestTypeOK' /\ OthersKept(s) /\ pc'[s] = "idle"
  BY DEF RequestTypeOK, Answer, Continue, OthersKept, Points
<1>2. RequestInv' /\ ~Holds(s)'
  BY <1>1 DEF RequestInv, OthersKept, Holds
<1> QED BY <1>1, <1>2

LEMMA ContinueFacts ==
  ASSUME RequestTypeOK, NEW s \in Slots, NEW p \in Points, Continue(s, p),
         UNCHANGED <<user, code, needsInvite>>
  PROVE  /\ RequestTypeOK' /\ OthersKept(s) /\ pc'[s] = p
  BY DEF RequestTypeOK, Continue, OthersKept

\* Every step of a request keeps the types of requests and leaves the others alone.
LEMMA StepFacts ==
  ASSUME TypeOK, RequestInv, NEW s \in Slots, Step(s)
  PROVE  RequestTypeOK' /\ RequestInv' /\ OthersKept(s)
<1> USE DEF RequestInv, Holds
<1>0. RequestTypeOK
  BY DEF TypeOK, RequestTypeOK
<1>1. CASE Answer(s)
  BY <1>0, <1>1, AnswerFacts
<1>2. ASSUME NEW p \in Points \ {"invite", "create", "use"}, Continue(s, p),
             UNCHANGED <<user, code, needsInvite>>
      PROVE  RequestTypeOK' /\ RequestInv' /\ OthersKept(s)
  BY <1>0, <1>2, ContinueFacts DEF OthersKept
<1>3. ASSUME NEW c \in Codes \cup {none}, Register(s, c)
      PROVE  RequestTypeOK' /\ RequestInv' /\ OthersKept(s)
  BY <1>0, <1>3 DEF Register, Continue, RequestTypeOK, OthersKept, Points
<1>4. ASSUME NEW needs \in BOOLEAN, pc[s] = "count", Checked(s, needs)
      PROVE  RequestTypeOK' /\ RequestInv' /\ OthersKept(s)
  <2>1. CASE needs /\ code[s] = none
    BY <1>1, <1>4, <2>1 DEF Checked
  <2>2. CASE ~(needs /\ code[s] = none)
    BY <1>0, <1>4, <2>2 DEF Checked, Continue, RequestTypeOK, OthersKept, Points
  <2> QED BY <2>1, <2>2
<1>5. CASE CountUsers(s) \/ CountFails(s)
  BY <1>4, <1>5 DEF CountUsers, CountFails
<1>6. CASE GetInviteCodeByCode(s)
  BY <1>0, <1>1, <1>6 DEF GetInviteCodeByCode, Continue, RequestTypeOK, OthersKept, Points
<1>7. ASSUME NEW u \in Ids, CreateUser(s, u)
      PROVE  RequestTypeOK' /\ RequestInv' /\ OthersKept(s)
  BY <1>0, <1>1, <1>7 DEF CreateUser, Continue, RequestTypeOK, OthersKept, Points
<1>8. ASSUME NEW u \in Ids, FindUser(s, u)
      PROVE  RequestTypeOK' /\ RequestInv' /\ OthersKept(s)
  BY <1>0, <1>8 DEF FindUser, Continue, RequestTypeOK, OthersKept, Points
<1>9. ASSUME NEW b \in Browsers,
             NEW p \in {"issue", "revoke", "countKeys", "removeKey", "removeUser"},
             Authenticated(s, b, p)
      PROVE  RequestTypeOK' /\ RequestInv' /\ OthersKept(s)
  <2>1. session[b] \in Ids
    BY <1>9 DEF TypeOK, Authenticated
  <2> QED BY <1>0, <1>9, <2>1 DEF Authenticated, Continue, RequestTypeOK, OthersKept, Points
<1>10. CASE CountAPIKeys(s)
  BY <1>1, <1>2, <1>10 DEF CountAPIKeys, Points
<1>11. CASE \/ UseInviteCode(s) \/ UseFails(s) \/ StatementFails(s)
            \/ \E b \in Browsers : CreateSession(s, b)
            \/ \E c \in Codes : CreateInviteCode(s, c) \/ DeleteInviteCode(s, c)
            \/ \E k \in KeyIds : CreateAPIKey(s, k) \/ DeleteAPIKey(s, k)
            \/ \E u \in Ids : DeleteUser(s, u)
  BY <1>1, <1>11 DEF UseInviteCode, UseFails, StatementFails, CreateSession, CreateInviteCode,
     DeleteInviteCode, CreateAPIKey, DeleteAPIKey, DeleteUser
<1> QED BY <1>3, <1>5, <1>6, <1>7, <1>8, <1>9, <1>10, <1>11 DEF Step
-----------------------------------------------------------------------------
\* The tables and the history are typed as TypeOK says.
TablesOK ==
  /\ users \subseteq born /\ born \subseteq Ids /\ admins \subseteq users
  /\ created_by \in [Codes -> users \cup {none}]
  /\ used_by \in [Codes -> users \cup {none}]
  /\ \A c \in Codes : created_by[c] # none => c \in issued
  /\ issued \subseteq Codes
  /\ owner \in [KeyIds -> users \cup {none}]
  /\ session \in [Browsers -> users \cup {none}]
  /\ letin \in [Ids -> Codes \cup {none}]
  /\ excess \in [Codes -> Int]
  /\ occupied \in [Slots -> BOOLEAN]
  /\ adminLeft \in BOOLEAN

\* More accounts break no reference.
LEMMA MoreUsers ==
  ASSUME NEW S, NEW f \in [S -> users \cup {none}], users \subseteq users'
  PROVE  f \in [S -> users' \cup {none}]
  OBVIOUS

\* Nothing refers to an account any more once its row is deleted with a cascade.
LEMMA WithoutFacts ==
  ASSUME NEW S, NEW f \in [S -> users \cup {none}], NEW u
  PROVE  Without(f, u) \in [S -> (users \ {u}) \cup {none}]
  BY DEF Without

LEMMA DeleteUserTables ==
  ASSUME TypeOK, NEW s \in Slots, NEW u \in Ids, DeleteUser(s, u)
  PROVE  TablesOK'
<1> USE DEF DeleteUser, Cascade
<1>1. users' = users \ {u} /\ admins' = admins \ {u}
  OBVIOUS
<1>2. /\ session' \in [Browsers -> users' \cup {none}]
      /\ owner' \in [KeyIds -> users' \cup {none}]
      /\ created_by' \in [Codes -> users' \cup {none}]
  BY <1>1, WithoutFacts DEF TypeOK
<1>3. used_by' \in [Codes -> users' \cup {none}]
  BY <1>1 DEF TypeOK
<1>4. \A c \in Codes : created_by'[c] # none => c \in issued'
  BY DEF TypeOK, Without
<1>5. occupied' \in [Slots -> BOOLEAN] /\ adminLeft' \in BOOLEAN
  BY DEF TypeOK
<1> QED BY <1>1, <1>2, <1>3, <1>4, <1>5 DEF TablesOK, TypeOK

LEMMA StepTables ==
  ASSUME TypeOK, RequestInv, NEW s \in Slots, Step(s)
  PROVE  TablesOK'
<1>1. ASSUME UNCHANGED <<accounts, invites, owner, session>>,
             UNCHANGED <<born, issued, letin, excess, adminLeft>>,
             \/ UNCHANGED occupied
             \/ \E c \in Codes \cup {none} : Register(s, c)
      PROVE  TablesOK'
  BY <1>1 DEF TypeOK, TablesOK, accounts, invites, Register
<1>2. CASE \/ \E c \in Codes \cup {none} : Register(s, c)
           \/ CountUsers(s) \/ CountFails(s) \/ CountAPIKeys(s)
           \/ \E u \in Ids : FindUser(s, u)
           \/ \E b \in Browsers, p \in {"issue", "revoke", "countKeys", "removeKey", "removeUser"} :
                Authenticated(s, b, p)
  BY <1>1, <1>2 DEF Register, CountUsers, CountFails, CountAPIKeys, FindUser, Authenticated,
     history
<1>3. CASE GetInviteCodeByCode(s) \/ UseFails(s) \/ StatementFails(s)
  <2>1. excess' \in [Codes -> Int]
    BY <1>3 DEF GetInviteCodeByCode, UseFails, StatementFails, Exceed, TypeOK
  <2> QED BY <1>3, <2>1 DEF GetInviteCodeByCode, UseFails, StatementFails, TypeOK, TablesOK,
      accounts, invites
<1>4. ASSUME NEW u \in Ids, CreateUser(s, u)
      PROVE  TablesOK'
  <2>1. users \subseteq users' /\ users' \subseteq born' /\ born' \subseteq Ids
    BY <1>4 DEF CreateUser, TypeOK
  <2>2. /\ created_by' \in [Codes -> users' \cup {none}]
        /\ used_by' \in [Codes -> users' \cup {none}]
        /\ owner' \in [KeyIds -> users' \cup {none}]
        /\ session' \in [Browsers -> users' \cup {none}]
    BY <1>4, <2>1, MoreUsers DEF CreateUser, TypeOK, invites
  <2>3. letin' \in [Ids -> Codes \cup {none}] /\ admins' \subseteq users'
    BY <1>4 DEF CreateUser, TypeOK
  <2> QED BY <1>4, <2>1, <2>2, <2>3 DEF CreateUser, TypeOK, TablesOK, invites
<1>5. CASE UseInviteCode(s)
  BY <1>5 DEF UseInviteCode, TypeOK, TablesOK, accounts, history
<1>6. ASSUME NEW b \in Browsers, CreateSession(s, b)
      PROVE  TablesOK'
  BY <1>6 DEF CreateSession, TypeOK, TablesOK, accounts, invites, history
<1>7. ASSUME NEW c \in Codes, CreateInviteCode(s, c) \/ DeleteInviteCode(s, c)
      PROVE  TablesOK'
  BY <1>7 DEF CreateInviteCode, DeleteInviteCode, TypeOK, TablesOK, accounts, history
<1>8. ASSUME NEW k \in KeyIds, CreateAPIKey(s, k) \/ DeleteAPIKey(s, k)
      PROVE  TablesOK'
  BY <1>8 DEF CreateAPIKey, DeleteAPIKey, TypeOK, TablesOK, accounts, invites, history
<1> QED BY <1>2, <1>3, <1>4, <1>5, <1>6, <1>7, <1>8, DeleteUserTables DEF Step

LEMMA TypeNext ==
  ASSUME TypeOK, RequestInv, [Next]_vars
  PROVE  TypeOK' /\ RequestInv'
<1>1. ASSUME NEW s \in Slots, Step(s)
      PROVE  TypeOK' /\ RequestInv'
  BY <1>1, StepFacts, StepTables DEF TypeOK, TablesOK, RequestTypeOK
<1>2. ASSUME NEW b \in Browsers, Logout(b)
      PROVE  TypeOK' /\ RequestInv'
  BY <1>2 DEF Logout, TypeOK, RequestInv, Holds, accounts, invites, request, history
<1>3. CASE UNCHANGED vars
  BY <1>3 DEF vars, TypeOK, RequestInv, Holds, accounts, invites, request, history
<1> QED BY <1>1, <1>2, <1>3 DEF Next

LEMMA TypeInit == Init => TypeOK /\ RequestInv
<1> SUFFICES ASSUME Init PROVE TypeOK /\ RequestInv
  OBVIOUS
<1>1. RequestTypeOK /\ RequestInv
  BY DEF Init, RequestTypeOK, RequestInv, Holds, Points
<1>2. TablesOK
  <2>1. /\ excess \in [Codes -> Int]
        /\ occupied \in [Slots -> BOOLEAN]
        /\ adminLeft \in BOOLEAN
    <3>1. excess \in [Codes -> Int]
      BY DEF Init
    <3>2. occupied \in [Slots -> BOOLEAN]
      BY DEF Init
    <3>3. adminLeft \in BOOLEAN
      BY DEF Init
    <3> QED BY <3>1, <3>2, <3>3
  <2>2. /\ created_by \in [Codes -> users \cup {none}] /\ used_by \in [Codes -> users \cup {none}]
        /\ owner \in [KeyIds -> users \cup {none}] /\ session \in [Browsers -> users \cup {none}]
        /\ letin \in [Ids -> Codes \cup {none}]
    BY DEF Init
  <2> QED BY <2>1, <2>2 DEF Init, TablesOK
<1> QED BY <1>1, <1>2 DEF TypeOK, TablesOK, RequestTypeOK

(* No row of a table refers to an account that is gone (sql/schema.sql):   *)
(* whatever requests that began before the deletion do after it.           *)
THEOREM ReferencesHold == Spec => []TypeOK
<1>1. Init => TypeOK /\ RequestInv
  BY TypeInit
<1>2. (TypeOK /\ RequestInv) /\ [Next]_vars => (TypeOK /\ RequestInv)'
  BY TypeNext
<1> QED BY <1>1, <1>2, PTL DEF Spec
-----------------------------------------------------------------------------
\* A registration that needed no invite saw no accounts; one that holds an invite found
\* it while the account that created it was there.
AdminInv ==
  /\ SomeoneAdministers
  /\ \A s \in Slots : pc[s] = "create" /\ Holds(s) => users # {} \/ adminLeft
  /\ \A s \in Slots : pc[s] = "create" /\ ~needsInvite[s] => ~occupied[s]
  /\ \A s \in Slots : occupied[s] => users # {}

\* What a step does that neither touches accounts nor brings a registration to create one.
LEMMA AdminQuiet ==
  ASSUME AdminInv, NEW s \in Slots, OthersKept(s), UNCHANGED <<accounts, occupied, adminLeft>>,
         pc'[s] # "create"
  PROVE  AdminInv'
  BY DEF AdminInv, SomeoneAdministers, Holds, OthersKept, accounts

LEMMA AdminStep ==
  ASSUME TypeOK, RequestInv, AdminInv, NEW s \in Slots, Step(s)
  PROVE  AdminInv'
<1>0. OthersKept(s) /\ RequestTypeOK
  BY StepFacts DEF TypeOK, RequestTypeOK
<1>1. CASE Answer(s) /\ UNCHANGED <<accounts, occupied, adminLeft>>
  BY <1>0, <1>1, AnswerFacts, AdminQuiet
<1>2. ASSUME NEW p \in Points \ {"create"}, Continue(s, p),
             UNCHANGED <<accounts, occupied, adminLeft>>
      PROVE  AdminInv'
  <2>1. pc'[s] = p
    BY <1>2 DEF Continue, TypeOK
  <2> QED BY <1>0, <1>2, <2>1, AdminQuiet
<1>3. ASSUME NEW c \in Codes \cup {none}, Register(s, c)
      PROVE  AdminInv'
  <2>1. pc'[s] = "count" /\ UNCHANGED <<users, admins, adminLeft>>
    BY <1>3 DEF Register, Continue, TypeOK, accounts
  <2>2. occupied'[s] = (users # {}) /\ \A t \in Slots \ {s} : occupied'[t] = occupied[t]
    BY <1>3 DEF Register, TypeOK
  <2> QED BY <1>0, <2>1, <2>2 DEF AdminInv, SomeoneAdministers, Holds, OthersKept
<1>4. CASE CountUsers(s)
  <2>1. UNCHANGED <<users, admins, occupied, adminLeft>>
    BY <1>4 DEF CountUsers, accounts, history
  <2>2. CASE users = {}
    <3>1. pc'[s] = "create" /\ ~needsInvite'[s]
      BY <1>4, <2>2 DEF CountUsers, Checked, Continue, TypeOK
    <3> QED BY <1>0, <2>1, <2>2, <3>1 DEF AdminInv, SomeoneAdministers, Holds, OthersKept
  <2>3. CASE users # {}
    BY <1>1, <1>2, <1>4, <2>1, <2>3 DEF CountUsers, Checked, accounts, Points
  <2> QED BY <2>2, <2>3
<1>5. CASE CountFails(s)
  BY <1>1, <1>2, <1>5 DEF CountFails, Checked, accounts, history, Points
<1>6. CASE GetInviteCodeByCode(s)
  <2>1. UNCHANGED <<users, admins, occupied, adminLeft>>
    BY <1>6 DEF GetInviteCodeByCode, accounts
  <2>2. CASE Unused(code[s])
    <3>1. code[s] \in Codes
      BY <1>6 DEF GetInviteCodeByCode, RequestInv
    <3>2. users # {}
      BY <2>2, <3>1 DEF Unused, TypeOK
    <3>3. pc'[s] = "create" /\ needsInvite' = needsInvite
      BY <1>6, <2>2 DEF GetInviteCodeByCode, Continue, TypeOK
    <3>4. needsInvite[s]
      BY <1>6 DEF GetInviteCodeByCode, RequestInv
    <3> QED BY <1>0, <2>1, <3>2, <3>3, <3>4 DEF AdminInv, SomeoneAdministers, Holds, OthersKept
  <2>3. CASE ~Unused(code[s])
    BY <1>1, <1>6, <2>1, <2>3 DEF GetInviteCodeByCode, accounts
  <2> QED BY <2>2, <2>3
<1>7. ASSUME NEW u \in Ids, CreateUser(s, u)
      PROVE  AdminInv'
  <2>1. users' = users \cup {u} /\ UNCHANGED <<occupied, adminLeft>> /\ pc'[s] # "create"
    BY <1>7 DEF CreateUser, Answer, Continue, TypeOK
  <2>2. admins' # {} \/ adminLeft'
    BY <1>7, <2>1 DEF CreateUser, AdminInv, SomeoneAdministers, Holds
  <2> QED BY <1>0, <2>1, <2>2 DEF AdminInv, SomeoneAdministers, Holds, OthersKept
<1>8. ASSUME NEW u \in Ids, DeleteUser(s, u)
      PROVE  AdminInv'
  <2>1. pc'[s] = "idle"
    BY <1>8 DEF DeleteUser, Answer, Continue, TypeOK
  <2>2. /\ users' = users \ {u} /\ admins' = admins \ {u} /\ u \in users
        /\ adminLeft' = (adminLeft \/ u \in admins)
        /\ occupied' = IF users = {u} THEN [r \in Slots |-> FALSE] ELSE occupied
    BY <1>8 DEF DeleteUser
  <2>3. admins' # {} \/ adminLeft'
    BY <2>2 DEF AdminInv, SomeoneAdministers
  <2>4. \A t \in Slots : occupied'[t] => occupied[t] /\ users' # {}
    BY <2>2 DEF AdminInv
  <2>5. users' = {} => adminLeft'
    BY <2>2, <2>3 DEF TypeOK
  <2> QED BY <1>0, <2>1, <2>2, <2>3, <2>4, <2>5 DEF AdminInv, SomeoneAdministers, Holds, OthersKept
<1>9. CASE \/ UseInviteCode(s) \/ UseFails(s) \/ StatementFails(s)
           \/ \E b \in Browsers : CreateSession(s, b)
           \/ \E c \in Codes : CreateInviteCode(s, c) \/ DeleteInviteCode(s, c)
           \/ \E k \in KeyIds : CreateAPIKey(s, k) \/ DeleteAPIKey(s, k)
  BY <1>1, <1>9 DEF UseInviteCode, UseFails, StatementFails, CreateSession, CreateInviteCode,
     DeleteInviteCode, CreateAPIKey, DeleteAPIKey, history, accounts
<1>10. CASE \/ CountAPIKeys(s)
            \/ \E u \in Ids : FindUser(s, u)
            \/ \E b \in Browsers,
                  p \in {"issue", "revoke", "countKeys", "removeKey", "removeUser"} :
                 Authenticated(s, b, p)
  BY <1>1, <1>2, <1>10 DEF CountAPIKeys, FindUser, Authenticated, history, accounts, Points
<1> QED BY <1>3, <1>4, <1>5, <1>6, <1>7, <1>8, <1>9, <1>10 DEF Step

LEMMA AdminNext ==
  ASSUME TypeOK, RequestInv, AdminInv, [Next]_vars
  PROVE  AdminInv'
<1>1. ASSUME NEW b \in Browsers, Logout(b)
      PROVE  AdminInv'
  BY <1>1 DEF Logout, AdminInv, SomeoneAdministers, Holds, accounts, request, history
<1>2. CASE UNCHANGED vars
  BY <1>2 DEF vars, AdminInv, SomeoneAdministers, Holds, accounts, request, history
<1> QED BY <1>1, <1>2, AdminStep DEF Next

LEMMA AdminInit == Init => AdminInv
  BY DEF Init, AdminInv, SomeoneAdministers, Holds

(* Unless an administrator has been deleted, somebody administers as soon  *)
(* as there are accounts: however first registrations, failed counts and   *)
(* invites interleave (handleCreate, requireInviteCode).                   *)
THEOREM AdministratorRemains == Spec => []SomeoneAdministers
<1>1. Init => TypeOK /\ RequestInv /\ AdminInv
  BY TypeInit, AdminInit
<1>2. (TypeOK /\ RequestInv /\ AdminInv) /\ [Next]_vars => (TypeOK /\ RequestInv /\ AdminInv)'
  BY TypeNext, AdminNext
<1>3. AdminInv => SomeoneAdministers
  BY DEF AdminInv
<1> QED BY <1>1, <1>2, <1>3, PTL DEF Spec

\* Only the request that creates an account leaves the point create, and it gives the
\* account is_admin only if it needed no invite.
LEMMA AdminsAreFirstStep ==
  ASSUME TypeOK, RequestInv, AdminInv, [Next]_vars
  PROVE  \A s \in Slots : occupied[s] /\ pc[s] = "create" /\ pc'[s] # "create"
           => admins' \subseteq admins
<1> SUFFICES ASSUME NEW s \in Slots, occupied[s], pc[s] = "create", pc'[s] # "create"
             PROVE  admins' \subseteq admins
  OBVIOUS
<1>1. needsInvite[s]
  BY DEF AdminInv, TypeOK
<1>2. ASSUME NEW t \in Slots, Step(t)
      PROVE  t = s
  BY <1>2, StepFacts DEF OthersKept
<1>3. CASE Step(s)
  <2>1. CASE \E u \in Ids : CreateUser(s, u)
    BY <1>1, <2>1 DEF CreateUser
  <2>2. CASE StatementFails(s)
    BY <2>2 DEF StatementFails, accounts
  <2> QED BY <1>3, <2>1, <2>2 DEF Step, Register, CountUsers, CountFails, GetInviteCodeByCode,
      UseInviteCode, UseFails, FindUser, CreateSession, Authenticated, CreateInviteCode,
      DeleteInviteCode, CountAPIKeys, CreateAPIKey, DeleteAPIKey, DeleteUser
<1>4. CASE (\E b \in Browsers : Logout(b)) \/ UNCHANGED vars
  BY <1>4 DEF Logout, vars, request
<1> QED BY <1>2, <1>3, <1>4 DEF Next

(* A registration that began when there were accounts, and there always    *)
(* were some since, creates no administrator, whatever fails meanwhile.    *)
THEOREM LaterAccountsAreOrdinary == Spec => AdminsAreFirst
<1>1. Init => TypeOK /\ RequestInv /\ AdminInv
  BY TypeInit, AdminInit
<1>2. (TypeOK /\ RequestInv /\ AdminInv) /\ [Next]_vars => (TypeOK /\ RequestInv /\ AdminInv)'
  BY TypeNext, AdminNext
<1>3. (TypeOK /\ RequestInv /\ AdminInv) /\ [Next]_vars
        => [\A s \in Slots : occupied[s] /\ pc[s] = "create" /\ pc'[s] # "create"
              => admins' \subseteq admins]_vars
  BY AdminsAreFirstStep
<1> QED BY <1>1, <1>2, <1>3, PTL DEF Spec, AdminsAreFirst
-----------------------------------------------------------------------------
\* What is known of invites besides the count: an account that came with one is not new, a
\* registration that holds one or is about to note it has it, and what is noted on it is an
\* account that came with it.
InviteRefs ==
  /\ IsFiniteSet(users)
  /\ \A u \in Ids \ born : letin[u] = none
  /\ \A u \in Ids : letin[u] \in issued \cup {none}
  /\ \A s \in Slots : Holds(s) => code[s] \in issued
  /\ \A s \in Slots : pc[s] = "use" => user[s] \in born /\ letin[user[s]] = code[s]
  /\ \A c \in Codes : used_by[c] # none => letin[used_by[c]] = c

\* The steps that create no account, issue no code, note no use and let nobody hold an
\* invite who did not: they may delete what there is.
LEMMA RefsFewer ==
  ASSUME TypeOK, InviteRefs, NEW s \in Slots, OthersKept(s), users' \subseteq users,
         UNCHANGED <<born, letin, issued>>, ~Holds(s)', pc'[s] # "use",
         \A c \in Codes : used_by'[c] \in {used_by[c], none}
  PROVE  InviteRefs'
<1> USE DEF InviteRefs, OthersKept
<1>1. \A t \in Slots : Holds(t)' => Holds(t) /\ code'[t] = code[t]
  BY DEF Holds
<1>2. \A t \in Slots : pc'[t] = "use" => t # s /\ pc[t] = "use" /\ code'[t] = code[t]
                                              /\ user'[t] = user[t]
  OBVIOUS
<1>3. IsFiniteSet(users')
  BY FS_Subset
<1>4. \A c \in Codes : used_by'[c] # none => letin'[used_by'[c]] = c
  OBVIOUS
<1> QED BY <1>1, <1>2, <1>3, <1>4

LEMMA RefsCreate ==
  ASSUME TypeOK, RequestInv, InviteRefs, NEW s \in Slots, Step(s),
         NEW u \in Ids, CreateUser(s, u)
  PROVE  InviteRefs'
<1> USE DEF InviteRefs, OthersKept
<1>1. OthersKept(s)
  BY StepFacts
<1>2. /\ pc[s] = "create" /\ u \notin born /\ users' = users \cup {u} /\ born' = born \cup {u}
      /\ UNCHANGED <<used_by, issued>>
  BY DEF CreateUser, invites
<1>3. IsFiniteSet(users')
  BY <1>2, FS_AddElement
<1>4. CASE needsInvite[s]
  <2>1. /\ pc'[s] = "use" /\ user'[s] = u /\ UNCHANGED <<code, needsInvite>>
        /\ letin' = [letin EXCEPT ![u] = code[s]]
    BY <1>4 DEF CreateUser, Continue, TypeOK
  <2>2. code[s] \in issued /\ \A t \in Slots : Holds(t)' => Holds(t)
    BY <1>1, <1>2, <1>4, <2>1 DEF Holds
  <2>3. letin'[u] = code[s] /\ \A v \in Ids \ {u} : letin'[v] = letin[v]
    BY <2>1 DEF TypeOK
  <2>4. \A t \in Slots : pc'[t] = "use" => user'[t] \in born' /\ letin'[user'[t]] = code'[t]
    BY <1>1, <1>2, <2>1, <2>3 DEF TypeOK
  <2>5. \A c \in Codes : used_by'[c] # none => letin'[used_by'[c]] = c
    BY <1>2, <2>3 DEF TypeOK
  <2>6. (\A v \in Ids \ born' : letin'[v] = none) /\ \A v \in Ids : letin'[v] \in issued' \cup {none}
    BY <1>2, <2>2, <2>3
  <2> QED BY <1>2, <1>3, <2>1, <2>2, <2>4, <2>5, <2>6
<1>5. CASE ~needsInvite[s]
  <2>1. pc'[s] = "idle" /\ UNCHANGED letin
    BY <1>5 DEF CreateUser, Answer, Continue, TypeOK
  <2>2. \A t \in Slots : Holds(t)' => Holds(t) /\ code'[t] = code[t]
    BY <1>1, <2>1 DEF Holds
  <2>3. \A t \in Slots : pc'[t] = "use" => user'[t] \in born' /\ letin'[user'[t]] = code'[t]
    BY <1>1, <1>2, <2>1
  <2> QED BY <1>2, <1>3, <2>1, <2>2, <2>3
<1> QED BY <1>4, <1>5 DEF TypeOK

\* Where a step of s leaves a request that has an invite, and where one that has none.
LEMMA Elsewhere ==
  ASSUME TypeOK, RequestInv, NEW s \in Slots, Step(s),
         ~(GetInviteCodeByCode(s) /\ Unused(code[s])), ~(\E u \in Ids : CreateUser(s, u))
  PROVE  ~Holds(s)' /\ pc'[s] # "use"
<1>1. CASE Answer(s)
  BY <1>1 DEF Answer, Continue, Holds, TypeOK
<1>2. ASSUME NEW p \in Points \ {"create", "use"}, Continue(s, p)
      PROVE  ~Holds(s)' /\ pc'[s] # "use"
  BY <1>2 DEF Continue, Holds, TypeOK
<1>3. ASSUME NEW needs \in BOOLEAN, Checked(s, needs)
      PROVE  ~Holds(s)' /\ pc'[s] # "use"
  BY <1>1, <1>3 DEF Checked, Continue, Holds, TypeOK
<1> QED BY <1>1, <1>2, <1>3 DEF Step, Register, CountUsers, CountFails, GetInviteCodeByCode,
    UseInviteCode, UseFails, FindUser, CreateSession, Authenticated, CreateInviteCode,
    DeleteInviteCode, CountAPIKeys, CreateAPIKey, DeleteAPIKey, DeleteUser, StatementFails,
    Points

LEMMA RefsStep ==
  ASSUME TypeOK, RequestInv, InviteRefs, NEW s \in Slots, Step(s)
  PROVE  InviteRefs'
<1> USE DEF OthersKept
<1>1. OthersKept(s)
  BY StepFacts
<1>2. CASE GetInviteCodeByCode(s) /\ Unused(code[s])
  <2>1. /\ pc[s] = "invite" /\ pc'[s] = "create" /\ UNCHANGED <<user, code, needsInvite>>
        /\ UNCHANGED <<users, born, letin, used_by, issued>>
    BY <1>2 DEF GetInviteCodeByCode, Continue, TypeOK, accounts, invites
  <2>2. code[s] \in issued
    BY <1>2, <2>1 DEF RequestInv, Unused, TypeOK
  <2>3. \A t \in Slots : Holds(t)' => t = s \/ Holds(t)
    BY <1>1 DEF Holds
  <2> QED BY <1>1, <2>1, <2>2, <2>3 DEF InviteRefs
<1>3. CASE UseInviteCode(s)
  <2>1. /\ pc[s] = "use" /\ pc'[s] = "idle" /\ UNCHANGED <<users, born, letin, issued>>
    BY <1>3 DEF UseInviteCode, Answer, Continue, TypeOK, accounts, history
  <2>2. \A t \in Slots : Holds(t)' => t # s /\ Holds(t)
    BY <1>1, <2>1 DEF Holds
  <2>3. \A c \in Codes : used_by'[c] # none => letin'[used_by'[c]] = c
    BY <1>3, <2>1 DEF UseInviteCode, InviteRefs, TypeOK
  <2> QED BY <1>1, <2>1, <2>2, <2>3 DEF InviteRefs
<1>4. ASSUME NEW c \in Codes, CreateInviteCode(s, c)
      PROVE  InviteRefs'
  <2>1. /\ pc'[s] = "idle" /\ UNCHANGED <<users, born, letin, used_by>>
        /\ issued \subseteq issued'
    BY <1>4 DEF CreateInviteCode, Answer, Continue, TypeOK, accounts
  <2>2. \A t \in Slots : Holds(t)' => t # s /\ Holds(t)
    BY <1>1, <2>1 DEF Holds
  <2> QED BY <1>1, <2>1, <2>2 DEF InviteRefs
<1>5. CASE /\ ~(GetInviteCodeByCode(s) /\ Unused(code[s])) /\ ~UseInviteCode(s)
           /\ ~(\E u \in Ids : CreateUser(s, u)) /\ ~(\E c \in Codes : CreateInviteCode(s, c))
  <2>1. users' \subseteq users /\ UNCHANGED <<born, letin, issued>>
    BY <1>5 DEF Step, Register, CountUsers, CountFails, GetInviteCodeByCode, UseFails, FindUser,
       CreateSession, Authenticated, DeleteInviteCode, CountAPIKeys, CreateAPIKey, DeleteAPIKey,
       DeleteUser, StatementFails, accounts, history
  <2>2. \A c \in Codes : used_by'[c] \in {used_by[c], none}
    BY <1>5 DEF Step, Register, CountUsers, CountFails, GetInviteCodeByCode, UseFails, FindUser,
       CreateSession, Authenticated, DeleteInviteCode, CountAPIKeys, CreateAPIKey, DeleteAPIKey,
       DeleteUser, Cascade, StatementFails, invites, TypeOK
  <2> QED BY <1>1, <1>5, <2>1, <2>2, Elsewhere, RefsFewer
<1> QED BY <1>2, <1>3, <1>4, <1>5, RefsCreate
-----------------------------------------------------------------------------
\* The accounts that came with an invite and whose registration is over.
Came(c) == {u \in users : letin[u] = c}
Settled(c) == {u \in Came(c) : \A s \in Holders(c) : pc[s] = "use" => user[s] # u}

\* The accounts an invite has let in, and the registrations that hold it, are one and the
\* excess at most; and if it is unused and nobody holds it, there is room for another.
Near(c) ==
  /\ excess[c] \in Nat
  /\ Cardinality(Settled(c)) + Cardinality(Holders(c)) <= 1 + excess[c]
  /\ Unused(c) /\ Holders(c) = {} => Cardinality(Settled(c)) <= excess[c]

InviteInv == InviteRefs /\ \A c \in Codes : Near(c)

LEMMA InviteSets ==
  ASSUME InviteRefs, NEW c
  PROVE  /\ IsFiniteSet(Settled(c)) /\ Cardinality(Settled(c)) \in Nat
         /\ IsFiniteSet(Holders(c)) /\ Cardinality(Holders(c)) \in Nat
<1>1. Settled(c) \subseteq users /\ Holders(c) \subseteq Slots
  BY DEF Settled, Came, Holders
<1> QED BY <1>1, AccountsAssumption, FS_Subset, FS_CardinalityType DEF InviteRefs

\* Neither more accounts nor more holders, and no invite that has become unused.
LEMMA NearQuiet ==
  ASSUME InviteRefs, NEW c, Near(c), Settled(c)' \subseteq Settled(c),
         Holders(c)' \subseteq Holders(c), excess'[c] = excess[c],
         Unused(c)' /\ Holders(c)' = {} => Unused(c) /\ Holders(c) = {}
  PROVE  Near(c)'
<1>1. /\ Cardinality(Settled(c)') <= Cardinality(Settled(c)) /\ Cardinality(Settled(c)') \in Nat
      /\ Cardinality(Holders(c)') <= Cardinality(Holders(c)) /\ Cardinality(Holders(c)') \in Nat
  BY InviteSets, FS_Subset, FS_CardinalityType
<1> QED BY <1>1, InviteSets DEF Near

\* One holder less, and no more accounts: then there is room for another.
LEMMA NearGivenUp ==
  ASSUME InviteRefs, NEW c, Near(c), Settled(c)' \subseteq Settled(c),
         NEW s \in Holders(c), Holders(c)' = Holders(c) \ {s},
         \/ excess'[c] = excess[c]
         \/ Holders(c) # {s} /\ excess'[c] = excess[c] - 1
  PROVE  Near(c)'
<1>1. Cardinality(Settled(c)') <= Cardinality(Settled(c)) /\ Cardinality(Settled(c)') \in Nat
  BY InviteSets, FS_Subset, FS_CardinalityType
<1>2. /\ Cardinality(Holders(c)') = Cardinality(Holders(c)) - 1
      /\ Cardinality(Holders(c)') \in Nat
  BY InviteSets, FS_RemoveElement, FS_CardinalityType
<1>3. Holders(c)' = {} <=> Cardinality(Holders(c)') = 0
  BY <1>2, InviteSets, FS_RemoveElement, FS_EmptySet
<1>4. CASE excess'[c] = excess[c]
  BY <1>1, <1>2, <1>3, <1>4, InviteSets DEF Near
<1>5. CASE Holders(c) # {s} /\ excess'[c] = excess[c] - 1
  <2>1. Holders(c)' # {}
    BY <1>5
  <2>2. Cardinality(Holders(c)') # 0
    BY <1>3, <2>1
  <2> QED BY <1>1, <1>2, <1>5, <2>1, <2>2, InviteSets DEF Near
<1> QED BY <1>4, <1>5

\* One holder less and its account settled: the invite is used, or its mark was lost.
LEMMA NearSettled ==
  ASSUME InviteRefs, NEW c, Near(c), NEW u, Settled(c)' \subseteq Settled(c) \cup {u},
         NEW s \in Holders(c), Holders(c)' = Holders(c) \ {s},
         \/ ~Unused(c)' /\ excess'[c] = excess[c]
         \/ excess'[c] = excess[c] + 1
  PROVE  Near(c)'
<1>1. /\ IsFiniteSet(Settled(c) \cup {u})
      /\ Cardinality(Settled(c) \cup {u}) <= Cardinality(Settled(c)) + 1
  <2>1. IsFiniteSet(Settled(c)) /\ Cardinality(Settled(c)) \in Nat
    BY InviteSets
  <2>2. /\ IsFiniteSet(Settled(c) \cup {u})
        /\ \/ Cardinality(Settled(c) \cup {u}) = Cardinality(Settled(c))
           \/ Cardinality(Settled(c) \cup {u}) = Cardinality(Settled(c)) + 1
    BY <2>1, FS_AddElement
  <2> QED BY <2>1, <2>2
<1>2. Cardinality(Settled(c)') <= Cardinality(Settled(c)) + 1 /\ Cardinality(Settled(c)') \in Nat
  <2>1. /\ Cardinality(Settled(c)') <= Cardinality(Settled(c) \cup {u})
        /\ Cardinality(Settled(c)') \in Nat /\ Cardinality(Settled(c) \cup {u}) \in Nat
    BY <1>1, FS_Subset, FS_CardinalityType
  <2> QED BY <1>1, <2>1, InviteSets
<1>3. /\ Cardinality(Holders(c)') = Cardinality(Holders(c)) - 1
      /\ Cardinality(Holders(c)') \in Nat
  BY InviteSets, FS_RemoveElement, FS_CardinalityType
<1>4. CASE ~Unused(c)' /\ excess'[c] = excess[c]
  BY <1>2, <1>3, <1>4, InviteSets DEF Near
<1>5. CASE excess'[c] = excess[c] + 1
  BY <1>2, <1>3, <1>5, InviteSets DEF Near
<1> QED BY <1>4, <1>5

\* The step of s leaves the others where they are: who holds an invite afterwards, and
\* that no other account is settled than the one of s.
LEMMA HoldersAfter ==
  ASSUME NEW s \in Slots, OthersKept(s), NEW c
  PROVE  /\ Holders(c)' \subseteq Holders(c) \cup {s}
         /\ Holders(c) \subseteq Holders(c)' \cup {s}
         /\ ~Holds(s)' => Holders(c)' = Holders(c) \ {s}
  BY DEF OthersKept, Holders, Holds

LEMMA SettledAfter ==
  ASSUME NEW s \in Slots, OthersKept(s), NEW c, users' \subseteq users, UNCHANGED letin
  PROVE  /\ pc[s] # "use" => Settled(c)' \subseteq Settled(c)
         /\ s \notin Holders(c) => Settled(c)' \subseteq Settled(c)
         /\ Settled(c)' \subseteq Settled(c) \cup ({user[s]} \cap users)
<1>1. Came(c)' \subseteq Came(c)
  BY DEF Came
<1>2. \A t \in Holders(c) : t # s => /\ t \in Holders(c)' /\ pc'[t] = pc[t]
                                    /\ user'[t] = user[t]
  BY DEF OthersKept, Holders, Holds
<1> QED BY <1>1, <1>2 DEF Settled, Came

LEMMA NearFound ==
  ASSUME TypeOK, RequestInv, InviteInv, NEW s \in Slots, Step(s),
         GetInviteCodeByCode(s), Unused(code[s]), NEW c \in Codes
  PROVE  Near(c)'
<1>1. OthersKept(s) /\ InviteRefs /\ Near(c)
  BY StepFacts DEF InviteInv
<1>2. /\ pc[s] = "invite" /\ pc'[s] = "create" /\ code' = code
      /\ UNCHANGED <<users, letin, created_by, used_by>>
  BY DEF GetInviteCodeByCode, Continue, TypeOK, accounts, invites
<1>3. Settled(c)' \subseteq Settled(c) /\ s \notin Holders(c)
  BY <1>1, <1>2, SettledAfter DEF Holders, Holds
<1>4. CASE c # code[s]
  <2>1. Holders(c)' = Holders(c)
    BY <1>1, <1>2, <1>3, <1>4, HoldersAfter DEF Holders
  <2>2. excess'[c] = excess[c]
    BY <1>4 DEF GetInviteCodeByCode, Exceed, TypeOK
  <2>3. Unused(c)' <=> Unused(c)
    BY <1>2 DEF Unused
  <2> QED BY <1>1, <1>3, <2>1, <2>2, <2>3, NearQuiet
<1>5. CASE c = code[s]
  <2>1. Cardinality(Settled(c)') <= Cardinality(Settled(c)) /\ Cardinality(Settled(c)') \in Nat
    BY <1>1, <1>3, InviteSets, FS_Subset, FS_CardinalityType
  <2>2. Holders(c)' = Holders(c) \cup {s}
    <3>1. s \in Holders(c)'
      BY <1>2, <1>5 DEF GetInviteCodeByCode, RequestInv, Holders, Holds
    <3> QED BY <1>1, <1>3, <3>1, HoldersAfter
  <2>3. Cardinality(Holders(c)') = Cardinality(Holders(c)) + 1
    BY <1>1, <1>3, <2>2, InviteSets, FS_AddElement
  <2>4. CASE Holders(c) = {}
    <3>1. excess'[c] = excess[c] /\ Cardinality(Holders(c)) = 0
      BY <1>5, <2>4, FS_EmptySet DEF GetInviteCodeByCode
    <3>2. Cardinality(Settled(c)) <= excess[c] /\ excess[c] \in Nat
      BY <1>1, <1>5, <2>4 DEF Near
    <3> QED BY <1>1, <2>1, <2>2, <2>3, <3>1, <3>2, InviteSets DEF Near
  <2>5. CASE Holders(c) # {}
    <3>1. excess'[c] = excess[c] + 1
      BY <1>5, <2>5 DEF GetInviteCodeByCode, Exceed, TypeOK
    <3> QED BY <1>1, <2>1, <2>2, <2>3, <3>1, InviteSets DEF Near
  <2> QED BY <2>4, <2>5
<1> QED BY <1>4, <1>5

\* The account created is not settled before the registration has noted it, and nobody
\* else's account is that of the invite.
LEMMA NearCreate ==
  ASSUME TypeOK, RequestInv, InviteInv, NEW s \in Slots, Step(s),
         NEW u \in Ids, CreateUser(s, u), NEW c \in Codes
  PROVE  Near(c)'
<1>1. OthersKept(s) /\ InviteRefs /\ Near(c)
  BY StepFacts DEF InviteInv
<1>2. /\ pc[s] = "create" /\ u \notin born /\ users' = users \cup {u}
      /\ UNCHANGED <<created_by, used_by, excess>>
      /\ \A v \in users : letin'[v] = letin[v] /\ v # u
  BY DEF CreateUser, invites, TypeOK
<1>3. Unused(c)' <=> Unused(c)
  BY <1>2 DEF Unused
<1>4. CASE needsInvite[s]
  <2>1. /\ pc'[s] = "use" /\ user'[s] = u /\ UNCHANGED <<code, needsInvite>>
        /\ letin'[u] = code[s]
    BY <1>4 DEF CreateUser, Continue, TypeOK
  <2>2. Holders(c)' = Holders(c)
    BY <1>1, <1>2, <1>4, <2>1, HoldersAfter DEF Holders, Holds
  <2>3. Settled(c)' \subseteq Settled(c)
    <3> SUFFICES ASSUME NEW v \in Settled(c)' PROVE v \in Settled(c)
      OBVIOUS
    <3>1. v # u
      BY <1>2, <1>4, <2>1, <2>2 DEF Settled, Came, Holders, Holds
    <3>2. v \in Came(c)
      BY <1>2, <3>1 DEF Settled, Came
    <3>3. \A t \in Holders(c) : pc[t] = "use" => user[t] # v
      BY <1>1, <1>2, <2>2 DEF Settled, OthersKept, Holders
    <3> QED BY <3>2, <3>3 DEF Settled
  <2> QED BY <1>1, <1>2, <1>3, <2>2, <2>3, NearQuiet
<1>5. CASE ~needsInvite[s]
  <2>1. pc'[s] = "idle" /\ letin' = letin /\ letin[u] = none
    BY <1>1, <1>2, <1>5 DEF CreateUser, Answer, Continue, TypeOK, InviteRefs
  <2>2. Holders(c)' = Holders(c)
    BY <1>1, <1>5, <2>1, HoldersAfter DEF Holders, Holds
  <2>3. Came(c)' = Came(c)
    BY <1>2, <2>1, AccountsAssumption DEF Came
  <2>4. Settled(c)' \subseteq Settled(c)
    BY <1>1, <1>2, <2>2, <2>3 DEF Settled, OthersKept, Holders
  <2> QED BY <1>1, <1>2, <1>3, <2>2, <2>4, NearQuiet
<1> QED BY <1>4, <1>5 DEF TypeOK

LEMMA NearUse ==
  ASSUME TypeOK, RequestInv, InviteInv, NEW s \in Slots, Step(s),
         UseInviteCode(s) \/ UseFails(s), NEW c \in Codes
  PROVE  Near(c)'
<1>1. OthersKept(s) /\ InviteRefs /\ Near(c)
  BY StepFacts DEF InviteInv
<1>2. /\ pc[s] = "use" /\ pc'[s] = "idle" /\ Holds(s) /\ ~Holds(s)'
      /\ UNCHANGED <<users, letin, created_by>>
  BY DEF UseInviteCode, UseFails, Answer, Continue, TypeOK, accounts, invites, history, Holds,
     RequestInv
<1>3. Holders(c)' = Holders(c) \ {s} /\ Settled(c)' \subseteq Settled(c) \cup ({user[s]} \cap users)
  BY <1>1, <1>2, HoldersAfter, SettledAfter
<1>4. CASE c # code[s]
  <2>1. s \notin Holders(c) /\ Settled(c)' \subseteq Settled(c)
    BY <1>1, <1>2, <1>4, SettledAfter DEF Holders
  <2>2. excess'[c] = excess[c] /\ used_by'[c] = used_by[c]
    BY <1>4 DEF UseInviteCode, UseFails, Exceed, TypeOK, history, invites
  <2> QED BY <1>1, <1>2, <1>3, <2>1, <2>2, NearQuiet DEF Unused
<1>5. CASE c = code[s]
  <2>1. s \in Holders(c)
    BY <1>2, <1>5 DEF Holders
  <2>2. CASE UseFails(s)
    <3>1. excess'[c] = excess[c] + 1
      BY <1>5, <2>2 DEF UseFails, Exceed, TypeOK
    <3> QED BY <1>1, <1>3, <2>1, <3>1, NearSettled
  <2>3. CASE UseInviteCode(s) /\ user[s] \in users
    <3>1. excess'[c] = excess[c] /\ ~Unused(c)'
      BY <1>2, <1>5, <2>3, AccountsAssumption DEF UseInviteCode, history, Unused, TypeOK
    <3> QED BY <1>1, <1>3, <2>1, <3>1, NearSettled
  <2>4. CASE UseInviteCode(s) /\ user[s] \notin users
    <3>1. excess'[c] = excess[c] /\ Settled(c)' \subseteq Settled(c)
      BY <1>3, <2>4 DEF UseInviteCode, history
    <3> QED BY <1>1, <1>3, <2>1, <3>1, NearGivenUp
  <2> QED BY <2>2, <2>3, <2>4
<1> QED BY <1>4, <1>5

LEMMA NearStatementFails ==
  ASSUME TypeOK, RequestInv, InviteInv, NEW s \in Slots, Step(s), StatementFails(s),
         NEW c \in Codes
  PROVE  Near(c)'
<1>1. OthersKept(s) /\ InviteRefs /\ Near(c)
  BY StepFacts DEF InviteInv
<1>2. /\ pc[s] # "use" /\ ~Holds(s)' /\ UNCHANGED <<users, letin, created_by, used_by>>
  BY DEF StatementFails, Answer, Continue, TypeOK, accounts, invites, Holds
<1>3. Holders(c)' = Holders(c) \ {s} /\ Settled(c)' \subseteq Settled(c)
  BY <1>1, <1>2, HoldersAfter, SettledAfter
<1>4. CASE s \notin Holders(c)
  <2>1. excess'[c] = excess[c]
    BY <1>4 DEF StatementFails, Exceed, Holders, TypeOK
  <2> QED BY <1>1, <1>2, <1>3, <1>4, <2>1, NearQuiet DEF Unused
<1>5. CASE s \in Holders(c)
  <2>1. IF Holders(c) # {s} THEN excess'[c] = excess[c] - 1 ELSE excess'[c] = excess[c]
    BY <1>5 DEF StatementFails, Exceed, Holders, TypeOK
  <2> QED BY <1>1, <1>3, <1>5, <2>1, NearGivenUp
<1> QED BY <1>4, <1>5

\* A new code is nobody's yet.
LEMMA NearIssue ==
  ASSUME TypeOK, RequestInv, InviteInv, NEW s \in Slots, Step(s),
         NEW d \in Codes, CreateInviteCode(s, d), NEW c \in Codes
  PROVE  Near(c)'
<1>1. OthersKept(s) /\ InviteRefs /\ Near(c)
  BY StepFacts DEF InviteInv
<1>2. /\ pc[s] = "issue" /\ ~Holds(s)' /\ d \notin issued
      /\ UNCHANGED <<users, letin, used_by, excess>>
      /\ c # d => created_by'[c] = created_by[c]
  BY DEF CreateInviteCode, Answer, Continue, TypeOK, accounts, Holds
<1>3. Holders(c)' = Holders(c) /\ Settled(c)' \subseteq Settled(c)
  BY <1>1, <1>2, HoldersAfter, SettledAfter DEF Holders, Holds
<1>4. CASE c # d
  BY <1>1, <1>2, <1>3, <1>4, NearQuiet DEF Unused
<1>5. CASE c = d
  <2>1. Settled(c)' = {} /\ Holders(c)' = {}
    BY <1>1, <1>2, <1>3, <1>5, AccountsAssumption DEF InviteRefs, Settled, Came, Holders, TypeOK
  <2> QED BY <1>1, <1>2, <2>1, FS_EmptySet DEF Near
<1> QED BY <1>4, <1>5

\* An invite becomes unused again only when the account noted on it is deleted.
LEMMA NearDeleteUser ==
  ASSUME TypeOK, RequestInv, InviteInv, NEW s \in Slots, Step(s),
         NEW u \in Ids, DeleteUser(s, u), NEW c \in Codes
  PROVE  Near(c)'
<1>1. OthersKept(s) /\ InviteRefs /\ Near(c)
  BY StepFacts DEF InviteInv
<1>2. /\ pc[s] = "removeUser" /\ ~Holds(s)' /\ u \in users /\ users' = users \ {u}
      /\ UNCHANGED <<letin, excess>>
  BY DEF DeleteUser, Answer, Continue, TypeOK, Holds
<1>3. Holders(c)' = Holders(c) /\ Settled(c)' \subseteq Settled(c) \ {u}
  <2>1. Holders(c)' = Holders(c) /\ Settled(c)' \subseteq Settled(c)
    BY <1>1, <1>2, HoldersAfter, SettledAfter DEF Holders, Holds
  <2> QED BY <1>2, <2>1 DEF Settled, Came
<1>4. Unused(c)' => Unused(c) \/ used_by[c] = u
  BY <1>2 DEF DeleteUser, Cascade, Without, Unused, TypeOK
<1>5. CASE used_by[c] = u /\ Holders(c) = {}
  <2>1. u \in Settled(c)
    BY <1>1, <1>2, <1>5, AccountsAssumption DEF InviteRefs, Settled, Came, TypeOK
  <2>2. Cardinality(Settled(c)') <= Cardinality(Settled(c)) - 1 /\ Cardinality(Settled(c)') \in Nat
    <3>1. /\ IsFiniteSet(Settled(c) \ {u})
          /\ Cardinality(Settled(c) \ {u}) = Cardinality(Settled(c)) - 1
      BY <1>1, <2>1, InviteSets, FS_RemoveElement
    <3> QED BY <1>3, <3>1, FS_Subset, FS_CardinalityType
  <2> QED BY <1>1, <1>2, <1>3, <1>5, <2>2, InviteSets, FS_EmptySet DEF Near
<1>6. CASE ~(used_by[c] = u /\ Holders(c) = {})
  BY <1>1, <1>2, <1>3, <1>4, <1>6, NearQuiet
<1> QED BY <1>5, <1>6

\* The steps that concern no invite, and the deletion of one.
LEMMA NearOtherSteps ==
  ASSUME TypeOK, RequestInv, InviteInv, NEW s \in Slots, Step(s), NEW c \in Codes,
         \/ \E d \in Codes \cup {none} : Register(s, d)
         \/ CountUsers(s) \/ CountFails(s)
         \/ GetInviteCodeByCode(s) /\ ~Unused(code[s])
         \/ \E u \in Ids : FindUser(s, u)
         \/ \E b \in Browsers : CreateSession(s, b)
         \/ \E b \in Browsers, p \in {"issue", "revoke", "countKeys", "removeKey", "removeUser"} :
              Authenticated(s, b, p)
         \/ CountAPIKeys(s)
         \/ \E k \in KeyIds : CreateAPIKey(s, k) \/ DeleteAPIKey(s, k)
         \/ \E d \in Codes : DeleteInviteCode(s, d)
  PROVE  Near(c)'
<1>1. OthersKept(s) /\ InviteRefs /\ Near(c)
  BY StepFacts DEF InviteInv
<1>2. /\ pc[s] \notin {"create", "use"} /\ UNCHANGED <<users, letin, excess>>
  BY DEF Register, CountUsers, CountFails, GetInviteCodeByCode, FindUser, CreateSession,
     Authenticated, CountAPIKeys, CreateAPIKey, DeleteAPIKey, DeleteInviteCode, accounts, history
<1>3. Unused(c)' => Unused(c)
  BY DEF Register, CountUsers, CountFails, GetInviteCodeByCode, FindUser, CreateSession,
     Authenticated, CountAPIKeys, CreateAPIKey, DeleteAPIKey, DeleteInviteCode, invites, Unused,
     TypeOK
<1>4. ~Holds(s)'
  <2>1. ~(GetInviteCodeByCode(s) /\ Unused(code[s])) /\ ~(\E u \in Ids : CreateUser(s, u))
    BY <1>2 DEF CreateUser, GetInviteCodeByCode, Register, CountUsers, CountFails, FindUser,
       CreateSession, Authenticated, CountAPIKeys, CreateAPIKey, DeleteAPIKey, DeleteInviteCode
  <2> QED BY <2>1, Elsewhere
<1>5. Holders(c)' = Holders(c) /\ Settled(c)' \subseteq Settled(c)
  BY <1>1, <1>2, <1>4, HoldersAfter, SettledAfter DEF Holders, Holds
<1> QED BY <1>1, <1>2, <1>3, <1>5, NearQuiet

LEMMA InviteNext ==
  ASSUME TypeOK, RequestInv, InviteInv, [Next]_vars
  PROVE  InviteInv'
<1>1. ASSUME NEW s \in Slots, Step(s)
      PROVE  InviteInv'
  <2>1. InviteRefs'
    BY <1>1, RefsStep DEF InviteInv
  <2>2. ASSUME NEW c \in Codes
        PROVE  Near(c)'
    BY <1>1, NearFound, NearCreate, NearUse, NearStatementFails, NearIssue, NearDeleteUser,
       NearOtherSteps DEF Step
  <2> QED BY <2>1, <2>2 DEF InviteInv
<1>2. CASE (\E b \in Browsers : Logout(b)) \/ UNCHANGED vars
  <2>1. UNCHANGED <<accounts, invites, request, history>>
    BY <1>2 DEF Logout, vars
  <2>2. InviteRefs'
    BY <2>1 DEF InviteInv, InviteRefs, Holds, accounts, invites, request, history
  <2>3. \A c \in Codes : /\ Settled(c)' = Settled(c) /\ Holders(c)' = Holders(c)
                         /\ Unused(c)' = Unused(c) /\ excess'[c] = excess[c]
    BY <2>1 DEF Settled, Came, Holders, Holds, Unused, accounts, invites, request, history
  <2> QED BY <2>2, <2>3 DEF InviteInv, Near
<1> QED BY <1>1, <1>2 DEF Next

LEMMA InviteInit == Init => InviteInv
<1> SUFFICES ASSUME Init PROVE InviteInv
  OBVIOUS
<1>1. InviteRefs
  BY FS_EmptySet DEF Init, InviteRefs, Holds
<1>2. ASSUME NEW c \in Codes
      PROVE  Near(c)
  <2>1. Settled(c) = {} /\ Holders(c) = {}
    BY DEF Init, Settled, Came, Holders, Holds
  <2> QED BY <2>1, FS_EmptySet DEF Init, Near
<1> QED BY <1>1, <1>2 DEF InviteInv

\* An account that came with the invite is settled or that of a registration that holds it.
LEMMA CameBounded ==
  ASSUME InviteRefs, NEW c
  PROVE  Cardinality(Came(c)) <= Cardinality(Settled(c)) + Cardinality(Holders(c))
<1> DEFINE Held == {user[s] : s \in Holders(c)}
           f == [s \in Holders(c) |-> user[s]]
<1>1. f \in Surjection(Holders(c), Held)
  BY DEF Surjection
<1>2. IsFiniteSet(Held) /\ Cardinality(Held) <= Cardinality(Holders(c)) /\ Cardinality(Held) \in Nat
  BY <1>1, InviteSets, FS_Surjection, FS_CardinalityType
<1>3. Came(c) \subseteq Settled(c) \cup Held
  BY DEF Settled
<1>4. /\ IsFiniteSet(Settled(c) \cup Held)
      /\ Cardinality(Settled(c) \cup Held) <= Cardinality(Settled(c)) + Cardinality(Held)
  <2>1. IsFiniteSet(Settled(c)) /\ Cardinality(Settled(c)) \in Nat
    BY InviteSets
  <2>2. Cardinality(Settled(c) \cap Held) \in Nat
    <3>1. Settled(c) \cap Held \in SUBSET Settled(c)
      OBVIOUS
    <3> QED BY <2>1, <3>1, FS_Subset, FS_CardinalityType
  <2>3. /\ IsFiniteSet(Settled(c) \cup Held)
        /\ Cardinality(Settled(c) \cup Held) =
             Cardinality(Settled(c)) + Cardinality(Held) - Cardinality(Settled(c) \cap Held)
    BY <1>2, <2>1, FS_Union
  <2> HIDE DEF Held
  <2> QED BY <1>2, <2>1, <2>2, <2>3
<1>5. /\ Cardinality(Came(c)) <= Cardinality(Settled(c) \cup Held)
      /\ Cardinality(Came(c)) \in Nat /\ Cardinality(Settled(c) \cup Held) \in Nat
  BY <1>3, <1>4, FS_Subset, FS_CardinalityType
<1> QED BY <1>2, <1>4, <1>5, InviteSets

(* The accounts that came with an invite are never more than one, the      *)
(* registrations of it that overlapped and the marks that were lost,       *)
(* however registrations and deletions interleave (handleCreate,           *)
(* store/invite_code.go).                                                  *)
THEOREM InviteStaysNearOne == Spec => []InviteNearOne
<1>1. Init => TypeOK /\ RequestInv /\ InviteInv
  BY TypeInit, InviteInit
<1>2. (TypeOK /\ RequestInv /\ InviteInv) /\ [Next]_vars => (TypeOK /\ RequestInv /\ InviteInv)'
  BY TypeNext, InviteNext
<1>3. InviteInv => InviteNearOne
  <2> SUFFICES ASSUME InviteInv, NEW c \in Codes
               PROVE  Cardinality(Came(c)) <= 1 + excess[c]
    BY DEF InviteNearOne, Came
  <2>1. InviteRefs /\ Near(c)
    BY DEF InviteInv
  <2>2. IsFiniteSet(Came(c)) /\ Cardinality(Came(c)) \in Nat
    BY <2>1, FS_Subset, FS_CardinalityType DEF InviteRefs, Came
  <2> QED BY <2>1, <2>2, CameBounded, InviteSets DEF Near
<1> QED BY <1>1, <1>2, <1>3, PTL DEF Spec
-----------------------------------------------------------------------------
LEMMA KeysFinite ==
  ASSUME NEW u
  PROVE  /\ IsFiniteSet(KeysOf(u)) /\ Cardinality(KeysOf(u)) \in Nat
         /\ IsFiniteSet(Inserting(u)) /\ Cardinality(Inserting(u)) \in Nat
         /\ Cardinality(Inserting(u)) <= Cardinality(Slots) /\ Cardinality(Slots) \in Nat
<1>1. KeysOf(u) \subseteq KeyIds /\ Inserting(u) \subseteq Slots
  BY DEF KeysOf, Inserting
<1> QED BY <1>1, AccountsAssumption, FS_Subset, FS_CardinalityType

\* No key and no request about to insert one is added.
LEMMA KeysQuiet ==
  ASSUME KeysNearLimit,
         \A u \in Ids : KeysOf(u)' \subseteq KeysOf(u) /\ Inserting(u)' \subseteq Inserting(u)
  PROVE  KeysNearLimit'
<1> SUFFICES ASSUME NEW u \in Ids
             PROVE  Cardinality(KeysOf(u)') + Cardinality(Inserting(u)')
                      <= MaxKeys - 1 + Cardinality(Slots)
  BY DEF KeysNearLimit
<1>1. /\ Cardinality(KeysOf(u)') <= Cardinality(KeysOf(u))
      /\ Cardinality(Inserting(u)') <= Cardinality(Inserting(u))
      /\ Cardinality(KeysOf(u)') \in Nat /\ Cardinality(Inserting(u)') \in Nat
  BY KeysFinite, FS_Subset, FS_CardinalityType
<1>2. Cardinality(KeysOf(u)) + Cardinality(Inserting(u)) <= MaxKeys - 1 + Cardinality(Slots)
  BY DEF KeysNearLimit
<1> QED BY <1>1, <1>2, KeysFinite, AccountsAssumption

\* Where a step of s leaves the request elsewhere than before the insertion of a key.
LEMMA InsertingFacts ==
  ASSUME NEW s \in Slots, OthersKept(s), pc'[s] # "createKey", NEW u
  PROVE  Inserting(u)' = Inserting(u) \ {s}
  BY DEF OthersKept, Inserting

LEMMA KeysCounted ==
  ASSUME TypeOK, RequestInv, KeysNearLimit, NEW s \in Slots, Step(s), CountAPIKeys(s)
  PROVE  KeysNearLimit'
<1>1. OthersKept(s) /\ UNCHANGED owner /\ pc[s] = "countKeys"
  BY StepFacts DEF CountAPIKeys
<1>2. \A u \in Ids : KeysOf(u)' = KeysOf(u)
  BY <1>1 DEF KeysOf
<1>3. CASE Answer(s)
  <2>1. pc'[s] # "createKey"
    BY <1>3 DEF Answer, Continue, TypeOK
  <2> QED BY <1>1, <1>2, <2>1, InsertingFacts, KeysQuiet
<1>4. CASE ~Answer(s)
  <2>1. ~(Cardinality(KeysOf(user[s])) >= MaxKeys) /\ user' = user
    BY <1>4 DEF CountAPIKeys
  <2> SUFFICES ASSUME NEW u \in Ids
               PROVE  Cardinality(KeysOf(u)') + Cardinality(Inserting(u)')
                        <= MaxKeys - 1 + Cardinality(Slots)
    BY DEF KeysNearLimit
  <2>2. CASE u = user[s]
    <3>1. Cardinality(KeysOf(u)') <= MaxKeys - 1
      BY <1>2, <2>1, <2>2, KeysFinite, AccountsAssumption
    <3>2. Inserting(u)' \subseteq Slots
      BY DEF Inserting
    <3>3. Cardinality(Inserting(u)') <= Cardinality(Slots) /\ Cardinality(Inserting(u)') \in Nat
      BY <3>2, AccountsAssumption, FS_Subset, FS_CardinalityType
    <3> QED BY <1>2, <3>1, <3>3, KeysFinite, AccountsAssumption
  <2>3. CASE u # user[s]
    <3>1. Inserting(u)' = Inserting(u)
      BY <1>1, <2>1, <2>3 DEF Inserting, OthersKept
    <3> QED BY <1>2, <3>1 DEF KeysNearLimit
  <2> QED BY <2>2, <2>3
<1> QED BY <1>3, <1>4

LEMMA KeyCreated ==
  ASSUME TypeOK, RequestInv, KeysNearLimit, NEW s \in Slots, Step(s),
         NEW k \in KeyIds, CreateAPIKey(s, k)
  PROVE  KeysNearLimit'
<1>1. OthersKept(s) /\ pc[s] = "createKey" /\ owner[k] = none /\ pc'[s] # "createKey"
  BY StepFacts DEF CreateAPIKey, Answer, Continue, TypeOK
<1>2. \A u : Inserting(u)' = Inserting(u) \ {s}
  BY <1>1, InsertingFacts
<1> SUFFICES ASSUME NEW u \in Ids
             PROVE  Cardinality(KeysOf(u)') + Cardinality(Inserting(u)')
                      <= MaxKeys - 1 + Cardinality(Slots)
  BY DEF KeysNearLimit
<1>3. Cardinality(KeysOf(u)) + Cardinality(Inserting(u)) <= MaxKeys - 1 + Cardinality(Slots)
  BY DEF KeysNearLimit
<1>4. CASE user[s] = u /\ user[s] \in users
  <2>1. KeysOf(u)' = KeysOf(u) \cup {k} /\ k \notin KeysOf(u)
    BY <1>1, <1>4, AccountsAssumption DEF KeysOf, CreateAPIKey, TypeOK
  <2>2. s \in Inserting(u)
    BY <1>1, <1>4 DEF Inserting
  <2>3. Cardinality(KeysOf(u)') = Cardinality(KeysOf(u)) + 1
    BY <2>1, KeysFinite, FS_AddElement
  <2>4. Cardinality(Inserting(u)') = Cardinality(Inserting(u)) - 1
    BY <1>2, <2>2, KeysFinite, FS_RemoveElement
  <2> QED BY <1>3, <2>3, <2>4, KeysFinite, AccountsAssumption
<1>5. CASE ~(user[s] = u /\ user[s] \in users)
  <2>1. KeysOf(u)' = KeysOf(u)
    BY <1>1, <1>5, AccountsAssumption DEF KeysOf, CreateAPIKey, TypeOK
  <2>2. Cardinality(Inserting(u)') <= Cardinality(Inserting(u)) /\ Cardinality(Inserting(u)') \in Nat
    BY <1>2, KeysFinite, FS_Subset, FS_CardinalityType
  <2> QED BY <1>3, <2>1, <2>2, KeysFinite, AccountsAssumption
<1> QED BY <1>4, <1>5

LEMMA KeysOtherSteps ==
  ASSUME TypeOK, RequestInv, KeysNearLimit, NEW s \in Slots, Step(s), ~CountAPIKeys(s),
         ~(\E k \in KeyIds : CreateAPIKey(s, k))
  PROVE  KeysNearLimit'
<1>1. OthersKept(s)
  BY StepFacts
<1>2. pc'[s] # "createKey"
  <2>1. CASE Answer(s)
    BY <2>1 DEF Answer, Continue, TypeOK
  <2>2. ASSUME NEW p \in Points \ {"createKey"}, Continue(s, p)
        PROVE  pc'[s] # "createKey"
    BY <2>2 DEF Continue, TypeOK
  <2>3. ASSUME NEW needs \in BOOLEAN, Checked(s, needs)
        PROVE  pc'[s] # "createKey"
    BY <2>1, <2>2, <2>3 DEF Checked, Points
  <2> QED BY <2>1, <2>2, <2>3 DEF Step, Register, CountUsers, CountFails, GetInviteCodeByCode,
      CreateUser, UseInviteCode, UseFails, FindUser, CreateSession, Authenticated,
      CreateInviteCode, DeleteInviteCode, DeleteAPIKey, DeleteUser, StatementFails, Points
<1>3. \A k \in KeyIds : owner'[k] = owner[k] \/ owner'[k] = none
  BY DEF Step, Register, CountUsers, CountFails, GetInviteCodeByCode, CreateUser, UseInviteCode,
     UseFails, FindUser, CreateSession, Authenticated, CreateInviteCode, DeleteInviteCode,
     DeleteAPIKey, DeleteUser, StatementFails, Cascade, Without, TypeOK
<1>4. \A u \in Ids : KeysOf(u)' \subseteq KeysOf(u)
  BY <1>3, AccountsAssumption DEF KeysOf
<1> QED BY <1>1, <1>2, <1>4, InsertingFacts, KeysQuiet

LEMMA KeysNext ==
  ASSUME TypeOK, RequestInv, KeysNearLimit, [Next]_vars
  PROVE  KeysNearLimit'
<1>1. ASSUME NEW s \in Slots, Step(s)
      PROVE  KeysNearLimit'
  BY <1>1, KeysCounted, KeyCreated, KeysOtherSteps
<1>2. CASE (\E b \in Browsers : Logout(b)) \/ UNCHANGED vars
  <2>1. UNCHANGED <<owner, pc, user>>
    BY <1>2 DEF Logout, vars, request
  <2> QED BY <2>1 DEF KeysNearLimit, KeysOf, Inserting
<1> QED BY <1>1, <1>2 DEF Next

LEMMA KeysInit == Init => KeysNearLimit
<1> SUFFICES ASSUME Init, NEW u \in Ids
             PROVE  Cardinality(KeysOf(u)) + Cardinality(Inserting(u))
                      <= MaxKeys - 1 + Cardinality(Slots)
  BY DEF KeysNearLimit
<1>1. KeysOf(u) = {} /\ Inserting(u) = {}
  BY AccountsAssumption DEF Init, KeysOf, Inserting
<1> QED BY <1>1, KeysFinite, FS_EmptySet, AccountsAssumption

(* The keys of an account stay within maxAPIKeys, but for one less than    *)
(* the requests that can overlap: one at a time, and the limit is exact    *)
(* (store/apikey.go, CreateAPIKey).                                        *)
THEOREM KeysStayNearLimit == Spec => []KeysNearLimit
<1>1. Init => TypeOK /\ RequestInv /\ KeysNearLimit
  BY TypeInit, KeysInit
<1>2. (TypeOK /\ RequestInv /\ KeysNearLimit) /\ [Next]_vars
        => (TypeOK /\ RequestInv /\ KeysNearLimit)'
  BY TypeNext, KeysNext
<1> QED BY <1>1, <1>2, PTL DEF Spec
=============================================================================
