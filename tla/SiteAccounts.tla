------------------------------ MODULE SiteAccounts -----------------------------
(***************************************************************************)
(* Signing in and out, registering, the settings of a user, API keys and   *)
(* the pages of an administrator: server/auth.go, userhandler,             *)
(* apikeyhandler and adminhandler with their pages.  Of a password only    *)
(* matters whether it is the right one.                                    *)
(***************************************************************************)
EXTENDS Site

\* The queries on accounts, each with the rows it reads or writes.
GetUser(u) == u \in users

\* No two users have one address.
GetUserByEmail(e) == {u \in users : emails[u] = e}

CreateUser(u, e, isAdmin) ==
  /\ users' = users \cup {u}
  /\ admins' = IF isAdmin THEN admins \cup {u} ELSE admins
  /\ emails' = [emails EXCEPT ![u] = e]

UpdateUser(u, e) == emails' = [emails EXCEPT ![u] = e]

UpdateUserSettings(u, p) == prefs' = [prefs EXCEPT ![u] = p]

GetInviteCodeByCode(c) == invites[c] \in {"open", "used"}

ListInviteCodes == {c \in Invites : GetInviteCodeByCode(c)}

UseInviteCode(c) == invites' = [invites EXCEPT ![c] = "used"]

CreateInviteCode ==
  \E c \in Invites : invites[c] = "none" /\ invites' = [invites EXCEPT ![c] = "open"]

DeleteInviteCode(c) == invites' = [invites EXCEPT ![c] = "deleted"]

ListAPIKeys(u) == {k \in Keys : api_keys[k] = u}

CountAPIKeys(u) == Cardinality(ListAPIKeys(u))

CreateAPIKey(u) ==
  \E k \in Keys : api_keys[k] = Nothing /\ api_keys' = [api_keys EXCEPT ![k] = u]

\* Nothing is said of a key that is another user's.
DeleteAPIKey(k, u) ==
  api_keys' = IF api_keys[k] = u THEN [api_keys EXCEPT ![k] = Gone] ELSE api_keys

CreateSession(u) == session' = u
DeleteSession == session' = Nothing

CreateBlocklistEntry(p) == p \notin blocklist /\ blocklist' = blocklist \cup {p}
DeleteBlocklistEntry(p) == blocklist' = blocklist \ {p}

\* CountUsers
RequireInviteCode == users # {}

-----------------------------------------------------------------------------
LoginPage ==
  {Go("GET:/user/new")}
    \cup {Request("POST:/login", Nothing, {e} \cup typed) :
            e \in Emails, typed \in {{}, {Password}}}

CodesTyped == IF RequireInviteCode THEN {{c} : c \in Invites} ELSE {{}}

RegisterPage ==
  {Go("GET:/login")}
    \cup {Request("POST:/user", u, {e} \cup typed) :
            u \in Users \ users, e \in Emails, typed \in CodesTyped}

Preferences(u) == {Request("POST:/user/:id/settings", u, {p}) : p \in Prefs}

ImportForm(u) ==
  {Request("POST:/user/:id/import", u, file) : file \in {{}} \cup {{b} : b \in Urls}}

\* At the limit a user is not led to the form of a new key.
KeySection(u) ==
  {Go("GET:/apikey/new") : x \in {y \in {u} : CountAPIKeys(u) < MaxKeys}}
    \cup {Link("DELETE:/apikey/:id", k) : k \in ListAPIKeys(u)}

UserDetailPage(u) ==
  {Link("GET:/user/:id/edit", u), Link("GET:/user/:id/change-password", u)}
    \cup Preferences(u) \cup ImportForm(u) \cup KeySection(u)

SettingsForm(u) == Request("POST:/user/:id/settings", u, {prefs[u]})

UserEditPage(u) ==
  {Link("GET:/user/:id", u)} \cup {Request("PUT:/user/:id", u, {e}) : e \in Emails}

EmailForm(u) == Request("PUT:/user/:id", u, {emails[u]})

ChangePasswordPage(u) ==
  {Link("GET:/user/:id", u)}
    \cup {Request("POST:/user/:id/change-password", u, typed) : typed \in {{}, {Password}}}

ImportResultPage(u) == {Go("GET:/url"), Link("GET:/user/:id", u)}

KeyCard(k) == {Link("DELETE:/apikey/:id", k)}

KeysPage(keys, atLimit) ==
  (IF atLimit THEN {} ELSE {Go("GET:/apikey/new")}) \cup UNION {KeyCard(k) : k \in keys}

NewKeyPage == {Go("POST:/apikey/"), Go("GET:/apikey/")}

CreatedPage(u) == {Link("GET:/user/:id", u)}

JobRunsSection(dispatch) == {Go(dispatch)}

InviteCard(c) == {Link("DELETE:/admin/invite/:id", x) : x \in {y \in {c} : invites[y] = "open"}}

AdminPage(codes) ==
  {Go("GET:/admin/users"), Go("GET:/admin/blocklist"), Go("POST:/admin/invite/")}
    \cup JobRunsSection("POST:/admin/run") \cup JobRunsSection("POST:/admin/feed-poll/run")
    \cup UNION {InviteCard(c) : c \in codes}

UsersPage(listed) == {Link("GET:/admin/users/:id/reset-password", u) : u \in listed}

ResetPasswordPage(u) ==
  {Go("GET:/admin/users"), Request("POST:/admin/users/:id/reset-password", u, {Password})}

BlocklistEntryCard(p) == {Link("DELETE:/admin/blocklist/:id", p)}

BlocklistPage(entries) ==
  {Go("GET:/admin/blocklist/new")} \cup UNION {BlocklistEntryCard(p) : p \in entries}

NewBlocklistEntryPage ==
  {Go("GET:/admin/blocklist")} \cup {Link("POST:/admin/blocklist", p) : p \in Patterns}

-----------------------------------------------------------------------------
EmailIn(r) == CHOOSE e \in Emails : e \in r.form

\* Base without a user: nothing but the content.
ShowStranger(s, r, view, offers) == Put(s, Page(view, r, {}, {}, offers, {}))

HandleLoginForm(s, u, r) ==
  /\ r.route = "GET:/login"
  /\ ShowStranger(s, r, "LoginPage", LoginPage)
  /\ Reading

HandleLogin(s, u, r) ==
  /\ r.route = "POST:/login" /\ s = Tab
  /\ LET found == GetUserByEmail(EmailIn(r))
     IN  \/ /\ found = {} \/ Password \notin r.form
            /\ ShowStranger(s, r, "LoginPage", LoginPage)
         \/ /\ Password \in r.form
            /\ \E v \in found : CreateSession(v)
            /\ page' = Blank(NoRequest) /\ pending' = Go("GET:/url") /\ answer' = "page"
            /\ UNCHANGED fresh
  /\ Reading

HandleLogout(s, u, r) ==
  /\ r.route = "POST:/logout" /\ s = Tab
  /\ DeleteSession /\ page' = Blank(NoRequest)
  /\ pending' = Go("GET:/login") /\ answer' = "page"
  /\ UNCHANGED fresh
  /\ Reading

HandleNewUser(s, u, r) ==
  /\ r.route = "GET:/user/new"
  /\ ShowStranger(s, r, "RegisterPage", RegisterPage)
  /\ Reading

\* The code has to be open, and nobody else to have the address.
HandleCreateUser(s, u, r) ==
  /\ r.route = "POST:/user" /\ r.id \notin users
  /\ LET codes == r.form \cap Invites
         invalid == RequireInviteCode /\ ~\E c \in codes : invites[c] = "open"
     IN  IF invalid \/ GetUserByEmail(EmailIn(r)) # {}
         THEN ShowStranger(s, r, "RegisterPage", RegisterPage) /\ Reading
         ELSE /\ CreateUser(r.id, EmailIn(r), ~RequireInviteCode)
              /\ IF RequireInviteCode THEN \E c \in codes : UseInviteCode(c)
                 ELSE UNCHANGED invites
              /\ Redirect(s, Go("GET:/login"))
              /\ UNCHANGED <<prefs, api_keys, blocklist, bookmarks, categories, feeds>>

-----------------------------------------------------------------------------
\* Of other users' pages no link leads to these.
HandleSettings(s, u, r) ==
  /\ r.route = "GET:/user/:id"
  /\ \/ /\ GetUser(r.id)
        /\ ShowForm(s, u, r, "UserDetailPage", UserDetailPage(r.id), {SettingsForm(r.id)})
     \/ ~GetUser(r.id) /\ Refuse(s, r)
  /\ Reading

HandleEditUser(s, u, r) ==
  /\ r.route = "GET:/user/:id/edit"
  /\ \/ GetUser(r.id) /\ ShowForm(s, u, r, "UserEditPage", UserEditPage(r.id), {EmailForm(r.id)})
     \/ ~GetUser(r.id) /\ Refuse(s, r)
  /\ Reading

\* UpdateUser fails when another user has the address.
HandleUpdateUser(s, u, r) ==
  /\ r.route = "PUT:/user/:id"
  /\ IF ~GetUser(r.id) \/ GetUserByEmail(EmailIn(r)) \ {r.id} # {}
     THEN Refuse(s, r) /\ Reading
     ELSE /\ UpdateUser(r.id, EmailIn(r))
          /\ Redirect(s, Link("GET:/user/:id", r.id))
          /\ UNCHANGED <<users, admins, prefs, invites, api_keys, blocklist, bookmarks,
                         categories, feeds>>

HandleChangePasswordForm(s, u, r) ==
  /\ r.route = "GET:/user/:id/change-password"
  /\ \/ GetUser(r.id) /\ Show(s, u, r, "ChangePassword", {}, ChangePasswordPage(r.id))
     \/ ~GetUser(r.id) /\ Refuse(s, r)
  /\ Reading

HandleChangePassword(s, u, r) ==
  /\ r.route = "POST:/user/:id/change-password"
  /\ \/ ~GetUser(r.id) /\ Refuse(s, r)
     \/ GetUser(r.id) /\ Password \in r.form /\ Redirect(s, Link("GET:/user/:id", r.id))
     \/ /\ GetUser(r.id) /\ Password \notin r.form
        /\ Show(s, u, r, "ChangePassword", {}, ChangePasswordPage(r.id))
  /\ Reading

HandleUpdateSettings(s, u, r) ==
  /\ r.route = "POST:/user/:id/settings"
  /\ IF r.id # u THEN Refuse(s, r) /\ Reading
     ELSE /\ UpdateUserSettings(u, CHOOSE p \in Prefs : p \in r.form)
          /\ Redirect(s, Link("GET:/user/:id", u))
          /\ UNCHANGED <<users, admins, emails, invites, api_keys, blocklist, bookmarks,
                         categories, feeds>>

\* Without a file, or with one that cannot be read, the settings are shown again.
HandleImport(s, u, r) ==
  /\ r.route = "POST:/user/:id/import"
  /\ \/ r.id # u /\ Refuse(s, r) /\ Reading
     \/ /\ r.id = u /\ r.form = {}
        /\ ShowForm(s, u, r, "UserDetailPage", UserDetailPage(u), {SettingsForm(u)})
        /\ Reading
     \/ /\ r.id = u
        /\ \E b \in r.form :
             IF Refused(u, b) THEN UNCHANGED <<library, url_tags>>
             ELSE /\ library' = IF Has(u, b) THEN library
                                ELSE [library EXCEPT ![u] = Append(@, b)]
                  /\ url_tags' = [url_tags EXCEPT ![<<u, b>>] = {}]
        /\ Show(s, u, r, "ImportResultPage", {}, ImportResultPage(u))
        /\ UNCHANGED <<feed_url, accounts, categories, feeds>>

-----------------------------------------------------------------------------
HandleListKeys(s, u, r) ==
  /\ r.route = "GET:/apikey/"
  /\ Show(s, u, r, "KeysPage", ListAPIKeys(u), KeysPage(ListAPIKeys(u), CountAPIKeys(u) >= MaxKeys))
  /\ Reading

HandleNewKey(s, u, r) ==
  /\ r.route = "GET:/apikey/new"
  /\ Show(s, u, r, "NewKeyPage", {}, NewKeyPage)
  /\ Reading

\* At the limit the form is shown again.
HandleCreateKey(s, u, r) ==
  /\ r.route = "POST:/apikey/"
  /\ IF CountAPIKeys(u) >= MaxKeys
     THEN Show(s, u, r, "NewKeyPage", {}, NewKeyPage) /\ Reading
     ELSE /\ CreateAPIKey(u)
          /\ Show(s, u, r, "CreatedPage", {}, CreatedPage(u))
          /\ UNCHANGED <<users, admins, emails, prefs, invites, blocklist, bookmarks,
                         categories, feeds>>

HandleDeleteKey(s, u, r) ==
  /\ r.route = "DELETE:/apikey/:id"
  /\ DeleteAPIKey(r.id, u)
  /\ Redirect(s, Link("GET:/user/:id", u))
  /\ UNCHANGED <<users, admins, emails, prefs, invites, blocklist, bookmarks, categories,
                 feeds>>

-----------------------------------------------------------------------------
HandleIndex(s, u, r) ==
  /\ r.route = "GET:/admin/"
  /\ Show(s, u, r, "AdminPage", ListInviteCodes, AdminPage(ListInviteCodes))
  /\ Reading

\* What is dispatched is in JobRunner and FeedPoll.
HandleDispatch(s, u, r) ==
  /\ r.route \in {"POST:/admin/run", "POST:/admin/feed-poll/run"}
  /\ Redirect(s, Go("GET:/admin/"))
  /\ Reading

HandleCreateInvite(s, u, r) ==
  /\ r.route = "POST:/admin/invite/"
  /\ CreateInviteCode
  /\ Redirect(s, Go("GET:/admin/"))
  /\ UNCHANGED <<users, admins, emails, prefs, api_keys, blocklist, bookmarks, categories,
                 feeds>>

HandleDeleteInvite(s, u, r) ==
  /\ r.route = "DELETE:/admin/invite/:id"
  /\ DeleteInviteCode(r.id)
  /\ Redirect(s, Go("GET:/admin/"))
  /\ UNCHANGED <<users, admins, emails, prefs, api_keys, blocklist, bookmarks, categories,
                 feeds>>

HandleListUsers(s, u, r) ==
  /\ r.route = "GET:/admin/users"
  /\ Show(s, u, r, "UsersPage", users, UsersPage(users))
  /\ Reading

HandleResetPasswordForm(s, u, r) ==
  /\ r.route = "GET:/admin/users/:id/reset-password"
  /\ \/ GetUser(r.id) /\ Show(s, u, r, "ResetPassword", {}, ResetPasswordPage(r.id))
     \/ ~GetUser(r.id) /\ Refuse(s, r)
  /\ Reading

HandleResetPassword(s, u, r) ==
  /\ r.route = "POST:/admin/users/:id/reset-password"
  /\ IF GetUser(r.id) THEN Redirect(s, Go("GET:/admin/users")) ELSE Refuse(s, r)
  /\ Reading

HandleListBlocklist(s, u, r) ==
  /\ r.route = "GET:/admin/blocklist"
  /\ Show(s, u, r, "BlocklistPage", blocklist, BlocklistPage(blocklist))
  /\ Reading

HandleNewBlocklistForm(s, u, r) ==
  /\ r.route = "GET:/admin/blocklist/new"
  /\ Show(s, u, r, "NewBlocklistEntry", {}, NewBlocklistEntryPage)
  /\ Reading

HandleCreateBlocklistEntry(s, u, r) ==
  /\ r.route = "POST:/admin/blocklist"
  /\ \/ /\ r.id \in blocklist
        /\ Show(s, u, r, "NewBlocklistEntry", {}, NewBlocklistEntryPage)
        /\ Reading
     \/ /\ CreateBlocklistEntry(r.id)
        /\ Redirect(s, Go("GET:/admin/blocklist"))
        /\ UNCHANGED <<users, admins, emails, prefs, invites, api_keys, bookmarks,
                       categories, feeds>>

HandleDeleteBlocklistEntry(s, u, r) ==
  /\ r.route = "DELETE:/admin/blocklist/:id"
  /\ DeleteBlocklistEntry(r.id)
  /\ Redirect(s, Go("GET:/admin/blocklist"))
  /\ UNCHANGED <<users, admins, emails, prefs, invites, api_keys, bookmarks, categories,
                 feeds>>

-----------------------------------------------------------------------------
\* Those that anyone may call, and those of a user.
PublicHandler(s, u, r) ==
  \/ HandleLoginForm(s, u, r) \/ HandleLogin(s, u, r) \/ HandleLogout(s, u, r)
  \/ HandleNewUser(s, u, r) \/ HandleCreateUser(s, u, r)

UserHandler(s, u, r) ==
  \/ HandleSettings(s, u, r) \/ HandleEditUser(s, u, r) \/ HandleUpdateUser(s, u, r)
  \/ HandleChangePasswordForm(s, u, r) \/ HandleChangePassword(s, u, r)
  \/ HandleUpdateSettings(s, u, r) \/ HandleImport(s, u, r)

ApiKeyHandler(s, u, r) ==
  \/ HandleListKeys(s, u, r) \/ HandleNewKey(s, u, r) \/ HandleCreateKey(s, u, r)
  \/ HandleDeleteKey(s, u, r)

AdminHandler(s, u, r) ==
  \/ HandleIndex(s, u, r) \/ HandleDispatch(s, u, r) \/ HandleCreateInvite(s, u, r)
  \/ HandleDeleteInvite(s, u, r) \/ HandleListUsers(s, u, r)
  \/ HandleResetPasswordForm(s, u, r) \/ HandleResetPassword(s, u, r)
  \/ HandleListBlocklist(s, u, r) \/ HandleNewBlocklistForm(s, u, r)
  \/ HandleCreateBlocklistEntry(s, u, r) \/ HandleDeleteBlocklistEntry(s, u, r)

=============================================================================
