------------------------------ MODULE Accounts ------------------------------
(***************************************************************************)
(* The accounts of the web frontend: the user table of AuthStore (auth.py) *)
(* and the requests that read and change it (frontend.py).                 *)
(*                                                                         *)
(* All request threads share one sqlite3 connection without a lock: each   *)
(* sees the uncommitted statements of the others, and a commit of one      *)
(* commits them all.  A request is therefore the sequence of its           *)
(* statements, Handler[op], and the requests interleave between them.      *)
(*                                                                         *)
(* The session is a signed cookie that the browser holds: it survives a    *)
(* restart.  Passwords and codes are right or wrong by free choice.        *)
(***************************************************************************)
EXTENDS Integers, Sequences, FiniteSets

CONSTANTS
    Names, Admin,       \* user names; the bootstrap account's
    Sources,            \* of authentication: local, ldap, oidc
    Secrets, NoSecret,  \* TOTP seeds
    Clients,            \* browsers, each with one request at a time
    Nobody,             \* a session's empty field
    Tables,             \* user tables a process may find at its start
    Cookies,            \* sessions of the browsers, from the process before it
    Archive,            \* the user table of a backup
    MaxRequests, MaxFaults

Roles == {"admin", "reader"}
Accounts == [source : Sources, role : Roles, active : BOOLEAN, mustChange : BOOLEAN,
             mfa : BOOLEAN, secret : Secrets \cup {NoSecret}]
IsTable(table) == DOMAIN table \subseteq Names /\ table \in [DOMAIN table -> Accounts]

ASSUME AccountsAssumption ==
    /\ Admin \in Names /\ Nobody \notin Names /\ NoSecret \notin Secrets
    /\ {"local"} \subseteq Sources /\ Sources \subseteq {"local", "ldap", "oidc"}
    /\ Cookies \subseteq [Clients -> [username : Names \cup {Nobody},
                               pending : Names \cup {Nobody}]]
    /\ \A table \in Tables \cup {Archive} :
          /\ IsTable(table)
          /\ \A n \in DOMAIN table : table[n].mfa => table[n].secret # NoSecret
    /\ MaxRequests \in Nat /\ MaxFaults \in Nat

VARIABLES
    users,      \* the table as the connection sees it
    disk,       \* what is committed
    session,    \* of each browser
    page,       \* what it shows, or the redirect it has yet to follow
    todo,       \* the statements its request has left
    request,    \* the request's form and what it has read
    requests, faults,
    \* history:
    dirty,      \* requests at work with a statement that is not committed
    outdated    \* requests whose account another one changed since they read it

tableVars == <<users, disk, dirty>>
browserVars == <<session, page>>
boundVars == <<requests, faults>>
vars == <<tableVars, browserVars, todo, request, boundVars, outdated>>

\* The statements of each handler: a name is an action below.
HandlerSeedOnly == \* mutant: ensure_mfa_secret does not commit
    [create |-> <<"login", "admin", "insert", "commit", "audit">>,
     update |-> <<"login", "admin", "role", "active", "commit", "audit">>,
     reset |-> <<"login", "admin", "password", "commit", "audit">>,
     delete |-> <<"login", "admin", "delete", "commit", "audit">>,
     mfa_seed |-> <<"login", "admin", "lookup", "seed", "keep">>,
     mfa_enable |-> <<"login", "admin", "lookup", "seed", "keep", "set", "commit", "audit">>,
     mfa_disable |-> <<"login", "admin", "lookup", "seed", "keep", "set", "commit", "audit">>,
     change |-> <<"login", "check", "password", "commit", "audit">>,
     import |-> <<"login", "admin", "row", "commit", "audit">>,
     local |-> <<"authenticate", "finish">>,
     external |-> <<"own", "insert", "commit", "finish">>,
     code |-> <<"verify">>,
     logout |-> <<"login", "leave">>]
Handler ==
    [create |-> <<"login", "admin", "insert", "commit", "audit">>,
     update |-> <<"login", "admin", "role", "active", "commit", "audit">>,
     reset |-> <<"login", "admin", "password", "commit", "audit">>,
     delete |-> <<"login", "admin", "delete", "commit", "audit">>,
     mfa_seed |-> <<"login", "admin", "lookup", "seed", "keep", "commit">>,
     mfa_enable |-> <<"login", "admin", "lookup", "seed", "keep", "commit",
                      "set", "commit", "audit">>,
     mfa_disable |-> <<"login", "admin", "lookup", "seed", "keep", "commit",
                       "set", "commit", "audit">>,
     change |-> <<"login", "check", "password", "commit", "audit">>,
     import |-> <<"login", "admin", "row", "commit", "audit">>,
     local |-> <<"authenticate", "finish">>,
     external |-> <<"own", "insert", "commit", "finish">>,
     code |-> <<"verify">>,
     logout |-> <<"login", "leave">>]
Steps == UNION {{Handler[op][i] : i \in DOMAIN Handler[op]} : op \in DOMAIN Handler}

Redirects == {"login", "mfa", "dashboard", "change_password"}
Empty == [username |-> Nobody, pending |-> Nobody]
NoForm == [op |-> "", name |-> Nobody, source |-> "local", role |-> "reader",
           active |-> TRUE, mustChange |-> FALSE, mfa |-> FALSE, secret |-> NoSecret,
           rows |-> {}]

\* The form of a request: an empty one but for what the handler takes from it.
Filled(op, n, source, role, active) ==
    [NoForm EXCEPT !.op = op, !.name = n, !.source = source, !.role = role, !.active = active,
        !.mustChange = op \in {"create", "reset"}, !.mfa = op = "mfa_enable",
        !.rows = IF op = "import" THEN DOMAIN Archive ELSE {}]

New(source, role, mustChange) ==
    [source |-> source, role |-> role, active |-> TRUE, mustChange |-> mustChange,
     mfa |-> FALSE, secret |-> NoSecret]

\* AuthStore.__init__: an empty table gets the bootstrap account.
Opened(table) ==
    IF DOMAIN table = {} THEN [n \in {Admin} |-> New("local", "admin", TRUE)] ELSE table

Init ==
    /\ \E table \in Tables : users = Opened(table) /\ disk = Opened(table)
    /\ session \in Cookies /\ page = [c \in Clients |-> "page"]
    /\ todo = [c \in Clients |-> <<>>] /\ request = [c \in Clients |-> NoForm]
    /\ requests = 0 /\ faults = 0
    /\ dirty = {} /\ outdated = {}

-----------------------------------------------------------------------------
Known(n) == n \in DOMAIN users
SignedIn(c) == Known(session[c].username) /\ users[session[c].username].active
Me(c) == users[session[c].username]
Target(c) == request[c].name

\* login_required: where a request for an endpoint ends up.
Guarded(c, endpoint) ==
    CASE ~SignedIn(c) -> "login"
      [] SignedIn(c) /\ Me(c).mustChange /\ endpoint \notin {"change_password", "logout"}
            -> "change_password"
      [] OTHER -> endpoint

\* What a browser gets that asks for an endpoint.
ServedSkippingLogin(c, endpoint) == \* mutant: a browser with a session skips the login
    CASE endpoint = "login" -> IF session[c].username # Nobody THEN "dashboard" ELSE "page"
      [] endpoint = "mfa" -> "page"
      [] OTHER -> IF Guarded(c, endpoint) # endpoint THEN Guarded(c, endpoint) ELSE "page"
Served(c, endpoint) ==
    LET pending == session[c].pending
    IN  CASE endpoint = "login" -> "page"
          [] endpoint = "mfa" ->
                IF Known(pending) /\ users[pending].secret # NoSecret THEN "page" ELSE "login"
          [] endpoint \in {"dashboard", "change_password"} /\ Guarded(c, endpoint) # endpoint ->
                Guarded(c, endpoint)
          [] endpoint = "change_password" /\ Guarded(c, endpoint) = endpoint ->
                IF Me(c).source = "local" THEN "page" ELSE "dashboard"
          [] OTHER -> "page"

At(c, step) == todo[c] # <<>> /\ Head(todo[c]) = step
Answer(c, answer) ==
    /\ todo' = [todo EXCEPT ![c] = <<>>] /\ page' = [page EXCEPT ![c] = answer]
    /\ request' = [request EXCEPT ![c] = NoForm]
ContinueWith(c, form) ==
    IF Len(todo[c]) = 1 THEN Answer(c, "page")
    ELSE /\ todo' = [todo EXCEPT ![c] = Tail(@)] /\ UNCHANGED page
         /\ request' = [request EXCEPT ![c] = form]
Continue(c) == ContinueWith(c, request[c])

Commit == disk' = users /\ dirty' = {}

\* A statement of c that leaves the table as `table`.
Execute(c, table) ==
    /\ users' = table /\ UNCHANGED disk
    /\ dirty' = IF table = users THEN dirty ELSE dirty \cup {c}
    /\ outdated' = outdated \cup
          {d \in Clients \ {c} : \E n \in DOMAIN users \cup DOMAIN table :
              /\ n = Target(d)
              /\ n \in DOMAIN users \cap DOMAIN table => users[n] # table[n]}
With(n, account) == [m \in {n} \cup DOMAIN users |-> IF m = n THEN account ELSE users[m]]
Read == UNCHANGED <<tableVars, outdated>>
Keeps == UNCHANGED <<session, boundVars>>

-----------------------------------------------------------------------------
\* A browser sends a form.  Any page it has opened earlier may still be at hand.
Submit(c) ==
    /\ todo[c] = <<>> /\ page[c] \notin Redirects
    /\ requests < MaxRequests /\ requests' = requests + 1
    /\ \E op \in DOMAIN Handler, n \in Names, source \in Sources, role \in Roles,
          active \in BOOLEAN :
          /\ op \in {"logout", "import", "code"} => n = Admin
          /\ op = "change" => n = session[c].username
          /\ op \notin {"create", "external"} => source = "local"
          /\ op = "external" => source # "local"
          /\ op # "update" => role = "reader"
          /\ op # "update" => active
          /\ todo' = [todo EXCEPT ![c] = Handler[op]]
          /\ request' = [request EXCEPT ![c] = Filled(op, n, source, role, active)]
    /\ page' = [page EXCEPT ![c] = "page"]
    /\ dirty' = dirty \ {c} /\ outdated' = outdated \ {c}
    /\ UNCHANGED <<users, disk, session, faults>>

\* A browser follows a redirect.
Follow(c) ==
    /\ todo[c] = <<>> /\ page[c] \in Redirects
    /\ page' = [page EXCEPT ![c] = Served(c, page[c])]
    /\ UNCHANGED <<todo, request>> /\ Read /\ Keeps

RequireLogin(c) ==
    /\ At(c, "login")
    /\ LET endpoint == CASE request[c].op = "change" -> "change_password"
                         [] request[c].op = "logout" -> "logout"
                         [] OTHER -> "page"
           guarded == Guarded(c, endpoint)
       IN  IF guarded # endpoint THEN Answer(c, guarded)
           ELSE IF endpoint = "change_password" /\ Me(c).source # "local"
                THEN Answer(c, "dashboard")
           ELSE Continue(c)
    /\ Read /\ Keeps

\* admin_required reads the account once more: by then it may be gone.
RequireAdmin(c) ==
    /\ At(c, "admin")
    /\ IF Known(session[c].username) /\ Me(c).role = "admin"
       THEN Continue(c) ELSE Answer(c, "error")
    /\ Read /\ Keeps

CommitStep(c) ==
    /\ At(c, "commit")
    /\ Commit /\ Continue(c)
    /\ UNCHANGED <<users, outdated>> /\ Keeps

\* The row of the audit is inserted and committed, with whatever else is pending.  It
\* names the account of the session, which may just have been deleted; a change of password
\* names the account it read when it began.
Audit(c) ==
    /\ At(c, "audit")
    /\ IF request[c].op = "change" \/ Known(session[c].username)
       THEN /\ Commit /\ UNCHANGED users
            /\ IF request[c].op = "change" THEN Answer(c, "dashboard") ELSE Continue(c)
       ELSE Answer(c, "error") /\ UNCHANGED tableVars
    /\ UNCHANGED outdated /\ Keeps

-----------------------------------------------------------------------------
InsertOrReplace(c) == \* mutant: INSERT OR REPLACE
    /\ At(c, "insert")
    /\ Execute(c, With(Target(c), New(request[c].source, request[c].role, request[c].mustChange)))
    /\ Continue(c) /\ Keeps

\* create_user: the name is unique, an IntegrityError is caught by no handler.
Insert(c) ==
    /\ At(c, "insert")
    /\ IF Known(Target(c))
       THEN Answer(c, "error") /\ Read
       ELSE /\ Execute(c, With(Target(c), New(request[c].source, request[c].role,
                                              request[c].mustChange)))
            /\ Continue(c)
    /\ Keeps

\* update_user, in two statements.
UpdateRole(c) ==
    /\ At(c, "role")
    /\ Execute(c, IF Known(Target(c))
                  THEN [users EXCEPT ![Target(c)].role = request[c].role] ELSE users)
    /\ Continue(c) /\ Keeps
UpdateActive(c) ==
    /\ At(c, "active")
    /\ Execute(c, IF Known(Target(c))
                  THEN [users EXCEPT ![Target(c)].active = request[c].active] ELSE users)
    /\ Continue(c) /\ Keeps

\* set_password changes local accounts only; a password of less than eight characters
\* is refused.
SetPassword(c) ==
    /\ At(c, "password")
    /\ \/ /\ Execute(c, IF Known(Target(c)) /\ users[Target(c)].source = "local"
                        THEN [users EXCEPT ![Target(c)].mustChange = request[c].mustChange]
                        ELSE users)
          /\ Continue(c)
       \/ Answer(c, "page") /\ Read
    /\ Keeps

DeleteUser(c) ==
    /\ At(c, "delete")
    /\ IF Target(c) = Admin
       THEN Answer(c, "page") /\ Read
       ELSE /\ Execute(c, [n \in DOMAIN users \ {Target(c)} |-> users[n]])
            /\ Continue(c)
    /\ Keeps

\* user_mfa: only accounts whose second factor the frontend checks itself.
LookupUser(c) ==
    /\ At(c, "lookup")
    /\ IF Known(Target(c)) /\ users[Target(c)].source \in {"local", "ldap"}
       THEN Continue(c) ELSE Answer(c, "error")
    /\ Read /\ Keeps

SeedAlwaysNew(c) == \* mutant: the seed an account has is not looked at
    /\ At(c, "seed")
    /\ IF ~Known(Target(c)) THEN Answer(c, "error")
       ELSE \E s \in Secrets : ContinueWith(c, [request[c] EXCEPT !.secret = s])
    /\ outdated' = outdated \ {c}
    /\ UNCHANGED <<tableVars, session, boundVars>>

\* ensure_mfa_secret reads the account's seed or makes one up, ...
Seed(c) ==
    /\ At(c, "seed")
    /\ IF ~Known(Target(c)) THEN Answer(c, "error")
       ELSE \E s \in IF users[Target(c)].secret = NoSecret THEN Secrets
                     ELSE {users[Target(c)].secret} :
               ContinueWith(c, [request[c] EXCEPT !.secret = s])
    /\ outdated' = outdated \ {c}
    /\ UNCHANGED <<tableVars, session, boundVars>>

\* ... and writes it.
KeepSeed(c) ==
    /\ At(c, "keep")
    /\ Execute(c, IF Known(Target(c))
                  THEN [users EXCEPT ![Target(c)].secret = request[c].secret] ELSE users)
    /\ Continue(c) /\ Keeps

SetMfaSecretOnly(c) == \* mutant: disabling forgets the seed and leaves the flag
    /\ At(c, "set")
    /\ Execute(c, IF Known(Target(c))
                  THEN [users EXCEPT ![Target(c)].mfa = @ \/ request[c].mfa,
                          ![Target(c)].secret =
                              IF request[c].mfa THEN request[c].secret ELSE NoSecret]
                  ELSE users)
    /\ Continue(c) /\ Keeps

\* set_mfa
SetMfa(c) ==
    /\ At(c, "set")
    /\ Execute(c, IF Known(Target(c))
                  THEN [users EXCEPT ![Target(c)].mfa = request[c].mfa,
                          ![Target(c)].secret =
                              IF request[c].mfa THEN request[c].secret ELSE NoSecret]
                  ELSE users)
    /\ Continue(c) /\ Keeps

\* import_rows: one statement per row; each of them may fail, and what went before
\* stays pending.
ImportRow(c) ==
    /\ At(c, "row")
    /\ \/ /\ \E n \in request[c].rows :
                /\ Execute(c, With(n, Archive[n]))
                /\ IF request[c].rows = {n} THEN Continue(c)
                   ELSE /\ request' = [request EXCEPT ![c].rows = @ \ {n}]
                        /\ UNCHANGED <<todo, page>>
          /\ UNCHANGED faults
       \/ /\ faults < MaxFaults /\ faults' = faults + 1
          /\ Answer(c, "error") /\ Read
    /\ UNCHANGED <<session, requests>>

-----------------------------------------------------------------------------
\* login() audits a failure, which commits what is pending.
LoginFailed(c) == Commit /\ UNCHANGED users /\ Answer(c, "page") /\ UNCHANGED outdated

\* authenticate_local; the account read is used later by finish_login.
AuthenticateLocal(c) ==
    /\ At(c, "authenticate")
    /\ \/ /\ Known(Target(c)) /\ users[Target(c)].source = "local" /\ users[Target(c)].active
          /\ ContinueWith(c, [request[c] EXCEPT !.mfa = users[Target(c)].mfa]) /\ Read
       \/ LoginFailed(c)
    /\ UNCHANGED <<session, boundVars>>

\* The provider has confirmed the name; upsert_external finds the account, finds that
\* another source owns it, or goes on to create it.  Only the LDAP login looks at `active`.
UpsertExternal(c) ==
    /\ At(c, "own")
    /\ \/ ~Known(Target(c)) /\ Continue(c) /\ Read
       \/ /\ Known(Target(c)) /\ users[Target(c)].source = request[c].source
          /\ request[c].source = "ldap" => users[Target(c)].active
          /\ request' = [request EXCEPT ![c].mfa = users[Target(c)].mfa]
          /\ todo' = [todo EXCEPT ![c] = <<"finish">>] /\ UNCHANGED page /\ Read
       \/ /\ Known(Target(c)) /\ request[c].source = "oidc"
          /\ users[Target(c)].source # "oidc"
          /\ Answer(c, "error") /\ Read
       \/ request[c].source = "ldap" /\ LoginFailed(c)
    /\ UNCHANGED <<session, boundVars>>

FinishLogin(c) ==
    /\ At(c, "finish")
    /\ IF request[c].mfa
       THEN /\ session' = [session EXCEPT ![c].pending = Target(c)]
            /\ Answer(c, "mfa") /\ UNCHANGED tableVars
       ELSE /\ session' = [session EXCEPT ![c] =
                  [username |-> Target(c), pending |-> Nobody]]
            /\ Commit /\ Answer(c, "dashboard") /\ UNCHANGED users
    /\ UNCHANGED <<boundVars, outdated>>

\* A POST of mfa()
VerifyCode(c) ==
    /\ At(c, "verify")
    /\ LET n == session[c].pending
       IN  IF ~Known(n) \/ (Known(n) /\ users[n].secret = NoSecret)
           THEN Answer(c, "login") /\ UNCHANGED <<session, tableVars>>
           ELSE \/ /\ session' = [session EXCEPT ![c] = [username |-> n, pending |-> Nobody]]
                   /\ Commit /\ Answer(c, "dashboard") /\ UNCHANGED users
                \/ Answer(c, "page") /\ UNCHANGED <<session, tableVars>>
    /\ UNCHANGED <<boundVars, outdated>>

\* logout() reads the account again for its audit.
Leave(c) ==
    /\ At(c, "leave")
    /\ IF Known(session[c].username)
       THEN /\ session' = [session EXCEPT ![c] = Empty]
            /\ Commit /\ Answer(c, "login") /\ UNCHANGED users
       ELSE Answer(c, "error") /\ UNCHANGED <<session, tableVars>>
    /\ UNCHANGED <<boundVars, outdated>>

\* change_password: the current password and the confirmation.
CheckPassword(c) ==
    /\ At(c, "check")
    /\ \/ /\ Known(Target(c)) /\ users[Target(c)].source = "local" /\ users[Target(c)].active
          /\ Continue(c)
       \/ Answer(c, "page")
    /\ Read /\ Keeps

\* The process dies and another one opens the database.
Crash ==
    /\ faults < MaxFaults /\ faults' = faults + 1
    /\ users' = Opened(disk) /\ disk' = Opened(disk) /\ dirty' = {}
    /\ todo' = [c \in Clients |-> <<>>]
    /\ page' = [c \in Clients |-> IF todo[c] = <<>> THEN page[c] ELSE "error"]
    /\ request' = [c \in Clients |-> NoForm] /\ outdated' = {}
    /\ UNCHANGED <<session, requests>>

-----------------------------------------------------------------------------
Serve(c) ==
    \/ Follow(c) \/ RequireLogin(c) \/ RequireAdmin(c) \/ CommitStep(c) \/ Audit(c)
    \/ Insert(c) \/ UpdateRole(c) \/ UpdateActive(c) \/ SetPassword(c) \/ DeleteUser(c)
    \/ LookupUser(c) \/ Seed(c) \/ KeepSeed(c) \/ SetMfa(c) \/ ImportRow(c)
    \/ AuthenticateLocal(c) \/ UpsertExternal(c) \/ FinishLogin(c) \/ VerifyCode(c)
    \/ Leave(c) \/ CheckPassword(c)

Next == Crash \/ \E c \in Clients : Submit(c) \/ Serve(c)

\* A request thread that has begun goes on, and a browser follows redirects.
Fairness == \A c \in Clients : WF_vars(Serve(c))

Spec == Init /\ [][Next]_vars /\ Fairness

-----------------------------------------------------------------------------
\* Accounts, sessions and requests are of their kinds, and an account whose second
\* factor is on has a seed: without one finish_login and mfa() would send its owner
\* from one to the other.
TypeOK ==
    /\ IsTable(users) /\ IsTable(disk)
    /\ \A n \in DOMAIN users : users[n].mfa => users[n].secret # NoSecret
    /\ session \in [Clients -> [username : Names \cup {Nobody}, pending : Names \cup {Nobody}]]
    /\ page \in [Clients -> Redirects \cup {"page", "error"}]
    /\ \A c \in Clients : \A i \in DOMAIN todo[c] : todo[c][i] \in Steps
    /\ dirty \subseteq Clients /\ outdated \subseteq Clients
    /\ requests \in 0..MaxRequests /\ faults \in 0..MaxFaults

\* An account never passes from one authentication source to another, however logins,
\* creations and deletions of the same name interleave (upsert_external looks first and
\* inserts later); only a backup says otherwise.
SourceIsKept ==
    [][\A n \in Names : Known(n) /\ Known(n)' /\ users'[n].source # users[n].source
         => Crash \/ \E c \in Clients : ImportRow(c)]_vars

\* A request that has been answered without an error has nothing left uncommitted, in
\* whatever order the other requests' commits fell: a crash takes nothing back.
AnsweredIsDurable ==
    [][\A c \in Clients : todo[c] # <<>> /\ todo'[c] = <<>> /\ page'[c] # "error"
         => c \notin dirty']_vars

\* The seed of an enabled second factor stays the one its owner enrolled: only a backup,
\* or a request that read the account before another one changed it, replaces it.
SeedIsKept ==
    [][\A n \in Names : Known(n) /\ Known(n)' =>
         (users[n].mfa /\ users'[n].mfa /\ users'[n].secret # users[n].secret
          => \/ Crash
             \/ \E c \in Clients : \/ ImportRow(c)
                                   \/ c \in outdated /\ (KeepSeed(c) \/ SetMfa(c)))]_vars

\* A browser that is sent from page to page arrives at one, unless its account is one of
\* an external source that must change a password it does not have here: the page for
\* that sends it back to the dashboard.
RedirectsEnd ==
    \A c \in Clients :
        page[c] \in Redirects
        ~> (page[c] \notin Redirects
            \/ (SignedIn(c) /\ Me(c).mustChange /\ Me(c).source # "local"))
=============================================================================
