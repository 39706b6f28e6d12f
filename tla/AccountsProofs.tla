--------------------------- MODULE AccountsProofs ----------------------------
(***************************************************************************)
(* Proofs about Accounts, for any names, sources and seeds, any number of  *)
(* browsers and requests, any tables found at a start and any backup.      *)
(*                                                                         *)
(* The statements of one request come one by one, between those of the     *)
(* others.  That an account keeps its source does not rest on what a       *)
(* request has read before: it needs only that each single statement       *)
(* either leaves the source alone or concerns a name that is not taken.    *)
(*                                                                         *)
(* That an answer is durable rests on what a request has left to do: every *)
(* write of it is followed by a commit of its own (Plans), so one with     *)
(* something uncommitted is not at its end (Clean).                        *)
(*                                                                         *)
(* That an enrolled seed stays rests on what a request has read: unless    *)
(* another one changed the account since, the request carries the seed the *)
(* account has (Seeds), and writes it back.                                *)
(***************************************************************************)
EXTENDS Accounts, TLAPS

Form == [op : DOMAIN Handler \cup {""}, name : Names \cup {Nobody}, source : Sources, role : Roles,
         active : BOOLEAN, mustChange : BOOLEAN, mfa : BOOLEAN,
         secret : Secrets \cup {NoSecret}, rows : SUBSET DOMAIN Archive]

\* What the statements that write the tables take from a request.
Formed ==
    /\ DOMAIN todo = Clients
    /\ request \in [Clients -> Form]
    /\ \A c \in Clients : todo[c] # <<>> => request[c].name \in Names

Tabled == IsTable(users) /\ IsTable(disk) /\ Formed

\* The accounts that are in both tables have the same sources there.
SameSources(t, u) == \A n \in DOMAIN t \cap DOMAIN u : u[n].source = t[n].source

-----------------------------------------------------------------------------
(* What the statements do to a table.                                       *)

LEMMA AccountIsTyped ==
  ASSUME NEW t, IsTable(t), NEW n \in DOMAIN t
  PROVE  /\ t[n] \in Accounts /\ n \in Names
         /\ t[n] = [source |-> t[n].source, role |-> t[n].role, active |-> t[n].active,
                    mustChange |-> t[n].mustChange, mfa |-> t[n].mfa, secret |-> t[n].secret]
         /\ t[n].source \in Sources /\ t[n].role \in Roles /\ t[n].active \in BOOLEAN
         /\ t[n].mustChange \in BOOLEAN /\ t[n].mfa \in BOOLEAN
         /\ t[n].secret \in Secrets \cup {NoSecret}
<1>1. t[n] \in Accounts /\ n \in Names
  BY DEF IsTable
<1> QED
  BY <1>1 DEF Accounts

\* What an UPDATE does to an account: the source is in none of them.
LEMMA AccountUpdates ==
  ASSUME NEW a \in Accounts
  PROVE  /\ \A r \in Roles : /\ [a EXCEPT !.role = r] \in Accounts
                             /\ [a EXCEPT !.role = r].source = a.source
         /\ \A b \in BOOLEAN : /\ [a EXCEPT !.active = b] \in Accounts
                               /\ [a EXCEPT !.active = b].source = a.source
         /\ \A b \in BOOLEAN : /\ [a EXCEPT !.mustChange = b] \in Accounts
                               /\ [a EXCEPT !.mustChange = b].source = a.source
         /\ \A s \in Secrets \cup {NoSecret} : /\ [a EXCEPT !.secret = s] \in Accounts
                                              /\ [a EXCEPT !.secret = s].source = a.source
         /\ \A b \in BOOLEAN, s \in Secrets \cup {NoSecret} :
               /\ [a EXCEPT !.mfa = b, !.secret = s] \in Accounts
               /\ [a EXCEPT !.mfa = b, !.secret = s].source = a.source
  BY DEF Accounts

\* An account is replaced by one of the same source.
LEMMA ReplacedInTable ==
  ASSUME NEW t, IsTable(t), NEW n \in DOMAIN t, NEW a \in Accounts, a.source = t[n].source
  PROVE  IsTable([t EXCEPT ![n] = a]) /\ SameSources(t, [t EXCEPT ![n] = a])
  BY DEF IsTable, SameSources

\* A row is inserted, or takes the place of another.
LEMMA WithIsTable ==
  ASSUME IsTable(users), NEW n \in Names, NEW a \in Accounts
  PROVE  /\ IsTable(With(n, a))
         /\ n \notin DOMAIN users => SameSources(users, With(n, a))
<1>1. With(n, a) = [x \in {n} \cup DOMAIN users |-> IF x = n THEN a ELSE users[x]]
  BY DEF With
<1> QED
  BY <1>1 DEF IsTable, SameSources

LEMMA DeletedIsTable ==
  ASSUME NEW t, IsTable(t), NEW m
  PROVE  LET u == [n \in DOMAIN t \ {m} |-> t[n]] IN IsTable(u) /\ SameSources(t, u)
  BY DEF IsTable, SameSources

LEMMA NewIsAccount ==
  ASSUME NEW s \in Sources, NEW r \in Roles, NEW b \in BOOLEAN
  PROVE  New(s, r, b) \in Accounts
  BY DEF New, Accounts

LEMMA OpenedIsTable ==
  ASSUME NEW t, IsTable(t)
  PROVE  IsTable(Opened(t))
<1>1. CASE DOMAIN t = {}
  <2>1. New("local", "admin", TRUE) \in Accounts /\ Admin \in Names
    BY NewIsAccount, AccountsAssumption DEF Roles
  <2>2. Opened(t) = [x \in {Admin} |-> New("local", "admin", TRUE)]
    BY <1>1 DEF Opened
  <2> QED
    BY <2>1, <2>2 DEF IsTable
<1>2. CASE DOMAIN t # {}
  BY <1>2 DEF Opened
<1> QED
  BY <1>1, <1>2
-----------------------------------------------------------------------------
(* What the statements do to a request.                                     *)

LEMMA NoFormIsForm == NoForm \in Form
<1>1. "local" \in Sources /\ "reader" \in Roles
  BY AccountsAssumption DEF Roles
<1>2. {} \in SUBSET DOMAIN Archive
  OBVIOUS
<1> QED
  BY <1>1, <1>2 DEF NoForm, Form

LEMMA FilledIsForm ==
  ASSUME NEW op \in DOMAIN Handler, NEW n \in Names, NEW source \in Sources,
         NEW role \in Roles, NEW active \in BOOLEAN
  PROVE  /\ Filled(op, n, source, role, active) \in Form
         /\ Filled(op, n, source, role, active).name = n
<1>1. /\ (op \in {"create", "reset"}) \in BOOLEAN /\ (op = "mfa_enable") \in BOOLEAN
      /\ (IF op = "import" THEN DOMAIN Archive ELSE {}) \in SUBSET DOMAIN Archive
  OBVIOUS
<1> QED
  BY <1>1 DEF Filled, NoForm, Form

LEMMA FormFields ==
  ASSUME NEW f \in Form
  PROVE  /\ f.op \in DOMAIN Handler \cup {""} /\ f.name \in Names \cup {Nobody} /\ f.source \in Sources
         /\ f.role \in Roles /\ f.active \in BOOLEAN /\ f.mustChange \in BOOLEAN
         /\ f.mfa \in BOOLEAN /\ f.secret \in Secrets \cup {NoSecret}
         /\ f.rows \in SUBSET DOMAIN Archive
  BY DEF Form

LEMMA FormUpdates ==
  ASSUME NEW f \in Form
  PROVE  /\ \A b \in BOOLEAN : /\ [f EXCEPT !.mfa = b] \in Form
                               /\ [f EXCEPT !.mfa = b].name = f.name
         /\ \A s \in Secrets \cup {NoSecret} : /\ [f EXCEPT !.secret = s] \in Form
                                              /\ [f EXCEPT !.secret = s].name = f.name
         /\ \A r \in SUBSET DOMAIN Archive : /\ [f EXCEPT !.rows = r] \in Form
                                             /\ [f EXCEPT !.rows = r].name = f.name
  BY DEF Form

LEMMA AnswerIsFormed ==
  ASSUME Formed, NEW c \in Clients, NEW answer, Answer(c, answer)
  PROVE  Formed'
  BY NoFormIsForm DEF Formed, Answer

LEMMA ContinueIsFormed ==
  ASSUME Formed, NEW c \in Clients, todo[c] # <<>>,
         NEW form \in Form, form.name = request[c].name, ContinueWith(c, form)
  PROVE  Formed'
<1>1. CASE Answer(c, "page")
  BY <1>1, AnswerIsFormed
<1>2. CASE /\ todo' = [todo EXCEPT ![c] = Tail(@)]
           /\ request' = [request EXCEPT ![c] = form]
  BY <1>2 DEF Formed
<1> QED
  BY <1>1, <1>2 DEF ContinueWith

\* A statement that goes on with the request as it is.
LEMMA GoesOn ==
  ASSUME Formed, NEW c \in Clients, todo[c] # <<>>, Continue(c)
  PROVE  Formed'
<1>1. request[c] \in Form
  BY DEF Formed
<1> QED
  BY <1>1, ContinueIsFormed DEF Continue

LEMMA KeepsTables ==
  ASSUME IsTable(users), IsTable(disk), UNCHANGED users, disk' = users \/ UNCHANGED disk
  PROVE  IsTable(users)' /\ IsTable(disk)' /\ SameSources(users, users')
  BY DEF IsTable, SameSources

LEMMA ExecuteKeepsTables ==
  ASSUME IsTable(disk), NEW c, NEW table, IsTable(table), SameSources(users, table),
         Execute(c, table)
  PROVE  IsTable(users)' /\ IsTable(disk)' /\ SameSources(users, users')
<1>1. users' = table /\ disk' = disk
  BY DEF Execute
<1> QED
  BY <1>1 DEF IsTable
-----------------------------------------------------------------------------
(* Every step keeps the tables and, but for a backup's rows and a crash, the *)
(* sources.                                                                 *)

LEMMA InitTabled == Init => Tabled
<1> SUFFICES ASSUME Init PROVE Tabled
  OBVIOUS
<1>1. PICK table \in Tables : users = Opened(table) /\ disk = Opened(table)
  BY DEF Init
<1>2. IsTable(users) /\ IsTable(disk)
  BY <1>1, OpenedIsTable, AccountsAssumption
<1>3. Formed
  BY NoFormIsForm DEF Init, Formed
<1> QED
  BY <1>2, <1>3 DEF Tabled

LEMMA SubmitIsTabled ==
  ASSUME Tabled, NEW c \in Clients, Submit(c)
  PROVE  Tabled' /\ SameSources(users, users')
<1>1. PICK op \in DOMAIN Handler, n \in Names, source \in Sources, role \in Roles,
           active \in BOOLEAN :
          /\ op \in {"logout", "import", "code"} => n = Admin
          /\ op = "change" => n = session[c].username
          /\ op \notin {"create", "external"} => source = "local"
          /\ op = "external" => source # "local"
          /\ op # "update" => role = "reader"
          /\ op # "update" => active
          /\ todo' = [todo EXCEPT ![c] = Handler[op]]
          /\ request' = [request EXCEPT ![c] = Filled(op, n, source, role, active)]
  BY DEF Submit
<1>2. Filled(op, n, source, role, active) \in Form /\ Filled(op, n, source, role, active).name = n
  BY FilledIsForm
<1>3. Formed'
  BY <1>1, <1>2 DEF Tabled, Formed
<1>4. UNCHANGED <<users, disk>>
  BY DEF Submit
<1> QED
  BY <1>3, <1>4, KeepsTables DEF Tabled

\* Steps that only read the tables.
LEMMA ReadingIsTabled ==
  ASSUME Tabled, NEW c \in Clients,
         \/ Follow(c) \/ RequireLogin(c) \/ RequireAdmin(c) \/ LookupUser(c)
         \/ Seed(c) \/ CheckPassword(c)
  PROVE  Tabled' /\ SameSources(users, users')
<1>1. UNCHANGED <<users, disk>>
  BY DEF Follow, RequireLogin, RequireAdmin, LookupUser, Seed, CheckPassword, Read, tableVars
<1>2. Formed
  BY DEF Tabled
<1>3. Formed'
  <2>1. CASE Follow(c)
    BY <1>2, <2>1 DEF Follow, Formed
  <2>2. CASE RequireLogin(c)
    <3>1. todo[c] # <<>> /\ (Continue(c) \/ \E answer : Answer(c, answer))
      BY <2>2 DEF RequireLogin, At
    <3> QED
      BY <1>2, <3>1, GoesOn, AnswerIsFormed
  <2>3. CASE RequireAdmin(c) \/ LookupUser(c) \/ CheckPassword(c)
    <3>1. todo[c] # <<>> /\ (Continue(c) \/ \E answer : Answer(c, answer))
      BY <2>3 DEF RequireAdmin, LookupUser, CheckPassword, At
    <3> QED
      BY <1>2, <3>1, GoesOn, AnswerIsFormed
  <2>4. CASE Seed(c)
    <3>1. todo[c] # <<>>
      BY <2>4 DEF Seed, At
    <3>2. CASE ~Known(Target(c))
      BY <1>2, <2>4, <3>2, AnswerIsFormed DEF Seed
    <3>3. CASE Known(Target(c))
      <4>1. users[Target(c)].secret \in Secrets \cup {NoSecret}
        BY <3>3, AccountIsTyped DEF Tabled, Known
      <4>2. PICK s \in Secrets \cup {NoSecret} :
              ContinueWith(c, [request[c] EXCEPT !.secret = s])
        BY <2>4, <3>3, <4>1 DEF Seed
      <4>3. request[c] \in Form
        BY <1>2 DEF Formed
      <4> QED
        BY <1>2, <3>1, <4>2, <4>3, FormUpdates, ContinueIsFormed
    <3> QED
      BY <3>2, <3>3
  <2> QED
    BY <2>1, <2>2, <2>3, <2>4
<1> QED
  BY <1>1, <1>3, KeepsTables DEF Tabled

\* Steps that at most commit what is pending.
LEMMA CommittingIsTabled ==
  ASSUME Tabled, NEW c \in Clients,
         \/ CommitStep(c) \/ Audit(c) \/ AuthenticateLocal(c) \/ UpsertExternal(c)
         \/ FinishLogin(c) \/ VerifyCode(c) \/ Leave(c)
  PROVE  Tabled' /\ SameSources(users, users')
<1>1. UNCHANGED users /\ (disk' = users \/ UNCHANGED disk)
  BY DEF CommitStep, Audit, AuthenticateLocal, UpsertExternal, FinishLogin, VerifyCode, Leave,
         LoginFailed, Commit, Read, tableVars
<1>2. Formed
  BY DEF Tabled
<1>3. Formed'
  <2>1. CASE CommitStep(c) \/ Audit(c)
    <3>1. todo[c] # <<>> /\ (Continue(c) \/ \E answer : Answer(c, answer))
      BY <2>1 DEF CommitStep, Audit, At
    <3> QED
      BY <1>2, <3>1, GoesOn, AnswerIsFormed
  <2>2. CASE AuthenticateLocal(c)
    <3>1. todo[c] # <<>>
      BY <2>2 DEF AuthenticateLocal, At
    <3>2. CASE LoginFailed(c)
      BY <1>2, <3>2, AnswerIsFormed DEF LoginFailed
    <3>3. CASE /\ Known(Target(c))
               /\ ContinueWith(c, [request[c] EXCEPT !.mfa = users[Target(c)].mfa])
      <4>1. users[Target(c)].mfa \in BOOLEAN
        BY <3>3, AccountIsTyped DEF Tabled, Known
      <4>2. request[c] \in Form
        BY <1>2 DEF Formed
      <4> QED
        BY <1>2, <3>1, <3>3, <4>1, <4>2, FormUpdates, ContinueIsFormed
    <3> QED
      BY <2>2, <3>2, <3>3 DEF AuthenticateLocal
  <2>3. CASE UpsertExternal(c)
    <3>1. todo[c] # <<>>
      BY <2>3 DEF UpsertExternal, At
    <3>2. CASE Continue(c) \/ \E answer : Answer(c, answer)
      BY <1>2, <3>1, <3>2, GoesOn, AnswerIsFormed
    <3>3. CASE /\ Known(Target(c))
               /\ request' = [request EXCEPT ![c].mfa = users[Target(c)].mfa]
               /\ todo' = [todo EXCEPT ![c] = <<"finish">>]
      <4>1. users[Target(c)].mfa \in BOOLEAN
        BY <3>3, AccountIsTyped DEF Tabled, Known
      <4>2. request[c] \in Form
        BY <1>2 DEF Formed
      <4> DEFINE form == [request[c] EXCEPT !.mfa = users[Target(c)].mfa]
      <4>3. form \in Form /\ form.name = request[c].name
        BY <4>1, <4>2, FormUpdates
      <4>4. request' = [request EXCEPT ![c] = form]
        BY <3>3
      <4> HIDE DEF form
      <4> QED
        BY <1>2, <3>1, <3>3, <4>3, <4>4 DEF Formed
    <3> QED
      BY <2>3, <3>2, <3>3 DEF UpsertExternal, LoginFailed
  <2>4. CASE FinishLogin(c) \/ VerifyCode(c) \/ Leave(c)
    <3>1. \E answer : Answer(c, answer)
      BY <2>4 DEF FinishLogin, VerifyCode, Leave
    <3> QED
      BY <1>2, <3>1, AnswerIsFormed
  <2> QED
    BY <2>1, <2>2, <2>3, <2>4
<1> QED
  BY <1>1, <1>3, KeepsTables DEF Tabled

\* The statements that write one account.
LEMMA WritingIsTabled ==
  ASSUME Tabled, NEW c \in Clients,
         \/ Insert(c) \/ UpdateRole(c) \/ UpdateActive(c) \/ SetPassword(c)
         \/ DeleteUser(c) \/ KeepSeed(c) \/ SetMfa(c)
  PROVE  Tabled' /\ SameSources(users, users')
<1> DEFINE n == Target(c)
           u == users[n]
<1>1. Formed /\ IsTable(users) /\ IsTable(disk)
  BY DEF Tabled
<1>2. todo[c] # <<>>
  BY DEF Insert, UpdateRole, UpdateActive, SetPassword, DeleteUser, KeepSeed, SetMfa, At
<1>3. request[c] \in Form /\ n \in Names
  BY <1>1, <1>2 DEF Formed, Target
<1>4. /\ request[c].source \in Sources /\ request[c].role \in Roles
      /\ request[c].active \in BOOLEAN /\ request[c].mustChange \in BOOLEAN
      /\ request[c].mfa \in BOOLEAN /\ request[c].secret \in Secrets \cup {NoSecret}
  BY <1>3, FormFields
<1>5. ASSUME NEW table, IsTable(table), SameSources(users, table), Execute(c, table), Continue(c)
      PROVE  Tabled' /\ SameSources(users, users')
  BY <1>1, <1>2, <1>5, ExecuteKeepsTables, GoesOn DEF Tabled
<1>6. ASSUME NEW answer, Answer(c, answer), Read
      PROVE  Tabled' /\ SameSources(users, users')
  BY <1>1, <1>6, AnswerIsFormed, KeepsTables DEF Tabled, Read, tableVars
<1>7. SameSources(users, users)
  BY DEF SameSources
<1>8. ASSUME NEW a \in Accounts, Known(n), a.source = u.source
      PROVE  IsTable([users EXCEPT ![n] = a]) /\ SameSources(users, [users EXCEPT ![n] = a])
  BY <1>1, <1>8, ReplacedInTable DEF Known
<1>9. CASE Insert(c)
  <2>1. CASE Known(n)
    BY <1>6, <1>9, <2>1 DEF Insert
  <2>2. CASE ~Known(n)
    <3> DEFINE a == New(request[c].source, request[c].role, request[c].mustChange)
    <3>1. a \in Accounts
      BY <1>4, NewIsAccount
    <3>2. IsTable(With(n, a)) /\ SameSources(users, With(n, a))
      BY <1>1, <1>3, <2>2, <3>1, WithIsTable DEF Known
    <3>3. Execute(c, With(n, a)) /\ Continue(c)
      BY <1>9, <2>2 DEF Insert
    <3> QED
      BY <1>5, <3>2, <3>3
  <2> QED
    BY <2>1, <2>2
<1>10. CASE UpdateRole(c) \/ UpdateActive(c) \/ SetPassword(c) \/ KeepSeed(c) \/ SetMfa(c)
  <2>1. ASSUME Known(n)
        PROVE  u \in Accounts
    BY <1>1, <2>1, AccountIsTyped DEF Known
  <2>2. CASE ~Known(n)
    <3>1. \/ Execute(c, users) /\ Continue(c)
          \/ Answer(c, "page") /\ Read
      BY <1>10, <2>2 DEF UpdateRole, UpdateActive, SetPassword, KeepSeed, SetMfa
    <3> QED
      BY <1>1, <1>5, <1>6, <1>7, <3>1
  <2>3. CASE Known(n)
    <3>1. ASSUME NEW a \in Accounts, a.source = u.source,
                 Execute(c, [users EXCEPT ![n] = a]), Continue(c)
          PROVE  Tabled' /\ SameSources(users, users')
      BY <1>5, <1>8, <2>3, <3>1
    <3>2. CASE UpdateRole(c)
      <4>1. Execute(c, [users EXCEPT ![n] = [u EXCEPT !.role = request[c].role]]) /\ Continue(c)
        BY <2>3, <3>2 DEF UpdateRole
      <4> QED
        BY <1>4, <2>1, <2>3, <3>1, <4>1, AccountUpdates
    <3>3. CASE UpdateActive(c)
      <4>1. Execute(c, [users EXCEPT ![n] = [u EXCEPT !.active = request[c].active]]) /\ Continue(c)
        BY <2>3, <3>3 DEF UpdateActive
      <4> QED
        BY <1>4, <2>1, <2>3, <3>1, <4>1, AccountUpdates
    <3>4. CASE SetPassword(c)
      <4>1. \/ Execute(c, [users EXCEPT ![n] = [u EXCEPT !.mustChange = request[c].mustChange]])
               /\ Continue(c)
            \/ Execute(c, users) /\ Continue(c)
            \/ Answer(c, "page") /\ Read
        BY <2>3, <3>4 DEF SetPassword
      <4> QED
        BY <1>1, <1>4, <1>5, <1>6, <1>7, <2>1, <2>3, <3>1, <4>1, AccountUpdates
    <3>5. CASE KeepSeed(c)
      <4>1. Execute(c, [users EXCEPT ![n] = [u EXCEPT !.secret = request[c].secret]]) /\ Continue(c)
        BY <2>3, <3>5 DEF KeepSeed
      <4> QED
        BY <1>4, <2>1, <2>3, <3>1, <4>1, AccountUpdates
    <3>6. CASE SetMfa(c)
      <4> DEFINE s == IF request[c].mfa THEN request[c].secret ELSE NoSecret
      <4>1. Execute(c, [users EXCEPT ![n] = [u EXCEPT !.mfa = request[c].mfa, !.secret = s]])
            /\ Continue(c)
        BY <2>3, <3>6 DEF SetMfa
      <4>2. s \in Secrets \cup {NoSecret}
        BY <1>4
      <4> HIDE DEF s
      <4> QED
        BY <1>4, <2>1, <2>3, <3>1, <4>1, <4>2, AccountUpdates
    <3> QED
      BY <1>10, <3>2, <3>3, <3>4, <3>5, <3>6
  <2> QED
    BY <2>2, <2>3
<1>11. CASE DeleteUser(c)
  <2>1. CASE n = Admin
    BY <1>6, <1>11, <2>1 DEF DeleteUser
  <2>2. CASE n # Admin
    <3> DEFINE table == [m \in DOMAIN users \ {n} |-> users[m]]
    <3>1. IsTable(table) /\ SameSources(users, table)
      BY <1>1, DeletedIsTable
    <3>2. Execute(c, table) /\ Continue(c)
      BY <1>11, <2>2 DEF DeleteUser
    <3> QED
      BY <1>5, <3>1, <3>2
  <2> QED
    BY <2>1, <2>2
<1> QED
  BY <1>9, <1>10, <1>11

\* The rows of a backup.
LEMMA ImportIsTabled ==
  ASSUME Tabled, NEW c \in Clients, ImportRow(c)
  PROVE  Tabled'
<1>1. Formed /\ IsTable(users) /\ IsTable(disk) /\ IsTable(Archive)
  BY AccountsAssumption DEF Tabled
<1>2. todo[c] # <<>>
  BY DEF ImportRow, At
<1>3. request[c] \in Form /\ request[c].rows \in SUBSET DOMAIN Archive
  BY <1>1, FormFields DEF Formed
<1>4. CASE Answer(c, "error") /\ Read
  BY <1>1, <1>4, AnswerIsFormed, KeepsTables DEF Tabled, Read, tableVars
<1>5. ASSUME NEW n \in request[c].rows, Execute(c, With(n, Archive[n])),
             IF request[c].rows = {n} THEN Continue(c)
             ELSE /\ request' = [request EXCEPT ![c].rows = @ \ {n}]
                  /\ UNCHANGED <<todo, page>>
      PROVE  Tabled'
  <2>1. n \in Names /\ Archive[n] \in Accounts
    BY <1>1, <1>3, AccountIsTyped
  <2>2. IsTable(With(n, Archive[n]))
    BY <1>1, <2>1, WithIsTable
  <2>3. users' = With(n, Archive[n]) /\ disk' = disk
    BY <1>5 DEF Execute
  <2>4. IsTable(users)' /\ IsTable(disk)'
    BY <1>1, <2>2, <2>3 DEF IsTable
  <2>5. CASE request[c].rows = {n}
    BY <1>1, <1>2, <1>5, <2>4, <2>5, GoesOn DEF Tabled
  <2>6. CASE request[c].rows # {n}
    <3> DEFINE form == [request[c] EXCEPT !.rows = request[c].rows \ {n}]
    <3>1. form \in Form /\ form.name = request[c].name
      BY <1>3, FormUpdates
    <3>2. request' = [request EXCEPT ![c] = form] /\ todo' = todo
      BY <1>5, <2>6
    <3> HIDE DEF form
    <3>3. Formed'
      BY <1>1, <3>1, <3>2 DEF Formed
    <3> QED
      BY <2>4, <3>3 DEF Tabled
  <2> QED
    BY <2>5, <2>6
<1> QED
  BY <1>4, <1>5 DEF ImportRow

LEMMA CrashIsTabled ==
  ASSUME Tabled, Crash
  PROVE  Tabled'
<1>1. IsTable(Opened(disk))
  BY OpenedIsTable DEF Tabled
<1>2. users' = Opened(disk) /\ disk' = Opened(disk)
  BY DEF Crash
<1>3. IsTable(users)' /\ IsTable(disk)'
  BY <1>1, <1>2 DEF IsTable
<1>4. Formed'
  BY NoFormIsForm DEF Crash, Formed
<1> QED
  BY <1>3, <1>4 DEF Tabled

LEMMA StepIsTabled ==
  ASSUME Tabled, [Next]_vars
  PROVE  /\ Tabled'
         /\ SameSources(users, users') \/ Crash \/ \E c \in Clients : ImportRow(c)
<1>1. CASE UNCHANGED vars
  BY <1>1 DEF vars, tableVars, Tabled, Formed, IsTable, SameSources
<1>2. CASE Crash
  BY <1>2, CrashIsTabled
<1>3. ASSUME NEW c \in Clients, Submit(c) \/ Serve(c)
      PROVE  Tabled' /\ (SameSources(users, users') \/ ImportRow(c))
  <2>1. CASE Submit(c)
    BY <2>1, SubmitIsTabled
  <2>2. CASE Serve(c)
    BY <2>2, ReadingIsTabled, CommittingIsTabled, WritingIsTabled, ImportIsTabled DEF Serve
  <2> QED
    BY <1>3, <2>1, <2>2
<1> QED
  BY <1>1, <1>2, <1>3 DEF Next

\* An account never passes from one authentication source to another, however many
\* requests log in, create and delete the same name at once: upsert_external and
\* create_user are safe although another request may change what they have read, for
\* no UPDATE of auth.py names the source and the INSERT fails on a name that is taken.
THEOREM SourceKept == Spec => SourceIsKept
<1> DEFINE Kept == \A n \in Names : Known(n) /\ Known(n)' /\ users'[n].source # users[n].source
                      => Crash \/ \E c \in Clients : ImportRow(c)
<1>1. Tabled /\ [Next]_vars => Tabled'
  BY StepIsTabled
<1>2. Tabled /\ [Next]_vars => [Kept]_vars
  BY StepIsTabled DEF SameSources, Known
<1> QED
  BY InitTabled, <1>1, <1>2, PTL DEF Spec, SourceIsKept

-----------------------------------------------------------------------------
(***************************************************************************)
(* What a request has left to do.  A statement that writes is followed by  *)
(* the commit of what it has written (the two of update_user by one), and  *)
(* those that write a seed by no other reading of it: the request then     *)
(* carries the seed it has read or made up.                                *)
(***************************************************************************)
AfterSeed == {"keep", "commit", "set", "audit"}
Writes == {"insert", "active", "password", "delete", "keep", "set", "row"}

Planned(steps, secret) ==
    /\ steps \in Seq(Steps)
    /\ \A i \in 1 .. Len(steps) :
          /\ steps[i] \in Writes => i < Len(steps) /\ steps[i + 1] = "commit"
          /\ steps[i] = "role" => i < Len(steps) /\ steps[i + 1] = "active"
          /\ steps[i] = "seed" => \A j \in i + 1 .. Len(steps) : steps[j] \in AfterSeed
          /\ secret # NoSecret => steps[i] \in AfterSeed
          /\ secret = NoSecret /\ steps[i] \in {"keep", "set"} =>
                \E j \in 1 .. i - 1 : steps[j] = "seed"

LEMMA TailOf ==
  ASSUME NEW S, NEW s \in Seq(S), s # <<>>
  PROVE  /\ Len(s) \in Nat \ {0} /\ Tail(s) \in Seq(S) /\ Len(Tail(s)) = Len(s) - 1
         /\ \A i \in 1 .. Len(s) - 1 : Tail(s)[i] = s[i + 1]
         /\ Head(s) = s[1]
  OBVIOUS

\* One statement less.
LEMMA PlannedTail ==
  ASSUME NEW steps, NEW secret, NEW new, Planned(steps, secret), steps # <<>>,
         IF Head(steps) = "seed" THEN new # NoSecret ELSE new = secret
  PROVE  Planned(Tail(steps), new)
<1> DEFINE n == Len(steps)
           tail == Tail(steps)
<1>1. /\ n \in Nat \ {0} /\ tail \in Seq(Steps) /\ Len(tail) = n - 1
      /\ \A i \in 1 .. n - 1 : tail[i] = steps[i + 1]
      /\ Head(steps) = steps[1]
  BY TailOf DEF Planned
<1> HIDE DEF n, tail
<1>2. ASSUME NEW i \in 1 .. n
      PROVE  /\ steps[i] \in Writes => i < n /\ steps[i + 1] = "commit"
             /\ steps[i] = "role" => i < n /\ steps[i + 1] = "active"
             /\ steps[i] = "seed" => \A j \in i + 1 .. n : steps[j] \in AfterSeed
             /\ secret # NoSecret => steps[i] \in AfterSeed
             /\ secret = NoSecret /\ steps[i] \in {"keep", "set"} =>
                  \E j \in 1 .. i - 1 : steps[j] = "seed"
  BY <1>2 DEF Planned, n
<1>3. ASSUME NEW i \in 1 .. n - 1
      PROVE  /\ tail[i] \in Writes => i < n - 1 /\ tail[i + 1] = "commit"
             /\ tail[i] = "role" => i < n - 1 /\ tail[i + 1] = "active"
             /\ tail[i] = "seed" => \A j \in i + 1 .. n - 1 : tail[j] \in AfterSeed
  <2>1. i + 1 \in 1 .. n /\ tail[i] = steps[i + 1]
    BY <1>1
  <2>2. i + 1 < n => tail[i + 1] = steps[(i + 1) + 1] /\ i < n - 1
    BY <1>1
  <2>3. \A j \in i + 1 .. n - 1 : tail[j] = steps[j + 1] /\ j + 1 \in (i + 1) + 1 .. n
    BY <1>1
  <2> QED
    BY <1>2, <2>1, <2>2, <2>3
<1>4. ASSUME NEW i \in 1 .. n - 1
      PROVE  new # NoSecret => tail[i] \in AfterSeed
  <2>1. i + 1 \in 1 .. n /\ tail[i] = steps[i + 1] /\ 1 \in 1 .. n /\ i + 1 \in 1 + 1 .. n
    BY <1>1
  <2> QED
    BY <1>1, <1>2, <2>1
<1>5. ASSUME NEW i \in 1 .. n - 1, new = NoSecret, tail[i] \in {"keep", "set"}
      PROVE  \E j \in 1 .. i - 1 : tail[j] = "seed"
  <2>1. i + 1 \in 1 .. n /\ tail[i] = steps[i + 1]
    BY <1>1
  <2>2. secret = NoSecret /\ steps[1] # "seed"
    BY <1>1, <1>5
  <2>3. PICK j \in 1 .. (i + 1) - 1 : steps[j] = "seed"
    BY <1>2, <1>5, <2>1, <2>2
  <2>4. j - 1 \in 1 .. i - 1 /\ j - 1 \in 1 .. n - 1 /\ (j - 1) + 1 = j
    BY <1>1, <2>2, <2>3
  <2> QED
    BY <1>1, <2>3, <2>4
<1>6. /\ tail \in Seq(Steps)
      /\ \A i \in 1 .. Len(tail) :
            /\ tail[i] \in Writes => i < Len(tail) /\ tail[i + 1] = "commit"
            /\ tail[i] = "role" => i < Len(tail) /\ tail[i + 1] = "active"
            /\ tail[i] = "seed" => \A j \in i + 1 .. Len(tail) : tail[j] \in AfterSeed
            /\ new # NoSecret => tail[i] \in AfterSeed
            /\ new = NoSecret /\ tail[i] \in {"keep", "set"} =>
                  \E j \in 1 .. i - 1 : tail[j] = "seed"
  BY <1>1, <1>3, <1>4, <1>5
<1> QED
  BY <1>6 DEF Planned, tail

\* The statements of each handler, as sequences.
LEMMA Handlers ==
  /\ DOMAIN Handler = {"create", "update", "reset", "delete", "mfa_seed", "mfa_enable", "mfa_disable",
                       "change", "import", "local", "external", "code", "logout"}
  /\ Handler["create"] = <<"login", "admin", "insert", "commit", "audit">>
  /\ Handler["update"] = <<"login", "admin", "role", "active", "commit", "audit">>
  /\ Handler["reset"] = <<"login", "admin", "password", "commit", "audit">>
  /\ Handler["delete"] = <<"login", "admin", "delete", "commit", "audit">>
  /\ Handler["mfa_seed"] = <<"login", "admin", "lookup", "seed", "keep", "commit">>
  /\ Handler["mfa_enable"] = <<"login", "admin", "lookup", "seed", "keep", "commit", "set", "commit", "audit">>
  /\ Handler["mfa_disable"] = <<"login", "admin", "lookup", "seed", "keep", "commit", "set", "commit", "audit">>
  /\ Handler["change"] = <<"login", "check", "password", "commit", "audit">>
  /\ Handler["import"] = <<"login", "admin", "row", "commit", "audit">>
  /\ Handler["local"] = <<"authenticate", "finish">>
  /\ Handler["external"] = <<"own", "insert", "commit", "finish">>
  /\ Handler["code"] = <<"verify">>
  /\ Handler["logout"] = <<"login", "leave">>
  BY DEF Handler

LEMMA StepNames ==
  /\ "login" \in Steps /\ "admin" \in Steps /\ "insert" \in Steps /\ "commit" \in Steps /\ "audit" \in Steps /\ "role" \in Steps
  /\ "active" \in Steps /\ "password" \in Steps /\ "delete" \in Steps /\ "lookup" \in Steps /\ "seed" \in Steps /\ "keep" \in Steps
  /\ "set" \in Steps /\ "check" \in Steps /\ "row" \in Steps /\ "authenticate" \in Steps /\ "finish" \in Steps /\ "own" \in Steps
  /\ "verify" \in Steps /\ "leave" \in Steps
<1>1. \A op \in DOMAIN Handler : \A i \in DOMAIN Handler[op] : Handler[op][i] \in Steps
  BY DEF Steps
<1>2. "login" \in Steps /\ "admin" \in Steps /\ "insert" \in Steps /\ "commit" \in Steps /\ "audit" \in Steps
  <2>1. DOMAIN Handler["create"] = {1, 2, 3, 4, 5}
    BY Handlers
  <2> QED
    BY <1>1, <2>1, Handlers
<1>3. "role" \in Steps /\ "active" \in Steps
  <2>1. DOMAIN Handler["update"] = {1, 2, 3, 4, 5, 6}
    BY Handlers
  <2> QED
    BY <1>1, <2>1, Handlers
<1>4. "password" \in Steps
  <2>1. DOMAIN Handler["reset"] = {1, 2, 3, 4, 5}
    BY Handlers
  <2> QED
    BY <1>1, <2>1, Handlers
<1>5. "delete" \in Steps
  <2>1. DOMAIN Handler["delete"] = {1, 2, 3, 4, 5}
    BY Handlers
  <2> QED
    BY <1>1, <2>1, Handlers
<1>6. "lookup" \in Steps /\ "seed" \in Steps /\ "keep" \in Steps
  <2>1. DOMAIN Handler["mfa_seed"] = {1, 2, 3, 4, 5, 6}
    BY Handlers
  <2> QED
    BY <1>1, <2>1, Handlers
<1>7. "set" \in Steps
  <2>1. DOMAIN Handler["mfa_enable"] = {1, 2, 3, 4, 5, 6, 7, 8, 9}
    BY Handlers
  <2> QED
    BY <1>1, <2>1, Handlers
<1>8. "check" \in Steps
  <2>1. DOMAIN Handler["change"] = {1, 2, 3, 4, 5}
    BY Handlers
  <2> QED
    BY <1>1, <2>1, Handlers
<1>9. "row" \in Steps
  <2>1. DOMAIN Handler["import"] = {1, 2, 3, 4, 5}
    BY Handlers
  <2> QED
    BY <1>1, <2>1, Handlers
<1>10. "authenticate" \in Steps /\ "finish" \in Steps
  <2>1. DOMAIN Handler["local"] = {1, 2}
    BY Handlers
  <2> QED
    BY <1>1, <2>1, Handlers
<1>11. "own" \in Steps
  <2>1. DOMAIN Handler["external"] = {1, 2, 3, 4}
    BY Handlers
  <2> QED
    BY <1>1, <2>1, Handlers
<1>12. "verify" \in Steps
  <2>1. DOMAIN Handler["code"] = {1}
    BY Handlers
  <2> QED
    BY <1>1, <2>1, Handlers
<1>13. "leave" \in Steps
  <2>1. DOMAIN Handler["logout"] = {1, 2}
    BY Handlers
  <2> QED
    BY <1>1, <2>1, Handlers
<1> QED
  BY <1>2, <1>3, <1>4, <1>5, <1>6, <1>7, <1>8, <1>9, <1>10, <1>11, <1>12, <1>13

LEMMA PlannedHandler ==
  ASSUME NEW op \in DOMAIN Handler
  PROVE  Planned(Handler[op], NoSecret)
<1>1. CASE op = "create"
  <2> DEFINE s == <<"login", "admin", "insert", "commit", "audit">>
  <2>1. /\ Len(s) = 5 /\ s \in Seq(Steps)
        /\ s[1] = "login" /\ s[2] = "admin" /\ s[3] = "insert" /\ s[4] = "commit"
        /\ s[5] = "audit"
    BY StepNames
  <2>2. Handler[op] = s
    BY <1>1, Handlers
  <2>3. \A i \in 1 .. 5 : i \in {1, 2, 3, 4, 5}
    OBVIOUS
  <2> HIDE DEF s
  <2>4. Planned(s, NoSecret)
    BY <2>1, <2>3 DEF Planned, Writes, AfterSeed
  <2> QED
    BY <2>2, <2>4
<1>2. CASE op = "update"
  <2> DEFINE s == <<"login", "admin", "role", "active", "commit", "audit">>
  <2>1. /\ Len(s) = 6 /\ s \in Seq(Steps)
        /\ s[1] = "login" /\ s[2] = "admin" /\ s[3] = "role" /\ s[4] = "active"
        /\ s[5] = "commit" /\ s[6] = "audit"
    BY StepNames
  <2>2. Handler[op] = s
    BY <1>2, Handlers
  <2>3. \A i \in 1 .. 6 : i \in {1, 2, 3, 4, 5, 6}
    OBVIOUS
  <2> HIDE DEF s
  <2>4. Planned(s, NoSecret)
    BY <2>1, <2>3 DEF Planned, Writes, AfterSeed
  <2> QED
    BY <2>2, <2>4
<1>3. CASE op = "reset"
  <2> DEFINE s == <<"login", "admin", "password", "commit", "audit">>
  <2>1. /\ Len(s) = 5 /\ s \in Seq(Steps)
        /\ s[1] = "login" /\ s[2] = "admin" /\ s[3] = "password" /\ s[4] = "commit"
        /\ s[5] = "audit"
    BY StepNames
  <2>2. Handler[op] = s
    BY <1>3, Handlers
  <2>3. \A i \in 1 .. 5 : i \in {1, 2, 3, 4, 5}
    OBVIOUS
  <2> HIDE DEF s
  <2>4. Planned(s, NoSecret)
    BY <2>1, <2>3 DEF Planned, Writes, AfterSeed
  <2> QED
    BY <2>2, <2>4
<1>4. CASE op = "delete"
  <2> DEFINE s == <<"login", "admin", "delete", "commit", "audit">>
  <2>1. /\ Len(s) = 5 /\ s \in Seq(Steps)
        /\ s[1] = "login" /\ s[2] = "admin" /\ s[3] = "delete" /\ s[4] = "commit"
        /\ s[5] = "audit"
    BY StepNames
  <2>2. Handler[op] = s
    BY <1>4, Handlers
  <2>3. \A i \in 1 .. 5 : i \in {1, 2, 3, 4, 5}
    OBVIOUS
  <2> HIDE DEF s
  <2>4. Planned(s, NoSecret)
    BY <2>1, <2>3 DEF Planned, Writes, AfterSeed
  <2> QED
    BY <2>2, <2>4
<1>5. CASE op = "mfa_seed"
  <2> DEFINE s == <<"login", "admin", "lookup", "seed", "keep", "commit">>
  <2>1. /\ Len(s) = 6 /\ s \in Seq(Steps)
        /\ s[1] = "login" /\ s[2] = "admin" /\ s[3] = "lookup" /\ s[4] = "seed"
        /\ s[5] = "keep" /\ s[6] = "commit"
    BY StepNames
  <2>2. Handler[op] = s
    BY <1>5, Handlers
  <2>3. \A i \in 1 .. 6 : i \in {1, 2, 3, 4, 5, 6}
    OBVIOUS
  <2> HIDE DEF s
  <2>4. Planned(s, NoSecret)
    BY <2>1, <2>3 DEF Planned, Writes, AfterSeed
  <2> QED
    BY <2>2, <2>4
<1>6. CASE op \in {"mfa_enable", "mfa_disable"}
  <2> DEFINE s == <<"login", "admin", "lookup", "seed", "keep", "commit", "set", "commit", "audit">>
  <2>1. /\ Len(s) = 9 /\ s \in Seq(Steps)
        /\ s[1] = "login" /\ s[2] = "admin" /\ s[3] = "lookup" /\ s[4] = "seed"
        /\ s[5] = "keep" /\ s[6] = "commit" /\ s[7] = "set" /\ s[8] = "commit"
        /\ s[9] = "audit"
    BY StepNames
  <2>2. Handler[op] = s
    BY <1>6, Handlers
  <2>3. \A i \in 1 .. 9 : i \in {1, 2, 3, 4, 5, 6, 7, 8, 9}
    OBVIOUS
  <2> HIDE DEF s
  <2>4. Planned(s, NoSecret)
    BY <2>1, <2>3 DEF Planned, Writes, AfterSeed
  <2> QED
    BY <2>2, <2>4
<1>7. CASE op = "change"
  <2> DEFINE s == <<"login", "check", "password", "commit", "audit">>
  <2>1. /\ Len(s) = 5 /\ s \in Seq(Steps)
        /\ s[1] = "login" /\ s[2] = "check" /\ s[3] = "password" /\ s[4] = "commit"
        /\ s[5] = "audit"
    BY StepNames
  <2>2. Handler[op] = s
    BY <1>7, Handlers
  <2>3. \A i \in 1 .. 5 : i \in {1, 2, 3, 4, 5}
    OBVIOUS
  <2> HIDE DEF s
  <2>4. Planned(s, NoSecret)
    BY <2>1, <2>3 DEF Planned, Writes, AfterSeed
  <2> QED
    BY <2>2, <2>4
<1>8. CASE op = "import"
  <2> DEFINE s == <<"login", "admin", "row", "commit", "audit">>
  <2>1. /\ Len(s) = 5 /\ s \in Seq(Steps)
        /\ s[1] = "login" /\ s[2] = "admin" /\ s[3] = "row" /\ s[4] = "commit"
        /\ s[5] = "audit"
    BY StepNames
  <2>2. Handler[op] = s
    BY <1>8, Handlers
  <2>3. \A i \in 1 .. 5 : i \in {1, 2, 3, 4, 5}
    OBVIOUS
  <2> HIDE DEF s
  <2>4. Planned(s, NoSecret)
    BY <2>1, <2>3 DEF Planned, Writes, AfterSeed
  <2> QED
    BY <2>2, <2>4
<1>9. CASE op = "local"
  <2> DEFINE s == <<"authenticate", "finish">>
  <2>1. /\ Len(s) = 2 /\ s \in Seq(Steps)
        /\ s[1] = "authenticate" /\ s[2] = "finish"
    BY StepNames
  <2>2. Handler[op] = s
    BY <1>9, Handlers
  <2>3. \A i \in 1 .. 2 : i \in {1, 2}
    OBVIOUS
  <2> HIDE DEF s
  <2>4. Planned(s, NoSecret)
    BY <2>1, <2>3 DEF Planned, Writes, AfterSeed
  <2> QED
    BY <2>2, <2>4
<1>10. CASE op = "external"
  <2> DEFINE s == <<"own", "insert", "commit", "finish">>
  <2>1. /\ Len(s) = 4 /\ s \in Seq(Steps)
        /\ s[1] = "own" /\ s[2] = "insert" /\ s[3] = "commit" /\ s[4] = "finish"
    BY StepNames
  <2>2. Handler[op] = s
    BY <1>10, Handlers
  <2>3. \A i \in 1 .. 4 : i \in {1, 2, 3, 4}
    OBVIOUS
  <2> HIDE DEF s
  <2>4. Planned(s, NoSecret)
    BY <2>1, <2>3 DEF Planned, Writes, AfterSeed
  <2> QED
    BY <2>2, <2>4
<1>11. CASE op = "code"
  <2> DEFINE s == <<"verify">>
  <2>1. /\ Len(s) = 1 /\ s \in Seq(Steps)
        /\ s[1] = "verify"
    BY StepNames
  <2>2. Handler[op] = s
    BY <1>11, Handlers
  <2>3. \A i \in 1 .. 1 : i \in {1}
    OBVIOUS
  <2> HIDE DEF s
  <2>4. Planned(s, NoSecret)
    BY <2>1, <2>3 DEF Planned, Writes, AfterSeed
  <2> QED
    BY <2>2, <2>4
<1>12. CASE op = "logout"
  <2> DEFINE s == <<"login", "leave">>
  <2>1. /\ Len(s) = 2 /\ s \in Seq(Steps)
        /\ s[1] = "login" /\ s[2] = "leave"
    BY StepNames
  <2>2. Handler[op] = s
    BY <1>12, Handlers
  <2>3. \A i \in 1 .. 2 : i \in {1, 2}
    OBVIOUS
  <2> HIDE DEF s
  <2>4. Planned(s, NoSecret)
    BY <2>1, <2>3 DEF Planned, Writes, AfterSeed
  <2> QED
    BY <2>2, <2>4
<1> QED
  BY <1>1, <1>2, <1>3, <1>4, <1>5, <1>6, <1>7, <1>8, <1>9, <1>10, <1>11, <1>12, Handlers

Plans == \A c \in Clients : Planned(todo[c], request[c].secret)

LEMMA PlannedShort == Planned(<<>>, NoSecret) /\ Planned(<<"finish">>, NoSecret)
<1>1. Planned(<<>>, NoSecret)
  BY DEF Planned
<1> DEFINE s == <<"finish">>
<1>2. Len(s) = 1 /\ s[1] = "finish" /\ s \in Seq(Steps)
  BY StepNames
<1> HIDE DEF s
<1>3. Planned(s, NoSecret)
  BY <1>2 DEF Planned, Writes, AfterSeed
<1> QED
  BY <1>1, <1>3 DEF s

\* How a statement leaves its request: answered, or with the next one to come.
\* Only ensure_mfa_secret reads a seed, and then there is one.
Turn(c, form) ==
    /\ todo[c] # <<>>
    /\ \/ \E answer : Answer(c, answer)
       \/ /\ form \in Form /\ ContinueWith(c, form)
          /\ IF Head(todo[c]) = "seed" THEN form.secret # NoSecret
             ELSE form.secret = request[c].secret

LEMMA TurnPlans ==
  ASSUME Formed, Plans, NEW c \in Clients, NEW form, Turn(c, form)
  PROVE  /\ Plans'
         /\ \A d \in Clients \ {c} : /\ todo'[d] = todo[d] /\ page'[d] = page[d]
                                     /\ request'[d] = request[d]
         /\ \/ todo'[c] = <<>> /\ request'[c] = NoForm
            \/ todo'[c] = Tail(todo[c]) /\ request'[c] = form
<1>1. DOMAIN todo = Clients /\ request \in [Clients -> Form]
  BY DEF Formed
<1>2. ASSUME NEW answer, Answer(c, answer)
      PROVE  /\ todo'[c] = <<>> /\ request'[c] = NoForm
             /\ \A d \in Clients \ {c} : /\ todo'[d] = todo[d] /\ page'[d] = page[d]
                                         /\ request'[d] = request[d]
  BY <1>1, <1>2 DEF Answer
<1>3. ASSUME todo' = [todo EXCEPT ![c] = Tail(@)], UNCHANGED page,
             request' = [request EXCEPT ![c] = form]
      PROVE  /\ todo'[c] = Tail(todo[c]) /\ request'[c] = form
             /\ \A d \in Clients \ {c} : /\ todo'[d] = todo[d] /\ page'[d] = page[d]
                                         /\ request'[d] = request[d]
  BY <1>1, <1>3
<1>4. \/ \E answer : Answer(c, answer)
      \/ /\ todo' = [todo EXCEPT ![c] = Tail(@)] /\ UNCHANGED page
         /\ request' = [request EXCEPT ![c] = form]
         /\ IF Head(todo[c]) = "seed" THEN form.secret # NoSecret
            ELSE form.secret = request[c].secret
  BY DEF Turn, ContinueWith
<1>5. /\ \A d \in Clients \ {c} : /\ todo'[d] = todo[d] /\ page'[d] = page[d]
                                  /\ request'[d] = request[d]
      /\ \/ todo'[c] = <<>> /\ request'[c] = NoForm
         \/ /\ todo'[c] = Tail(todo[c]) /\ request'[c] = form
            /\ IF Head(todo[c]) = "seed" THEN form.secret # NoSecret
               ELSE form.secret = request[c].secret
  BY <1>2, <1>3, <1>4
<1>6. Planned(todo'[c], request'[c].secret)
  <2>1. NoForm.secret = NoSecret
    BY DEF NoForm
  <2>2. todo[c] # <<>> /\ Planned(todo[c], request[c].secret)
    BY DEF Turn, Plans
  <2> QED
    BY <1>5, <2>1, <2>2, PlannedShort, PlannedTail
<1>7. Plans'
  BY <1>5, <1>6 DEF Plans
<1> QED
  BY <1>5, <1>7

-----------------------------------------------------------------------------
(***************************************************************************)
(* What is not committed.  A request that has written without a commit     *)
(* since is at the commit, at the second statement of update_user or at the*)
(* next row of a backup, or it has been answered with an error.            *)
(***************************************************************************)
Clean == \A c \in dirty : todo[c] # <<>> => Head(todo[c]) \in {"commit", "active", "row"}
Durable == \A c \in Clients : todo[c] # <<>> /\ todo'[c] = <<>> /\ page'[c] # "error" => c \notin dirty'
Browsers ==
    /\ session \in [Clients -> [username : Names \cup {Nobody}, pending : Names \cup {Nobody}]]
    /\ page \in [Clients -> Redirects \cup {"page", "error"}]
    /\ dirty \subseteq Clients /\ outdated \subseteq Clients
    /\ requests \in 0 .. MaxRequests /\ faults \in 0 .. MaxFaults

\* A statement that leaves nothing of its request uncommitted.
LEMMA CleanTurn ==
  ASSUME Formed, Plans, Clean, Browsers, NEW c \in Clients, NEW form, Turn(c, form),
         dirty' \subseteq dirty \ {c}
  PROVE  Plans' /\ Clean' /\ Durable
<1>1. /\ Plans' /\ dirty \subseteq Clients
      /\ \A d \in Clients \ {c} : todo'[d] = todo[d]
  BY TurnPlans DEF Browsers
<1> QED
  BY <1>1 DEF Clean, Durable

\* A statement that writes: the commit is still to come.
LEMMA WriteTurn ==
  ASSUME Formed, Plans, Clean, Browsers, NEW c \in Clients, todo[c] # <<>>, Continue(c),
         Head(todo[c]) \in Writes \cup {"role"}, dirty' \subseteq dirty \cup {c}
  PROVE  Plans' /\ Clean' /\ Durable
<1> DEFINE steps == todo[c]
<1>1. Planned(steps, request[c].secret) /\ request[c] \in Form /\ Head(steps) # "seed"
  BY DEF Plans, Formed, Writes
<1>2. Turn(c, request[c])
  BY <1>1 DEF Turn, Continue
<1>3. /\ Plans' /\ dirty \subseteq Clients
      /\ \A d \in Clients \ {c} : todo'[d] = todo[d]
  BY <1>2, TurnPlans DEF Browsers
<1> HIDE DEF steps
<1>4. /\ Len(steps) \in Nat \ {0} /\ steps[1] = Head(steps) /\ Tail(steps) \in Seq(Steps)
      /\ Len(Tail(steps)) = Len(steps) - 1
      /\ \A i \in 1 .. Len(steps) - 1 : Tail(steps)[i] = steps[i + 1]
  BY <1>1, TailOf DEF Planned, steps
<1>5. 1 < Len(steps) /\ steps[2] \in {"commit", "active"}
  <2>1. 1 \in 1 .. Len(steps)
    BY <1>4
  <2> QED
    BY <1>1, <1>4, <2>1 DEF Planned, steps
<1>6. Tail(steps) # <<>> /\ Head(Tail(steps)) \in {"commit", "active"}
  <2>1. 1 \in 1 .. Len(steps) - 1 /\ Len(Tail(steps)) # 0
    BY <1>4, <1>5
  <2> QED
    BY <1>4, <1>5, <2>1
<1>7. todo'[c] = Tail(steps)
  BY <1>5, <1>4 DEF Continue, ContinueWith, Formed, steps
<1> QED
  BY <1>3, <1>6, <1>7 DEF Clean, Durable

-----------------------------------------------------------------------------
(***************************************************************************)
(* The seeds.  An account whose second factor is on has one; and a request *)
(* that carries a seed carries the account's, unless the account was       *)
(* changed by another one since.                                           *)
(***************************************************************************)
HasSeeds(table) == \A n \in DOMAIN table : table[n].mfa => table[n].secret # NoSecret
Carries(c) ==
    request[c].secret # NoSecret /\ Known(Target(c)) /\ users[Target(c)].mfa
        => users[Target(c)].secret = request[c].secret
Seeds ==
    /\ HasSeeds(users) /\ HasSeeds(disk)
    /\ \A c \in Clients \ outdated : Carries(c)

\* Carries depends on the seed and the name of the request only.
LEMMA SameCarries ==
  ASSUME NEW c \in Clients, c \notin outdated => Carries(c), UNCHANGED users,
         \/ request'[c].secret = NoSecret
         \/ /\ request'[c].secret = request[c].secret /\ request'[c].name = request[c].name
            /\ c \notin outdated
  PROVE  Carries(c)'
  BY DEF Carries, Known, Target

\* A step that leaves the table as it is.
LEMMA ReadSeeds ==
  ASSUME Formed, Plans, Seeds, NEW c \in Clients, NEW form, Turn(c, form),
         form.secret = request[c].secret, form.name = request[c].name,
         UNCHANGED <<users, outdated>>, disk' = users \/ UNCHANGED disk
  PROVE  Seeds'
<1>1. HasSeeds(users)' /\ HasSeeds(disk)'
  BY DEF Seeds, HasSeeds
<1>2. ASSUME NEW d \in Clients \ outdated'
      PROVE  Carries(d)'
  <2>1. Carries(d)
    BY DEF Seeds
  <2>2. \/ request'[d].secret = NoSecret
        \/ /\ request'[d].secret = request[d].secret /\ request'[d].name = request[d].name
    <3>1. request'[c] = NoForm \/ request'[c] = form
      BY TurnPlans
    <3>2. d # c => request'[d] = request[d]
      BY TurnPlans
    <3>3. NoForm.secret = NoSecret
      BY DEF NoForm
    <3> QED
      BY <3>1, <3>2, <3>3
  <2> QED
    BY <2>1, <2>2, SameCarries
<1> QED
  BY <1>1, <1>2 DEF Seeds

\* A statement that writes: the others whose account it changes are outdated.
LEMMA WriteSeeds ==
  ASSUME Seeds, NEW c \in Clients, NEW table, Execute(c, table), HasSeeds(table),
         Carries(c)' \/ c \in outdated',
         \A d \in Clients \ {c} : request'[d] = request[d]
  PROVE  Seeds'
<1>1. users' = table /\ disk' = disk /\ outdated \subseteq outdated'
  BY DEF Execute
<1>2. HasSeeds(users)' /\ HasSeeds(disk)'
  BY <1>1 DEF Seeds, HasSeeds
<1>3. ASSUME NEW d \in Clients \ {c}, d \notin outdated'
      PROVE  Carries(d)'
  <2>1. Carries(d)
    BY <1>1, <1>3 DEF Seeds
  <2>2. \A n \in DOMAIN users \cup DOMAIN table :
            n = Target(d) => n \in DOMAIN users \cap DOMAIN table /\ users[n] = table[n]
    BY <1>3 DEF Execute
  <2>3. request'[d] = request[d]
    BY <1>3
  <2> QED
    BY <1>1, <2>1, <2>2, <2>3 DEF Carries, Known, Target
<1> QED
  BY <1>2, <1>3 DEF Seeds

IInv == Tabled /\ Plans /\ Clean /\ Browsers /\ Seeds

\* What a statement does to the two histories and to the browsers.
LEMMA PageTypes ==
  ASSUME Browsers, NEW c \in Clients, NEW answer \in Redirects \cup {"page", "error"}, NEW form,
         Answer(c, answer) \/ ContinueWith(c, form)
  PROVE  page' \in [Clients -> Redirects \cup {"page", "error"}]
  BY DEF Answer, ContinueWith, Browsers

LEMMA ServedTypes ==
  ASSUME NEW c, NEW endpoint
  PROVE  /\ Served(c, endpoint) \in Redirects \cup {"page", "error"}
         /\ Guarded(c, endpoint) \in {"login", "change_password", endpoint}
<1>1. Guarded(c, endpoint) \in {"login", "change_password", endpoint}
  BY DEF Guarded
<1>2. Served(c, endpoint) \in {"page", "login", "dashboard"} \cup {Guarded(c, endpoint)}
  BY DEF Served
<1>3. endpoint \in {"dashboard", "change_password"} \/ Served(c, endpoint) \in {"page", "login"}
  BY DEF Served
<1> QED
  BY <1>1, <1>2, <1>3 DEF Redirects

-----------------------------------------------------------------------------
(* Every step keeps the invariant, and answers nothing that is not durable. *)

Preserved == Plans' /\ Clean' /\ Browsers' /\ Seeds' /\ Durable

LEMMA RequestIsForm ==
  ASSUME Tabled, NEW c \in Clients
  PROVE  request[c] \in Form
  BY DEF Tabled, Formed

\* A statement that is not of those a commit has to follow.
LEMMA NotDirty ==
  ASSUME Clean, NEW c, todo[c] # <<>>, Head(todo[c]) \notin {"commit", "active", "row"}
  PROVE  c \notin dirty
  BY DEF Clean

\* A statement that neither writes nor commits, nor reads a seed.
LEMMA LookPreserves ==
  ASSUME IInv, NEW c \in Clients, todo[c] # <<>>,
         Head(todo[c]) \notin {"commit", "active", "row", "seed"},
         Continue(c) \/ \E answer \in Redirects \cup {"page", "error"} : Answer(c, answer),
         Read, Keeps
  PROVE  Preserved
<1>1. Formed /\ Plans /\ Clean /\ Browsers /\ Seeds /\ request[c] \in Form
  BY RequestIsForm DEF IInv, Tabled
<1>2. Turn(c, request[c])
  BY <1>1 DEF Turn, Continue
<1>3. /\ c \notin dirty
      /\ UNCHANGED <<users, disk, dirty, outdated, session, requests, faults>>
  BY <1>1, NotDirty DEF Read, Keeps, tableVars, boundVars
<1>4. Plans' /\ Clean' /\ Durable
  BY <1>1, <1>2, <1>3, CleanTurn
<1>5. Seeds'
  BY <1>1, <1>2, <1>3, ReadSeeds
<1>6. Browsers'
  <2>1. page' \in [Clients -> Redirects \cup {"page", "error"}]
    BY <1>1, PageTypes DEF Continue
  <2> QED
    BY <1>1, <1>3, <2>1 DEF Browsers
<1> QED
  BY <1>4, <1>5, <1>6 DEF Preserved

\* One that may commit what is pending, and ends the request or goes on with it.
LEMMA CommitPreserves ==
  ASSUME IInv, NEW c \in Clients, todo[c] # <<>>, Head(todo[c]) # "seed",
         Continue(c) \/ \E answer \in Redirects \cup {"page", "error"} : Answer(c, answer),
         UNCHANGED <<users, outdated, requests, faults>>,
         \/ Commit
         \/ UNCHANGED <<disk, dirty>> /\ Head(todo[c]) \notin {"commit", "active", "row"},
         session' \in [Clients -> [username : Names \cup {Nobody}, pending : Names \cup {Nobody}]]
  PROVE  Preserved
<1>1. Formed /\ Plans /\ Clean /\ Browsers /\ Seeds /\ request[c] \in Form
  BY RequestIsForm DEF IInv, Tabled
<1>2. Turn(c, request[c])
  BY <1>1 DEF Turn, Continue
<1>3. dirty' \subseteq dirty \ {c} /\ (disk' = users \/ UNCHANGED disk)
  BY <1>1, NotDirty DEF Commit
<1>4. Plans' /\ Clean' /\ Durable
  BY <1>1, <1>2, <1>3, CleanTurn
<1>5. Seeds'
  BY <1>1, <1>2, <1>3, ReadSeeds
<1>6. Browsers'
  <2>1. page' \in [Clients -> Redirects \cup {"page", "error"}]
    BY <1>1, PageTypes DEF Continue
  <2> QED
    BY <1>1, <1>3, <2>1 DEF Browsers
<1> QED
  BY <1>4, <1>5, <1>6 DEF Preserved

LEMMA LookingPreserves ==
  ASSUME IInv, NEW c \in Clients,
         RequireLogin(c) \/ RequireAdmin(c) \/ LookupUser(c) \/ CheckPassword(c)
  PROVE  Preserved
<1>1. {"login", "dashboard", "change_password", "page", "error"} \subseteq Redirects \cup {"page", "error"}
  BY DEF Redirects
<1>2. CASE RequireLogin(c)
  <2>1. /\ todo[c] # <<>> /\ Head(todo[c]) = "login" /\ Read /\ Keeps
        /\ \/ Continue(c) \/ Answer(c, "dashboard")
           \/ \E endpoint : Guarded(c, endpoint) # endpoint /\ Answer(c, Guarded(c, endpoint))
    BY <1>2 DEF RequireLogin, At
  <2>2. Continue(c) \/ \E answer \in Redirects \cup {"page", "error"} : Answer(c, answer)
    BY <1>1, <2>1, ServedTypes
  <2> QED
    BY <2>1, <2>2, LookPreserves
<1>3. CASE RequireAdmin(c)
  BY <1>1, <1>3, LookPreserves DEF RequireAdmin, At
<1>4. CASE LookupUser(c)
  BY <1>1, <1>4, LookPreserves DEF LookupUser, At
<1>5. CASE CheckPassword(c)
  BY <1>1, <1>5, LookPreserves DEF CheckPassword, At
<1> QED
  BY <1>2, <1>3, <1>4, <1>5

LEMMA CommittingPreserves ==
  ASSUME IInv, NEW c \in Clients,
         CommitStep(c) \/ Audit(c) \/ FinishLogin(c) \/ VerifyCode(c) \/ Leave(c)
  PROVE  Preserved
<1>1. {"login", "mfa", "dashboard", "page", "error"} \subseteq Redirects \cup {"page", "error"}
  BY DEF Redirects
<1>2. /\ session \in [Clients -> [username : Names \cup {Nobody}, pending : Names \cup {Nobody}]]
      /\ Target(c) \in Names \cup {Nobody}
  BY RequestIsForm, FormFields DEF IInv, Browsers, Target
<1>3. ASSUME NEW n \in Names \cup {Nobody}
      PROVE  /\ [session EXCEPT ![c] = [username |-> n, pending |-> Nobody]] \in
                   [Clients -> [username : Names \cup {Nobody}, pending : Names \cup {Nobody}]]
             /\ [session EXCEPT ![c].pending = n] \in
                   [Clients -> [username : Names \cup {Nobody}, pending : Names \cup {Nobody}]]
  BY <1>2
<1>4. CASE CommitStep(c)
  BY <1>2, <1>4, CommitPreserves DEF CommitStep, At, Keeps, boundVars
<1>5. CASE Audit(c)
  BY <1>1, <1>2, <1>5, CommitPreserves DEF Audit, At, Keeps, boundVars, tableVars
<1>6. CASE FinishLogin(c)
  BY <1>1, <1>2, <1>3, <1>6, CommitPreserves DEF FinishLogin, At, boundVars, tableVars
<1>7. CASE VerifyCode(c)
  <2>1. session[c].pending \in Names \cup {Nobody}
    BY <1>2
  <2> QED
    BY <1>1, <1>2, <1>3, <1>7, <2>1, CommitPreserves DEF VerifyCode, At, boundVars, tableVars
<1>8. CASE Leave(c)
  BY <1>1, <1>2, <1>3, <1>8, CommitPreserves DEF Leave, At, boundVars, tableVars, Empty
<1> QED
  BY <1>4, <1>5, <1>6, <1>7, <1>8

\* The first statement of a plan and the seed its request carries.
LEMMA HeadPlan ==
  ASSUME NEW steps, NEW secret, Planned(steps, secret), steps # <<>>
  PROVE  /\ Head(steps) \notin AfterSeed => secret = NoSecret
         /\ Head(steps) \in {"keep", "set"} => secret # NoSecret
<1>1. 1 \in 1 .. Len(steps) /\ Head(steps) = steps[1]
  BY TailOf DEF Planned
<1> QED
  BY <1>1 DEF Planned

LEMMA WritePreserves ==
  ASSUME IInv, NEW c \in Clients, todo[c] # <<>>, Head(todo[c]) \in Writes \cup {"role"},
         Continue(c), Keeps, NEW table, Execute(c, table), HasSeeds(table),
         request[c].secret # NoSecret /\ Target(c) \in DOMAIN table /\ table[Target(c)].mfa
            => table[Target(c)].secret = request[c].secret
  PROVE  Preserved
<1>1. Formed /\ Plans /\ Clean /\ Browsers /\ Seeds /\ request[c] \in Form
  BY RequestIsForm DEF IInv, Tabled
<1>2. users' = table /\ dirty' \subseteq dirty \cup {c} /\ outdated' \subseteq Clients
  BY <1>1 DEF Execute, Browsers
<1>3. Plans' /\ Clean' /\ Durable
  BY <1>1, <1>2, WriteTurn
<1>4. Turn(c, request[c])
  BY <1>1 DEF Turn, Continue, Writes
<1>5. /\ \A d \in Clients \ {c} : request'[d] = request[d]
      /\ request'[c] = NoForm \/ request'[c] = request[c]
  BY <1>1, <1>4, TurnPlans
<1>6. Carries(c)'
  <2>1. NoForm.secret = NoSecret
    BY DEF NoForm
  <2>2. CASE request'[c] = NoForm
    BY <2>1, <2>2 DEF Carries
  <2>3. CASE request'[c] = request[c]
    BY <1>2, <2>3 DEF Carries, Known, Target
  <2> QED
    BY <1>5, <2>2, <2>3
<1>7. Seeds'
  BY <1>1, <1>5, <1>6, WriteSeeds
<1>8. Browsers'
  <2>1. page' \in [Clients -> Redirects \cup {"page", "error"}]
    <3>1. "page" \in Redirects \cup {"page", "error"}
      OBVIOUS
    <3> QED
      BY <1>1, <3>1, PageTypes DEF Continue
  <2>2. UNCHANGED <<session, requests, faults>> /\ dirty' \subseteq Clients
    BY <1>1, <1>2 DEF Keeps, boundVars, Browsers
  <2> QED
    BY <1>1, <1>2, <2>1, <2>2 DEF Browsers
<1> QED
  BY <1>3, <1>7, <1>8 DEF Preserved

\* Seeds of a second factor that is enabled before and after.
SameSeeds(t, u) ==
    \A n \in DOMAIN t \cap DOMAIN u : t[n].mfa /\ u[n].mfa => u[n].secret = t[n].secret

LEMMA SeedlessUpdates ==
  ASSUME NEW a \in Accounts
  PROVE  /\ \A r : /\ [a EXCEPT !.role = r].mfa = a.mfa
                   /\ [a EXCEPT !.role = r].secret = a.secret
         /\ \A b : /\ [a EXCEPT !.active = b].mfa = a.mfa
                   /\ [a EXCEPT !.active = b].secret = a.secret
         /\ \A b : /\ [a EXCEPT !.mustChange = b].mfa = a.mfa
                   /\ [a EXCEPT !.mustChange = b].secret = a.secret
         /\ \A s : /\ [a EXCEPT !.secret = s].mfa = a.mfa
                   /\ [a EXCEPT !.secret = s].secret = s
         /\ \A b, s : /\ [a EXCEPT !.mfa = b, !.secret = s].mfa = b
                      /\ [a EXCEPT !.mfa = b, !.secret = s].secret = s
  BY DEF Accounts

\* The statements that name neither the second factor nor its seed.
LEMMA WritingPreserves ==
  ASSUME IInv, NEW c \in Clients,
         Insert(c) \/ UpdateRole(c) \/ UpdateActive(c) \/ SetPassword(c) \/ DeleteUser(c)
  PROVE  Preserved /\ SameSeeds(users, users')
<1> DEFINE n == Target(c)
           u == users[n]
<1>1. /\ todo[c] # <<>> /\ Keeps
      /\ Head(todo[c]) \in {"insert", "role", "active", "password", "delete"}
  BY DEF Insert, UpdateRole, UpdateActive, SetPassword, DeleteUser, At
<1>2. IsTable(users) /\ HasSeeds(users) /\ Planned(todo[c], request[c].secret)
  BY DEF IInv, Tabled, Seeds, Plans
<1>3. request[c].secret = NoSecret
  BY <1>1, <1>2, HeadPlan DEF AfterSeed
<1>4. ASSUME NEW table, Execute(c, table), Continue(c), HasSeeds(table), SameSeeds(users, table)
      PROVE  Preserved /\ SameSeeds(users, users')
  <2>1. users' = table
    BY <1>4 DEF Execute
  <2> QED
    BY <1>1, <1>3, <1>4, <2>1, WritePreserves DEF Writes
<1>5. ASSUME NEW answer \in {"page", "error"}, Answer(c, answer), Read,
             Head(todo[c]) \notin {"active"}
      PROVE  Preserved /\ SameSeeds(users, users')
  <2>1. UNCHANGED users
    BY <1>5 DEF Read, tableVars
  <2> QED
    BY <1>1, <1>5, <2>1, LookPreserves DEF SameSeeds
<1>6. HasSeeds(users) /\ SameSeeds(users, users)
  BY <1>2 DEF SameSeeds
<1>7. ASSUME NEW a, Known(n), a.mfa = u.mfa, a.secret = u.secret
      PROVE  HasSeeds([users EXCEPT ![n] = a]) /\ SameSeeds(users, [users EXCEPT ![n] = a])
  BY <1>2, <1>7 DEF HasSeeds, SameSeeds, Known, IsTable
<1>8. CASE Insert(c)
  <2>1. CASE Known(n)
    BY <1>1, <1>5, <1>8, <2>1 DEF Insert, At
  <2>2. CASE ~Known(n)
    <3> DEFINE a == New(request[c].source, request[c].role, request[c].mustChange)
               table == With(n, a)
    <3>1. a.mfa = FALSE
      BY DEF New
    <3>2. table = [m \in {n} \cup DOMAIN users |-> IF m = n THEN a ELSE users[m]]
      BY DEF With
    <3> HIDE DEF a, table
    <3>3. HasSeeds(table) /\ SameSeeds(users, table)
      BY <1>2, <2>2, <3>1, <3>2 DEF HasSeeds, SameSeeds, Known
    <3>4. Execute(c, table) /\ Continue(c)
      BY <1>8, <2>2 DEF Insert, table, a
    <3> QED
      BY <1>4, <3>3, <3>4
  <2> QED
    BY <2>1, <2>2
<1>9. CASE DeleteUser(c)
  <2>1. CASE n = Admin
    BY <1>1, <1>5, <1>9, <2>1 DEF DeleteUser, At
  <2>2. CASE n # Admin
    <3> DEFINE table == [m \in DOMAIN users \ {n} |-> users[m]]
    <3>1. HasSeeds(table) /\ SameSeeds(users, table)
      BY <1>2 DEF HasSeeds, SameSeeds
    <3>2. Execute(c, table) /\ Continue(c)
      BY <1>9, <2>2 DEF DeleteUser
    <3> QED
      BY <1>4, <3>1, <3>2
  <2> QED
    BY <2>1, <2>2
<1>10. CASE UpdateRole(c)
  <2>1. Continue(c)
    BY <1>10 DEF UpdateRole
  <2>2. CASE ~Known(n)
    BY <1>4, <1>6, <1>10, <2>1, <2>2 DEF UpdateRole
  <2>3. CASE Known(n)
    <3>1. PICK a : a = [u EXCEPT !.role = request[c].role]
      OBVIOUS
    <3>2. a.mfa = u.mfa /\ a.secret = u.secret
      BY <1>2, <2>3, <3>1, AccountIsTyped, SeedlessUpdates DEF Known
    <3>3. Execute(c, [users EXCEPT ![n] = a])
      BY <1>10, <2>3, <3>1 DEF UpdateRole
    <3> QED
      BY <1>4, <1>7, <2>1, <2>3, <3>2, <3>3
  <2> QED
    BY <2>2, <2>3
<1>11. CASE UpdateActive(c)
  <2>1. Continue(c)
    BY <1>11 DEF UpdateActive
  <2>2. CASE ~Known(n)
    BY <1>4, <1>6, <1>11, <2>1, <2>2 DEF UpdateActive
  <2>3. CASE Known(n)
    <3>1. PICK a : a = [u EXCEPT !.active = request[c].active]
      OBVIOUS
    <3>2. a.mfa = u.mfa /\ a.secret = u.secret
      BY <1>2, <2>3, <3>1, AccountIsTyped, SeedlessUpdates DEF Known
    <3>3. Execute(c, [users EXCEPT ![n] = a])
      BY <1>11, <2>3, <3>1 DEF UpdateActive
    <3> QED
      BY <1>4, <1>7, <2>1, <2>3, <3>2, <3>3
  <2> QED
    BY <2>2, <2>3
<1>12. CASE SetPassword(c)
  <2>1. CASE Answer(c, "page") /\ Read
    BY <1>5, <1>12, <2>1 DEF SetPassword, At
  <2>2. CASE ~(Answer(c, "page") /\ Read) /\ Known(n) /\ u.source = "local"
    <3>1. PICK a : a = [u EXCEPT !.mustChange = request[c].mustChange]
      OBVIOUS
    <3>2. a.mfa = u.mfa /\ a.secret = u.secret
      BY <1>2, <2>2, <3>1, AccountIsTyped, SeedlessUpdates DEF Known
    <3>3. Execute(c, [users EXCEPT ![n] = a]) /\ Continue(c)
      BY <1>12, <2>2, <3>1 DEF SetPassword
    <3> QED
      BY <1>4, <1>7, <2>2, <3>2, <3>3
  <2>3. CASE ~(Answer(c, "page") /\ Read) /\ ~(Known(n) /\ u.source = "local")
    <3>1. Execute(c, users) /\ Continue(c)
      BY <1>12, <2>3 DEF SetPassword
    <3> QED
      BY <1>4, <1>6, <3>1
  <2> QED
    BY <2>1, <2>2, <2>3
<1> QED
  BY <1>8, <1>9, <1>10, <1>11, <1>12

\* The statements that write a seed: it is the one the account has, unless another
\* request has changed the account since this one read it.
LEMMA SeedWritesPreserve ==
  ASSUME IInv, NEW c \in Clients, KeepSeed(c) \/ SetMfa(c)
  PROVE  Preserved /\ (SameSeeds(users, users') \/ c \in outdated)
<1> DEFINE n == Target(c)
           u == users[n]
           s == request[c].secret
<1>1. todo[c] # <<>> /\ Keeps /\ Continue(c) /\ Head(todo[c]) \in {"keep", "set"}
  BY DEF KeepSeed, SetMfa, At
<1>2. /\ IsTable(users) /\ HasSeeds(users) /\ Planned(todo[c], s)
      /\ c \in outdated \/ Carries(c)
  BY DEF IInv, Tabled, Seeds, Plans
<1>3. s # NoSecret
  BY <1>1, <1>2, HeadPlan
<1>4. ASSUME NEW table, Execute(c, table), HasSeeds(table),
             n \in DOMAIN table /\ table[n].mfa => table[n].secret = s,
             SameSeeds(users, table) \/ c \in outdated
      PROVE  Preserved /\ (SameSeeds(users, users') \/ c \in outdated)
  <2>1. users' = table
    BY <1>4 DEF Execute
  <2> QED
    BY <1>1, <1>4, <2>1, WritePreserves DEF Writes
<1>5. CASE ~Known(n)
  <2>1. Execute(c, users)
    BY <1>5 DEF KeepSeed, SetMfa
  <2> QED
    BY <1>2, <1>4, <1>5, <2>1 DEF SameSeeds, Known
<1>6. ASSUME Known(n), NEW a, a.mfa => a.secret = s, Execute(c, [users EXCEPT ![n] = a])
      PROVE  Preserved /\ (SameSeeds(users, users') \/ c \in outdated)
  <2> DEFINE table == [users EXCEPT ![n] = a]
  <2>1. /\ DOMAIN table = DOMAIN users /\ table[n] = a
        /\ \A m \in DOMAIN users \ {n} : table[m] = users[m]
    BY <1>2, <1>6 DEF IsTable, Known
  <2>2. c \in outdated \/ (u.mfa => u.secret = s)
    BY <1>2, <1>3, <1>6 DEF Carries
  <2>3. Execute(c, table)
    BY <1>6
  <2> HIDE DEF table
  <2>4. HasSeeds(table)
    BY <1>2, <1>3, <1>6, <2>1 DEF HasSeeds
  <2>5. SameSeeds(users, table) \/ c \in outdated
    BY <1>6, <2>1, <2>2 DEF SameSeeds
  <2> QED
    BY <1>4, <1>6, <2>1, <2>3, <2>4, <2>5
<1>7. CASE Known(n) /\ KeepSeed(c)
  <2>1. PICK a : a = [u EXCEPT !.secret = s]
    OBVIOUS
  <2>2. a.secret = s
    BY <1>2, <1>7, <2>1, AccountIsTyped, SeedlessUpdates DEF Known
  <2>3. Execute(c, [users EXCEPT ![n] = a])
    BY <1>7, <2>1 DEF KeepSeed
  <2> QED
    BY <1>6, <1>7, <2>2, <2>3
<1>8. CASE Known(n) /\ SetMfa(c)
  <2>1. PICK a : a = [u EXCEPT !.mfa = request[c].mfa,
                               !.secret = IF request[c].mfa THEN s ELSE NoSecret]
    OBVIOUS
  <2>2. a.mfa = request[c].mfa /\ (request[c].mfa => a.secret = s)
    BY <1>2, <1>8, <2>1, AccountIsTyped, SeedlessUpdates DEF Known
  <2>3. Execute(c, [users EXCEPT ![n] = a])
    BY <1>2, <1>8, <2>1 DEF SetMfa, Known, IsTable
  <2> QED
    BY <1>6, <1>8, <2>2, <2>3
<1> QED
  BY <1>5, <1>7, <1>8

\* A statement that leaves the tables as they are and what another request has of them.
LEMMA SeedPreserves ==
  ASSUME IInv, NEW c \in Clients, Seed(c)
  PROVE  Preserved
<1> DEFINE n == Target(c)
           form(s) == [request[c] EXCEPT !.secret = s]
<1>1. /\ Formed /\ Plans /\ Clean /\ Browsers /\ Seeds /\ request[c] \in Form
      /\ IsTable(users)
  BY RequestIsForm DEF IInv, Tabled
<1>2. /\ todo[c] # <<>> /\ Head(todo[c]) = "seed" /\ outdated' = outdated \ {c}
      /\ UNCHANGED <<users, disk, dirty, session, requests, faults>>
  BY DEF Seed, At, tableVars, boundVars
<1>3. PICK f : /\ Turn(c, f) /\ f.name = n
               /\ Known(n) /\ users[n].mfa => f.secret = users[n].secret
               /\ \/ Answer(c, "error")
                  \/ ContinueWith(c, f)
  <2>1. CASE ~Known(n)
    <3>1. Answer(c, "error")
      BY <2>1 DEF Seed
    <3> QED
      BY <1>2, <2>1, <3>1 DEF Turn, Target
  <2>2. CASE Known(n)
    <3>1. PICK s \in IF users[n].secret = NoSecret THEN Secrets ELSE {users[n].secret} :
                ContinueWith(c, form(s))
      BY <2>2 DEF Seed
    <3>2. users[n].secret \in Secrets \cup {NoSecret}
      BY <1>1, <2>2, AccountIsTyped DEF Known
    <3>3. s \in Secrets /\ s # NoSecret
      BY <3>1, <3>2, AccountsAssumption
    <3>4. users[n].mfa => s = users[n].secret
      BY <1>1, <2>2, <3>1 DEF Seeds, HasSeeds, Known
    <3>5. form(s) \in Form /\ form(s).name = n /\ form(s).secret = s
      BY <1>1, <3>3, FormUpdates DEF Target, Form
    <3>6. PICK f : f = form(s)
      OBVIOUS
    <3>7. Turn(c, f) /\ ContinueWith(c, f)
      BY <1>2, <3>1, <3>3, <3>5, <3>6 DEF Turn
    <3> HIDE DEF form
    <3> QED
      BY <3>4, <3>5, <3>6, <3>7
  <2> QED
    BY <2>1, <2>2
<1>4. c \notin dirty
  BY <1>1, <1>2, NotDirty
<1>5. Plans' /\ Clean' /\ Durable
  BY <1>1, <1>2, <1>3, <1>4, CleanTurn
<1>6. Browsers'
  <2>1. page' \in [Clients -> Redirects \cup {"page", "error"}]
    BY <1>1, <1>3, PageTypes
  <2> QED
    BY <1>1, <1>2, <2>1 DEF Browsers
<1>7. /\ \A d \in Clients \ {c} : request'[d] = request[d]
      /\ request'[c] = NoForm \/ request'[c] = f
  BY <1>1, <1>3, TurnPlans
<1>8. Carries(c)'
  <2>1. NoForm.secret = NoSecret
    BY DEF NoForm
  <2>2. CASE request'[c] = NoForm
    BY <2>1, <2>2 DEF Carries
  <2>3. CASE request'[c] = f
    BY <1>2, <1>3, <2>3 DEF Carries, Known, Target
  <2> QED
    BY <1>7, <2>2, <2>3
<1>9. ASSUME NEW d \in Clients \ {c}, d \notin outdated'
      PROVE  Carries(d)'
  BY <1>1, <1>2, <1>7, <1>9, SameCarries DEF Seeds
<1>10. Seeds'
  BY <1>1, <1>2, <1>8, <1>9 DEF Seeds, HasSeeds
<1> QED
  BY <1>5, <1>6, <1>10 DEF Preserved

\* A step that changes neither the tables nor the seed a request carries.
LEMMA KeptSeeds ==
  ASSUME Seeds, UNCHANGED <<users, disk>>,
         \A d \in Clients : \/ request'[d].secret = NoSecret
                           \/ /\ request'[d].secret = request[d].secret
                              /\ request'[d].name = request[d].name
                              /\ d \in outdated => d \in outdated'
  PROVE  Seeds'
<1>1. ASSUME NEW d \in Clients, d \notin outdated'
      PROVE  Carries(d)'
  <2>1. CASE request'[d].secret = NoSecret
    BY <2>1 DEF Carries
  <2>2. CASE d \notin outdated /\ request'[d].secret = request[d].secret
                /\ request'[d].name = request[d].name
    BY <2>2 DEF Seeds, Carries, Known, Target
  <2> QED
    BY <1>1, <2>1, <2>2
<1> QED
  BY <1>1 DEF Seeds, HasSeeds

\* A login that has failed commits what is pending.
LEMMA FailedPreserves ==
  ASSUME IInv, NEW c \in Clients, todo[c] # <<>>, Head(todo[c]) # "seed", LoginFailed(c),
         UNCHANGED <<session, boundVars>>
  PROVE  Preserved
<1>1. "page" \in Redirects \cup {"page", "error"}
  OBVIOUS
<1>2. session' \in [Clients -> [username : Names \cup {Nobody}, pending : Names \cup {Nobody}]]
  BY DEF IInv, Browsers
<1> QED
  BY <1>1, <1>2, CommitPreserves DEF LoginFailed, boundVars

LEMMA AuthenticatePreserves ==
  ASSUME IInv, NEW c \in Clients, AuthenticateLocal(c)
  PROVE  Preserved
<1>1. /\ Formed /\ Plans /\ Clean /\ Browsers /\ Seeds /\ request[c] \in Form
      /\ IsTable(users)
  BY RequestIsForm DEF IInv, Tabled
<1>2. /\ todo[c] # <<>> /\ Head(todo[c]) = "authenticate"
      /\ UNCHANGED <<session, boundVars>>
  BY DEF AuthenticateLocal, At
<1>3. CASE LoginFailed(c)
  BY <1>2, <1>3, FailedPreserves
<1>4. CASE ~LoginFailed(c)
  <2>1. /\ Known(Target(c)) /\ Read
        /\ ContinueWith(c, [request[c] EXCEPT !.mfa = users[Target(c)].mfa])
    BY <1>4 DEF AuthenticateLocal
  <2>2. PICK f : f = [request[c] EXCEPT !.mfa = users[Target(c)].mfa]
    OBVIOUS
  <2>3. /\ f \in Form /\ f.name = request[c].name /\ f.secret = request[c].secret
    <3>1. users[Target(c)].mfa \in BOOLEAN
      BY <1>1, <2>1, AccountIsTyped DEF Known
    <3> QED
      BY <1>1, <2>2, <3>1, FormUpdates DEF Form
  <2>4. Turn(c, f)
    BY <1>2, <2>1, <2>2, <2>3 DEF Turn
  <2>5. /\ c \notin dirty
        /\ UNCHANGED <<users, disk, dirty, outdated, session, requests, faults>>
    BY <1>1, <1>2, <2>1, NotDirty DEF Read, tableVars, boundVars
  <2>6. Plans' /\ Clean' /\ Durable
    BY <1>1, <2>4, <2>5, CleanTurn
  <2>7. Seeds'
    BY <1>1, <2>3, <2>4, <2>5, ReadSeeds
  <2>8. Browsers'
    <3>1. page' \in [Clients -> Redirects \cup {"page", "error"}]
      BY <1>1, <2>1, PageTypes
    <3> QED
      BY <1>1, <2>5, <3>1 DEF Browsers
  <2> QED
    BY <2>6, <2>7, <2>8 DEF Preserved
<1> QED
  BY <1>3, <1>4

LEMMA ExternalPreserves ==
  ASSUME IInv, NEW c \in Clients, UpsertExternal(c)
  PROVE  Preserved
<1>1. /\ Formed /\ Plans /\ Clean /\ Browsers /\ Seeds /\ request[c] \in Form
      /\ IsTable(users)
  BY RequestIsForm DEF IInv, Tabled
<1>2. /\ todo[c] # <<>> /\ Head(todo[c]) = "own"
      /\ UNCHANGED <<session, boundVars>>
  BY DEF UpsertExternal, At
<1>3. CASE LoginFailed(c)
  BY <1>2, <1>3, FailedPreserves
<1>4. CASE (Continue(c) \/ Answer(c, "error")) /\ Read
  <2>1. "error" \in Redirects \cup {"page", "error"}
    OBVIOUS
  <2> QED
    BY <1>2, <1>4, <2>1, LookPreserves DEF Keeps
<1>5. CASE /\ Known(Target(c)) /\ Read /\ UNCHANGED page
           /\ request' = [request EXCEPT ![c].mfa = users[Target(c)].mfa]
           /\ todo' = [todo EXCEPT ![c] = <<"finish">>]
  <2>1. request[c].secret = NoSecret
    BY <1>1, <1>2, HeadPlan DEF Plans, AfterSeed
  <2>2. /\ c \notin dirty
        /\ UNCHANGED <<users, disk, dirty, outdated, session, requests, faults>>
    BY <1>1, <1>2, <1>5, NotDirty DEF Read, tableVars, boundVars
  <2>3. /\ todo'[c] = <<"finish">> /\ request'[c].secret = NoSecret
        /\ \A d \in Clients \ {c} : todo'[d] = todo[d] /\ request'[d] = request[d]
    BY <1>1, <1>5, <2>1 DEF Formed, Form
  <2>4. Plans'
    BY <1>1, <2>3, PlannedShort DEF Plans
  <2>5. Clean' /\ Durable
    BY <1>1, <2>2, <2>3 DEF Clean, Durable, Browsers
  <2>6. Seeds'
    BY <1>1, <2>2, <2>3, KeptSeeds
  <2>7. Browsers'
    BY <1>1, <1>5, <2>2 DEF Browsers
  <2> QED
    BY <2>4, <2>5, <2>6, <2>7 DEF Preserved
<1> QED
  BY <1>3, <1>4, <1>5 DEF UpsertExternal

LEMMA FollowPreserves ==
  ASSUME IInv, NEW c \in Clients, Follow(c)
  PROVE  Preserved
<1>1. Plans /\ Clean /\ Browsers /\ Seeds
  BY DEF IInv
<1>2. /\ page' = [page EXCEPT ![c] = Served(c, page[c])]
      /\ UNCHANGED <<todo, request, users, disk, dirty, outdated, session, requests, faults>>
  BY DEF Follow, Read, Keeps, tableVars, boundVars
<1>3. Plans' /\ Clean' /\ Durable
  BY <1>1, <1>2 DEF Plans, Clean, Durable
<1>4. Seeds'
  BY <1>1, <1>2, KeptSeeds
<1>5. Browsers'
  <2>1. Served(c, page[c]) \in Redirects \cup {"page", "error"}
    BY ServedTypes
  <2> QED
    BY <1>1, <1>2, <2>1 DEF Browsers
<1> QED
  BY <1>3, <1>4, <1>5 DEF Preserved

LEMMA SubmitPreserves ==
  ASSUME IInv, NEW c \in Clients, Submit(c)
  PROVE  Preserved
<1>1. Formed /\ Plans /\ Clean /\ Browsers /\ Seeds
  BY DEF IInv, Tabled
<1>2. /\ todo[c] = <<>> /\ requests < MaxRequests /\ requests' = requests + 1
      /\ page' = [page EXCEPT ![c] = "page"]
      /\ dirty' = dirty \ {c} /\ outdated' = outdated \ {c}
      /\ UNCHANGED <<users, disk, session, faults>>
  BY DEF Submit
<1>3. PICK op \in DOMAIN Handler, n \in Names, source \in Sources, role \in Roles,
           active \in BOOLEAN :
         /\ op \in {"logout", "import", "code"} => n = Admin
         /\ op = "change" => n = session[c].username
         /\ op \notin {"create", "external"} => source = "local"
         /\ op = "external" => source # "local"
         /\ op # "update" => role = "reader"
         /\ op # "update" => active
         /\ todo' = [todo EXCEPT ![c] = Handler[op]]
         /\ request' = [request EXCEPT ![c] = Filled(op, n, source, role, active)]
  BY DEF Submit
<1> DEFINE form == Filled(op, n, source, role, active)
<1>0. form.secret = NoSecret
  BY DEF Filled, NoForm
<1> HIDE DEF form
<1>4. /\ todo'[c] = Handler[op] /\ request'[c].secret = NoSecret
      /\ \A d \in Clients \ {c} : todo'[d] = todo[d] /\ request'[d] = request[d]
  BY <1>0, <1>1, <1>3 DEF Formed, form
<1>5. Plans'
  BY <1>1, <1>4, PlannedHandler DEF Plans
<1>6. Clean' /\ Durable
  BY <1>1, <1>2, <1>4 DEF Clean, Durable, Browsers
<1>7. Seeds'
  BY <1>1, <1>2, <1>4, KeptSeeds
<1>8. Browsers'
  <2>1. "page" \in Redirects \cup {"page", "error"} /\ requests + 1 \in 0 .. MaxRequests
    BY <1>1, <1>2, AccountsAssumption DEF Browsers
  <2> QED
    BY <1>1, <1>2, <2>1 DEF Browsers
<1> QED
  BY <1>5, <1>6, <1>7, <1>8 DEF Preserved

LEMMA ImportPreserves ==
  ASSUME IInv, NEW c \in Clients, ImportRow(c)
  PROVE  Preserved
<1>1. /\ Formed /\ Plans /\ Clean /\ Browsers /\ Seeds /\ request[c] \in Form
      /\ IsTable(users)
  BY RequestIsForm DEF IInv, Tabled
<1>2. todo[c] # <<>> /\ Head(todo[c]) = "row" /\ UNCHANGED <<session, requests>>
  BY DEF ImportRow, At
<1>3. request[c].secret = NoSecret
  BY <1>1, <1>2, HeadPlan DEF Plans, AfterSeed
<1>4. CASE faults < MaxFaults /\ faults' = faults + 1 /\ Answer(c, "error") /\ Read
  <2>1. Turn(c, request[c]) /\ UNCHANGED <<users, disk, dirty, outdated>>
    BY <1>2, <1>4 DEF Turn, Read, tableVars
  <2>2. /\ Plans' /\ \A d \in Clients \ {c} : todo'[d] = todo[d] /\ page'[d] = page[d]
    BY <1>1, <2>1, TurnPlans
  <2>3. todo'[c] = <<>> /\ page'[c] = "error"
    BY <1>1, <1>4 DEF Answer, Formed, Browsers
  <2>4. Clean' /\ Durable
    BY <1>1, <2>1, <2>2, <2>3 DEF Clean, Durable, Browsers
  <2>5. Seeds'
    BY <1>1, <2>1, ReadSeeds
  <2>6. Browsers'
    <3>1. page' \in [Clients -> Redirects \cup {"page", "error"}]
      BY <1>1, <1>4, PageTypes
    <3>2. faults + 1 \in 0 .. MaxFaults
      BY <1>1, <1>4, AccountsAssumption DEF Browsers
    <3> QED
      BY <1>1, <1>2, <1>4, <2>1, <3>1, <3>2 DEF Browsers
  <2> QED
    BY <2>2, <2>4, <2>5, <2>6 DEF Preserved
<1>5. ASSUME NEW n \in request[c].rows, Execute(c, With(n, Archive[n])),
             IF request[c].rows = {n} THEN Continue(c)
             ELSE /\ request' = [request EXCEPT ![c].rows = @ \ {n}]
                  /\ UNCHANGED <<todo, page>>,
             UNCHANGED faults
      PROVE  Preserved
  <2>1. PICK table : table = With(n, Archive[n])
    OBVIOUS
  <2>2. HasSeeds(table)
    <3>1. n \in DOMAIN Archive
      BY <1>1, FormFields
    <3>2. Archive[n].mfa => Archive[n].secret # NoSecret
      BY <3>1, AccountsAssumption
    <3>3. table = [m \in {n} \cup DOMAIN users |-> IF m = n THEN Archive[n] ELSE users[m]]
      BY <2>1 DEF With
    <3> QED
      BY <1>1, <3>2, <3>3 DEF Seeds, HasSeeds
  <2>3. Execute(c, table)
    BY <1>5, <2>1
  <2>4. CASE request[c].rows = {n}
    <3>1. Continue(c) /\ Keeps
      BY <1>2, <1>5, <2>4 DEF Keeps, boundVars
    <3> QED
      BY <1>2, <1>3, <2>2, <2>3, <3>1, WritePreserves DEF Writes
  <2>5. CASE request[c].rows # {n}
    <3>1. /\ UNCHANGED <<todo, page, session, requests, faults>>
          /\ dirty' \subseteq dirty \cup {c} /\ outdated' \subseteq Clients
      BY <1>1, <1>2, <1>5, <2>3, <2>5 DEF Execute, Browsers
    <3>2. /\ request'[c].secret = NoSecret
          /\ \A d \in Clients \ {c} : request'[d] = request[d]
      <4>1. PICK form : form = [request[c] EXCEPT !.rows = request[c].rows \ {n}]
        OBVIOUS
      <4>2. form.secret = request[c].secret
        BY <1>1, <4>1 DEF Form
      <4>3. request' = [request EXCEPT ![c] = form]
        BY <1>5, <2>5, <4>1
      <4> QED
        BY <1>1, <1>3, <4>2, <4>3 DEF Formed
    <3>3. Plans'
      BY <1>1, <1>3, <3>1, <3>2 DEF Plans
    <3>4. Clean' /\ Durable
      BY <1>1, <1>2, <3>1 DEF Clean, Durable
    <3>5. Carries(c)'
      BY <3>2 DEF Carries
    <3>6. Seeds'
      BY <1>1, <2>2, <2>3, <3>2, <3>5, WriteSeeds
    <3>7. Browsers'
      BY <1>1, <3>1 DEF Browsers
    <3> QED
      BY <3>3, <3>4, <3>6, <3>7 DEF Preserved
  <2> QED
    BY <2>4, <2>5
<1> QED
  BY <1>4, <1>5 DEF ImportRow

LEMMA OpenedHasSeeds ==
  ASSUME NEW t, HasSeeds(t)
  PROVE  HasSeeds(Opened(t))
<1>1. New("local", "admin", TRUE).mfa = FALSE
  BY DEF New
<1> QED
  BY <1>1 DEF HasSeeds, Opened

LEMMA CrashPreserves ==
  ASSUME IInv, Crash
  PROVE  Preserved
<1>1. Formed /\ Browsers /\ Seeds
  BY DEF IInv, Tabled
<1>2. /\ users' = Opened(disk) /\ disk' = Opened(disk) /\ dirty' = {} /\ outdated' = {}
      /\ faults < MaxFaults /\ faults' = faults + 1 /\ UNCHANGED <<session, requests>>
      /\ page' = [c \in Clients |-> IF todo[c] = <<>> THEN page[c] ELSE "error"]
      /\ \A c \in Clients : todo'[c] = <<>> /\ request'[c] = NoForm
  BY DEF Crash
<1>3. NoForm.secret = NoSecret
  BY DEF NoForm
<1>4. Plans'
  BY <1>2, <1>3, PlannedShort DEF Plans
<1>5. Clean' /\ Durable
  BY <1>2 DEF Clean, Durable
<1>6. Seeds'
  <2>1. HasSeeds(Opened(disk))
    BY <1>1, OpenedHasSeeds DEF Seeds
  <2>2. HasSeeds(users)' /\ HasSeeds(disk)'
    BY <1>2, <2>1 DEF HasSeeds
  <2>3. \A c \in Clients : Carries(c)'
    BY <1>2, <1>3 DEF Carries
  <2> QED
    BY <2>2, <2>3 DEF Seeds
<1>7. Browsers'
  <2>1. faults + 1 \in 0 .. MaxFaults
    BY <1>1, <1>2, AccountsAssumption DEF Browsers
  <2>2. page' \in [Clients -> Redirects \cup {"page", "error"}]
    BY <1>1, <1>2 DEF Browsers
  <2> QED
    BY <1>1, <1>2, <2>1, <2>2 DEF Browsers
<1> QED
  BY <1>4, <1>5, <1>6, <1>7 DEF Preserved

-----------------------------------------------------------------------------
LEMMA InitPreserved == Init => IInv
<1> SUFFICES ASSUME Init PROVE IInv
  OBVIOUS
<1>1. Tabled
  BY InitTabled
<1>2. /\ todo = [c \in Clients |-> <<>>] /\ request = [c \in Clients |-> NoForm]
      /\ dirty = {} /\ outdated = {} /\ requests = 0 /\ faults = 0
      /\ session \in Cookies /\ page = [c \in Clients |-> "page"]
  BY DEF Init
<1>3. NoForm.secret = NoSecret
  BY DEF NoForm
<1>4. Plans /\ Clean
  BY <1>2, <1>3, PlannedShort DEF Plans, Clean
<1>5. Browsers
  BY <1>2, AccountsAssumption DEF Browsers
<1>6. Seeds
  <2>1. PICK table \in Tables : users = Opened(table) /\ disk = Opened(table)
    BY DEF Init
  <2>2. HasSeeds(table)
    BY AccountsAssumption DEF HasSeeds
  <2>3. HasSeeds(users) /\ HasSeeds(disk)
    BY <2>1, <2>2, OpenedHasSeeds
  <2>4. \A c \in Clients : Carries(c)
    BY <1>2, <1>3 DEF Carries
  <2> QED
    BY <2>3, <2>4 DEF Seeds
<1> QED
  BY <1>1, <1>4, <1>5, <1>6 DEF IInv

\* Who may replace the seed of a second factor that stays enabled.
Excused ==
    \/ Crash
    \/ \E c \in Clients : ImportRow(c) \/ (c \in outdated /\ (KeepSeed(c) \/ SetMfa(c)))

LEMMA StepPreserves ==
  ASSUME IInv, [Next]_vars
  PROVE  IInv' /\ Durable /\ (SameSeeds(users, users') \/ Excused)
<1>1. Tabled'
  BY StepIsTabled DEF IInv
<1>2. CASE UNCHANGED vars
  <2>1. UNCHANGED <<users, disk, dirty, session, page, todo, request, requests, faults, outdated>>
    BY <1>2 DEF vars, tableVars, browserVars, boundVars
  <2>2. Seeds'
    BY <2>1, KeptSeeds DEF IInv
  <2> QED
    BY <1>1, <2>1, <2>2 DEF IInv, Plans, Clean, Browsers, Durable, SameSeeds
<1>3. CASE Crash
  BY <1>1, <1>3, CrashPreserves DEF Preserved, IInv, Excused
<1>4. ASSUME NEW c \in Clients, Submit(c) \/ Serve(c)
      PROVE  Preserved /\ (SameSeeds(users, users') \/ Excused)
  <2>1. CASE Insert(c) \/ UpdateRole(c) \/ UpdateActive(c) \/ SetPassword(c) \/ DeleteUser(c)
    BY <2>1, WritingPreserves
  <2>2. CASE KeepSeed(c) \/ SetMfa(c)
    BY <2>2, SeedWritesPreserve DEF Excused
  <2>3. CASE ImportRow(c)
    BY <2>3, ImportPreserves DEF Excused
  <2>4. CASE \/ Submit(c) \/ Follow(c) \/ RequireLogin(c) \/ RequireAdmin(c) \/ CommitStep(c)
             \/ Audit(c) \/ LookupUser(c) \/ Seed(c) \/ AuthenticateLocal(c) \/ UpsertExternal(c)
             \/ FinishLogin(c) \/ VerifyCode(c) \/ Leave(c) \/ CheckPassword(c)
    <3>1. UNCHANGED users
      BY <2>4 DEF Submit, Follow, RequireLogin, RequireAdmin, CommitStep, Audit, LookupUser, Seed,
                  AuthenticateLocal, UpsertExternal, FinishLogin, VerifyCode, Leave, CheckPassword,
                  LoginFailed, Read, tableVars
    <3>2. Preserved
      BY <2>4, SubmitPreserves, FollowPreserves, LookingPreserves, CommittingPreserves,
         SeedPreserves, AuthenticatePreserves, ExternalPreserves
    <3> QED
      BY <3>1, <3>2 DEF SameSeeds
  <2> QED
    BY <1>4, <2>1, <2>2, <2>3, <2>4 DEF Serve
<1> QED
  BY <1>1, <1>2, <1>3, <1>4 DEF Next, Preserved, IInv

\* Accounts, sessions and requests are of their kinds in every state, and an account
\* whose second factor is on has a seed, in the table of the connection: no order of the
\* statements of ensure_mfa_secret, set_mfa and restore_from leaves its owner between
\* finish_login and mfa(), each of which sends to the other.
THEOREM TypesKept == Spec => []TypeOK
<1>1. IInv => TypeOK
  <2> SUFFICES ASSUME IInv PROVE TypeOK
    OBVIOUS
  <2>1. \A c \in Clients : \A i \in DOMAIN todo[c] : todo[c][i] \in Steps
    BY DEF IInv, Plans, Planned
  <2> QED
    BY <2>1 DEF IInv, Tabled, Browsers, Seeds, HasSeeds, TypeOK
<1>2. IInv /\ [Next]_vars => IInv'
  BY StepPreserves
<1> QED
  BY InitPreserved, <1>1, <1>2, PTL DEF Spec

\* What a request that has been answered without an error has written is committed when
\* the answer leaves, although all requests share one connection and a commit may be
\* another's: no handler of frontend.py answers between a statement and its commit but
\* with an error.
THEOREM AnswersDurable == Spec => AnsweredIsDurable
<1>1. IInv /\ [Next]_vars => IInv'
  BY StepPreserves
<1>2. IInv /\ [Next]_vars =>
        [\A c \in Clients : todo[c] # <<>> /\ todo'[c] = <<>> /\ page'[c] # "error"
            => c \notin dirty']_vars
  BY StepPreserves DEF Durable
<1> QED
  BY InitPreserved, <1>1, <1>2, PTL DEF Spec, AnsweredIsDurable

\* The seed of a second factor that stays enabled is the one its owner enrolled:
\* ensure_mfa_secret and set_mfa replace it only for a request whose account another one
\* has changed since it was read, and otherwise only the rows of a backup and the return
\* to what was committed do.
THEOREM SeedKept == Spec => SeedIsKept
<1>1. IInv /\ [Next]_vars => IInv'
  BY StepPreserves
<1>2. IInv /\ [Next]_vars =>
        [\A n \in Names : Known(n) /\ Known(n)' =>
             (users[n].mfa /\ users'[n].mfa /\ users'[n].secret # users[n].secret
              => \/ Crash
                 \/ \E c \in Clients : \/ ImportRow(c)
                                       \/ c \in outdated /\ (KeepSeed(c) \/ SetMfa(c)))]_vars
  BY StepPreserves DEF SameSeeds, Excused, Known
<1> QED
  BY InitPreserved, <1>1, <1>2, PTL DEF Spec, SeedIsKept

=============================================================================
