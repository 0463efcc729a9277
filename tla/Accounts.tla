------------------------------ MODULE Accounts ------------------------------
(***************************************************************************)
(* Accounts of the web application: the routes under app/api/auth and the  *)
(* PATCH of app/api/admin/users, lib/auth.ts (JWT and session), lib/email, *)
(* middleware.ts, and the browser's side of them: the login page, useAuth  *)
(* and the layouts of the dashboard and the admin console.                 *)
(*                                                                         *)
(* A route is a sequence of SQL statements without a transaction; requests *)
(* interleave between them.  An account is named by its email, which no    *)
(* route changes.  A code is named by its row: that two codes are equal by *)
(* chance, and that a client guesses one, is left out.                     *)
(***************************************************************************)
EXTENDS Integers, FiniteSets

CONSTANTS
  Requests,     \* slots for requests that run at the same time
  Browsers,     \* browsers, each with one page and one cookie
  Emails, Names, Passwords,
  Folded,       \* [Names -> Names]: the name in lower case
  None,         \* no value
  Seed,         \* the accounts there are at the start
  SeedTokens,   \* the tokens that their users hold
  NamelessUsers,  \* the column users.username may be NULL
  MaxCodes,     \* bound: codes generated
  MaxPosts,     \* bound: requests that clients send
  MaxChanges,   \* bound: fields that one PATCH changes
  MaxFaults     \* bound: statements that fail

Roles == {"user", "admin"}
Account == [name : Names \cup {None}, pw : Passwords \cup {None},
            role : Roles, active : BOOLEAN]
Purposes == {"register", "login"}
Token == [sub : Emails, role : Roles]

ASSUME AccountsAssumption ==
  /\ Folded \in [Names -> Names]
  /\ None \notin Names \cup Passwords \cup Emails \cup Browsers \cup Account \cup Token
  /\ Seed \in [Emails -> Account \cup {None}]
  /\ SeedTokens \subseteq Token /\ \A t \in SeedTokens : Seed[t.sub] # None
  /\ NamelessUsers \in BOOLEAN
  /\ MaxCodes \in Nat /\ MaxPosts \in Nat /\ MaxChanges \in Nat /\ MaxFaults \in Nat

VARIABLES
  account,   \* account[e]: the row of users with email e, or None
  rows,      \* the rows of verification_codes
  codes,     \* number of codes generated
  mail,      \* codes that were mailed: [to, purpose, code]
  issued,    \* tokens that clients hold: [sub, role]
  reqs,      \* reqs[r]: the request in slot r
  cookie,    \* cookie[b]: the token in the cookie of b, or None
  form,      \* form[b]: the login page's form
  page,      \* page[b]: the page of b and what it shows
  spent,     \* history: codes marked as used, see Spending
  posts, faults,  \* counters for the bounds
  excused    \* history: members of spent, see Fail and Patch

vars == <<account, rows, codes, mail, issued, reqs, cookie, form, page, spent,
          posts, faults, excused>>
dbVars == <<account, rows, codes, mail, spent, excused>>
clientVars == <<issued, cookie, form, page>>

Spending == [code : Nat, email : Emails, name : Names \cup {None}]
Row == [email : Emails, purpose : Purposes, code : Nat, used : BOOLEAN, stale : BOOLEAN]

(***************************************************************************)
(* A request: the next step of its handler, the body it came with, and     *)
(* what it has read.  tok is the token of its cookie, and in a reply the   *)
(* token that the reply sets.                                              *)
(***************************************************************************)
FormKinds == {"start", "register", "login"}
SessionKinds == {"me", "password", "patch"}
Kinds == FormKinds \cup SessionKinds \cup {"send", "verify", "none"}
Steps == {"idle", "unique", "delete", "insert", "mail", "code", "mark", "find", "create",
          "lookup", "session", "compare", "update", "patch", "reply"}
Idle == [at |-> "idle", kind |-> "none", by |-> None, live |-> FALSE,
         email |-> None, name |-> None, pw |-> None, code |-> 0,
         tok |-> None, ok |-> FALSE,
         late |-> FALSE, barred |-> FALSE, blind |-> FALSE]

At(r, step) == reqs[r].at = step
Goto(r, step) == reqs' = [reqs EXCEPT ![r].at = step]

\* What is left of a request when it is answered; only a form of the page that sent it listens.
Answer(r, ok, tok) ==
  [Idle EXCEPT !.at = "reply", !.kind = reqs[r].kind, !.by = reqs[r].by,
               !.live = reqs[r].live, !.email = reqs[r].email, !.ok = ok, !.tok = tok]
Reply(r, ok, tok) == reqs' = [reqs EXCEPT ![r] = Answer(r, ok, tok)]
Refuse(r) == Reply(r, FALSE, None) /\ UNCHANGED dbVars
Grant(r, e, role) == Reply(r, TRUE, [sub |-> e, role |-> role])

Purpose(r) == IF reqs[r].kind \in {"start", "register"} THEN "register" ELSE "login"
Taken(e, n) == account[e] # None \/ \E f \in Emails : account[f] # None /\ account[f].name = n
Named(e, n) == account[e].name # None /\ Folded[account[e].name] = Folded[n]
FormAt(tab) == [tab |-> tab, email |-> None, verify |-> FALSE, busy |-> FALSE, edited |-> FALSE]
Spinner(p) == [path |-> p, shows |-> "spinner"]
LoginPage == [path |-> "login", shows |-> "form"]

-----------------------------------------------------------------------------
Init ==
  /\ account = Seed
  /\ rows = {} /\ codes = 0 /\ mail = {}
  /\ issued = SeedTokens
  /\ reqs = [r \in Requests |-> Idle]
  /\ cookie = [b \in Browsers |-> None]
  /\ form = [b \in Browsers |-> FormAt("login")]
  /\ page = [b \in Browsers |-> LoginPage]
  /\ spent = {} /\ excused = {}
  /\ posts = 0 /\ faults = 0

-----------------------------------------------------------------------------
(***************************************************************************)
(* Registration (register/route.ts) and sign-in by code (send-code,        *)
(* verify-code).                                                           *)
(***************************************************************************)
\* Refused when the email or the name, as it is written, is taken.
Unique(r) ==
  /\ At(r, "unique")
  /\ IF Taken(reqs[r].email, reqs[r].name)
     THEN Refuse(r)
     ELSE Goto(r, IF reqs[r].code = 0 THEN "delete" ELSE "code") /\ UNCHANGED dbVars

\* DELETE of the address's codes; the INSERT is a statement of its own.
Delete(r) ==
  /\ At(r, "delete")
  /\ rows' = {x \in rows : x.email # reqs[r].email \/ x.purpose # Purpose(r)}
  /\ Goto(r, "insert")
  /\ UNCHANGED <<account, codes, mail, spent, excused>>

Insert(r) ==
  /\ At(r, "insert")
  /\ codes < MaxCodes
  /\ codes' = codes + 1
  /\ rows' = rows \cup {[email |-> reqs[r].email, purpose |-> Purpose(r), code |-> codes + 1,
                         used |-> FALSE, stale |-> FALSE]}
  /\ reqs' = [reqs EXCEPT ![r].at = "mail", ![r].code = codes + 1]
  /\ UNCHANGED <<account, mail, spent, excused>>

(***************************************************************************)
(* sendEmail tries its senders in turn.  The mail may leave although the   *)
(* route reports an error, when the answer of the mail service is lost.    *)
(* send-code hands over the address as it was typed: the model takes it    *)
(* for the mailbox of the address in lower case, without blanks.           *)
(***************************************************************************)
SendMail(r) ==
  /\ At(r, "mail")
  /\ \E left \in BOOLEAN : \E ok \in {left, FALSE} :
       /\ mail' = IF left
                  THEN mail \cup {[to |-> reqs[r].email, purpose |-> Purpose(r), code |-> reqs[r].code]}
                  ELSE mail
       /\ Reply(r, ok, None)
  /\ UNCHANGED <<account, rows, codes, spent, excused>>

\* ORDER BY created_at DESC LIMIT 1
\* Mutants: the newest code of whatever address; any code of the address; a used code.
MineOfAnyone(r) == {x \in rows : x.purpose = Purpose(r)}
Mine(r) == {x \in rows : x.email = reqs[r].email /\ x.purpose = Purpose(r)}
AnyOf(r) == Mine(r)
Newest(r) == {x \in Mine(r) : \A y \in Mine(r) : y.code <= x.code}
Matches(r, x) == ~x.used /\ ~x.stale /\ x.code = reqs[r].code

ReadCode(r) ==
  /\ At(r, "code")
  /\ IF \E x \in Newest(r) : Matches(r, x)
     THEN Goto(r, "mark") /\ UNCHANGED dbVars
     ELSE Refuse(r)

Spent(r) == [code |-> reqs[r].code, email |-> reqs[r].email, name |-> reqs[r].name]
\* UPDATE ... SET used = true, whatever happened since the row was read.
Mark(r) ==
  /\ At(r, "mark")
  /\ rows' = {IF x.code = reqs[r].code THEN [x EXCEPT !.used = TRUE] ELSE x : x \in rows}
  /\ spent' = spent \cup {Spent(r)}
  /\ Goto(r, IF reqs[r].kind = "register" THEN "create" ELSE "find")
  /\ UNCHANGED <<account, codes, mail, excused>>

\* verify-code: an account that is disabled is refused after its code was used up.
Find(r) ==
  LET e == reqs[r].email IN
  /\ At(r, "find")
  /\ IF account[e] = None
     THEN Goto(r, "create") /\ UNCHANGED dbVars
     ELSE IF account[e].active
          THEN Grant(r, e, account[e].role) /\ UNCHANGED dbVars
          ELSE Refuse(r)

\* Mutant: names are unique whatever their case.
CreateFolded(r) ==
  LET e == reqs[r].email
      n == reqs[r].name IN
  /\ At(r, "create")
  /\ IF account[e] # None \/ \E f \in Emails : account[f] # None /\ n # None /\ Named(f, n)
     THEN Refuse(r)
     ELSE /\ account' = [account EXCEPT ![e] =
                 [name |-> n, pw |-> reqs[r].pw, role |-> "user", active |-> TRUE]]
          /\ Grant(r, e, "user")
          /\ UNCHANGED <<rows, codes, mail, spent, excused>>

(***************************************************************************)
(* INSERT INTO users: refused by the unique columns.  The INSERT of        *)
(* verify-code names no username, so that it depends on the column.        *)
(***************************************************************************)
Create(r) ==
  LET e == reqs[r].email
      n == reqs[r].name IN
  /\ At(r, "create")
  /\ IF \/ n # None /\ Taken(e, n)
        \/ n = None /\ (account[e] # None \/ ~NamelessUsers)
     THEN Refuse(r)
     ELSE /\ account' = [account EXCEPT ![e] =
                 [name |-> n, pw |-> reqs[r].pw, role |-> "user", active |-> TRUE]]
          /\ Grant(r, e, "user")
          /\ UNCHANGED <<rows, codes, mail, spent, excused>>

Expire ==
  /\ \E x \in rows : ~x.stale /\ rows' = (rows \ {x}) \cup {[x EXCEPT !.stale = TRUE]}
  /\ UNCHANGED <<account, codes, mail, spent, excused, clientVars, reqs, posts, faults>>

-----------------------------------------------------------------------------
(***************************************************************************)
(* Sign-in by password (login/route.ts).  The email or the name in lower   *)
(* case may name several rows; the first one that comes is taken.          *)
(***************************************************************************)
Lookup(r) ==
  LET found == {e \in Emails : account[e] # None /\
                  (e = reqs[r].email \/ (reqs[r].name # None /\ Named(e, reqs[r].name)))} IN
  /\ At(r, "lookup")
  /\ \/ found = {} /\ Refuse(r)
     \/ \E e \in found :
          IF account[e].active /\ account[e].pw = reqs[r].pw
          THEN Grant(r, e, account[e].role) /\ UNCHANGED dbVars
          ELSE Refuse(r)

(***************************************************************************)
(* getSession (lib/auth.ts): the token names the user, the database says   *)
(* whether he is active and which role he has.  When the database does not *)
(* answer, the claims of the token count.                                  *)
(***************************************************************************)
AfterSession(kind) ==
  CASE kind = "me" -> "update" [] kind = "password" -> "compare" [] kind = "patch" -> "patch"
Admitted(kind, role) == kind # "patch" \/ role = "admin"

\* Mutant: the claims of the token are all that counts.
SessionTrusts(r) ==
  LET t == reqs[r].tok IN
  /\ At(r, "session")
  /\ IF t # None /\ Admitted(reqs[r].kind, t.role)
     THEN /\ reqs' = [reqs EXCEPT ![r].at = AfterSession(reqs[r].kind)]
          /\ UNCHANGED dbVars
     ELSE Refuse(r)

Session(r) ==
  LET t == reqs[r].tok IN
  /\ At(r, "session")
  /\ IF t # None /\ account[t.sub].active /\ Admitted(reqs[r].kind, account[t.sub].role)
     THEN /\ reqs' = [reqs EXCEPT ![r].at = AfterSession(reqs[r].kind)]
          /\ UNCHANGED dbVars
     ELSE Refuse(r)

SessionBlind(r) ==
  LET t == reqs[r].tok IN
  /\ At(r, "session")
  /\ faults < MaxFaults /\ faults' = faults + 1
  /\ IF t # None /\ Admitted(reqs[r].kind, t.role)
     THEN /\ reqs' = [reqs EXCEPT ![r].at = AfterSession(reqs[r].kind), ![r].blind = TRUE]
          /\ UNCHANGED dbVars
     ELSE Refuse(r)

\* password/route.ts: the old password is read, compared, and replaced in a second statement.
Compare(r) ==
  /\ At(r, "compare")
  /\ IF account[reqs[r].tok.sub].pw = reqs[r].pw
     THEN Goto(r, "update") /\ UNCHANGED dbVars
     ELSE Refuse(r)

\* The UPDATE of the password, or the SELECT of GET /api/auth/me.
Update(r) ==
  LET e == reqs[r].tok.sub IN
  /\ At(r, "update")
  /\ \/ /\ reqs[r].kind = "password"
        /\ \E p \in Passwords : account' = [account EXCEPT ![e].pw = p]
        /\ Reply(r, TRUE, None)
     \/ /\ reqs[r].kind = "me"
        /\ Reply(r, TRUE, [sub |-> e, role |-> account[e].role])
        /\ UNCHANGED account
  /\ UNCHANGED <<rows, codes, mail, spent, excused>>

(***************************************************************************)
(* admin/users/route.ts: an administrator sets status, role or name of a   *)
(* user, in one UPDATE, which the unique column of names may refuse.       *)
(* History: a request of that user which is under way is no longer barred  *)
(* when its rights change, and nobody answers for a name that is given up. *)
(***************************************************************************)
Patched(a) ==
  {b \in Account : /\ b # a /\ b.pw = a.pw
                   /\ b.name = None => NamelessUsers \/ a.name = None
                   /\ Cardinality({f \in {"name", "role", "active"} : b[f] # a[f]}) <= MaxChanges}
Holders(n) == {f \in Emails : account[f] # None /\ account[f].name = n}

Patch(r) ==
  LET e == reqs[r].email IN
  /\ At(r, "patch")
  /\ \E a \in Patched(account[e]) :
       /\ a.name = None \/ Holders(a.name) \subseteq {e}
       /\ account' = [account EXCEPT ![e] = a]
       /\ excused' = IF a.name = account[e].name THEN excused
                     ELSE excused \cup {s \in spent : s.name = account[e].name}
       /\ reqs' = [q \in Requests |->
                     IF q = r THEN Answer(r, TRUE, None)
                     ELSE IF /\ reqs[q].tok # None /\ reqs[q].tok.sub = e
                             /\ <<a.role, a.active>> # <<account[e].role, account[e].active>>
                          THEN [reqs[q] EXCEPT !.barred = FALSE]
                          ELSE reqs[q]]
  /\ UNCHANGED <<rows, codes, mail, spent>>

PatchRefused(r) ==
  /\ At(r, "patch") /\ \E n \in Names : Holders(n) \ {reqs[r].email} # {}
  /\ Refuse(r)

\* A statement fails, or the process dies: the client gets an error.
Fail(r) ==
  /\ reqs[r].at \notin {"idle", "reply", "mail", "session"}
  /\ faults < MaxFaults /\ faults' = faults + 1
  /\ Reply(r, FALSE, None)
  /\ excused' = IF At(r, "create") \/ At(r, "find") THEN excused \cup {Spent(r)} ELSE excused
  /\ UNCHANGED <<account, rows, codes, mail, spent>>

Handle(r) ==
  /\ \/ Unique(r) \/ Delete(r) \/ Insert(r) \/ SendMail(r) \/ ReadCode(r) \/ Mark(r)
     \/ Find(r) \/ Create(r) \/ Lookup(r) \/ Session(r) \/ Compare(r) \/ Update(r) \/ Patch(r)
     \/ PatchRefused(r)
  /\ UNCHANGED <<clientVars, posts, faults>>

Break(r) ==
  /\ SessionBlind(r) \/ Fail(r)
  /\ UNCHANGED <<clientVars, posts>>

-----------------------------------------------------------------------------
(***************************************************************************)
(* Clients.  late: the code was used, or a newer one written for its       *)
(* address, when the request was sent.  barred: its user was disabled, or  *)
(* not an administrator, when it was sent and has been since.  Both are    *)
(* history.                                                                *)
(***************************************************************************)
Late(e, purpose, c) ==
  \/ \E s \in spent : s.code = c
  \/ \E x \in rows : x.email = e /\ x.purpose = purpose /\ x.code > c
Barred(kind, t) == ~account[t.sub].active \/ ~Admitted(kind, account[t.sub].role)

Post(r, req) ==
  /\ At(r, "idle")
  /\ posts < MaxPosts /\ posts' = posts + 1
  /\ reqs' = [reqs EXCEPT ![r] = req]

Start(b, e, n, p) ==
  [Idle EXCEPT !.at = "unique", !.kind = "start", !.by = b, !.live = TRUE,
               !.email = e, !.name = n, !.pw = p]
Register(b, e, n, p, c) ==
  [Start(b, e, n, p) EXCEPT !.kind = "register", !.code = c, !.late = Late(e, "register", c)]
SignIn(b, e, n, p) ==
  [Idle EXCEPT !.at = "lookup", !.kind = "login", !.by = b, !.live = TRUE,
               !.email = e, !.name = n, !.pw = p]

\* Clients know the codes that were mailed, to whomever.
Mailed == {m.code : m \in mail}

\* A client that calls the API directly, or from the settings page and the admin console.
Call(r) ==
  /\ \/ \E e \in Emails, n \in Names, p \in Passwords :
          \/ Post(r, Start(None, e, n, p))
          \/ \E c \in Mailed : Post(r, Register(None, e, n, p, c))
     \/ \E e \in Emails :
          \/ Post(r, [Idle EXCEPT !.at = "delete", !.kind = "send", !.email = e])
          \/ \E c \in Mailed :
               Post(r, [Idle EXCEPT !.at = "code", !.kind = "verify", !.email = e, !.code = c,
                                    !.late = Late(e, "login", c)])
     \/ \E p \in Passwords :
          \/ \E e \in Emails : Post(r, SignIn(None, e, None, p))
          \/ \E n \in Names : Post(r, SignIn(None, None, n, p))
     \/ \E t \in issued :
          \/ \E p \in Passwords :
               Post(r, [Idle EXCEPT !.at = "session", !.kind = "password", !.pw = p, !.tok = t,
                                    !.barred = Barred("password", t)])
          \/ \E e \in {f \in Emails : account[f] # None} :
               Post(r, [Idle EXCEPT !.at = "session", !.kind = "patch", !.email = e, !.tok = t,
                                    !.barred = Barred("patch", t)])
  /\ UNCHANGED <<dbVars, clientVars, faults>>

Answered(r) ==
  /\ At(r, "reply") /\ reqs[r].by = None
  /\ issued' = IF reqs[r].ok /\ reqs[r].tok # None THEN issued \cup {reqs[r].tok} ELSE issued
  /\ reqs' = [reqs EXCEPT ![r] = Idle]
  /\ UNCHANGED <<dbVars, cookie, form, page, posts, faults>>

\* Seven days after it was issued a token is worth nothing, and its cookie gone.  That of a
\* client without a browser is as if it were not used any more.
TokenExpires ==
  /\ \E t \in {cookie[b] : b \in Browsers} \ {None} :
       /\ issued' = issued \ {t}
       /\ cookie' = [b \in Browsers |-> IF cookie[b] = t THEN None ELSE cookie[b]]
  /\ UNCHANGED <<dbVars, reqs, form, page, posts, faults>>

-----------------------------------------------------------------------------
(***************************************************************************)
(* The login page: the tabs, the form of each, and the answers to its      *)
(* requests.  The email may be edited while a request is under way.        *)
(***************************************************************************)
Muted(b) == [q \in Requests |-> IF reqs[q].by = b THEN [reqs[q] EXCEPT !.live = FALSE] ELSE reqs[q]]
OnForm(b) == page[b] = LoginPage
Filling(b) == OnForm(b) /\ form[b].tab = "register" /\ ~form[b].verify

SetTab(b) ==
  /\ OnForm(b)
  /\ form' = [form EXCEPT ![b] = FormAt(IF @.tab = "login" THEN "register" ELSE "login")]
  /\ reqs' = Muted(b)
  /\ UNCHANGED <<dbVars, issued, cookie, page, posts, faults>>

EditEmail(b) ==
  /\ Filling(b)
  /\ \E e \in Emails \ {form[b].email} :
       form' = [form EXCEPT ![b].email = e, ![b].edited = @ \/ form[b].busy]
  /\ UNCHANGED <<dbVars, reqs, issued, cookie, page, posts, faults>>

\* Mutant: the form asks for the code before the answer is there.
SendCodeEarly(b, r) ==
  /\ Filling(b) /\ ~form[b].busy /\ form[b].email # None
  /\ \E n \in Names, p \in Passwords : Post(r, Start(b, form[b].email, n, p))
  /\ form' = [form EXCEPT ![b].busy = TRUE, ![b].edited = FALSE, ![b].verify = TRUE]
  /\ UNCHANGED <<dbVars, issued, cookie, page, faults>>

SendCode(b, r) ==
  /\ Filling(b) /\ ~form[b].busy /\ form[b].email # None
  /\ \E n \in Names, p \in Passwords : Post(r, Start(b, form[b].email, n, p))
  /\ form' = [form EXCEPT ![b].busy = TRUE, ![b].edited = FALSE]
  /\ UNCHANGED <<dbVars, issued, cookie, page, faults>>

VerifyCode(b, r) ==
  /\ OnForm(b) /\ form[b].verify /\ ~form[b].busy
  /\ \E n \in Names, p \in Passwords, c \in Mailed : Post(r, Register(b, form[b].email, n, p, c))
  /\ form' = [form EXCEPT ![b].busy = TRUE]
  /\ UNCHANGED <<dbVars, issued, cookie, page, faults>>

DifferentEmail(b) ==
  /\ OnForm(b) /\ form[b].verify
  /\ form' = [form EXCEPT ![b].verify = FALSE]
  /\ UNCHANGED <<dbVars, reqs, issued, cookie, page, posts, faults>>

Submit(b, r) ==
  /\ OnForm(b) /\ form[b].tab = "login" /\ ~form[b].busy
  /\ \E p \in Passwords :
       \/ \E e \in Emails : Post(r, SignIn(b, e, None, p))
       \/ \E n \in Names : Post(r, SignIn(b, None, n, p))
  /\ form' = [form EXCEPT ![b].busy = TRUE]
  /\ UNCHANGED <<dbVars, issued, cookie, page, faults>>

\* An error, or an answer that is lost on its way.
Refused(b, r) ==
  /\ At(r, "reply") /\ reqs[r].by = b /\ reqs[r].kind \in FormKinds
  /\ \/ ~reqs[r].ok /\ UNCHANGED faults
     \/ reqs[r].ok /\ faults < MaxFaults /\ faults' = faults + 1
  /\ form' = IF reqs[r].live THEN [form EXCEPT ![b].busy = FALSE] ELSE form
  /\ reqs' = [reqs EXCEPT ![r] = Idle]
  /\ UNCHANGED <<dbVars, issued, cookie, page, posts>>

CodeSent(b, r) ==
  /\ At(r, "reply") /\ reqs[r].by = b /\ reqs[r].kind = "start" /\ reqs[r].ok
  /\ form' = IF reqs[r].live THEN [form EXCEPT ![b].busy = FALSE, ![b].verify = TRUE] ELSE form
  /\ reqs' = [reqs EXCEPT ![r] = Idle]
  /\ UNCHANGED <<dbVars, issued, cookie, page, posts, faults>>

(***************************************************************************)
(* Pages with a layout ask who the user is when they are mounted (useAuth) *)
(* and show a spinner until the answer.  A form that signed in goes to     *)
(* such a page, also when the form is no longer there.                     *)
(***************************************************************************)
WhoAmI(b, tok) == [Idle EXCEPT !.at = "session", !.kind = "me", !.by = b, !.live = TRUE, !.tok = tok]

SignedIn(b, r) ==
  LET t == reqs[r].tok IN
  /\ At(r, "reply") /\ reqs[r].by = b /\ reqs[r].kind \in {"login", "register"} /\ reqs[r].ok
  /\ cookie' = [cookie EXCEPT ![b] = t]
  /\ issued' = issued \cup {t}
  /\ page' = [page EXCEPT ![b] =
        Spinner(IF reqs[r].kind = "login" /\ t.role = "admin" THEN "admin" ELSE "dashboard")]
  /\ form' = [form EXCEPT ![b] = FormAt("login")]
  /\ reqs' = [Muted(b) EXCEPT ![r] = WhoAmI(b, t)]
  /\ UNCHANGED <<dbVars, posts, faults>>

(***************************************************************************)
(* middleware.ts: a path passes when one of the public paths is a prefix   *)
(* of it, or there is a cookie.                                            *)
(***************************************************************************)
Prefixes(path) == {"/"} \cup (IF path = "admin" THEN {"/admin"} ELSE {"/dashboard"})
PublicPaths == {"/", "/login", "/api/auth", "/api/public"}
Passes(path, tok) == Prefixes(path) \cap PublicPaths # {} \/ tok # None

Visit(b, r) ==
  /\ At(r, "idle") /\ posts < MaxPosts /\ posts' = posts + 1
  /\ \E path \in {"dashboard", "admin"} :
       IF Passes(path, cookie[b])
       THEN /\ page' = [page EXCEPT ![b] = Spinner(path)]
            /\ reqs' = [Muted(b) EXCEPT ![r] = WhoAmI(b, cookie[b])]
       ELSE page' = [page EXCEPT ![b] = LoginPage] /\ reqs' = Muted(b)
  /\ form' = [form EXCEPT ![b] = FormAt("login")]
  /\ UNCHANGED <<dbVars, issued, cookie, faults>>

\* The layouts: the console for a user, the admin console for an administrator.
Shows(path, ok, role) ==
  IF ~ok THEN LoginPage
  ELSE [path |-> path, shows |-> IF path = "admin" /\ role # "admin" THEN "denied" ELSE "console"]

Mounted(b, r) ==
  /\ At(r, "reply") /\ reqs[r].by = b /\ reqs[r].kind = "me"
  /\ page' = IF reqs[r].live
             THEN [page EXCEPT ![b] =
                     Shows(@.path, reqs[r].ok, IF reqs[r].ok THEN reqs[r].tok.role ELSE "user")]
             ELSE page
  /\ reqs' = [reqs EXCEPT ![r] = Idle]
  /\ UNCHANGED <<dbVars, issued, cookie, form, posts, faults>>

\* The cookie goes; the token stays valid.
Logout(b) ==
  /\ page[b].shows = "console"
  /\ cookie' = [cookie EXCEPT ![b] = None]
  /\ page' = [page EXCEPT ![b] = LoginPage]
  /\ UNCHANGED <<dbVars, reqs, issued, form, posts, faults>>

Browse(b) ==
  \/ SetTab(b) \/ EditEmail(b) \/ DifferentEmail(b) \/ Logout(b)
  \/ \E r \in Requests :
       \/ SendCode(b, r) \/ VerifyCode(b, r) \/ Submit(b, r) \/ Refused(b, r)
       \/ CodeSent(b, r) \/ SignedIn(b, r) \/ Visit(b, r) \/ Mounted(b, r)

Next ==
  \/ \E r \in Requests : Handle(r) \/ Break(r) \/ Call(r) \/ Answered(r)
  \/ \E b \in Browsers : Browse(b)
  \/ Expire \/ TokenExpires

Spec == Init /\ [][Next]_vars

-----------------------------------------------------------------------------
Request ==
  [at : Steps, kind : Kinds, by : Browsers \cup {None}, live : BOOLEAN,
   email : Emails \cup {None}, name : Names \cup {None}, pw : Passwords \cup {None}, code : Nat,
   tok : Token \cup {None}, ok : BOOLEAN,
   late : BOOLEAN, barred : BOOLEAN, blind : BOOLEAN]

\* Types; and a token names a user who exists.
TypeOK ==
  /\ account \in [Emails -> Account \cup {None}]
  /\ rows \subseteq Row
  /\ codes \in 0..MaxCodes
  /\ mail \subseteq [to : Emails, purpose : Purposes, code : Nat]
  /\ issued \subseteq Token
  /\ reqs \in [Requests -> Request]
  /\ cookie \in [Browsers -> Token \cup {None}]
  /\ form \in [Browsers -> [tab : {"login", "register"}, email : Emails \cup {None},
                            verify : BOOLEAN, busy : BOOLEAN, edited : BOOLEAN]]
  /\ page \in [Browsers -> [path : {"login", "dashboard", "admin"},
                            shows : {"form", "spinner", "console", "denied"}]]
  /\ spent \subseteq Spending
  /\ posts \in 0..MaxPosts /\ faults \in 0..MaxFaults
  /\ excused \subseteq Spending
  /\ \A t \in issued : account[t.sub] # None
  /\ \A b \in Browsers : cookie[b] # None => account[cookie[b].sub] # None
  /\ \A r \in Requests : reqs[r].tok # None => account[reqs[r].tok.sub] # None

(***************************************************************************)
(* Registration and auto-registration implement Enrolment: an account      *)
(* comes into being once, only after a code was mailed to its own address  *)
(* (register/route.ts, verify-code/route.ts).                              *)
(***************************************************************************)
E == INSTANCE Enrolment WITH
       stage <- [e \in Emails |-> IF account[e] # None THEN "member"
                                  ELSE IF \E m \in mail : m.to = e THEN "written"
                                  ELSE "unknown"]
Enrols == E!Spec

(***************************************************************************)
(* A code that was used up or replaced by a newer one when a request was   *)
(* sent does not let that request in, however requests for new codes       *)
(* interleave (send-code/route.ts:18, register/route.ts:62).               *)
(***************************************************************************)
OnlyNewestCode ==
  \A r \in Requests :
    reqs[r].kind \in {"register", "verify"} /\ reqs[r].at \in {"mark", "find", "create"}
      => ~reqs[r].late

(***************************************************************************)
(* A registration uses up its code one statement before the account is     *)
(* created, and two requests may both find the code unused: still, a code  *)
(* that was used leaves its email or its name registered, unless the       *)
(* database failed in between (register/route.ts:76-89), or whoever had    *)
(* the name was given another one since (admin/users/route.ts:75).         *)
(***************************************************************************)
SpentCodeHasAccount ==
  \A s \in spent :
    \/ s.name = None
    \/ Taken(s.email, s.name)
    \/ s \in excused
    \/ \E r \in Requests : At(r, "create") /\ reqs[r].code = s.code

(***************************************************************************)
(* A token outlives logout, a change of the password and the user's        *)
(* rights: nothing is done with it in a request that was sent while its    *)
(* user was disabled, or not an administrator, unless he has been changed  *)
(* since or the session was read without the database (lib/auth.ts:38).    *)
(***************************************************************************)
LockedOut ==
  \A r \in Requests :
    reqs[r].kind \in {"password", "patch"} /\ reqs[r].at \in {"compare", "update", "patch"}
      => ~reqs[r].barred \/ reqs[r].blind

(***************************************************************************)
(* The form that says a code was sent to an address says the truth, unless *)
(* the address was edited while the request was under way                  *)
(* (login/page.tsx:101, 168).                                              *)
(***************************************************************************)
FormTellsTruth ==
  \A b \in Browsers :
    form[b].verify /\ ~form[b].edited
      => \E m \in mail : m.to = form[b].email /\ m.purpose = "register"

=============================================================================
