---------------------------- MODULE AccountsProofs ---------------------------
(***************************************************************************)
(* For any numbers of requests, browsers, addresses and codes: accounts    *)
(* come from mailed codes only, a code that was used or replaced lets      *)
(* nobody in, a spent code leaves an account, barred users stay out, and   *)
(* the form that says a code was sent says the truth.                      *)
(***************************************************************************)
EXTENDS Accounts, TLAPS

(***************************************************************************)
(* The inductive invariant.  First, what is known of a request at each     *)
(* step of its handler.                                                    *)
(***************************************************************************)
CodeSteps == {"code", "mark", "find", "create"}

Shape(u) ==
  /\ reqs[u].at \in {"unique", "delete", "insert", "mail"} \cup CodeSteps => reqs[u].email \in Emails
  /\ reqs[u].at \in {"compare", "update", "patch"} => reqs[u].tok \in Token
  /\ reqs[u].at = "lookup" => reqs[u].kind = "login"
  /\ reqs[u].at = "session" => reqs[u].kind \in SessionKinds
  /\ reqs[u].at = "compare" => reqs[u].kind = "password"
  /\ reqs[u].at = "update" => reqs[u].kind \in {"password", "me"}
  /\ reqs[u].at = "patch" => reqs[u].kind = "patch"
  /\ reqs[u].kind = "patch" /\ reqs[u].at \in {"session", "patch"} =>
       reqs[u].email \in Emails /\ account[reqs[u].email] # None
  /\ reqs[u].at = "unique" => reqs[u].kind \in {"start", "register"}
  /\ reqs[u].at \in {"delete", "insert", "mail"} => reqs[u].kind \in {"start", "send"}
  /\ reqs[u].at \in CodeSteps => reqs[u].kind \in {"register", "verify"}
  /\ reqs[u].at = "unique" /\ reqs[u].kind = "start" => reqs[u].code = 0
  /\ reqs[u].kind = "verify" => reqs[u].name = None
  /\ reqs[u].at = "reply" /\ reqs[u].ok /\ reqs[u].kind \in {"login", "register"} =>
       reqs[u].tok \in Token

\* A client sends codes that were mailed; the one that is found in the row of an
\* address was mailed to that address.
Invited(u) ==
  /\ reqs[u].kind \in {"register", "verify"} /\ reqs[u].at \in {"unique"} \cup CodeSteps =>
       reqs[u].code \in Mailed
  /\ reqs[u].at \in {"mark", "find", "create"} => \E m \in mail : m.to = reqs[u].email
  /\ reqs[u].at = "mail" =>
       /\ reqs[u].code \in 1..codes
       /\ \A x \in rows : x.code = reqs[u].code => x.email = reqs[u].email
       /\ \A m \in mail : m.code = reqs[u].code => m.to = reqs[u].email
       /\ \A v \in Requests :
            reqs[v].at = "mail" /\ reqs[v].code = reqs[u].code => reqs[v].email = reqs[u].email
  /\ reqs[u].at = "reply" /\ reqs[u].ok /\ reqs[u].kind = "start" =>
       \E m \in mail : m.to = reqs[u].email /\ m.purpose = "register"

\* A code that was late when it was sent is not the newest unused one, and stays so.
Fresh(u) ==
  /\ reqs[u].late /\ reqs[u].at \in {"unique", "code"} =>
       \A x \in rows :
         x.email = reqs[u].email /\ x.purpose = Purpose(u) /\ x.code = reqs[u].code /\ ~x.used =>
           \E z \in rows : z.email = x.email /\ z.purpose = x.purpose /\ z.code > x.code
  /\ reqs[u].at \in {"mark", "find", "create"} => ~reqs[u].late

\* A user who was barred when a request was sent still is, until he is changed.
StillBarred(u) ==
  /\ reqs[u].barred /\ reqs[u].at = "session" /\ reqs[u].tok # None =>
       reqs[u].kind \in {"password", "patch"} /\ Barred(reqs[u].kind, reqs[u].tok)
  /\ reqs[u].at \in {"compare", "update", "patch"} => ~reqs[u].barred \/ reqs[u].blind

ReqInv(u) == Shape(u) /\ Invited(u) /\ Fresh(u) /\ StillBarred(u)

\* Codes are numbered; each belongs to one address.
CodeInv ==
  /\ \A x \in rows : x.code \in 1..codes
  /\ \A m \in mail : m.code \in 1..codes
  /\ \A s \in spent : s.code \in 1..codes
  /\ \A x \in rows, m \in mail : x.code = m.code => m.to = x.email
  /\ \A x, y \in rows : x.code = y.code => x.email = y.email
  /\ \A x \in rows, s \in spent : x.code = s.code => x.used

\* A spent code has its account, or the very request that spent it is about to
\* create one.
Covered(s) ==
  \/ s.name = None
  \/ Taken(s.email, s.name)
  \/ s \in excused
  \/ \E u \in Requests :
       /\ reqs[u].at = "create" /\ reqs[u].code = s.code
       /\ reqs[u].email = s.email /\ reqs[u].name = s.name

SpentInv == \A s \in spent : Covered(s)

\* The requests whose answer the form of b waits for: one at most.
Asks(u, b) == reqs[u].by = b /\ reqs[u].live /\ reqs[u].kind \in FormKinds

FormInv(b) ==
  /\ \A u \in Requests : Asks(u, b) =>
       /\ form[b].busy
       /\ \A v \in Requests : Asks(v, b) => v = u
       /\ reqs[u].kind = "start" =>
            form[b].email # None /\ (~form[b].edited => form[b].email = reqs[u].email)
  /\ form[b].verify => form[b].email # None
  /\ form[b].verify /\ ~form[b].edited =>
       \E m \in mail : m.to = form[b].email /\ m.purpose = "register"

IInv ==
  /\ TypeOK /\ CodeInv /\ SpentInv
  /\ \A u \in Requests : ReqInv(u)
  /\ \A b \in Browsers : FormInv(b)

-----------------------------------------------------------------------------
(* Types                                                                   *)

DbTypes ==
  /\ account \in [Emails -> Account \cup {None}]
  /\ rows \subseteq Row
  /\ codes \in 0..MaxCodes
  /\ mail \subseteq [to : Emails, purpose : Purposes, code : Nat]
  /\ spent \subseteq Spending
  /\ excused \subseteq Spending

ClientTypes ==
  /\ issued \subseteq Token
  /\ cookie \in [Browsers -> Token \cup {None}]
  /\ form \in [Browsers -> [tab : {"login", "register"}, email : Emails \cup {None},
                            verify : BOOLEAN, busy : BOOLEAN, edited : BOOLEAN]]
  /\ page \in [Browsers -> [path : {"login", "dashboard", "admin"},
                            shows : {"form", "spinner", "console", "denied"}]]

BoundTypes == posts \in 0..MaxPosts /\ faults \in 0..MaxFaults

Known ==
  /\ \A t \in issued : account[t.sub] # None
  /\ \A b \in Browsers : cookie[b] # None => account[cookie[b].sub] # None
  /\ \A r \in Requests : reqs[r].tok # None => account[reqs[r].tok.sub] # None

LEMMA TypeParts ==
  /\ TypeOK <=> /\ DbTypes /\ ClientTypes /\ BoundTypes
                /\ reqs \in [Requests -> Request] /\ Known
  /\ TypeOK' <=> /\ DbTypes' /\ ClientTypes' /\ BoundTypes'
                 /\ reqs' \in [Requests -> Request] /\ Known'
BY DEF TypeOK, DbTypes, ClientTypes, BoundTypes, Known

LEMMA IdleType == Idle \in Request
BY DEF Idle, Request, Steps, Kinds

\* A request with one field changed.
LEMMA Updates ==
  ASSUME NEW q \in Request
  PROVE  /\ \A x \in Steps : [q EXCEPT !.at = x] \in Request
         /\ \A x \in Kinds : [q EXCEPT !.kind = x] \in Request
         /\ \A x \in Browsers \cup {None} : [q EXCEPT !.by = x] \in Request
         /\ \A x \in Emails \cup {None} : [q EXCEPT !.email = x] \in Request
         /\ \A x \in Names \cup {None} : [q EXCEPT !.name = x] \in Request
         /\ \A x \in Passwords \cup {None} : [q EXCEPT !.pw = x] \in Request
         /\ \A x \in Nat : [q EXCEPT !.code = x] \in Request
         /\ \A x \in Token \cup {None} : [q EXCEPT !.tok = x] \in Request
         /\ \A x \in BOOLEAN :
              /\ [q EXCEPT !.live = x] \in Request /\ [q EXCEPT !.ok = x] \in Request
              /\ [q EXCEPT !.late = x] \in Request /\ [q EXCEPT !.barred = x] \in Request
              /\ [q EXCEPT !.blind = x] \in Request
BY DEF Request

\* The requests that clients send.
LEMMA PostTypes ==
  ASSUME NEW b \in Browsers \cup {None}
  PROVE  /\ \A e \in Emails, n \in Names, p \in Passwords :
              /\ Start(b, e, n, p) \in Request
              /\ \A c \in Nat : Register(b, e, n, p, c) \in Request
         /\ \A e \in Emails \cup {None}, n \in Names \cup {None}, p \in Passwords :
              SignIn(b, e, n, p) \in Request
         /\ \A t \in Token \cup {None} : WhoAmI(b, t) \in Request
         /\ \A e \in Emails :
              [Idle EXCEPT !.at = "delete", !.kind = "send", !.email = e] \in Request
         /\ \A e \in Emails, c \in Nat, late \in BOOLEAN :
              [Idle EXCEPT !.at = "code", !.kind = "verify", !.email = e, !.code = c,
                           !.late = late] \in Request
         /\ \A p \in Passwords, t \in Token, barred \in BOOLEAN :
              [Idle EXCEPT !.at = "session", !.kind = "password", !.pw = p, !.tok = t,
                           !.barred = barred] \in Request
         /\ \A e \in Emails, t \in Token, barred \in BOOLEAN :
              [Idle EXCEPT !.at = "session", !.kind = "patch", !.email = e, !.tok = t,
                           !.barred = barred] \in Request
<1> USE IdleType, Updates
<1>1. /\ {"unique", "lookup", "session", "delete", "code"} \subseteq Steps
      /\ {"start", "register", "login", "me", "send", "verify", "password", "patch"} \subseteq Kinds
  BY DEF Steps, Kinds, FormKinds, SessionKinds
<1>2. ASSUME NEW at \in Steps, NEW kind \in Kinds
      PROVE  /\ [Idle EXCEPT !.at = at, !.kind = kind, !.by = b, !.live = TRUE] \in Request
             /\ [Idle EXCEPT !.at = at, !.kind = kind] \in Request
  OBVIOUS
<1>3. ASSUME NEW at \in Steps, NEW kind \in Kinds, NEW e \in Emails \cup {None},
             NEW n \in Names \cup {None}, NEW p \in Passwords
      PROVE  [Idle EXCEPT !.at = at, !.kind = kind, !.by = b, !.live = TRUE,
                          !.email = e, !.name = n, !.pw = p] \in Request
  <2> DEFINE q == [Idle EXCEPT !.at = at, !.kind = kind, !.by = b, !.live = TRUE]
  <2>1. q \in Request
    BY <1>2
  <2> HIDE DEF q
  <2>2. [q EXCEPT !.email = e, !.name = n, !.pw = p] \in Request
    BY <2>1
  <2> QED
    BY <2>2 DEF q
<1>4. ASSUME NEW e \in Emails, NEW n \in Names, NEW p \in Passwords
      PROVE  Start(b, e, n, p) \in Request
  BY <1>1, <1>3 DEF Start
<1>5. ASSUME NEW e \in Emails, NEW n \in Names, NEW p \in Passwords, NEW c \in Nat
      PROVE  Register(b, e, n, p, c) \in Request
  <2>1. Late(e, "register", c) \in BOOLEAN
    BY DEF Late
  <2> QED
    BY <1>1, <1>4, <2>1 DEF Register
<1>6. ASSUME NEW e \in Emails \cup {None}, NEW n \in Names \cup {None}, NEW p \in Passwords
      PROVE  SignIn(b, e, n, p) \in Request
  <2>1. "lookup" \in Steps /\ "login" \in Kinds
    BY <1>1
  <2>2. [Idle EXCEPT !.at = "lookup", !.kind = "login", !.by = b, !.live = TRUE,
                     !.email = e, !.name = n, !.pw = p] \in Request
    BY <1>3, <2>1
  <2> QED
    BY <2>2 DEF SignIn
<1>7. ASSUME NEW t \in Token \cup {None}
      PROVE  WhoAmI(b, t) \in Request
  <2> DEFINE q == [Idle EXCEPT !.at = "session", !.kind = "me", !.by = b, !.live = TRUE]
  <2>1. q \in Request
    BY <1>1, <1>2
  <2> HIDE DEF q
  <2>2. [q EXCEPT !.tok = t] \in Request
    BY <2>1
  <2> QED
    BY <2>2 DEF q, WhoAmI
<1>8. ASSUME NEW e \in Emails
      PROVE  [Idle EXCEPT !.at = "delete", !.kind = "send", !.email = e] \in Request
  BY <1>1
<1>9. ASSUME NEW e \in Emails, NEW c \in Nat, NEW late \in BOOLEAN
      PROVE  [Idle EXCEPT !.at = "code", !.kind = "verify", !.email = e, !.code = c,
                          !.late = late] \in Request
  <2> DEFINE q == [Idle EXCEPT !.at = "code", !.kind = "verify"]
  <2>1. q \in Request
    BY <1>1
  <2> HIDE DEF q
  <2>2. [q EXCEPT !.email = e, !.code = c, !.late = late] \in Request
    BY <2>1
  <2> QED
    BY <2>2 DEF q
<1>10. ASSUME NEW p \in Passwords, NEW t \in Token, NEW barred \in BOOLEAN
       PROVE  [Idle EXCEPT !.at = "session", !.kind = "password", !.pw = p, !.tok = t,
                           !.barred = barred] \in Request
  <2> DEFINE q == [Idle EXCEPT !.at = "session", !.kind = "password"]
  <2>1. q \in Request
    BY <1>1
  <2> HIDE DEF q
  <2>2. [q EXCEPT !.pw = p, !.tok = t, !.barred = barred] \in Request
    BY <2>1
  <2> QED
    BY <2>2 DEF q
<1>11. ASSUME NEW e \in Emails, NEW t \in Token, NEW barred \in BOOLEAN
       PROVE  [Idle EXCEPT !.at = "session", !.kind = "patch", !.email = e, !.tok = t,
                           !.barred = barred] \in Request
  <2> DEFINE q == [Idle EXCEPT !.at = "session", !.kind = "patch"]
  <2>1. q \in Request
    BY <1>1
  <2> HIDE DEF q
  <2>2. [q EXCEPT !.email = e, !.tok = t, !.barred = barred] \in Request
    BY <2>1
  <2> QED
    BY <2>2 DEF q
<1> QED
  BY <1>4, <1>5, <1>6, <1>7, <1>8, <1>9, <1>10, <1>11

\* What the steps of a handler make of its request.
LEMMA ReqTypes ==
  ASSUME TypeOK, NEW r \in Requests
  PROVE  /\ \A step \in Steps : Goto(r, step) => reqs' \in [Requests -> Request]
         /\ \A ok \in BOOLEAN, tok \in Token \cup {None} :
              /\ Answer(r, ok, tok) \in Request
              /\ Reply(r, ok, tok) => reqs' \in [Requests -> Request]
         /\ Refuse(r) => reqs' \in [Requests -> Request]
         /\ \A e \in Emails, role \in Roles : Grant(r, e, role) => reqs' \in [Requests -> Request]
         /\ \A req \in Request : Post(r, req) => reqs' \in [Requests -> Request]
<1>1. reqs[r] \in Request /\ reqs \in [Requests -> Request]
  BY DEF TypeOK
<1>2. ASSUME NEW step \in Steps, Goto(r, step)
      PROVE  reqs' \in [Requests -> Request]
  <2>1. [reqs[r] EXCEPT !.at = step] \in Request
    BY <1>1 DEF Request
  <2> QED
    BY <1>1, <1>2, <2>1 DEF Goto
<1>3. ASSUME NEW ok \in BOOLEAN, NEW tok \in Token \cup {None}
      PROVE  Answer(r, ok, tok) \in Request
  <2>1. /\ reqs[r].kind \in Kinds /\ reqs[r].by \in Browsers \cup {None}
        /\ reqs[r].live \in BOOLEAN /\ reqs[r].email \in Emails \cup {None} /\ "reply" \in Steps
    BY <1>1 DEF Request, Steps
  <2> DEFINE q1 == [Idle EXCEPT !.at = "reply", !.kind = reqs[r].kind, !.by = reqs[r].by]
             q2 == [q1 EXCEPT !.live = reqs[r].live, !.email = reqs[r].email, !.ok = ok]
  <2>2. q1 \in Request
    BY <2>1, IdleType, Updates
  <2> HIDE DEF q1
  <2>3. q2 \in Request
    BY <2>1, <2>2, Updates
  <2> HIDE DEF q2
  <2>4. [q2 EXCEPT !.tok = tok] \in Request
    BY <2>3, Updates
  <2> QED
    BY <2>4 DEF q1, q2, Answer
<1>4. ASSUME NEW ok \in BOOLEAN, NEW tok \in Token \cup {None}, Reply(r, ok, tok)
      PROVE  reqs' \in [Requests -> Request]
  BY <1>1, <1>3, <1>4 DEF Reply
<1>5. ASSUME Refuse(r)
      PROVE  reqs' \in [Requests -> Request]
  BY <1>4, <1>5 DEF Refuse
<1>6. ASSUME NEW e \in Emails, NEW role \in Roles, Grant(r, e, role)
      PROVE  reqs' \in [Requests -> Request]
  <2>1. [sub |-> e, role |-> role] \in Token
    BY DEF Token
  <2> QED
    BY <1>4, <1>6, <2>1 DEF Grant
<1>7. ASSUME NEW req \in Request, Post(r, req)
      PROVE  reqs' \in [Requests -> Request]
  BY <1>1, <1>7 DEF Post
<1> QED
  BY <1>2, <1>3, <1>4, <1>5, <1>6, <1>7

-----------------------------------------------------------------------------
(* The tables                                                              *)

\* What every step does to the tables and the mail: accounts stay; who gives up a name
\* excuses those who spent codes for it; mail, used codes and excuses are not forgotten.
Grows ==
  /\ \A e \in Emails : account[e] # None =>
       /\ account'[e] # None
       /\ account'[e].name = account[e].name
            \/ \A s \in spent : s.name = account[e].name => s \in excused'
  /\ mail \subseteq mail' /\ spent \subseteq spent' /\ excused \subseteq excused'
  /\ codes <= codes'

\* A user's rights change only together with the memory of who was barred.
Rights ==
  \A e \in Emails : account[e] # None =>
    \/ account'[e].active = account[e].active /\ account'[e].role = account[e].role
    \/ \A u \in Requests : reqs[u].tok # None /\ reqs[u].tok.sub = e => ~reqs'[u].barred

\* A row is an old one, with all the rows of its address and purpose that were
\* there, or has a new code.
RowsMove ==
  \A x \in rows' :
    \/ x.code = codes' /\ codes' = codes + 1
    \/ /\ \E y \in rows : /\ y.email = x.email /\ y.purpose = x.purpose /\ y.code = x.code
                          /\ y.used => x.used
       /\ \A z \in rows : z.email = x.email /\ z.purpose = x.purpose =>
            \E w \in rows' : w.email = z.email /\ w.purpose = z.purpose /\ w.code = z.code

Tables == DbTypes' /\ CodeInv' /\ Grows /\ Rights /\ RowsMove

LEMMA TablesFrame ==
  ASSUME IInv, UNCHANGED dbVars
  PROVE  Tables
<1> USE DEF dbVars
<1>1. DbTypes' /\ CodeInv'
  BY DEF IInv, TypeOK, DbTypes, CodeInv
<1>2. Grows /\ Rights
  BY DEF IInv, TypeOK, Grows, Rights
<1>3. RowsMove
  BY DEF RowsMove
<1> QED
  BY <1>1, <1>2, <1>3 DEF Tables

\* The steps that touch neither.
LEMMA TablesKept ==
  ASSUME Next
  PROVE  \/ UNCHANGED dbVars
         \/ Expire
         \/ \E r \in Requests :
              \/ Delete(r) \/ Insert(r) \/ SendMail(r) \/ Mark(r) \/ Create(r) \/ Update(r)
              \/ Patch(r) \/ Fail(r)
<1>1. ASSUME NEW r \in Requests, Unique(r) \/ ReadCode(r) \/ Find(r)
             \/ Lookup(r) \/ Session(r) \/ Compare(r) \/ PatchRefused(r)
             \/ SessionBlind(r) \/ Call(r) \/ Answered(r)
      PROVE  UNCHANGED dbVars
  BY <1>1 DEF Unique, ReadCode, Find, Lookup, Session, Compare, PatchRefused,
     SessionBlind, Call, Answered, Refuse
<1>2. ASSUME NEW b \in Browsers, Browse(b)
      PROVE  UNCHANGED dbVars
  BY <1>2 DEF Browse, SetTab, EditEmail, DifferentEmail, Logout, SendCode,
     VerifyCode, Submit, Refused, CodeSent, SignedIn, Visit, Mounted
<1>3. TokenExpires => UNCHANGED dbVars
  BY DEF TokenExpires
<1> QED
  BY <1>1, <1>2, <1>3 DEF Next, Handle, Break

LEMMA TablesStep ==
  ASSUME IInv, Next
  PROVE  Tables
<1>1. ASSUME UNCHANGED dbVars PROVE Tables
  BY <1>1, TablesFrame
<1>2. ASSUME Expire PROVE Tables
  <2>1. DbTypes'
    <3>1. PICK x \in rows : rows' = (rows \ {x}) \cup {[x EXCEPT !.stale = TRUE]}
      BY <1>2 DEF Expire
    <3>2. [x EXCEPT !.stale = TRUE] \in Row
      BY DEF IInv, TypeOK, Row
    <3>3. rows' \subseteq Row
      BY <3>1, <3>2 DEF IInv, TypeOK
    <3> QED
      BY <1>2, <3>3 DEF Expire, IInv, TypeOK, DbTypes
  <2>2. CodeInv'
    <3>1. PICK x \in rows : rows' = (rows \ {x}) \cup {[x EXCEPT !.stale = TRUE]}
      BY <1>2 DEF Expire
    <3> DEFINE y == [x EXCEPT !.stale = TRUE]
    <3>2. y.email = x.email /\ y.code = x.code /\ y.used = x.used
      BY DEF IInv, TypeOK, Row
    <3>3. rows' = (rows \ {x}) \cup {y}
      BY <3>1
    <3> HIDE DEF y
    <3>4. \A w \in rows' : \E z \in rows : w.email = z.email /\ w.code = z.code /\ w.used = z.used
      BY <3>2, <3>3
    <3> QED
      BY <1>2, <3>4 DEF Expire, IInv, CodeInv
  <2>3. Grows /\ Rights
    BY <1>2 DEF Expire, IInv, TypeOK, Grows, Rights
  <2>4. RowsMove
    <3>1. PICK x \in rows : rows' = (rows \ {x}) \cup {[x EXCEPT !.stale = TRUE]}
      BY <1>2 DEF Expire
    <3> DEFINE y == [x EXCEPT !.stale = TRUE]
    <3>2. y.email = x.email /\ y.purpose = x.purpose /\ y.code = x.code /\ y.used = x.used
      BY DEF IInv, TypeOK, Row
    <3>3. rows' = (rows \ {x}) \cup {y}
      BY <3>1
    <3> HIDE DEF y
    <3>4. \A z \in rows : \E w \in rows' :
             /\ w.email = z.email /\ w.purpose = z.purpose /\ w.code = z.code /\ w.used = z.used
      BY <3>2, <3>3
    <3>5. \A w \in rows' : \E z \in rows :
             /\ w.email = z.email /\ w.purpose = z.purpose /\ w.code = z.code /\ w.used = z.used
      BY <3>2, <3>3
    <3> QED
      BY <3>4, <3>5 DEF RowsMove
  <2> QED
    BY <2>1, <2>2, <2>3, <2>4 DEF Tables
<1>3. ASSUME NEW r \in Requests, Delete(r) PROVE Tables
  <2>1. DbTypes'
    BY <1>3 DEF Delete, IInv, TypeOK, DbTypes
  <2>2. CodeInv'
    BY <1>3 DEF Delete, IInv, CodeInv
  <2>3. Grows /\ Rights
    BY <1>3 DEF Delete, IInv, TypeOK, Grows, Rights
  <2>4. RowsMove
    BY <1>3 DEF Delete, RowsMove
  <2> QED
    BY <2>1, <2>2, <2>3, <2>4 DEF Tables
<1>4. ASSUME NEW r \in Requests, Insert(r) PROVE Tables
  <2> DEFINE x == [email |-> reqs[r].email, purpose |-> Purpose(r), code |-> codes + 1,
                   used |-> FALSE, stale |-> FALSE]
  <2>1. codes \in Nat /\ codes' = codes + 1 /\ codes' \in 0..MaxCodes
    BY <1>4, AccountsAssumption DEF Insert, IInv, TypeOK
  <2>2. reqs[r].email \in Emails /\ Purpose(r) \in Purposes
    BY <1>4 DEF Insert, At, IInv, ReqInv, Shape, Purpose, Purposes
  <2>3. x \in Row /\ x.email = reqs[r].email /\ x.code = codes + 1
    BY <2>1, <2>2 DEF Row
  <2>4. rows' = rows \cup {x} /\ UNCHANGED <<account, mail, spent, excused>>
    BY <1>4 DEF Insert
  <2> HIDE DEF x
  <2>5. DbTypes'
    BY <2>1, <2>3, <2>4 DEF IInv, TypeOK, DbTypes
  <2>6. CodeInv'
    <3>1. /\ \A y \in rows' : y.code \in 1..codes'
          /\ \A m \in mail' : m.code \in 1..codes /\ m.code \in 1..codes'
          /\ \A s \in spent' : s.code \in 1..codes /\ s.code \in 1..codes'
      BY <2>1, <2>3, <2>4 DEF IInv, CodeInv
    <3>2. \A y \in rows : y.code # x.code
      BY <2>1, <2>3 DEF IInv, CodeInv
    <3>3. (\A m \in mail' : m.code # x.code) /\ \A s \in spent' : s.code # x.code
      BY <2>1, <2>3, <3>1
    <3> QED
      BY <2>4, <3>1, <3>2, <3>3 DEF IInv, CodeInv
  <2>7. Grows /\ Rights
    BY <2>1, <2>4 DEF IInv, TypeOK, Grows, Rights
  <2>8. RowsMove
    BY <2>1, <2>3, <2>4 DEF RowsMove
  <2> QED
    BY <2>5, <2>6, <2>7, <2>8 DEF Tables
<1>5. ASSUME NEW r \in Requests, SendMail(r) PROVE Tables
  <2> DEFINE m0 == [to |-> reqs[r].email, purpose |-> Purpose(r), code |-> reqs[r].code]
  <2>1. mail' = mail \/ mail' = mail \cup {m0}
    BY <1>5 DEF SendMail
  <2>2. UNCHANGED <<account, rows, codes, spent, excused>>
    BY <1>5 DEF SendMail
  <2>3. m0 \in [to : Emails, purpose : Purposes, code : Nat]
    BY <1>5 DEF SendMail, At, IInv, TypeOK, ReqInv, Shape, Purpose, Purposes, Request
  <2>4. /\ m0.code \in 1..codes
        /\ \A x \in rows : x.code = m0.code => m0.to = x.email
    BY <1>5 DEF SendMail, At, IInv, ReqInv, Invited
  <2> HIDE DEF m0
  <2>5. DbTypes'
    BY <2>1, <2>2, <2>3 DEF IInv, TypeOK, DbTypes
  <2>6. CodeInv'
    BY <2>1, <2>2, <2>4 DEF IInv, CodeInv
  <2>7. Grows /\ Rights
    BY <2>1, <2>2 DEF IInv, TypeOK, Grows, Rights
  <2>8. RowsMove
    BY <2>2 DEF RowsMove
  <2> QED
    BY <2>5, <2>6, <2>7, <2>8 DEF Tables
<1>6. ASSUME NEW r \in Requests, Mark(r) PROVE Tables
  <2> DEFINE s0 == Spent(r)
             Used(x) == IF x.code = reqs[r].code THEN [x EXCEPT !.used = TRUE] ELSE x
  <2>1. /\ rows' = {Used(x) : x \in rows} /\ spent' = spent \cup {s0}
        /\ UNCHANGED <<account, codes, mail, excused>>
    BY <1>6 DEF Mark
  <2>2. s0 \in Spending /\ s0.code = reqs[r].code
    BY <1>6 DEF Mark, Spent, Spending, At, CodeSteps, IInv, TypeOK, ReqInv, Shape, Request
  <2>3. s0.code \in 1..codes
    BY <1>6, <2>2 DEF Mark, At, CodeSteps, IInv, ReqInv, Shape, Invited, Mailed, CodeInv
  <2>4. \A x \in rows : /\ Used(x) \in Row /\ Used(x).email = x.email
                        /\ Used(x).purpose = x.purpose /\ Used(x).code = x.code
                        /\ x.used => Used(x).used
                        /\ x.code = s0.code => Used(x).used
    BY <2>2 DEF IInv, TypeOK, Row
  <2> HIDE DEF s0, Used
  <2>5. DbTypes'
    BY <2>1, <2>2, <2>4 DEF IInv, TypeOK, DbTypes
  <2>6. CodeInv'
    BY <2>1, <2>3, <2>4 DEF IInv, CodeInv
  <2>7. Grows /\ Rights
    BY <2>1 DEF IInv, TypeOK, Grows, Rights
  <2>8. RowsMove
    BY <2>1, <2>4 DEF RowsMove
  <2> QED
    BY <2>5, <2>6, <2>7, <2>8 DEF Tables
<1>7. ASSUME UNCHANGED <<rows, codes, mail, spent>>,
             account' \in [Emails -> Account \cup {None}], excused' \subseteq Spending,
             Rights, excused \subseteq excused',
             \A e \in Emails : account[e] # None =>
               account'[e] # None /\ account'[e].name = account[e].name
      PROVE  Tables
  <2>1. DbTypes' /\ CodeInv'
    BY <1>7 DEF IInv, TypeOK, DbTypes, CodeInv
  <2>2. Grows /\ RowsMove
    BY <1>7 DEF Grows, RowsMove, IInv, TypeOK
  <2> QED
    BY <1>7, <2>1, <2>2 DEF Tables
<1>8. ASSUME NEW r \in Requests, Create(r) PROVE Tables
  <2>1. CASE UNCHANGED dbVars
    BY <2>1, TablesFrame
  <2>2. CASE ~UNCHANGED dbVars
    <3> DEFINE e == reqs[r].email
               a == [name |-> reqs[r].name, pw |-> reqs[r].pw, role |-> "user", active |-> TRUE]
    <3>1. e \in Emails /\ account[e] = None /\ account' = [account EXCEPT ![e] = a]
          /\ UNCHANGED <<rows, codes, mail, spent, excused>>
      BY <1>8, <2>2
         DEF Create, At, CodeSteps, Refuse, Taken, IInv, ReqInv, Shape
    <3>2. a \in Account
      BY DEF IInv, TypeOK, Request, Account, Roles
    <3> HIDE DEF a, e
    <3>3. account' \in [Emails -> Account \cup {None}]
      BY <3>1, <3>2 DEF IInv, TypeOK
    <3>4. \A f \in Emails : account[f] # None => account'[f] = account[f]
      BY <3>1 DEF IInv, TypeOK
    <3> QED
      BY <1>7, <3>1, <3>3, <3>4 DEF Rights, IInv, TypeOK
  <2> QED
    BY <2>1, <2>2
<1>9. ASSUME NEW r \in Requests, NEW e \in Emails, NEW a \in Account, account[e] # None,
             account' = [account EXCEPT ![e] = a], a.name = account[e].name,
             UNCHANGED <<rows, codes, mail, spent, excused>>,
             \/ a.active = account[e].active /\ a.role = account[e].role
             \/ \A u \in Requests : reqs[u].tok # None /\ reqs[u].tok.sub = e => ~reqs'[u].barred
      PROVE  Tables
  <2>1. account' \in [Emails -> Account \cup {None}] /\ excused' \subseteq Spending
    BY <1>9 DEF IInv, TypeOK
  <2>2. account'[e] = a /\ a # None /\ \A f \in Emails \ {e} : account'[f] = account[f]
    BY <1>9, AccountsAssumption DEF IInv, TypeOK
  <2> QED
    BY <1>7, <1>9, <2>1, <2>2 DEF Rights
<1>10. ASSUME NEW r \in Requests, Update(r) PROVE Tables
  <2> DEFINE e == reqs[r].tok.sub
  <2>1. reqs[r].tok \in Token
    BY <1>10 DEF Update, At, IInv, ReqInv, Shape
  <2>2. reqs[r].tok # None
    BY <2>1, AccountsAssumption
  <2>3. e \in Emails /\ account[e] # None
    BY <2>1, <2>2 DEF Token, IInv, TypeOK
  <2>4. account[e] \in Account
    BY <2>3 DEF IInv, TypeOK
  <2>5. UNCHANGED <<rows, codes, mail, spent, excused>>
    BY <1>10 DEF Update
  <2> HIDE DEF e
  <2>6. CASE account' = account
    BY <2>5, <2>6, TablesFrame DEF dbVars
  <2>7. ASSUME NEW p \in Passwords, account' = [account EXCEPT ![e].pw = p]
        PROVE  Tables
    <3> DEFINE a == [account[e] EXCEPT !.pw = p]
    <3>1. /\ a \in Account /\ a.name = account[e].name
          /\ a.active = account[e].active /\ a.role = account[e].role
      BY <2>4 DEF Account
    <3>2. account' = [account EXCEPT ![e] = a]
      BY <2>3, <2>7 DEF IInv, TypeOK
    <3> HIDE DEF a
    <3> QED
      BY <1>9, <2>3, <2>5, <3>1, <3>2
  <2> QED
    BY <1>10, <2>6, <2>7 DEF Update, e
<1>11. ASSUME NEW r \in Requests, Patch(r) PROVE Tables
  <2> DEFINE e == reqs[r].email
  <2>1. e \in Emails /\ account[e] # None
    BY <1>11 DEF Patch, At, IInv, ReqInv, Shape
  <2>2. PICK a \in Patched(account[e]) :
          /\ account' = [account EXCEPT ![e] = a]
          /\ excused' = IF a.name = account[e].name THEN excused
                        ELSE excused \cup {s \in spent : s.name = account[e].name}
          /\ reqs' = [q \in Requests |->
                        IF q = r THEN Answer(r, TRUE, None)
                        ELSE IF /\ reqs[q].tok # None /\ reqs[q].tok.sub = e
                                /\ <<a.role, a.active>> # <<account[e].role, account[e].active>>
                             THEN [reqs[q] EXCEPT !.barred = FALSE]
                             ELSE reqs[q]]
    BY <1>11 DEF Patch
  <2>3. UNCHANGED <<rows, codes, mail, spent>>
    BY <1>11 DEF Patch
  <2>4. a \in Account /\ a # None
    BY AccountsAssumption DEF Patched
  <2>5. \/ a.role = account[e].role /\ a.active = account[e].active
        \/ \A u \in Requests : reqs[u].tok # None /\ reqs[u].tok.sub = e => ~reqs'[u].barred
    <3>1. Answer(r, TRUE, None).barred = FALSE
      BY DEF Answer, Idle
    <3>2. \A u \in Requests : reqs[u] \in Request
      BY DEF IInv, TypeOK
    <3> QED
      BY <2>2, <3>1, <3>2 DEF Request
  <2> HIDE DEF e
  <2>6. account'[e] = a /\ \A f \in Emails \ {e} : account'[f] = account[f]
    BY <2>1, <2>2 DEF IInv, TypeOK
  <2>7. account' \in [Emails -> Account \cup {None}]
    BY <2>2, <2>4 DEF IInv, TypeOK
  <2>8. /\ excused \subseteq excused' /\ excused' \subseteq Spending
        /\ a.name = account[e].name \/ \A s \in spent : s.name = account[e].name => s \in excused'
    BY <2>2 DEF IInv, TypeOK
  <2>9. Grows
    BY <2>1, <2>3, <2>4, <2>6, <2>8 DEF Grows, IInv, TypeOK
  <2>10. Rights
    BY <2>5, <2>6 DEF Rights
  <2>11. RowsMove
    BY <2>3 DEF RowsMove
  <2>12. DbTypes' /\ CodeInv'
    BY <2>3, <2>7, <2>8 DEF IInv, TypeOK, DbTypes, CodeInv
  <2> QED
    BY <2>9, <2>10, <2>11, <2>12 DEF Tables
<1>12. ASSUME NEW r \in Requests, Fail(r) PROVE Tables
  <2>1. excused' \subseteq Spending /\ excused \subseteq excused'
    <3>1. reqs[r] \in Request /\ excused \subseteq Spending
      BY DEF IInv, TypeOK
    <3>2. At(r, "create") \/ At(r, "find") => reqs[r].email \in Emails
      BY DEF At, IInv, ReqInv, Shape, CodeSteps
    <3>3. At(r, "create") \/ At(r, "find") => Spent(r) \in Spending
      BY <3>1, <3>2 DEF Spent, Spending, Request
    <3> QED
      BY <1>12, <3>1, <3>3 DEF Fail
  <2> QED
    BY <1>7, <1>12, <2>1 DEF Fail, Rights, IInv, TypeOK
<1> QED
  BY <1>1, <1>2, <1>3, <1>4, <1>5, <1>6, <1>8, <1>10, <1>11, <1>12, TablesKept

-----------------------------------------------------------------------------
(* The other requests                                                      *)

\* A request that does not move: it may be muted, or its bar forgotten.
Kept(u) ==
  /\ reqs'[u].at = reqs[u].at /\ reqs'[u].kind = reqs[u].kind /\ reqs'[u].by = reqs[u].by
  /\ reqs'[u].email = reqs[u].email /\ reqs'[u].name = reqs[u].name
  /\ reqs'[u].code = reqs[u].code /\ reqs'[u].tok = reqs[u].tok /\ reqs'[u].ok = reqs[u].ok
  /\ reqs'[u].late = reqs[u].late /\ reqs'[u].blind = reqs[u].blind
  /\ reqs'[u].live => reqs[u].live
  /\ reqs'[u].barred => reqs[u].barred

Same(r) == \A u \in Requests \ {r} : reqs'[u] = reqs[u]

LEMMA SameKept ==
  ASSUME NEW r \in Requests, Same(r)
  PROVE  \A u \in Requests \ {r} : Kept(u)
BY DEF Same, Kept

LEMMA OneMoves ==
  ASSUME TypeOK, NEW r \in Requests
  PROVE  /\ \A step : Goto(r, step) => Same(r) /\ reqs'[r] = [reqs[r] EXCEPT !.at = step]
         /\ \A ok, tok : Reply(r, ok, tok) => Same(r) /\ reqs'[r] = Answer(r, ok, tok)
         /\ \A q : Post(r, q) => Same(r) /\ reqs'[r] = q
BY DEF TypeOK, Goto, Reply, Post, Same

\* A browser's page that goes mutes the requests of the page.
LEMMA MutedKept ==
  ASSUME TypeOK, NEW b \in Browsers, NEW u \in Requests
  PROVE  /\ Muted(b)[u] \in Request
         /\ reqs'[u] = Muted(b)[u] => Kept(u) /\ (reqs[u].by = b => ~reqs'[u].live)
<1>1. reqs[u] \in Request
  BY DEF TypeOK
<1>2. CASE reqs[u].by # b
  <2>1. Muted(b)[u] = reqs[u]
    BY <1>2 DEF Muted
  <2> QED
    BY <1>1, <1>2, <2>1 DEF Kept
<1>3. CASE reqs[u].by = b
  <2>1. Muted(b)[u] = [reqs[u] EXCEPT !.live = FALSE]
    BY <1>3 DEF Muted
  <2> QED
    <3>1. Muted(b)[u] \in Request
      BY <1>1, <2>1, Updates
    <3> DEFINE q == [reqs[u] EXCEPT !.live = FALSE]
    <3>2. /\ q.at = reqs[u].at /\ q.kind = reqs[u].kind /\ q.by = reqs[u].by
          /\ q.email = reqs[u].email /\ q.name = reqs[u].name /\ q.code = reqs[u].code
          /\ q.tok = reqs[u].tok /\ q.ok = reqs[u].ok /\ q.late = reqs[u].late
          /\ q.blind = reqs[u].blind /\ q.barred = reqs[u].barred
          /\ q.live = FALSE
      BY <1>1 DEF Request
    <3> HIDE DEF q
    <3>3. Muted(b)[u] = q
      BY <2>1 DEF q
    <3> QED
      BY <3>1, <3>2, <3>3 DEF Kept
<1> QED
  BY <1>2, <1>3

-----------------------------------------------------------------------------
(* The request that moves                                                  *)

\* What every step shows of the request r that moves; the others are kept.
Move(r) ==
  /\ reqs' \in [Requests -> Request]
  /\ \A u \in Requests \ {r} : Kept(u)
  /\ reqs'[r].at = "mail" => Insert(r)
  /\ reqs'[r].tok # None => account'[reqs'[r].tok.sub] # None
  /\ ReqInv(r)'

\* A request that is answered.
LEMMA AnswerInv ==
  ASSUME NEW r \in Requests, NEW ok \in BOOLEAN, NEW tok \in Token \cup {None},
         reqs'[r] = Answer(r, ok, tok),
         ok /\ reqs[r].kind \in {"login", "register"} => tok \in Token,
         ok /\ reqs[r].kind = "start" =>
           \E m \in mail' : m.to = reqs[r].email /\ m.purpose = "register"
  PROVE  ReqInv(r)' /\ reqs'[r].at = "reply" /\ reqs'[r].tok = tok
<1>1. /\ reqs'[r].at = "reply" /\ reqs'[r].kind = reqs[r].kind /\ reqs'[r].email = reqs[r].email
      /\ reqs'[r].name = None /\ reqs'[r].ok = ok /\ reqs'[r].tok = tok
      /\ reqs'[r].late = FALSE /\ reqs'[r].barred = FALSE
  BY DEF Answer, Idle
<1>2. Shape(r)'
  BY <1>1 DEF Shape, CodeSteps
<1>3. Invited(r)'
  BY <1>1 DEF Invited, CodeSteps
<1>4. Fresh(r)' /\ StillBarred(r)'
  BY <1>1 DEF Fresh, StillBarred
<1> QED
  BY <1>1, <1>2, <1>3, <1>4 DEF ReqInv

LEMMA AnswerMoves ==
  ASSUME IInv, NEW r \in Requests, NEW ok \in BOOLEAN, NEW tok \in Token \cup {None},
         Reply(r, ok, tok),
         tok # None => account'[tok.sub] # None,
         ok /\ reqs[r].kind \in {"login", "register"} => tok \in Token,
         ok /\ reqs[r].kind = "start" =>
           \E m \in mail' : m.to = reqs[r].email /\ m.purpose = "register"
  PROVE  Move(r)
<1>1. TypeOK
  BY DEF IInv
<1>2. reqs' \in [Requests -> Request] /\ Same(r) /\ reqs'[r] = Answer(r, ok, tok)
  BY <1>1, ReqTypes, OneMoves
<1>3. ReqInv(r)' /\ reqs'[r].at = "reply" /\ reqs'[r].tok = tok
  BY <1>2, AnswerInv
<1> QED
  BY <1>2, <1>3, SameKept DEF Move

LEMMA RefuseMoves ==
  ASSUME IInv, NEW r \in Requests, Refuse(r)
  PROVE  Move(r)
BY AnswerMoves DEF Refuse

LEMMA GrantMoves ==
  ASSUME IInv, NEW r \in Requests, NEW e \in Emails, NEW role \in Roles, Grant(r, e, role),
         account'[e] # None, reqs[r].kind # "start"
  PROVE  Move(r)
<1>1. [sub |-> e, role |-> role] \in Token
  BY DEF Token
<1> QED
  BY <1>1, AnswerMoves DEF Grant

\* A slot that is free again.
LEMMA IdleMoves ==
  ASSUME IInv, NEW r \in Requests, reqs' = [reqs EXCEPT ![r] = Idle]
  PROVE  Move(r)
<1>1. reqs' \in [Requests -> Request] /\ reqs'[r] = Idle /\ Same(r)
  BY IdleType DEF IInv, TypeOK, Same
<1>2. /\ reqs'[r].at = "idle" /\ reqs'[r].kind = "none" /\ reqs'[r].tok = None
      /\ reqs'[r].late = FALSE /\ reqs'[r].barred = FALSE
  BY <1>1 DEF Idle
<1>3. Shape(r)' /\ Invited(r)'
  BY <1>2 DEF Shape, Invited, CodeSteps
<1>4. Fresh(r)' /\ StillBarred(r)'
  BY <1>2 DEF Fresh, StillBarred
<1> QED
  BY <1>1, <1>2, <1>3, <1>4, SameKept DEF Move, ReqInv

\* The next statement of a handler: what the request must satisfy there.
LEMMA GotoMoves ==
  ASSUME IInv, NEW r \in Requests, NEW step \in Steps \ {"mail", "reply", "idle"},
         Goto(r, step), Grows,
         reqs[r].at \notin {"idle", "reply"},
         Shape(r)', Invited(r)', Fresh(r)', StillBarred(r)'
  PROVE  Move(r)
<1>1. TypeOK
  BY DEF IInv
<1>2. /\ reqs' \in [Requests -> Request] /\ Same(r)
      /\ reqs'[r] = [reqs[r] EXCEPT !.at = step] /\ reqs[r] \in Request
  BY <1>1, ReqTypes, OneMoves DEF TypeOK
<1>3. reqs'[r].at = step /\ reqs'[r].tok = reqs[r].tok
  BY <1>2 DEF Request
<1>4. reqs[r].tok # None => reqs[r].tok.sub \in Emails /\ account[reqs[r].tok.sub] # None
  BY <1>1, <1>2 DEF TypeOK, Request, Token
<1>5. reqs'[r].tok # None => account'[reqs'[r].tok.sub] # None
  BY <1>3, <1>4 DEF Grows
<1> QED
  BY <1>2, <1>3, <1>5, SameKept DEF Move, ReqInv

\* What Goto leaves of the request.
LEMMA GotoFields ==
  ASSUME TypeOK, NEW r \in Requests, NEW step, Goto(r, step)
  PROVE  /\ reqs'[r].at = step
         /\ reqs'[r].kind = reqs[r].kind /\ reqs'[r].email = reqs[r].email
         /\ reqs'[r].name = reqs[r].name /\ reqs'[r].code = reqs[r].code
         /\ reqs'[r].tok = reqs[r].tok /\ reqs'[r].ok = reqs[r].ok
         /\ reqs'[r].late = reqs[r].late /\ reqs'[r].barred = reqs[r].barred
         /\ reqs'[r].blind = reqs[r].blind
<1>1. reqs[r] \in Request /\ reqs'[r] = [reqs[r] EXCEPT !.at = step]
  BY OneMoves DEF TypeOK
<1> QED
  BY <1>1 DEF Request

LEMMA UniqueMoves ==
  ASSUME IInv, Tables, NEW r \in Requests, Unique(r)
  PROVE  Move(r)
<1>1. CASE Refuse(r)
  BY <1>1, RefuseMoves
<1>2. CASE ~Refuse(r)
  <2> DEFINE step == IF reqs[r].code = 0 THEN "delete" ELSE "code"
  <2>1. Goto(r, step) /\ UNCHANGED dbVars /\ reqs[r].at = "unique"
    BY <1>2 DEF Unique, At
  <2>2. Goto(r, step) => /\ reqs'[r].at = step /\ reqs'[r].kind = reqs[r].kind
                     /\ reqs'[r].email = reqs[r].email /\ reqs'[r].name = reqs[r].name
                     /\ reqs'[r].code = reqs[r].code /\ reqs'[r].late = reqs[r].late
    BY GotoFields DEF IInv
  <2>3. /\ reqs[r].email \in Emails /\ reqs[r].kind \in {"start", "register"}
        /\ reqs[r].kind = "start" => reqs[r].code = 0
        /\ reqs[r].kind = "register" => reqs[r].code \in Mailed /\ reqs[r].code # 0
    <3>1. Shape(r) /\ Invited(r) /\ \A m \in mail : m.code # 0
      BY DEF IInv, ReqInv, CodeInv
    <3> QED
      BY <2>1, <3>1 DEF Shape, Invited, CodeSteps, Mailed
  <2>4. Shape(r)' /\ Invited(r)'
    BY <2>1, <2>2, <2>3 DEF Shape, Invited, CodeSteps, dbVars, Mailed
  <2>5. Fresh(r)'
    <3>1. Fresh(r)
      BY DEF IInv, ReqInv
    <3> QED
      BY <2>1, <2>2, <3>1 DEF Fresh, dbVars, Purpose
  <2>6. StillBarred(r)'
    BY <2>1, <2>2 DEF StillBarred
  <2>7. step \in Steps \ {"mail", "reply", "idle"}
    BY DEF Steps
  <2> HIDE DEF step
  <2> QED
    BY <2>1, <2>4, <2>5, <2>6, <2>7, GotoMoves DEF Tables
<1> QED
  BY <1>1, <1>2

LEMMA DeleteMoves ==
  ASSUME IInv, Tables, NEW r \in Requests, Delete(r)
  PROVE  Move(r)
<1>1. Goto(r, "insert") /\ reqs[r].at = "delete"
  BY DEF Delete, At
<1>2. /\ reqs'[r].at = "insert" /\ reqs'[r].kind = reqs[r].kind
      /\ reqs'[r].email = reqs[r].email /\ reqs'[r].name = reqs[r].name
  BY <1>1, GotoFields DEF IInv
<1>3. reqs[r].email \in Emails /\ reqs[r].kind \in {"start", "send"}
  BY <1>1 DEF IInv, ReqInv, Shape
<1>4. Shape(r)' /\ Invited(r)'
  BY <1>2, <1>3 DEF Shape, Invited, CodeSteps
<1>5. Fresh(r)' /\ StillBarred(r)'
  BY <1>2 DEF Fresh, StillBarred
<1> QED
  BY <1>1, <1>4, <1>5, GotoMoves DEF Tables, Steps

LEMMA InsertMoves ==
  ASSUME IInv, Tables, NEW r \in Requests, Insert(r)
  PROVE  Move(r)
<1>1. /\ reqs' = [reqs EXCEPT ![r].at = "mail", ![r].code = codes + 1]
      /\ reqs[r].at = "insert" /\ codes' = codes + 1 /\ codes \in Nat
      /\ UNCHANGED <<account, mail>>
  BY DEF Insert, At, IInv, TypeOK
<1>2. reqs[r] \in Request /\ reqs \in [Requests -> Request]
  BY DEF IInv, TypeOK
<1> DEFINE q1 == [reqs[r] EXCEPT !.at = "mail"]
           q == [q1 EXCEPT !.code = codes + 1]
<1>3. q1 \in Request
  BY <1>2, Updates DEF Steps
<1>5. /\ q.at = "mail" /\ q.code = codes + 1 /\ q.kind = reqs[r].kind
      /\ q.email = reqs[r].email /\ q.tok = reqs[r].tok
  BY <1>2 DEF Request
<1>6. reqs'[r] = q /\ Same(r)
  BY <1>1, <1>2 DEF Same
<1> HIDE DEF q1
<1>7. q \in Request
  <2>1. codes + 1 \in Nat
    BY <1>1
  <2> QED
    BY <1>3, <2>1, Updates
<1> HIDE DEF q
<1>12. reqs' \in [Requests -> Request]
  BY <1>1, <1>2, <1>7, <1>6 DEF Same
<1>8. reqs[r].email \in Emails /\ reqs[r].kind \in {"start", "send"}
  BY <1>1 DEF IInv, ReqInv, Shape
<1>9. Shape(r)' /\ Fresh(r)' /\ StillBarred(r)'
  BY <1>5, <1>6, <1>8 DEF Shape, Fresh, StillBarred, CodeSteps
<1>10. Invited(r)'
  <2>1. /\ \A x \in rows : x.code # codes + 1
        /\ \A m \in mail : m.code # codes + 1
        /\ \A v \in Requests : reqs[v].at = "mail" => reqs[v].code # codes + 1
    BY <1>1 DEF IInv, CodeInv, ReqInv, Invited
  <2>2. \A x \in rows' : x.code = codes + 1 => x.email = reqs[r].email
    BY <2>1 DEF Insert
  <2>3. \A v \in Requests :
           reqs'[v].at = "mail" /\ reqs'[v].code = codes + 1 => reqs'[v].email = reqs[r].email
    BY <1>5, <1>6, <2>1 DEF Same
  <2>4. codes + 1 \in 1..codes'
    BY <1>1
  <2> QED
    BY <1>1, <1>5, <1>6, <2>1, <2>2, <2>3, <2>4 DEF Invited, CodeSteps
<1>11. reqs'[r].tok # None => account'[reqs'[r].tok.sub] # None
  BY <1>1, <1>5, <1>6 DEF IInv, TypeOK
<1> QED
  BY <1>6, <1>9, <1>10, <1>11, <1>12, SameKept DEF Move, ReqInv

LEMMA SendMailMoves ==
  ASSUME IInv, Tables, NEW r \in Requests, SendMail(r)
  PROVE  Move(r)
<1>1. reqs[r].at = "mail" /\ UNCHANGED account
  BY DEF SendMail, At
<1>2. PICK ok \in BOOLEAN :
        /\ ok => mail' = mail \cup {[to |-> reqs[r].email, purpose |-> Purpose(r),
                                     code |-> reqs[r].code]}
        /\ Reply(r, ok, None)
  BY DEF SendMail
<1>3. reqs[r].kind \notin {"login", "register"}
  BY <1>1 DEF IInv, ReqInv, Shape
<1>4. ok /\ reqs[r].kind = "start" =>
        \E m \in mail' : m.to = reqs[r].email /\ m.purpose = "register"
  <2> DEFINE m0 == [to |-> reqs[r].email, purpose |-> Purpose(r), code |-> reqs[r].code]
  <2>1. ok => m0 \in mail'
    BY <1>2
  <2>2. m0.to = reqs[r].email /\ (reqs[r].kind = "start" => m0.purpose = "register")
    BY DEF Purpose
  <2> HIDE DEF m0
  <2> QED
    BY <2>1, <2>2
<1> QED
  BY <1>2, <1>3, <1>4, AnswerMoves

LEMMA ReadCodeMoves ==
  ASSUME IInv, Tables, NEW r \in Requests, ReadCode(r)
  PROVE  Move(r)
<1>1. CASE Refuse(r)
  BY <1>1, RefuseMoves
<1>2. CASE ~Refuse(r)
  <2>1. Goto(r, "mark") /\ UNCHANGED dbVars /\ reqs[r].at = "code"
    BY <1>2 DEF ReadCode, At
  <2>2. PICK x \in Newest(r) : Matches(r, x)
    BY <1>2 DEF ReadCode
  <2>3. /\ reqs'[r].at = "mark" /\ reqs'[r].kind = reqs[r].kind
        /\ reqs'[r].email = reqs[r].email /\ reqs'[r].name = reqs[r].name
        /\ reqs'[r].code = reqs[r].code /\ reqs'[r].late = reqs[r].late
    BY <2>1, GotoFields DEF IInv
  <2>4. /\ reqs[r].email \in Emails /\ reqs[r].kind \in {"register", "verify"}
        /\ reqs[r].kind = "verify" => reqs[r].name = None
        /\ reqs[r].code \in Mailed
    BY <2>1 DEF IInv, ReqInv, Shape, Invited, CodeSteps
  <2>5. x \in rows /\ x.email = reqs[r].email /\ x.purpose = Purpose(r)
        /\ x.code = reqs[r].code /\ ~x.used
        /\ \A y \in rows : y.email = reqs[r].email /\ y.purpose = Purpose(r) => y.code <= x.code
    BY <2>2 DEF Newest, Mine, Matches
  <2>6. \E m \in mail : m.to = reqs[r].email
    BY <2>4, <2>5 DEF Mailed, IInv, CodeInv
  <2>7. ~reqs[r].late
    <3>1. \A y \in rows : y.code \in Nat
      BY DEF IInv, TypeOK, Row
    <3>2. Fresh(r)
      BY DEF IInv, ReqInv
    <3> QED
      BY <2>1, <2>5, <3>1, <3>2 DEF Fresh
  <2>8. Shape(r)' /\ Invited(r)'
    BY <2>1, <2>3, <2>4, <2>6 DEF Shape, Invited, CodeSteps, dbVars, Mailed
  <2>9. Fresh(r)' /\ StillBarred(r)'
    BY <2>3, <2>7 DEF Fresh, StillBarred
  <2> QED
    BY <2>1, <2>8, <2>9, GotoMoves DEF Tables, Steps
<1> QED
  BY <1>1, <1>2

LEMMA MarkMoves ==
  ASSUME IInv, Tables, NEW r \in Requests, Mark(r)
  PROVE  Move(r)
<1> DEFINE step == IF reqs[r].kind = "register" THEN "create" ELSE "find"
<1>1. Goto(r, step) /\ reqs[r].at = "mark" /\ UNCHANGED mail
  BY DEF Mark, At
<1>2. /\ reqs'[r].at = step /\ reqs'[r].kind = reqs[r].kind
      /\ reqs'[r].email = reqs[r].email /\ reqs'[r].name = reqs[r].name
      /\ reqs'[r].code = reqs[r].code /\ reqs'[r].late = reqs[r].late
  BY <1>1, GotoFields DEF IInv
<1>3. Shape(r) /\ Invited(r) /\ Fresh(r)
  BY DEF IInv, ReqInv
<1>4. Shape(r)' /\ Invited(r)'
  BY <1>1, <1>2, <1>3 DEF Shape, Invited, CodeSteps, Mailed
<1>5. Fresh(r)' /\ StillBarred(r)'
  BY <1>1, <1>2, <1>3 DEF Fresh, StillBarred
<1>6. step \in Steps \ {"mail", "reply", "idle"}
  BY DEF Steps
<1> HIDE DEF step
<1> QED
  BY <1>1, <1>4, <1>5, <1>6, GotoMoves DEF Tables

LEMMA FindMoves ==
  ASSUME IInv, Tables, NEW r \in Requests, Find(r)
  PROVE  Move(r)
<1>1. /\ reqs[r].at = "find" /\ reqs[r].email \in Emails
      /\ reqs[r].kind \in {"register", "verify"}
  BY DEF Find, At, IInv, ReqInv, Shape, CodeSteps
<1>2. CASE Refuse(r)
  BY <1>2, RefuseMoves
<1>3. CASE /\ Grant(r, reqs[r].email, account[reqs[r].email].role)
           /\ account[reqs[r].email] # None /\ UNCHANGED dbVars
  <2>1. account[reqs[r].email].role \in Roles
    BY <1>1, <1>3 DEF IInv, TypeOK, Account
  <2> QED
    BY <1>1, <1>3, <2>1, GrantMoves DEF dbVars
<1>4. CASE Goto(r, "create") /\ UNCHANGED dbVars
  <2>1. /\ reqs'[r].at = "create" /\ reqs'[r].kind = reqs[r].kind
        /\ reqs'[r].email = reqs[r].email /\ reqs'[r].name = reqs[r].name
        /\ reqs'[r].code = reqs[r].code /\ reqs'[r].late = reqs[r].late
    BY <1>4, GotoFields DEF IInv
  <2>2. Shape(r) /\ Invited(r) /\ Fresh(r)
    BY DEF IInv, ReqInv
  <2>3. Shape(r)' /\ Invited(r)'
    BY <1>1, <1>4, <2>1, <2>2 DEF Shape, Invited, CodeSteps, Mailed, dbVars
  <2>4. Fresh(r)' /\ StillBarred(r)'
    BY <1>1, <2>1, <2>2 DEF Fresh, StillBarred
  <2> QED
    BY <1>1, <1>4, <2>3, <2>4, GotoMoves DEF Tables, Steps
<1> QED
  BY <1>2, <1>3, <1>4 DEF Find

LEMMA CreateMoves ==
  ASSUME IInv, Tables, NEW r \in Requests, Create(r)
  PROVE  Move(r)
<1>1. /\ reqs[r].at = "create" /\ reqs[r].email \in Emails
      /\ reqs[r].kind \in {"register", "verify"}
  BY DEF Create, At, IInv, ReqInv, Shape, CodeSteps
<1>2. CASE Refuse(r)
  BY <1>2, RefuseMoves
<1>3. CASE ~Refuse(r)
  <2> DEFINE a == [name |-> reqs[r].name, pw |-> reqs[r].pw, role |-> "user", active |-> TRUE]
  <2>1. account' = [account EXCEPT ![reqs[r].email] = a] /\ Grant(r, reqs[r].email, "user")
    BY <1>3 DEF Create
  <2>2. a \in Account
    BY DEF IInv, TypeOK, Request, Account, Roles
  <2> HIDE DEF a
  <2>3. account'[reqs[r].email] # None
    BY <1>1, <2>1, <2>2, AccountsAssumption DEF IInv, TypeOK
  <2> QED
    BY <1>1, <2>1, <2>3, GrantMoves DEF Roles
<1> QED
  BY <1>2, <1>3

LEMMA LookupMoves ==
  ASSUME IInv, Tables, NEW r \in Requests, Lookup(r)
  PROVE  Move(r)
<1>1. CASE Refuse(r)
  BY <1>1, RefuseMoves
<1>2. ASSUME NEW e \in Emails, account[e] # None, Grant(r, e, account[e].role), UNCHANGED dbVars
      PROVE  Move(r)
  <2>1. account[e].role \in Roles
    BY <1>2 DEF IInv, TypeOK, Account
  <2>2. reqs[r].kind = "login"
    BY DEF Lookup, At, IInv, ReqInv, Shape
  <2> QED
    BY <1>2, <2>1, <2>2, GrantMoves DEF dbVars
<1> QED
  BY <1>1, <1>2 DEF Lookup

LEMMA SessionMoves ==
  ASSUME IInv, Tables, NEW r \in Requests, Session(r)
  PROVE  Move(r)
<1>1. /\ reqs[r].at = "session" /\ reqs[r].kind \in SessionKinds /\ UNCHANGED dbVars
      /\ Shape(r) /\ StillBarred(r)
  BY DEF Session, At, IInv, ReqInv, Shape, Refuse
<1>2. CASE Refuse(r)
  BY <1>2, RefuseMoves
<1>3. CASE ~Refuse(r)
  <2> DEFINE step == AfterSession(reqs[r].kind)
  <2>1. /\ Goto(r, step)
        /\ reqs[r].tok # None /\ ~Barred(reqs[r].kind, reqs[r].tok)
    BY <1>3 DEF Session, Goto, Barred
  <2>2. reqs[r].tok \in Token
    BY <2>1 DEF IInv, TypeOK, Request
  <2>3. /\ reqs'[r].at = step /\ reqs'[r].kind = reqs[r].kind
        /\ reqs'[r].email = reqs[r].email /\ reqs'[r].name = reqs[r].name
        /\ reqs'[r].tok = reqs[r].tok /\ reqs'[r].barred = reqs[r].barred
    BY <2>1, GotoFields DEF IInv
  <2>4. /\ step \in {"update", "compare", "patch"}
        /\ step = "compare" => reqs[r].kind = "password"
        /\ step = "update" => reqs[r].kind = "me"
        /\ step = "patch" => reqs[r].kind = "patch"
    BY <1>1 DEF AfterSession, SessionKinds
  <2>5. ~reqs[r].barred
    BY <1>1, <2>1 DEF StillBarred
  <2> HIDE DEF step
  <2>6. Shape(r)' /\ Invited(r)'
    BY <1>1, <2>2, <2>3, <2>4 DEF Shape, Invited, CodeSteps, dbVars
  <2>7. Fresh(r)' /\ StillBarred(r)'
    BY <2>3, <2>4, <2>5 DEF Fresh, StillBarred
  <2>8. step \in Steps \ {"mail", "reply", "idle"}
    BY <2>4 DEF Steps
  <2> QED
    BY <1>1, <2>1, <2>6, <2>7, <2>8, GotoMoves DEF Tables
<1> QED
  BY <1>2, <1>3

LEMMA SessionBlindMoves ==
  ASSUME IInv, Tables, NEW r \in Requests, SessionBlind(r)
  PROVE  Move(r)
<1>1. /\ reqs[r].at = "session" /\ reqs[r].kind \in SessionKinds /\ UNCHANGED dbVars
      /\ Shape(r)
  BY DEF SessionBlind, At, IInv, ReqInv, Shape, Refuse
<1>2. CASE Refuse(r)
  BY <1>2, RefuseMoves
<1>3. CASE ~Refuse(r)
  <2> DEFINE step == AfterSession(reqs[r].kind)
             q1 == [reqs[r] EXCEPT !.at = step]
             q == [q1 EXCEPT !.blind = TRUE]
  <2>1. reqs' = [reqs EXCEPT ![r].at = step, ![r].blind = TRUE] /\ reqs[r].tok # None
    BY <1>3 DEF SessionBlind
  <2>2. /\ step \in {"update", "compare", "patch"}
        /\ step = "compare" => reqs[r].kind = "password"
        /\ step = "update" => reqs[r].kind = "me"
        /\ step = "patch" => reqs[r].kind = "patch"
    BY <1>1 DEF AfterSession, SessionKinds
  <2> HIDE DEF step
  <2>3. reqs[r] \in Request /\ reqs \in [Requests -> Request] /\ step \in Steps
    BY <2>2 DEF IInv, TypeOK, Steps
  <2>4. q1 \in Request
    BY <2>3, Updates
  <2>5. /\ q.at = step /\ q.blind = TRUE /\ q.kind = reqs[r].kind /\ q.email = reqs[r].email
        /\ q.name = reqs[r].name /\ q.tok = reqs[r].tok
    BY <2>3 DEF Request
  <2>6. reqs'[r] = q /\ Same(r)
    BY <2>1, <2>3 DEF Same
  <2> HIDE DEF q1
  <2>7. q \in Request
    BY <2>4, Updates
  <2> HIDE DEF q
  <2>8. reqs[r].tok \in Token /\ account[reqs[r].tok.sub] # None
    BY <2>1, <2>3 DEF Request, IInv, TypeOK
  <2>9. reqs' \in [Requests -> Request]
    BY <2>1, <2>3, <2>6, <2>7 DEF Same
  <2>10. Shape(r)' /\ Invited(r)'
    BY <1>1, <2>2, <2>5, <2>6, <2>8 DEF Shape, Invited, CodeSteps, dbVars
  <2>11. Fresh(r)' /\ StillBarred(r)'
    BY <2>2, <2>5, <2>6 DEF Fresh, StillBarred
  <2>12. reqs'[r].at # "mail" /\ account'[reqs'[r].tok.sub] # None
    BY <1>1, <2>2, <2>5, <2>6, <2>8 DEF dbVars
  <2> QED
    BY <2>6, <2>9, <2>10, <2>11, <2>12, SameKept DEF Move, ReqInv
<1> QED
  BY <1>2, <1>3

LEMMA CompareMoves ==
  ASSUME IInv, Tables, NEW r \in Requests, Compare(r)
  PROVE  Move(r)
<1>1. CASE Refuse(r)
  BY <1>1, RefuseMoves
<1>2. CASE Goto(r, "update")
  <2>1. /\ reqs'[r].at = "update" /\ reqs'[r].kind = reqs[r].kind
        /\ reqs'[r].email = reqs[r].email /\ reqs'[r].name = reqs[r].name
        /\ reqs'[r].tok = reqs[r].tok /\ reqs'[r].barred = reqs[r].barred
        /\ reqs'[r].blind = reqs[r].blind
    BY <1>2, GotoFields DEF IInv
  <2>2. reqs[r].at = "compare" /\ Shape(r) /\ StillBarred(r)
    BY DEF Compare, At, IInv, ReqInv
  <2>3. Shape(r)' /\ Invited(r)'
    BY <2>1, <2>2 DEF Shape, Invited, CodeSteps
  <2>4. Fresh(r)' /\ StillBarred(r)'
    BY <2>1, <2>2 DEF Fresh, StillBarred
  <2> QED
    BY <1>2, <2>2, <2>3, <2>4, GotoMoves DEF Tables, Steps
<1> QED
  BY <1>1, <1>2 DEF Compare

LEMMA UpdateMoves ==
  ASSUME IInv, Tables, NEW r \in Requests, Update(r)
  PROVE  Move(r)
<1> DEFINE e == reqs[r].tok.sub
<1>1. /\ reqs[r].at = "update" /\ reqs[r].tok \in Token /\ reqs[r].tok # None
      /\ reqs[r].kind \in {"password", "me"}
  BY AccountsAssumption DEF Update, At, IInv, ReqInv, Shape
<1>2. e \in Emails /\ account[e] # None
  BY <1>1 DEF Token, IInv, TypeOK
<1> HIDE DEF e
<1>3. account'[e] # None
  BY <1>2 DEF Tables, Grows
<1>4. CASE Reply(r, TRUE, None)
  BY <1>1, <1>4, AnswerMoves
<1>5. CASE Reply(r, TRUE, [sub |-> e, role |-> account[e].role])
  <2>1. account[e].role \in Roles
    BY <1>2 DEF IInv, TypeOK, Account
  <2>2. Grant(r, e, account[e].role)
    BY <1>5 DEF Grant
  <2> QED
    BY <1>1, <1>2, <1>3, <2>1, <2>2, GrantMoves
<1> QED
  BY <1>4, <1>5 DEF Update, e

LEMMA PatchMoves ==
  ASSUME IInv, Tables, NEW r \in Requests, Patch(r)
  PROVE  Move(r)
<1>1. reqs[r].at = "patch" /\ reqs[r].kind = "patch"
  BY DEF Patch, At, IInv, ReqInv, Shape
<1>2. reqs \in [Requests -> Request] /\ TypeOK
  BY DEF IInv, TypeOK
<1>3. Answer(r, TRUE, None) \in Request
  BY <1>2, ReqTypes
<1>4. reqs'[r] = Answer(r, TRUE, None)
  BY DEF Patch
<1>5. ASSUME NEW u \in Requests \ {r}
      PROVE  reqs'[u] \in Request /\ Kept(u)
  <2> DEFINE q == [reqs[u] EXCEPT !.barred = FALSE]
  <2>1. reqs[u] \in Request
    BY <1>2
  <2>2. reqs'[u] = q \/ reqs'[u] = reqs[u]
    BY DEF Patch
  <2>3. /\ q.at = reqs[u].at /\ q.kind = reqs[u].kind /\ q.by = reqs[u].by
        /\ q.email = reqs[u].email /\ q.name = reqs[u].name /\ q.code = reqs[u].code
        /\ q.tok = reqs[u].tok /\ q.ok = reqs[u].ok /\ q.late = reqs[u].late
        /\ q.blind = reqs[u].blind /\ q.live = reqs[u].live /\ q.barred = FALSE
    BY <2>1 DEF Request
  <2>4. q \in Request
    BY <2>1, Updates
  <2> HIDE DEF q
  <2> QED
    BY <2>1, <2>2, <2>3, <2>4 DEF Kept
<1>6. reqs' \in [Requests -> Request]
  <2>1. reqs' = [u \in Requests |-> reqs'[u]]
    BY DEF Patch
  <2>2. \A u \in Requests : reqs'[u] \in Request
    BY <1>3, <1>4, <1>5
  <2> QED
    BY <2>1, <2>2
<1>7. ReqInv(r)' /\ reqs'[r].at = "reply" /\ reqs'[r].tok = None
  BY <1>1, <1>4, AnswerInv
<1> QED
  BY <1>5, <1>6, <1>7 DEF Move

LEMMA PatchRefusedMoves ==
  ASSUME IInv, Tables, NEW r \in Requests, PatchRefused(r)
  PROVE  Move(r)
BY RefuseMoves DEF PatchRefused, At

LEMMA FailMoves ==
  ASSUME IInv, Tables, NEW r \in Requests, Fail(r)
  PROVE  Move(r)
BY AnswerMoves DEF Fail

-----------------------------------------------------------------------------
(* Requests that are sent                                                  *)

\* A new request: its fields decide.
LEMMA PostMoves ==
  ASSUME IInv, NEW r \in Requests, NEW q \in Request, Post(r, q), UNCHANGED dbVars,
         q.at # "mail", q.tok # None => account[q.tok.sub] # None,
         Shape(r)', Invited(r)', Fresh(r)', StillBarred(r)'
  PROVE  Move(r)
<1>1. reqs' \in [Requests -> Request] /\ Same(r) /\ reqs'[r] = q
  BY ReqTypes, OneMoves DEF IInv
<1> QED
  BY <1>1, SameKept DEF Move, ReqInv, dbVars

LEMMA StartMoves ==
  ASSUME IInv, NEW r \in Requests, NEW b \in Browsers \cup {None}, NEW e \in Emails,
         NEW n \in Names, NEW p \in Passwords, Post(r, Start(b, e, n, p)), UNCHANGED dbVars
  PROVE  Move(r)
<1> DEFINE q == Start(b, e, n, p)
<1>1. q \in Request
  BY PostTypes
<1>2. /\ q.at = "unique" /\ q.kind = "start" /\ q.email = e /\ q.code = 0 /\ q.tok = None
      /\ q.late = FALSE /\ q.barred = FALSE
  BY DEF Start, Idle
<1>3. Post(r, q)
  OBVIOUS
<1> HIDE DEF q
<1>4. reqs'[r] = q
  BY <1>3, OneMoves DEF IInv
<1>5. Shape(r)' /\ Invited(r)' /\ Fresh(r)' /\ StillBarred(r)'
  BY <1>2, <1>4 DEF Shape, Invited, Fresh, StillBarred, CodeSteps
<1> QED
  BY <1>1, <1>2, <1>3, <1>5, PostMoves

\* Mailed codes are numbers; a late one is used up or replaced.
LEMMA LateCode ==
  ASSUME IInv, NEW e \in Emails, NEW purpose \in Purposes, NEW c \in Mailed,
         Late(e, purpose, c)
  PROVE  /\ c \in Nat
         /\ \A x \in rows :
              x.email = e /\ x.purpose = purpose /\ x.code = c /\ ~x.used =>
                \E z \in rows : z.email = x.email /\ z.purpose = x.purpose /\ z.code > x.code
<1>1. c \in Nat
  BY DEF IInv, TypeOK, Mailed
<1>2. \A x \in rows, s \in spent : x.code = s.code => x.used
  BY DEF IInv, CodeInv
<1> QED
  BY <1>1, <1>2 DEF Late

LEMMA RegisterMoves ==
  ASSUME IInv, NEW r \in Requests, NEW b \in Browsers \cup {None}, NEW e \in Emails,
         NEW n \in Names, NEW p \in Passwords, NEW c \in Mailed,
         Post(r, Register(b, e, n, p, c)), UNCHANGED dbVars
  PROVE  Move(r)
<1> DEFINE q == Register(b, e, n, p, c)
<1>1. c \in Nat
  BY DEF IInv, TypeOK, Mailed
<1>2. q \in Request
  BY <1>1, PostTypes
<1>3. /\ q.at = "unique" /\ q.kind = "register" /\ q.email = e /\ q.code = c /\ q.tok = None
      /\ q.late = Late(e, "register", c) /\ q.barred = FALSE
  BY DEF Register, Start, Idle
<1>4. Post(r, q)
  OBVIOUS
<1> HIDE DEF q
<1>5. reqs'[r] = q
  BY <1>4, OneMoves DEF IInv
<1>6. Shape(r)' /\ Invited(r)' /\ StillBarred(r)'
  BY <1>3, <1>5 DEF Shape, Invited, StillBarred, CodeSteps, Mailed, dbVars
<1>7. Fresh(r)'
  BY <1>3, <1>5, LateCode DEF Fresh, Purpose, Purposes, dbVars
<1> QED
  BY <1>2, <1>3, <1>4, <1>6, <1>7, PostMoves

LEMMA SignInMoves ==
  ASSUME IInv, NEW r \in Requests, NEW b \in Browsers \cup {None}, NEW e \in Emails \cup {None},
         NEW n \in Names \cup {None}, NEW p \in Passwords, Post(r, SignIn(b, e, n, p)),
         UNCHANGED dbVars
  PROVE  Move(r)
<1> DEFINE q == SignIn(b, e, n, p)
<1>1. q \in Request
  BY PostTypes
<1>2. /\ q.at = "lookup" /\ q.kind = "login" /\ q.tok = None
      /\ q.late = FALSE /\ q.barred = FALSE
  BY DEF SignIn, Idle
<1>3. Post(r, q)
  OBVIOUS
<1> HIDE DEF q
<1>4. reqs'[r] = q
  BY <1>3, OneMoves DEF IInv
<1>5. Shape(r)' /\ Invited(r)' /\ Fresh(r)' /\ StillBarred(r)'
  BY <1>2, <1>4 DEF Shape, Invited, Fresh, StillBarred, CodeSteps
<1> QED
  BY <1>1, <1>2, <1>3, <1>5, PostMoves

LEMMA WhoAmIInv ==
  ASSUME IInv, NEW r \in Requests, NEW b \in Browsers, NEW t \in Token \cup {None},
         reqs'[r] = WhoAmI(b, t)
  PROVE  ReqInv(r)' /\ reqs'[r].tok = t /\ reqs'[r].at = "session" /\ reqs'[r].kind = "me"
<1>1. /\ reqs'[r].at = "session" /\ reqs'[r].kind = "me" /\ reqs'[r].tok = t
      /\ reqs'[r].late = FALSE /\ reqs'[r].barred = FALSE
  BY DEF WhoAmI, Idle
<1>2. Shape(r)' /\ Invited(r)' /\ Fresh(r)' /\ StillBarred(r)'
  BY <1>1 DEF Shape, Invited, Fresh, StillBarred, CodeSteps, SessionKinds
<1> QED
  BY <1>1, <1>2 DEF ReqInv

LEMMA SendMoves ==
  ASSUME IInv, NEW r \in Requests, NEW e \in Emails,
         Post(r, [Idle EXCEPT !.at = "delete", !.kind = "send", !.email = e]),
         UNCHANGED dbVars
  PROVE  Move(r)
<1> DEFINE q == [Idle EXCEPT !.at = "delete", !.kind = "send", !.email = e]
<1>1. e \in Emails
  OBVIOUS
<1>3. q \in Request
  BY <1>1, PostTypes
<1>4. /\ q.at = "delete" /\ q.kind = "send" /\ q.email = e /\ q.tok = None
      /\ q.late = FALSE /\ q.barred = FALSE
  BY DEF Idle
<1>5. Post(r, q)
  OBVIOUS
<1> HIDE DEF q
<1>6. reqs'[r] = q
  BY <1>5, OneMoves DEF IInv
<1>7. Shape(r)' /\ Invited(r)'
  BY <1>1, <1>4, <1>6 DEF Shape, Invited, CodeSteps, SessionKinds, dbVars, Mailed
<1>8. Fresh(r)'
  BY <1>4, <1>6 DEF Fresh
<1>9. StillBarred(r)'
  BY <1>1, <1>4, <1>6 DEF StillBarred, dbVars, Barred, Admitted
<1> QED
  BY <1>1, <1>3, <1>4, <1>5, <1>7, <1>8, <1>9, PostMoves

LEMMA VerifyMoves ==
  ASSUME IInv, NEW r \in Requests, NEW e \in Emails, NEW c \in Mailed,
         Post(r, [Idle EXCEPT !.at = "code", !.kind = "verify", !.email = e, !.code = c,
                         !.late = Late(e, "login", c)]),
         UNCHANGED dbVars
  PROVE  Move(r)
<1> DEFINE q == [Idle EXCEPT !.at = "code", !.kind = "verify", !.email = e, !.code = c,
                         !.late = Late(e, "login", c)]
<1>1. c \in Nat /\ Late(e, "login", c) \in BOOLEAN
  BY DEF IInv, TypeOK, Mailed, Late
<1>3. q \in Request
  BY <1>1, PostTypes
<1>4. /\ q.at = "code" /\ q.kind = "verify" /\ q.email = e /\ q.code = c /\ q.tok = None
      /\ q.name = None /\ q.late = Late(e, "login", c) /\ q.barred = FALSE
  BY DEF Idle
<1>5. Post(r, q)
  OBVIOUS
<1> HIDE DEF q
<1>6. reqs'[r] = q
  BY <1>5, OneMoves DEF IInv
<1>7. Shape(r)' /\ Invited(r)'
  BY <1>1, <1>4, <1>6 DEF Shape, Invited, CodeSteps, SessionKinds, dbVars, Mailed
<1>8. Fresh(r)'
  BY <1>4, <1>6, LateCode DEF Fresh, Purpose, Purposes, dbVars
<1>9. StillBarred(r)'
  BY <1>1, <1>4, <1>6 DEF StillBarred, dbVars, Barred, Admitted
<1> QED
  BY <1>1, <1>3, <1>4, <1>5, <1>7, <1>8, <1>9, PostMoves

LEMMA PasswordMoves ==
  ASSUME IInv, NEW r \in Requests, NEW p \in Passwords, NEW t \in issued,
         Post(r, [Idle EXCEPT !.at = "session", !.kind = "password", !.pw = p, !.tok = t,
                         !.barred = Barred("password", t)]),
         UNCHANGED dbVars
  PROVE  Move(r)
<1> DEFINE q == [Idle EXCEPT !.at = "session", !.kind = "password", !.pw = p, !.tok = t,
                         !.barred = Barred("password", t)]
<1>1. t \in Token /\ account[t.sub] # None /\ Barred("password", t) \in BOOLEAN
  BY DEF IInv, TypeOK, Barred
<1>3. q \in Request
  BY <1>1, PostTypes
<1>4. /\ q.at = "session" /\ q.kind = "password" /\ q.tok = t
      /\ q.late = FALSE /\ q.barred = Barred("password", t)
  BY DEF Idle
<1>5. Post(r, q)
  OBVIOUS
<1> HIDE DEF q
<1>6. reqs'[r] = q
  BY <1>5, OneMoves DEF IInv
<1>7. Shape(r)' /\ Invited(r)'
  BY <1>1, <1>4, <1>6 DEF Shape, Invited, CodeSteps, SessionKinds, dbVars, Mailed
<1>8. Fresh(r)'
  BY <1>4, <1>6 DEF Fresh
<1>9. StillBarred(r)'
  BY <1>1, <1>4, <1>6 DEF StillBarred, dbVars, Barred, Admitted
<1> QED
  BY <1>1, <1>3, <1>4, <1>5, <1>7, <1>8, <1>9, PostMoves

LEMMA PatchSentMoves ==
  ASSUME IInv, NEW r \in Requests, NEW e \in Emails, account[e] # None, NEW t \in issued,
         Post(r, [Idle EXCEPT !.at = "session", !.kind = "patch", !.email = e, !.tok = t,
                         !.barred = Barred("patch", t)]),
         UNCHANGED dbVars
  PROVE  Move(r)
<1> DEFINE q == [Idle EXCEPT !.at = "session", !.kind = "patch", !.email = e, !.tok = t,
                         !.barred = Barred("patch", t)]
<1>1. t \in Token /\ account[t.sub] # None /\ Barred("patch", t) \in BOOLEAN
  BY DEF IInv, TypeOK, Barred
<1>3. q \in Request
  BY <1>1, PostTypes
<1>4. /\ q.at = "session" /\ q.kind = "patch" /\ q.tok = t /\ q.email = e
      /\ q.late = FALSE /\ q.barred = Barred("patch", t)
  BY DEF Idle
<1>5. Post(r, q)
  OBVIOUS
<1> HIDE DEF q
<1>6. reqs'[r] = q
  BY <1>5, OneMoves DEF IInv
<1>7. Shape(r)' /\ Invited(r)'
  BY <1>1, <1>4, <1>6 DEF Shape, Invited, CodeSteps, SessionKinds, dbVars, Mailed
<1>8. Fresh(r)'
  BY <1>4, <1>6 DEF Fresh
<1>9. StillBarred(r)'
  BY <1>1, <1>4, <1>6 DEF StillBarred, dbVars, Barred, Admitted
<1> QED
  BY <1>1, <1>3, <1>4, <1>5, <1>7, <1>8, <1>9, PostMoves

LEMMA CallMoves ==
  ASSUME IInv, NEW r \in Requests, Call(r)
  PROVE  Move(r)
<1>1. UNCHANGED dbVars
  BY DEF Call
<1>2. ASSUME NEW e \in Emails, NEW n \in Names, NEW p \in Passwords,
             \/ Post(r, Start(None, e, n, p))
             \/ \E c \in Mailed : Post(r, Register(None, e, n, p, c))
      PROVE  Move(r)
  BY <1>1, <1>2, StartMoves, RegisterMoves
<1>3. ASSUME NEW e \in Emails,
             \/ Post(r, [Idle EXCEPT !.at = "delete", !.kind = "send", !.email = e])
             \/ \E c \in Mailed :
                  Post(r, [Idle EXCEPT !.at = "code", !.kind = "verify", !.email = e, !.code = c,
                                       !.late = Late(e, "login", c)])
      PROVE  Move(r)
  BY <1>1, <1>3, SendMoves, VerifyMoves
<1>4. ASSUME NEW p \in Passwords,
             \/ \E e \in Emails : Post(r, SignIn(None, e, None, p))
             \/ \E n \in Names : Post(r, SignIn(None, None, n, p))
      PROVE  Move(r)
  BY <1>1, <1>4, SignInMoves
<1>5. ASSUME NEW t \in issued,
             \/ \E p \in Passwords :
                  Post(r, [Idle EXCEPT !.at = "session", !.kind = "password", !.pw = p, !.tok = t,
                                       !.barred = Barred("password", t)])
             \/ \E e \in {f \in Emails : account[f] # None} :
                  Post(r, [Idle EXCEPT !.at = "session", !.kind = "patch", !.email = e, !.tok = t,
                                       !.barred = Barred("patch", t)])
      PROVE  Move(r)
  BY <1>1, <1>5, PasswordMoves, PatchSentMoves
<1> QED
  BY <1>2, <1>3, <1>4, <1>5 DEF Call

-----------------------------------------------------------------------------
(* The browser                                                             *)

\* A page that is left: its requests are muted, and one may ask who the user is.
LEMMA WhoAmIMoves ==
  ASSUME IInv, NEW r \in Requests, NEW b \in Browsers, NEW t \in Token \cup {None},
         reqs' = [Muted(b) EXCEPT ![r] = WhoAmI(b, t)], UNCHANGED dbVars,
         t # None => account[t.sub] # None
  PROVE  Move(r)
<1>1. TypeOK
  BY DEF IInv
<1>2. Muted(b) \in [Requests -> Request]
  <2>1. \A u \in Requests : Muted(b)[u] \in Request
    BY <1>1, MutedKept
  <2>2. Muted(b) = [u \in Requests |-> Muted(b)[u]]
    BY DEF Muted
  <2> QED
    BY <2>1, <2>2
<1>3. WhoAmI(b, t) \in Request
  BY PostTypes
<1>4. reqs'[r] = WhoAmI(b, t) /\ reqs' \in [Requests -> Request]
  BY <1>2, <1>3
<1>5. \A u \in Requests \ {r} : reqs'[u] = Muted(b)[u]
  BY <1>2
<1>6. \A u \in Requests \ {r} : Kept(u)
  BY <1>1, <1>5, MutedKept
<1>7. ReqInv(r)' /\ reqs'[r].tok = t /\ reqs'[r].at = "session"
  BY <1>4, WhoAmIInv
<1> QED
  BY <1>4, <1>6, <1>7 DEF Move, dbVars

LEMMA MutedMoves ==
  ASSUME IInv, NEW b \in Browsers, reqs' = Muted(b)
  PROVE  reqs' \in [Requests -> Request] /\ \A u \in Requests : Kept(u)
<1>1. TypeOK
  BY DEF IInv
<1>2. \A u \in Requests : reqs'[u] \in Request /\ Kept(u)
  BY <1>1, MutedKept
<1>3. reqs' = [u \in Requests |-> reqs'[u]]
  BY DEF Muted
<1> QED
  BY <1>2, <1>3

\* Every step moves at most one request.
Moved ==
  /\ reqs' \in [Requests -> Request]
  /\ (\A u \in Requests : Kept(u)) \/ \E r \in Requests : Move(r)

LEMMA MovesMoved ==
  ASSUME IInv, \/ UNCHANGED reqs
               \/ \E b \in Browsers : reqs' = Muted(b)
               \/ \E r \in Requests : Move(r)
  PROVE  Moved
<1>1. UNCHANGED reqs => Moved
  BY DEF IInv, TypeOK, Moved, Kept
<1>2. ASSUME NEW b \in Browsers, reqs' = Muted(b) PROVE Moved
  BY <1>2, MutedMoves DEF Moved
<1>3. ASSUME NEW r \in Requests, Move(r) PROVE Moved
  BY <1>3 DEF Moved, Move
<1> QED
  BY <1>1, <1>2, <1>3

\* A browser moves slots that are free or answered only.
LEMMA BrowseMoves ==
  ASSUME IInv, NEW b \in Browsers, Browse(b)
  PROVE  \/ UNCHANGED reqs
         \/ reqs' = Muted(b)
         \/ \E r \in Requests : Move(r) /\ reqs[r].at \in {"idle", "reply"}
<1>1. UNCHANGED dbVars /\ b \in Browsers \cup {None} /\ FormInv(b)
  BY DEF IInv, Browse, SetTab, EditEmail, DifferentEmail, Logout, SendCode,
     VerifyCode, Submit, Refused, CodeSent, SignedIn, Visit, Mounted
<1>2. form[b].email \in Emails \cup {None}
  BY DEF IInv, TypeOK
<1>3. SetTab(b) => reqs' = Muted(b)
  BY DEF SetTab
<1>4. EditEmail(b) \/ DifferentEmail(b) \/ Logout(b) => UNCHANGED reqs
  BY DEF EditEmail, DifferentEmail, Logout
<1>5. ASSUME NEW r \in Requests, SendCode(b, r)
      PROVE  Move(r) /\ reqs[r].at = "idle"
  <2>1. form[b].email \in Emails
    BY <1>2, <1>5 DEF SendCode
  <2>2. PICK n \in Names, p \in Passwords : Post(r, Start(b, form[b].email, n, p))
    BY <1>5 DEF SendCode
  <2> QED
    BY <1>1, <2>1, <2>2, StartMoves DEF Post, At
<1>6. ASSUME NEW r \in Requests, VerifyCode(b, r)
      PROVE  Move(r) /\ reqs[r].at = "idle"
  <2>1. form[b].email \in Emails
    BY <1>1, <1>2, <1>6 DEF VerifyCode, FormInv
  <2>2. PICK n \in Names, p \in Passwords, c \in Mailed :
           Post(r, Register(b, form[b].email, n, p, c))
    BY <1>6 DEF VerifyCode
  <2> QED
    BY <1>1, <2>1, <2>2, RegisterMoves DEF Post, At
<1>7. ASSUME NEW r \in Requests, Submit(b, r)
      PROVE  Move(r) /\ reqs[r].at = "idle"
  <2>1. \E e \in Emails \cup {None}, n \in Names \cup {None}, p \in Passwords :
           Post(r, SignIn(b, e, n, p))
    BY <1>7 DEF Submit
  <2> QED
    BY <1>1, <2>1, SignInMoves DEF Post, At
<1>8. ASSUME NEW r \in Requests, Refused(b, r) \/ CodeSent(b, r) \/ Mounted(b, r)
      PROVE  Move(r) /\ reqs[r].at = "reply"
  BY <1>8, IdleMoves DEF Refused, CodeSent, Mounted, At
<1>9. ASSUME NEW r \in Requests, SignedIn(b, r)
      PROVE  Move(r) /\ reqs[r].at = "reply"
  <2>1. reqs[r].tok \in Token /\ (reqs[r].tok # None => account[reqs[r].tok.sub] # None)
    BY <1>9 DEF SignedIn, At, IInv, TypeOK, ReqInv, Shape
  <2> QED
    BY <1>1, <1>9, <2>1, WhoAmIMoves DEF SignedIn, At
<1>10. ASSUME NEW r \in Requests, Visit(b, r)
       PROVE  reqs' = Muted(b) \/ (Move(r) /\ reqs[r].at = "idle")
  <2>1. cookie[b] \in Token \cup {None} /\ (cookie[b] # None => account[cookie[b].sub] # None)
    BY DEF IInv, TypeOK
  <2>2. \/ reqs' = Muted(b)
        \/ reqs' = [Muted(b) EXCEPT ![r] = WhoAmI(b, cookie[b])]
    BY <1>10 DEF Visit
  <2>3. reqs' = [Muted(b) EXCEPT ![r] = WhoAmI(b, cookie[b])] => Move(r)
    BY <1>1, <2>1, WhoAmIMoves
  <2> QED
    BY <1>10, <2>2, <2>3 DEF Visit, At
<1> QED
  BY <1>3, <1>4, <1>5, <1>6, <1>7, <1>8, <1>9, <1>10 DEF Browse

LEMMA HandleMoves ==
  ASSUME IInv, Tables, NEW r \in Requests, Handle(r) \/ Break(r) \/ Call(r) \/ Answered(r)
  PROVE  Move(r)
<1>1. Handle(r) => Move(r)
  BY UniqueMoves, DeleteMoves, InsertMoves, SendMailMoves, ReadCodeMoves, MarkMoves,
     FindMoves, CreateMoves, LookupMoves, SessionMoves, CompareMoves, UpdateMoves, PatchMoves,
     PatchRefusedMoves
     DEF Handle
<1>2. Break(r) => Move(r)
  BY SessionBlindMoves, FailMoves DEF Break
<1>3. Call(r) => Move(r)
  BY CallMoves
<1>4. Answered(r) => Move(r)
  BY IdleMoves DEF Answered
<1> QED
  BY <1>1, <1>2, <1>3, <1>4

LEMMA MoveStep ==
  ASSUME IInv, Tables, Next
  PROVE  Moved
<1>1. Expire \/ TokenExpires => UNCHANGED reqs
  BY DEF Expire, TokenExpires
<1> QED
  BY <1>1, HandleMoves, BrowseMoves, MovesMoved DEF Next

-----------------------------------------------------------------------------
(* The invariant of the requests                                           *)

\* Mail comes from requests that were about to send it, numbers from INSERTs.
LEMMA MailFrom ==
  ASSUME Next
  PROVE  \A m \in mail' :
           \/ m \in mail
           \/ \E r \in Requests :
                reqs[r].at = "mail" /\ m.code = reqs[r].code /\ m.to = reqs[r].email
<1>1. ASSUME NEW r \in Requests, SendMail(r), NEW m \in mail', m \notin mail
      PROVE  reqs[r].at = "mail" /\ m.code = reqs[r].code /\ m.to = reqs[r].email
  BY <1>1 DEF SendMail, At
<1>2. (\A r \in Requests : ~SendMail(r)) => mail' = mail
  BY TablesKept DEF dbVars, Expire, Delete, Insert, Mark, Create, Update, Patch, Fail, Refuse
<1> QED
  BY <1>1, <1>2

LEMMA Mailers ==
  ASSUME IInv, Moved
  PROVE  \A v \in Requests : reqs'[v].at = "mail" =>
           \/ reqs[v].at = "mail" /\ reqs'[v].code = reqs[v].code /\ reqs'[v].email = reqs[v].email
           \/ reqs'[v].code = codes + 1
<1>1. \A v \in Requests : Kept(v) =>
        (reqs'[v].at = "mail" => /\ reqs[v].at = "mail" /\ reqs'[v].code = reqs[v].code
                                 /\ reqs'[v].email = reqs[v].email)
  BY DEF Kept
<1>2. ASSUME NEW r \in Requests, Insert(r), reqs' \in [Requests -> Request]
      PROVE  reqs'[r].code = codes + 1
  <2>1. reqs[r] \in Request /\ reqs \in [Requests -> Request]
    BY DEF IInv, TypeOK
  <2> QED
    BY <1>2, <2>1 DEF Insert, Request
<1> QED
  BY <1>1, <1>2 DEF Moved, Move

\* A request that does not move keeps its part of the invariant.
LEMMA KeptInv ==
  ASSUME IInv, Tables, Moved, Next, NEW u \in Requests, Kept(u)
  PROVE  ReqInv(u)'
<1>1. ReqInv(u) /\ Shape(u) /\ Invited(u) /\ Fresh(u) /\ StillBarred(u)
  BY DEF IInv, ReqInv
<1>2. Grows /\ Rights /\ RowsMove
  BY DEF Tables
<1>3. reqs[u] \in Request /\ codes \in Nat /\ CodeInv /\ TypeOK
  BY DEF IInv, TypeOK
<1>4. Shape(u)'
  BY <1>1, <1>2 DEF Shape, Kept, Grows
<1>5. Invited(u)'
  <2>1. reqs[u].kind \in {"register", "verify"} /\ reqs[u].at \in {"unique"} \cup CodeSteps =>
          reqs[u].code \in Mailed'
    BY <1>1, <1>2 DEF Invited, Grows, Mailed
  <2>2. /\ reqs[u].at \in {"mark", "find", "create"} => \E m \in mail' : m.to = reqs[u].email
        /\ reqs[u].at = "reply" /\ reqs[u].ok /\ reqs[u].kind = "start" =>
             \E m \in mail' : m.to = reqs[u].email /\ m.purpose = "register"
    BY <1>1, <1>2 DEF Invited, Grows
  <2>3. ASSUME reqs[u].at = "mail"
        PROVE  /\ reqs[u].code \in 1..codes'
               /\ \A x \in rows' : x.code = reqs[u].code => x.email = reqs[u].email
               /\ \A m \in mail' : m.code = reqs[u].code => m.to = reqs[u].email
               /\ \A v \in Requests :
                    reqs'[v].at = "mail" /\ reqs'[v].code = reqs[u].code =>
                      reqs'[v].email = reqs[u].email
    <3>1. reqs[u].code \in 1..codes
      BY <1>1, <2>3 DEF Invited
    <3>2. codes' \in Nat /\ codes <= codes' /\ reqs[u].code # codes + 1
      BY <1>2, <1>3, <3>1 DEF Grows, Tables, DbTypes
    <3>3. \A x \in rows' : x.code = reqs[u].code => x.email = reqs[u].email
      BY <1>1, <1>2, <2>3, <3>2 DEF Invited, RowsMove
    <3>4. \A m \in mail' : m.code = reqs[u].code => m.to = reqs[u].email
      BY <1>1, <2>3, MailFrom DEF Invited
    <3>5. \A v \in Requests :
             reqs'[v].at = "mail" /\ reqs'[v].code = reqs[u].code =>
               reqs'[v].email = reqs[u].email
      BY <1>1, <2>3, <3>2, Mailers DEF Invited
    <3> QED
      BY <1>3, <3>1, <3>2, <3>3, <3>4, <3>5
  <2> QED
    BY <2>1, <2>2, <2>3 DEF Invited, Kept
<1>6. Fresh(u)'
  <2>1. ASSUME reqs[u].late, reqs[u].at \in {"unique", "code"}, NEW x \in rows',
               x.email = reqs[u].email, x.purpose = Purpose(u), x.code = reqs[u].code, ~x.used
        PROVE  \E z \in rows' : z.email = x.email /\ z.purpose = x.purpose /\ z.code > x.code
    <3>1. x.code # codes + 1
      <4>1. reqs[u].kind \in {"register", "start"} \cup {"verify"}
        BY <1>1, <2>1 DEF Shape, CodeSteps
      <4>2. reqs[u].code = 0 \/ reqs[u].code \in Mailed
        BY <1>1, <2>1, <4>1 DEF Shape, Invited, CodeSteps
      <4>3. \A c \in Mailed : c \in 1..codes
        BY <1>3 DEF Mailed, CodeInv
      <4> QED
        BY <1>3, <2>1, <4>2, <4>3
    <3>2. PICK y \in rows : /\ y.email = x.email /\ y.purpose = x.purpose /\ y.code = x.code
                            /\ y.used => x.used
      BY <1>2, <3>1 DEF RowsMove
    <3>3. PICK z \in rows : z.email = x.email /\ z.purpose = x.purpose /\ z.code > x.code
      BY <1>1, <2>1, <3>2 DEF Fresh
    <3>4. PICK w \in rows' : w.email = z.email /\ w.purpose = z.purpose /\ w.code = z.code
      BY <1>2, <3>1, <3>3 DEF RowsMove
    <3> QED
      BY <3>3, <3>4
  <2>2. Purpose(u)' = Purpose(u)
    BY DEF Purpose, Kept
  <2> QED
    BY <1>1, <2>1, <2>2 DEF Fresh, Kept
<1>7. StillBarred(u)'
  <2>1. ASSUME reqs'[u].barred, reqs[u].at = "session", reqs[u].tok # None
        PROVE  reqs[u].kind \in {"password", "patch"} /\ Barred(reqs[u].kind, reqs[u].tok)'
    <3>1. reqs[u].kind \in {"password", "patch"} /\ Barred(reqs[u].kind, reqs[u].tok)
      BY <1>1, <2>1 DEF StillBarred, Kept
    <3>2. reqs[u].tok.sub \in Emails /\ account[reqs[u].tok.sub] # None
      BY <1>3, <2>1 DEF TypeOK, Request, Token
    <3>3. /\ account'[reqs[u].tok.sub].active = account[reqs[u].tok.sub].active
          /\ account'[reqs[u].tok.sub].role = account[reqs[u].tok.sub].role
      BY <1>2, <2>1, <3>2 DEF Rights
    <3> QED
      BY <3>1, <3>3 DEF Barred, Admitted, Kept
  <2> QED
    BY <1>1, <2>1 DEF StillBarred, Kept, Barred, Admitted
<1> QED
  BY <1>4, <1>5, <1>6, <1>7 DEF ReqInv

LEMMA ReqStep ==
  ASSUME IInv, Tables, Moved, Next
  PROVE  \A u \in Requests : ReqInv(u)'
BY KeptInv DEF Moved, Move

-----------------------------------------------------------------------------
(* Types of the clients                                                    *)

LEMMA BoundStep ==
  ASSUME IInv, Next
  PROVE  BoundTypes'
<1> DEFINE Counts == /\ posts' = posts \/ (posts < MaxPosts /\ posts' = posts + 1)
                     /\ faults' = faults \/ (faults < MaxFaults /\ faults' = faults + 1)
<1>1. ASSUME NEW r \in Requests, Handle(r) \/ Break(r) \/ Answered(r)
      PROVE  Counts
  BY <1>1 DEF Handle, Break, SessionBlind, Fail, Answered
<1>2. ASSUME NEW r \in Requests, Call(r)
      PROVE  Counts
  BY <1>2 DEF Call, Post
<1>3. ASSUME NEW b \in Browsers, Browse(b)
      PROVE  Counts
  BY <1>3 DEF Browse, SetTab, EditEmail, DifferentEmail, Logout, SendCode,
     VerifyCode, Submit, Refused, CodeSent, SignedIn, Visit, Mounted, Post
<1>4. Expire \/ TokenExpires => Counts
  BY DEF Expire, TokenExpires
<1>5. Counts
  BY <1>1, <1>2, <1>3, <1>4 DEF Next
<1>6. /\ posts \in 0..MaxPosts /\ faults \in 0..MaxFaults
      /\ MaxPosts \in Nat /\ MaxFaults \in Nat
  BY AccountsAssumption DEF IInv, TypeOK
<1> QED
  BY <1>5, <1>6 DEF BoundTypes

\* The steps that give clients a token, or take one.
LEMMA TokenSteps ==
  ASSUME Next
  PROVE  \/ UNCHANGED <<issued, cookie>>
         \/ TokenExpires
         \/ \E r \in Requests : Answered(r)
         \/ \E b \in Browsers : Logout(b) \/ \E r \in Requests : SignedIn(b, r)
<1>1. ASSUME NEW r \in Requests, Handle(r) \/ Break(r) \/ Call(r)
      PROVE  UNCHANGED <<issued, cookie>>
  BY <1>1 DEF Handle, Break, Call, clientVars
<1>2. Expire => UNCHANGED <<issued, cookie>>
  BY DEF Expire, clientVars
<1>3. ASSUME NEW b \in Browsers, Browse(b),
             ~Logout(b), \A r \in Requests : ~SignedIn(b, r)
      PROVE  UNCHANGED <<issued, cookie>>
  BY <1>3 DEF Browse, SetTab, EditEmail, DifferentEmail, SendCode, VerifyCode, Submit,
     Refused, CodeSent, Visit, Mounted
<1> QED
  BY <1>1, <1>2, <1>3 DEF Next

\* Tokens are those there were, or those of answers.
FromAnswer(t) == \E r \in Requests : reqs[r].tok = t /\ reqs[r].tok # None

LEMMA TokensFrom ==
  ASSUME IInv, Next
  PROVE  /\ \A t \in issued' : t \in issued \/ FromAnswer(t)
         /\ cookie' \in [Browsers -> Token \cup {None}]
         /\ \A b \in Browsers : cookie'[b] \in {None, cookie[b]} \/ FromAnswer(cookie'[b])
<1>1. cookie \in [Browsers -> Token \cup {None}]
  BY DEF IInv, TypeOK
<1>2. ASSUME UNCHANGED issued
      PROVE  \A t \in issued' : t \in issued \/ FromAnswer(t)
  BY <1>2
<1>3. ASSUME UNCHANGED cookie
      PROVE  /\ cookie' \in [Browsers -> Token \cup {None}]
             /\ \A b \in Browsers : cookie'[b] \in {None, cookie[b]} \/ FromAnswer(cookie'[b])
  BY <1>1, <1>3
<1>4. ASSUME NEW b \in Browsers, NEW t \in Token \cup {None}, t = None \/ FromAnswer(t),
             cookie' = [cookie EXCEPT ![b] = t]
      PROVE  /\ cookie' \in [Browsers -> Token \cup {None}]
             /\ \A c \in Browsers : cookie'[c] \in {None, cookie[c]} \/ FromAnswer(cookie'[c])
  BY <1>1, <1>4
<1>5. ASSUME NEW r \in Requests, Answered(r)
      PROVE  (\A t \in issued' : t \in issued \/ FromAnswer(t)) /\ UNCHANGED cookie
  BY <1>5 DEF Answered, FromAnswer
<1>6. ASSUME NEW b \in Browsers, NEW r \in Requests, SignedIn(b, r)
      PROVE  /\ \A t \in issued' : t \in issued \/ FromAnswer(t)
             /\ reqs[r].tok \in Token /\ FromAnswer(reqs[r].tok)
             /\ cookie' = [cookie EXCEPT ![b] = reqs[r].tok]
  BY <1>6, AccountsAssumption DEF SignedIn, At, FromAnswer, IInv, ReqInv, Shape
<1>7. ASSUME NEW b \in Browsers, Logout(b)
      PROVE  cookie' = [cookie EXCEPT ![b] = None] /\ UNCHANGED issued
  BY <1>7 DEF Logout
<1>8. ASSUME TokenExpires
      PROVE  /\ issued' \subseteq issued
             /\ cookie' \in [Browsers -> Token \cup {None}]
             /\ \A b \in Browsers : cookie'[b] \in {None, cookie[b]}
  <2>1. PICK t : cookie' = [b \in Browsers |-> IF cookie[b] = t THEN None ELSE cookie[b]]
    BY <1>8 DEF TokenExpires
  <2> QED
    BY <1>1, <1>8, <2>1 DEF TokenExpires
<1>9. \A t \in issued' : t \in issued \/ FromAnswer(t)
  BY <1>2, <1>5, <1>6, <1>7, <1>8, TokenSteps
<1>10. /\ cookie' \in [Browsers -> Token \cup {None}]
       /\ \A b \in Browsers : cookie'[b] \in {None, cookie[b]} \/ FromAnswer(cookie'[b])
  BY <1>3, <1>4, <1>5, <1>6, <1>7, <1>8, TokenSteps
<1> QED
  BY <1>9, <1>10

Forms == [tab : {"login", "register"}, email : Emails \cup {None},
          verify : BOOLEAN, busy : BOOLEAN, edited : BOOLEAN]
Pages == [path : {"login", "dashboard", "admin"},
          shows : {"form", "spinner", "console", "denied"}]

\* What a browser makes of its form.
LEMMA FormTypes ==
  ASSUME NEW f \in Forms
  PROVE  /\ \A x \in BOOLEAN : /\ [f EXCEPT !.busy = x] \in Forms
                               /\ [f EXCEPT !.edited = x] \in Forms
                               /\ [f EXCEPT !.verify = x] \in Forms
         /\ \A e \in Emails : [f EXCEPT !.email = e] \in Forms
         /\ f.busy \in BOOLEAN /\ f.edited \in BOOLEAN /\ f.verify \in BOOLEAN
         /\ f.email \in Emails \cup {None}
BY DEF Forms

LEMMA FormAtType == FormAt("login") \in Forms /\ FormAt("register") \in Forms
BY DEF FormAt, Forms

\* The form of a browser that acts, field by field.
Sets(b, f) == form' = [form EXCEPT ![b] = f]

LEMMA FormSteps ==
  ASSUME IInv, NEW b \in Browsers, Browse(b)
  PROVE  UNCHANGED form \/ \E f \in Forms : Sets(b, f)
<1>1. form \in [Browsers -> Forms] /\ form[b] \in Forms
  BY DEF IInv, TypeOK, Forms
<1>2. ASSUME SetTab(b) \/ \E r \in Requests : SignedIn(b, r) \/ Visit(b, r)
      PROVE  Sets(b, FormAt("login")) \/ Sets(b, FormAt("register"))
  BY <1>2 DEF SetTab, SignedIn, Visit, Sets
<1>3. ASSUME EditEmail(b)
      PROVE  \E f \in Forms : Sets(b, f)
  <2>1. PICK e \in Emails :
          form' = [form EXCEPT ![b].email = e, ![b].edited = @ \/ form[b].busy]
    BY <1>3 DEF EditEmail
  <2> DEFINE f1 == [form[b] EXCEPT !.email = e]
             f == [f1 EXCEPT !.edited = form[b].edited \/ form[b].busy]
  <2>2. f1.edited = form[b].edited
    BY <1>1 DEF Forms
  <2>3. Sets(b, f)
    BY <1>1, <2>1, <2>2 DEF Sets
  <2>4. f1 \in Forms /\ (form[b].edited \/ form[b].busy) \in BOOLEAN
    BY <1>1, FormTypes
  <2> HIDE DEF f1
  <2>5. f \in Forms
    BY <2>4, FormTypes
  <2> QED
    BY <2>3, <2>5
<1>4. ASSUME NEW r \in Requests, SendCode(b, r)
      PROVE  \E f \in Forms : Sets(b, f)
  <2> DEFINE f1 == [form[b] EXCEPT !.busy = TRUE]
             f == [f1 EXCEPT !.edited = FALSE]
  <2>1. Sets(b, f)
    BY <1>1, <1>4 DEF SendCode, Sets
  <2>2. f1 \in Forms
    BY <1>1, FormTypes
  <2> HIDE DEF f1
  <2>3. f \in Forms
    BY <2>2, FormTypes
  <2> QED
    BY <2>1, <2>3
<1>5. ASSUME DifferentEmail(b) \/ \E r \in Requests : VerifyCode(b, r) \/ Submit(b, r)
      PROVE  Sets(b, [form[b] EXCEPT !.verify = FALSE]) \/ Sets(b, [form[b] EXCEPT !.busy = TRUE])
  BY <1>1, <1>5 DEF DifferentEmail, VerifyCode, Submit, Sets
<1>6. ASSUME NEW r \in Requests, Refused(b, r)
      PROVE  UNCHANGED form \/ Sets(b, [form[b] EXCEPT !.busy = FALSE])
  BY <1>1, <1>6 DEF Refused, Sets
<1>7. ASSUME NEW r \in Requests, CodeSent(b, r)
      PROVE  UNCHANGED form \/ \E f \in Forms : Sets(b, f)
  <2> DEFINE f1 == [form[b] EXCEPT !.busy = FALSE]
             f == [f1 EXCEPT !.verify = TRUE]
  <2>1. UNCHANGED form \/ Sets(b, f)
    BY <1>1, <1>7 DEF CodeSent, Sets
  <2>2. f1 \in Forms
    BY <1>1, FormTypes
  <2> HIDE DEF f1
  <2>3. f \in Forms
    BY <2>2, FormTypes
  <2> QED
    BY <2>1, <2>3
<1>8. Logout(b) \/ (\E r \in Requests : Mounted(b, r)) => UNCHANGED form
  BY DEF Logout, Mounted
<1>9. ASSUME DifferentEmail(b) \/ \E r \in Requests : VerifyCode(b, r) \/ Submit(b, r)
      PROVE  \E f \in Forms : Sets(b, f)
  BY <1>1, <1>5, <1>9, FormTypes
<1>10. ASSUME NEW r \in Requests, Refused(b, r)
       PROVE  UNCHANGED form \/ \E f \in Forms : Sets(b, f)
  BY <1>1, <1>6, <1>10, FormTypes
<1> QED
  BY <1>2, <1>3, <1>4, <1>7, <1>8, <1>9, <1>10, FormAtType DEF Browse

LEMMA PageSteps ==
  ASSUME IInv, NEW b \in Browsers, Browse(b)
  PROVE  UNCHANGED page \/ \E p \in Pages : page' = [page EXCEPT ![b] = p]
<1>1. page \in [Browsers -> Pages] /\ page[b].path \in {"login", "dashboard", "admin"}
  BY DEF IInv, TypeOK, Pages
<1>2. /\ Spinner("dashboard") \in Pages /\ Spinner("admin") \in Pages /\ LoginPage \in Pages
      /\ \A path \in {"login", "dashboard", "admin"} : \A ok, role : Shows(path, ok, role) \in Pages
  BY DEF Spinner, LoginPage, Shows, Pages
<1>3. \/ SetTab(b) \/ EditEmail(b) \/ DifferentEmail(b)
      \/ \E r \in Requests : \/ SendCode(b, r) \/ VerifyCode(b, r) \/ Submit(b, r)
                             \/ Refused(b, r) \/ CodeSent(b, r)
      => UNCHANGED page
  BY DEF SetTab, EditEmail, DifferentEmail, SendCode, VerifyCode, Submit, Refused, CodeSent
<1>4. ASSUME Logout(b)
      PROVE  page' = [page EXCEPT ![b] = LoginPage]
  BY <1>4 DEF Logout
<1>5. ASSUME NEW r \in Requests, SignedIn(b, r) \/ Visit(b, r)
      PROVE  \E p \in Pages : page' = [page EXCEPT ![b] = p]
  BY <1>2, <1>5 DEF SignedIn, Visit
<1>6. ASSUME NEW r \in Requests, Mounted(b, r)
      PROVE  UNCHANGED page \/ \E p \in Pages : page' = [page EXCEPT ![b] = p]
  BY <1>1, <1>2, <1>6 DEF Mounted
<1> QED
  BY <1>2, <1>3, <1>4, <1>5, <1>6 DEF Browse

LEMMA ClientStep ==
  ASSUME IInv, Next
  PROVE  ClientTypes'
<1>1. issued' \subseteq Token /\ cookie' \in [Browsers -> Token \cup {None}]
  BY TokensFrom DEF FromAnswer, IInv, TypeOK, Request
<1>2. form \in [Browsers -> Forms] /\ page \in [Browsers -> Pages]
  BY DEF IInv, TypeOK, Forms, Pages
<1>3. (\A b \in Browsers : ~Browse(b)) => UNCHANGED <<form, page>>
  BY DEF Next, Handle, Break, Call, Answered, Expire, TokenExpires, clientVars
<1>4. form' \in [Browsers -> Forms] /\ page' \in [Browsers -> Pages]
  <2>1. ASSUME NEW b \in Browsers, Browse(b)
        PROVE  form' \in [Browsers -> Forms] /\ page' \in [Browsers -> Pages]
    BY <1>2, <2>1, FormSteps, PageSteps DEF Sets
  <2> QED
    BY <1>2, <1>3, <2>1
<1> QED
  BY <1>1, <1>4 DEF ClientTypes, Forms, Pages

\* A token names a user who exists, and accounts stay.
LEMMA KnownStep ==
  ASSUME IInv, Tables, Moved, Next
  PROVE  Known'
<1>1. \A t \in Token : account[t.sub] # None => account'[t.sub] # None
  BY DEF Tables, Grows, Token
<1>2. /\ \A t \in issued : t \in Token /\ account[t.sub] # None
      /\ \A t : FromAnswer(t) => t \in Token /\ account[t.sub] # None
      /\ \A b \in Browsers : cookie[b] # None => cookie[b] \in Token /\ account[cookie[b].sub] # None
      /\ \A r \in Requests : reqs[r].tok # None =>
           reqs[r].tok \in Token /\ account[reqs[r].tok.sub] # None
  BY DEF IInv, TypeOK, FromAnswer, Request
<1>3. \A t \in issued' : account'[t.sub] # None
  BY <1>1, <1>2, TokensFrom
<1>4. \A b \in Browsers : cookie'[b] # None => account'[cookie'[b].sub] # None
  BY <1>1, <1>2, TokensFrom
<1>5. \A r \in Requests : reqs'[r].tok # None => account'[reqs'[r].tok.sub] # None
  BY <1>1, <1>2 DEF Moved, Move, Kept
<1> QED
  BY <1>3, <1>4, <1>5 DEF Known

-----------------------------------------------------------------------------
(* Spent codes                                                             *)

\* A request that is about to create an account creates it, is refused or fails.
LEMMA CreateLeaves ==
  ASSUME IInv, Tables, Next, NEW u \in Requests, reqs[u].at = "create"
  PROVE  Kept(u) \/ Create(u) \/ Fail(u)
<1>1. CASE UNCHANGED reqs
  BY <1>1 DEF Kept
<1>2. ASSUME NEW b \in Browsers, reqs' = Muted(b)
      PROVE  Kept(u)
  BY <1>2, MutedMoves
<1>3. ASSUME NEW r \in Requests, Move(r), reqs[r].at \in {"idle", "reply"}
      PROVE  Kept(u)
  BY <1>3 DEF Move
<1>4. ASSUME NEW r \in Requests, Handle(r) \/ Break(r) \/ Call(r) \/ Answered(r), r # u
      PROVE  Kept(u)
  BY <1>4, HandleMoves DEF Move
<1>5. Handle(u) => Create(u)
  BY DEF Handle, Unique, Delete, Insert, SendMail, ReadCode, Mark, Find, Lookup, Session,
     Compare, Update, Patch, PatchRefused, At
<1>6. Break(u) => Fail(u)
  BY DEF Break, SessionBlind, At
<1>7. ~Call(u) /\ ~Answered(u)
  BY DEF Call, Post, Answered, At
<1>8. Expire \/ TokenExpires => UNCHANGED reqs
  BY DEF Expire, TokenExpires
<1> QED
  BY <1>1, <1>2, <1>3, <1>4, <1>5, <1>6, <1>7, <1>8, BrowseMoves DEF Next

LEMMA SpentFrom ==
  ASSUME Next
  PROVE  spent' = spent \/ \E r \in Requests : Mark(r)
BY TablesKept DEF dbVars, Expire, Delete, Insert, SendMail, Create, Refuse, Update, Patch, Fail

LEMMA SpentStep ==
  ASSUME IInv, Tables, Moved, Next
  PROVE  SpentInv'
<1>1. Grows
  BY DEF Tables
<1>2. ASSUME NEW s \in spent, Taken(s.email, s.name)
      PROVE  Taken(s.email, s.name)' \/ s \in excused'
  <2>1. s.email \in Emails
    BY DEF IInv, TypeOK, Spending
  <2> QED
    BY <1>1, <1>2, <2>1 DEF Taken, Grows
<1>3. ASSUME NEW s \in spent' \ spent
      PROVE  Covered(s)'
  <2>1. PICK r \in Requests : Mark(r)
    BY <1>3, SpentFrom
  <2>2. s = [code |-> reqs[r].code, email |-> reqs[r].email, name |-> reqs[r].name]
    BY <1>3, <2>1 DEF Mark, Spent
  <2>3. reqs[r].kind = "register" \/ reqs[r].name = None
    BY <2>1 DEF Mark, At, IInv, ReqInv, Shape, CodeSteps
  <2>4. reqs[r].kind = "register" => Goto(r, "create")
    BY <2>1 DEF Mark
  <2>5. Goto(r, "create") => /\ reqs'[r].at = "create" /\ reqs'[r].code = reqs[r].code
                             /\ reqs'[r].email = reqs[r].email /\ reqs'[r].name = reqs[r].name
    BY GotoFields DEF IInv
  <2> QED
    BY <2>2, <2>3, <2>4, <2>5 DEF Covered
<1>4. ASSUME NEW s \in spent
      PROVE  Covered(s)'
  <2>1. s.email \in Emails
    BY DEF IInv, TypeOK, Spending
  <2>2. CASE s.name = None \/ Taken(s.email, s.name) \/ s \in excused
    BY <1>1, <1>2, <2>1, <2>2 DEF Grows, Covered
  <2>3. ASSUME NEW u \in Requests, reqs[u].at = "create", reqs[u].code = s.code,
               reqs[u].email = s.email, reqs[u].name = s.name, s.name # None
        PROVE  Covered(s)'
    <3>1. CASE Kept(u)
      BY <2>3, <3>1 DEF Kept, Covered
    <3>2. CASE Fail(u)
      <4>1. s \in Spending
        BY DEF IInv, TypeOK
      <4>2. s = Spent(u)
        BY <2>3, <4>1 DEF Spent, Spending
      <4> QED
        BY <2>3, <3>2, <4>2 DEF Fail, At, Covered
    <3>3. CASE Create(u)
      <4>1. CASE Taken(s.email, s.name)
        BY <1>2, <2>1, <4>1 DEF Covered
      <4>2. CASE ~Taken(s.email, s.name)
        <5> DEFINE a == [name |-> s.name, pw |-> reqs[u].pw, role |-> "user", active |-> TRUE]
        <5>1. account' = [account EXCEPT ![s.email] = a]
          BY <2>3, <3>3, <4>2 DEF Create
        <5>2. a \in Account
          BY <2>3 DEF IInv, TypeOK, Request, Account, Roles, Spending
        <5> HIDE DEF a
        <5>3. account'[s.email] # None
          BY <2>1, <5>1, <5>2, AccountsAssumption DEF IInv, TypeOK
        <5> QED
          BY <5>3 DEF Taken, Covered
      <4> QED
        BY <4>1, <4>2
    <3> QED
      BY <2>3, <3>1, <3>2, <3>3, CreateLeaves
  <2> QED
    BY <2>2, <2>3 DEF IInv, SpentInv, Covered
<1> QED
  BY <1>3, <1>4 DEF SpentInv

-----------------------------------------------------------------------------
(* The form                                                                *)

\* What a request is to the form of b: nothing that the form waits for, or what it was.
AsksAsBefore(u, b) ==
  Asks(u, b)' => Asks(u, b) /\ reqs'[u].kind = reqs[u].kind /\ reqs'[u].email = reqs[u].email

LEMMA FormKept ==
  ASSUME NEW b, FormInv(b), form'[b] = form[b], mail \subseteq mail',
         \A u \in Requests : AsksAsBefore(u, b)
  PROVE  FormInv(b)'
<1>1. \A u \in Requests : Asks(u, b)' =>
        /\ form'[b].busy
        /\ \A v \in Requests : Asks(v, b)' => v = u
        /\ reqs'[u].kind = "start" =>
             form'[b].email # None /\ (~form'[b].edited => form'[b].email = reqs'[u].email)
  BY DEF FormInv, AsksAsBefore
<1> QED
  BY <1>1 DEF FormInv

\* No request is left whose answer the form waits for.
LEMMA FormQuiet ==
  ASSUME NEW b, \A u \in Requests : ~Asks(u, b)',
         form'[b].verify => form'[b].email # None,
         form'[b].verify /\ ~form'[b].edited =>
           \E m \in mail' : m.to = form'[b].email /\ m.purpose = "register"
  PROVE  FormInv(b)'
BY DEF FormInv

\* The steps of a handler leave alone what the form looks at.
SameAsker(u) ==
  /\ reqs'[u].kind = reqs[u].kind /\ reqs'[u].by = reqs[u].by
  /\ reqs'[u].live = reqs[u].live /\ reqs'[u].email = reqs[u].email

LEMMA HandlersAsk ==
  ASSUME IInv, NEW r \in Requests, Handle(r) \/ Break(r), NEW u \in Requests
  PROVE  SameAsker(u)
<1>1. TypeOK /\ reqs \in [Requests -> Request] /\ reqs[u] \in Request /\ reqs[r] \in Request
  BY DEF IInv, TypeOK
<1>2. ASSUME NEW step, Goto(r, step) PROVE SameAsker(u)
  <2>1. reqs'[r] = [reqs[r] EXCEPT !.at = step] /\ Same(r)
    BY <1>1, <1>2, OneMoves
  <2> QED
    BY <1>1, <2>1 DEF Same, SameAsker, Request
<1>3. ASSUME NEW ok, NEW tok, Reply(r, ok, tok) PROVE SameAsker(u)
  <2>1. reqs'[r] = Answer(r, ok, tok) /\ Same(r)
    BY <1>1, <1>3, OneMoves
  <2>2. /\ Answer(r, ok, tok).kind = reqs[r].kind /\ Answer(r, ok, tok).by = reqs[r].by
        /\ Answer(r, ok, tok).live = reqs[r].live /\ Answer(r, ok, tok).email = reqs[r].email
    BY DEF Answer, Idle
  <2> QED
    BY <2>1, <2>2 DEF Same, SameAsker
<1>4. Refuse(r) => SameAsker(u)
  BY <1>3 DEF Refuse
<1>5. ASSUME NEW e, NEW role, Grant(r, e, role) PROVE SameAsker(u)
  BY <1>3, <1>5 DEF Grant
<1>6. Unique(r) \/ Delete(r) \/ ReadCode(r) \/ Mark(r) \/ Compare(r) => SameAsker(u)
  BY <1>2, <1>4 DEF Unique, Delete, ReadCode, Mark, Compare
<1>7. SendMail(r) \/ Update(r) \/ Fail(r) => SameAsker(u)
  BY <1>3 DEF SendMail, Update, Fail
<1>8. Find(r) \/ Create(r) \/ Lookup(r) => SameAsker(u)
  BY <1>2, <1>4, <1>5 DEF Find, Create, Lookup
<1>9. Session(r) => SameAsker(u)
  BY <1>2, <1>4 DEF Session, Goto
<1>10. ASSUME Insert(r) PROVE SameAsker(u)
  <2>1. reqs' = [reqs EXCEPT ![r].at = "mail", ![r].code = codes + 1]
    BY <1>10 DEF Insert
  <2> QED
    BY <1>1, <2>1 DEF SameAsker, Request
<1>11. ASSUME SessionBlind(r) PROVE SameAsker(u)
  <2>1. CASE Refuse(r)
    BY <1>4, <2>1
  <2>2. CASE reqs' = [reqs EXCEPT ![r].at = AfterSession(reqs[r].kind), ![r].blind = TRUE]
    BY <1>1, <2>2 DEF SameAsker, Request
  <2> QED
    BY <1>11, <2>1, <2>2 DEF SessionBlind
<1>12. ASSUME Patch(r) PROVE SameAsker(u)
  <2>1. CASE u = r
    <3>1. reqs'[r] = Answer(r, TRUE, None)
      BY <1>12 DEF Patch
    <3>2. /\ Answer(r, TRUE, None).kind = reqs[r].kind /\ Answer(r, TRUE, None).by = reqs[r].by
          /\ Answer(r, TRUE, None).live = reqs[r].live
          /\ Answer(r, TRUE, None).email = reqs[r].email
      BY DEF Answer, Idle
    <3> QED
      BY <2>1, <3>1, <3>2 DEF SameAsker
  <2>2. CASE u # r
    <3>1. reqs'[u] = reqs[u] \/ reqs'[u] = [reqs[u] EXCEPT !.barred = FALSE]
      BY <1>12, <2>2 DEF Patch
    <3> QED
      BY <1>1, <3>1 DEF SameAsker, Request
  <2> QED
    BY <2>1, <2>2
<1> QED
  BY <1>4, <1>6, <1>7, <1>8, <1>9, <1>10, <1>11, <1>12 DEF Handle, Break, PatchRefused

\* A request that is sent past the forms, or whose slot is freed.
LEMMA CallsAsk ==
  ASSUME IInv, NEW r \in Requests, Call(r) \/ Answered(r), NEW b \in Browsers
  PROVE  \A u \in Requests : AsksAsBefore(u, b)
<1>1. b # None
  BY AccountsAssumption
<1>2. ASSUME NEW q, q.by = None, reqs' = [reqs EXCEPT ![r] = q]
      PROVE  \A u \in Requests : AsksAsBefore(u, b)
  <2>1. reqs'[r] = q /\ \A u \in Requests \ {r} : reqs'[u] = reqs[u]
    BY <1>2 DEF IInv, TypeOK
  <2> QED
    BY <1>1, <1>2, <2>1 DEF AsksAsBefore, Asks
<1>3. Idle.by = None
  BY DEF Idle
<1>4. CASE Answered(r)
  BY <1>2, <1>3, <1>4 DEF Answered
<1>5. ASSUME NEW q, q.by = None, Post(r, q)
      PROVE  \A u \in Requests : AsksAsBefore(u, b)
  BY <1>2, <1>5 DEF Post
<1>6. ASSUME NEW e, NEW n, NEW p,
             \/ Post(r, Start(None, e, n, p))
             \/ \E c \in Mailed : Post(r, Register(None, e, n, p, c))
             \/ Post(r, SignIn(None, e, n, p))
      PROVE  \A u \in Requests : AsksAsBefore(u, b)
  <2>1. /\ Start(None, e, n, p).by = None /\ SignIn(None, e, n, p).by = None
        /\ \A c : Register(None, e, n, p, c).by = None
    BY DEF Start, Register, SignIn, Idle
  <2> QED
    BY <1>5, <1>6, <2>1
<1>7. ASSUME NEW e,
             \/ Post(r, [Idle EXCEPT !.at = "delete", !.kind = "send", !.email = e])
             \/ \E c \in Mailed :
                  Post(r, [Idle EXCEPT !.at = "code", !.kind = "verify", !.email = e, !.code = c,
                                       !.late = Late(e, "login", c)])
      PROVE  \A u \in Requests : AsksAsBefore(u, b)
  <2>1. /\ [Idle EXCEPT !.at = "delete", !.kind = "send", !.email = e].by = None
        /\ \A c, late : [Idle EXCEPT !.at = "code", !.kind = "verify", !.email = e, !.code = c,
                                     !.late = late].by = None
    BY DEF Idle
  <2> QED
    BY <1>5, <1>7, <2>1
<1>8. ASSUME NEW t,
             \/ \E p \in Passwords :
                  Post(r, [Idle EXCEPT !.at = "session", !.kind = "password", !.pw = p, !.tok = t,
                                       !.barred = Barred("password", t)])
             \/ \E e \in {f \in Emails : account[f] # None} :
                  Post(r, [Idle EXCEPT !.at = "session", !.kind = "patch", !.email = e, !.tok = t,
                                       !.barred = Barred("patch", t)])
      PROVE  \A u \in Requests : AsksAsBefore(u, b)
  <2>1. /\ \A p, barred : [Idle EXCEPT !.at = "session", !.kind = "password", !.pw = p,
                                       !.tok = t, !.barred = barred].by = None
        /\ \A e, barred : [Idle EXCEPT !.at = "session", !.kind = "patch", !.email = e,
                                       !.tok = t, !.barred = barred].by = None
    BY DEF Idle
  <2> QED
    BY <1>5, <1>8, <2>1
<1>9. CASE Call(r)
  BY <1>6, <1>7, <1>8, <1>9 DEF Call
<1> QED
  BY <1>4, <1>9

\* One browser leaves the others' forms and requests alone.
LEMMA OthersAsk ==
  ASSUME IInv, NEW b \in Browsers, Browse(b), NEW c \in Browsers \ {b}
  PROVE  form'[c] = form[c] /\ \A u \in Requests : AsksAsBefore(u, c)
<1>1. form'[c] = form[c]
  BY FormSteps DEF Sets, IInv, TypeOK
<1>2. reqs \in [Requests -> Request] /\ Idle.by = None /\ c # None
  BY AccountsAssumption DEF IInv, TypeOK, Idle
<1>3. UNCHANGED reqs => \A u \in Requests : AsksAsBefore(u, c)
  BY DEF AsksAsBefore, Asks
<1>4. ASSUME NEW r \in Requests, NEW q, q.by \in {b, None}, reqs' = [reqs EXCEPT ![r] = q]
      PROVE  \A u \in Requests : AsksAsBefore(u, c)
  BY <1>2, <1>4 DEF AsksAsBefore, Asks
<1>5. \A u \in Requests : Muted(b)[u].by = c => Muted(b)[u] = reqs[u]
  <2>1. ASSUME NEW u \in Requests, reqs[u].by = b
        PROVE  Muted(b)[u].by = b
    <3>1. Muted(b)[u] = [reqs[u] EXCEPT !.live = FALSE] /\ reqs[u] \in Request
      BY <1>2, <2>1 DEF Muted
    <3> QED
      BY <2>1, <3>1 DEF Request
  <2>2. ASSUME NEW u \in Requests, reqs[u].by # b
        PROVE  Muted(b)[u] = reqs[u]
    BY <2>2 DEF Muted
  <2> QED
    BY <2>1, <2>2
<1>6. reqs' = Muted(b) => \A u \in Requests : AsksAsBefore(u, c)
  BY <1>5 DEF AsksAsBefore, Asks
<1>7. ASSUME NEW r \in Requests, NEW t, reqs' = [Muted(b) EXCEPT ![r] = WhoAmI(b, t)]
      PROVE  \A u \in Requests : AsksAsBefore(u, c)
  <2>1. WhoAmI(b, t).by = b
    BY DEF WhoAmI, Idle
  <2>2. reqs'[r] = WhoAmI(b, t) /\ \A u \in Requests \ {r} : reqs'[u] = Muted(b)[u]
    BY <1>7 DEF Muted
  <2> QED
    BY <1>5, <2>1, <2>2 DEF AsksAsBefore, Asks
<1>8. /\ \A e, n, p : Start(b, e, n, p).by = b /\ SignIn(b, e, n, p).by = b
      /\ \A e, n, p, k : Register(b, e, n, p, k).by = b
  BY DEF Start, SignIn, Register, Idle
<1>9. SetTab(b) \/ (\E r \in Requests : SignedIn(b, r) \/ Visit(b, r)) =>
        \A u \in Requests : AsksAsBefore(u, c)
  BY <1>6, <1>7 DEF SetTab, SignedIn, Visit
<1>10. EditEmail(b) \/ DifferentEmail(b) \/ Logout(b) => UNCHANGED reqs
  BY DEF EditEmail, DifferentEmail, Logout
<1>11. ASSUME NEW r \in Requests, SendCode(b, r) \/ VerifyCode(b, r) \/ Submit(b, r)
       PROVE  \A u \in Requests : AsksAsBefore(u, c)
  BY <1>4, <1>8, <1>11 DEF SendCode, VerifyCode, Submit, Post
<1>12. ASSUME NEW r \in Requests, Refused(b, r) \/ CodeSent(b, r) \/ Mounted(b, r)
       PROVE  \A u \in Requests : AsksAsBefore(u, c)
  BY <1>2, <1>4, <1>12 DEF Refused, CodeSent, Mounted
<1> QED
  BY <1>1, <1>3, <1>9, <1>10, <1>11, <1>12 DEF Browse

\* A page that is left waits for no answer of its form.
LEMMA MutedAsk ==
  ASSUME IInv, NEW b \in Browsers,
         \/ reqs' = Muted(b)
         \/ \E r \in Requests, t \in Token \cup {None} : reqs' = [Muted(b) EXCEPT ![r] = WhoAmI(b, t)]
  PROVE  \A u \in Requests : ~Asks(u, b)'
<1>1. \A u \in Requests : ~(Muted(b)[u].by = b /\ Muted(b)[u].live)
  <2>1. ASSUME NEW u \in Requests, reqs[u].by = b
        PROVE  Muted(b)[u].live = FALSE
    <3>1. Muted(b)[u] = [reqs[u] EXCEPT !.live = FALSE] /\ reqs[u] \in Request
      BY <2>1 DEF Muted, IInv, TypeOK
    <3> QED
      BY <3>1 DEF Request
  <2>2. ASSUME NEW u \in Requests, reqs[u].by # b
        PROVE  Muted(b)[u] = reqs[u]
    BY <2>2 DEF Muted
  <2> QED
    BY <2>1, <2>2
<1>2. CASE reqs' = Muted(b)
  BY <1>1, <1>2 DEF Asks
<1>3. ASSUME NEW r \in Requests, NEW t \in Token \cup {None},
             reqs' = [Muted(b) EXCEPT ![r] = WhoAmI(b, t)]
      PROVE  \A u \in Requests : ~Asks(u, b)'
  <2>1. WhoAmI(b, t).kind = "me"
    BY DEF WhoAmI, Idle
  <2>2. reqs'[r] = WhoAmI(b, t) /\ \A u \in Requests \ {r} : reqs'[u] = Muted(b)[u]
    BY <1>3 DEF Muted
  <2> QED
    BY <1>1, <2>1, <2>2 DEF Asks, FormKinds
<1> QED
  BY <1>2, <1>3

LEMMA OwnForm ==
  ASSUME IInv, NEW b \in Browsers, Browse(b)
  PROVE  FormInv(b)'
<1>1. /\ FormInv(b) /\ reqs \in [Requests -> Request] /\ form \in [Browsers -> Forms]
      /\ form[b] \in Forms /\ form[b].email \in Emails \cup {None} /\ None \notin Emails
  BY AccountsAssumption DEF IInv, TypeOK, Forms
<1>2. UNCHANGED mail
  BY DEF Browse, dbVars, SetTab, EditEmail, DifferentEmail, Logout, SendCode,
     VerifyCode, Submit, Refused, CodeSent, SignedIn, Visit, Mounted
\* An empty form: nothing is said.
<1>3. ASSUME form'[b].verify = FALSE, \A u \in Requests : ~Asks(u, b)'
      PROVE  FormInv(b)'
  BY <1>3, FormQuiet
<1>4. /\ FormAt("login").verify = FALSE /\ FormAt("register").verify = FALSE
  BY DEF FormAt
<1>5. CASE SetTab(b)
  <2>1. form'[b] \in {FormAt("login"), FormAt("register")} /\ reqs' = Muted(b)
    BY <1>1, <1>5 DEF SetTab
  <2> QED
    BY <1>3, <1>4, <2>1, MutedAsk
<1>6. ASSUME NEW r \in Requests, SignedIn(b, r) \/ Visit(b, r)
      PROVE  FormInv(b)'
  <2>1. reqs[r].tok \in Token \cup {None} /\ cookie[b] \in Token \cup {None}
    BY DEF IInv, TypeOK, Request
  <2>2. form'[b] = FormAt("login")
    BY <1>1, <1>6 DEF SignedIn, Visit
  <2>3. \/ reqs' = Muted(b)
        \/ \E t \in Token \cup {None} : reqs' = [Muted(b) EXCEPT ![r] = WhoAmI(b, t)]
    BY <1>6, <2>1 DEF SignedIn, Visit
  <2> QED
    BY <1>3, <1>4, <2>2, <2>3, MutedAsk
<1>7. CASE EditEmail(b)
  <2>1. PICK e \in Emails :
          form' = [form EXCEPT ![b].email = e, ![b].edited = @ \/ form[b].busy]
    BY <1>7 DEF EditEmail
  <2>2. /\ form'[b].email = e /\ form'[b].verify = FALSE /\ form'[b].busy = form[b].busy
        /\ form[b].busy => form'[b].edited
    BY <1>1, <1>7, <2>1 DEF EditEmail, Filling, Forms
  <2>3. UNCHANGED reqs /\ e # None
    BY <1>1, <1>7 DEF EditEmail
  <2>4. \A u \in Requests : Asks(u, b)' <=> Asks(u, b)
    BY <2>3 DEF Asks
  <2> QED
    BY <1>1, <2>2, <2>3, <2>4 DEF FormInv
<1>8. CASE DifferentEmail(b)
  <2>1. /\ form'[b].email = form[b].email /\ form'[b].verify = FALSE
        /\ form'[b].busy = form[b].busy /\ form'[b].edited = form[b].edited /\ UNCHANGED reqs
    BY <1>1, <1>8 DEF DifferentEmail, Forms
  <2>2. \A u \in Requests : Asks(u, b)' <=> Asks(u, b)
    BY <2>1 DEF Asks
  <2> QED
    BY <1>1, <2>1, <2>2 DEF FormInv
\* A request that is freed or was not of the form.
<1>9. ASSUME NEW r \in Requests, reqs' = [reqs EXCEPT ![r] = Idle]
      PROVE  \A u \in Requests : AsksAsBefore(u, b) /\ (Asks(u, b)' => u # r)
  <2>1. Idle.by = None /\ b # None
    BY AccountsAssumption DEF Idle
  <2> QED
    BY <1>1, <1>9, <2>1 DEF AsksAsBefore, Asks
<1>10. CASE Logout(b)
  BY <1>1, <1>2, <1>10, FormKept DEF Logout, AsksAsBefore, Asks
<1>11. ASSUME NEW r \in Requests, Mounted(b, r)
       PROVE  FormInv(b)'
  BY <1>1, <1>2, <1>9, <1>11, FormKept DEF Mounted
\* A form that is not busy sends a request, and waits for it alone.
<1>12. ASSUME NEW r \in Requests, NEW q, reqs' = [reqs EXCEPT ![r] = q], ~form[b].busy,
              form'[b].busy, q.by = b, q.live,
              q.kind = "start" => /\ form'[b].email # None
                                  /\ ~form'[b].edited => form'[b].email = q.email,
              form'[b].verify => form[b].verify /\ form'[b].email = form[b].email
                                 /\ form'[b].edited = form[b].edited
       PROVE  FormInv(b)'
  <2>1. reqs'[r] = q /\ \A u \in Requests \ {r} : reqs'[u] = reqs[u]
    BY <1>1, <1>12
  <2>2. \A u \in Requests : ~Asks(u, b)
    BY <1>1, <1>12 DEF FormInv
  <2>3. \A u \in Requests : Asks(u, b)' => u = r
    BY <2>1, <2>2 DEF Asks
  <2>4. \A u \in Requests : Asks(u, b)' =>
          /\ form'[b].busy
          /\ \A v \in Requests : Asks(v, b)' => v = u
          /\ reqs'[u].kind = "start" =>
               form'[b].email # None /\ (~form'[b].edited => form'[b].email = reqs'[u].email)
    BY <1>12, <2>1, <2>3
  <2>5. /\ form'[b].verify => form'[b].email # None
        /\ form'[b].verify /\ ~form'[b].edited =>
             \E m \in mail' : m.to = form'[b].email /\ m.purpose = "register"
    BY <1>1, <1>2, <1>12 DEF FormInv
  <2> QED
    BY <2>4, <2>5 DEF FormInv
<1>13. ASSUME NEW r \in Requests, SendCode(b, r)
       PROVE  FormInv(b)'
  <2>1. PICK n \in Names, p \in Passwords : Post(r, Start(b, form[b].email, n, p))
    BY <1>13 DEF SendCode
  <2> DEFINE q == Start(b, form[b].email, n, p)
  <2>2. q.by = b /\ q.live = TRUE /\ q.email = form[b].email
    BY DEF Start, Idle
  <2>3. reqs' = [reqs EXCEPT ![r] = q]
    BY <2>1 DEF Post
  <2> HIDE DEF q
  <2>4. /\ form'[b].busy = TRUE /\ form'[b].verify = FALSE /\ form'[b].email = form[b].email
        /\ form[b].email # None /\ ~form[b].busy
    BY <1>1, <1>13 DEF SendCode, Filling, Forms
  <2> QED
    BY <1>12, <2>2, <2>3, <2>4
<1>14. ASSUME NEW r \in Requests, VerifyCode(b, r) \/ Submit(b, r)
       PROVE  FormInv(b)'
  <2>1. \E q : /\ reqs' = [reqs EXCEPT ![r] = q] /\ q.by = b /\ q.live = TRUE
               /\ q.kind \in {"register", "login"}
    <3>1. /\ \A e, n, p, c : LET q == Register(b, e, n, p, c) IN
                q.by = b /\ q.live = TRUE /\ q.kind = "register"
          /\ \A e, n, p : LET q == SignIn(b, e, n, p) IN
                q.by = b /\ q.live = TRUE /\ q.kind = "login"
      BY DEF Register, Start, SignIn, Idle
    <3> QED
      BY <1>14, <3>1 DEF VerifyCode, Submit, Post
  <2>2. /\ form'[b].busy = TRUE /\ form'[b].verify = form[b].verify
        /\ form'[b].email = form[b].email /\ form'[b].edited = form[b].edited
        /\ ~form[b].busy
    BY <1>1, <1>14 DEF VerifyCode, Submit, Forms
  <2> QED
    BY <1>12, <2>1, <2>2
<1>15. ASSUME NEW r \in Requests, Refused(b, r)
       PROVE  FormInv(b)'
  <2>1. CASE ~reqs[r].live
    BY <1>1, <1>2, <1>9, <1>15, <2>1, FormKept DEF Refused
  <2>2. CASE reqs[r].live
    <3>1. /\ form'[b].verify = form[b].verify /\ form'[b].email = form[b].email
          /\ form'[b].edited = form[b].edited
      BY <1>1, <1>15, <2>2 DEF Refused, Forms
    <3>2. Asks(r, b)
      BY <1>15, <2>2 DEF Refused, Asks
    <3>3. \A u \in Requests : ~Asks(u, b)'
      BY <1>1, <1>9, <1>15, <3>2 DEF Refused, FormInv, AsksAsBefore
    <3> QED
      BY <1>1, <1>2, <3>1, <3>3, FormQuiet DEF FormInv
  <2> QED
    BY <2>1, <2>2
<1>16. ASSUME NEW r \in Requests, CodeSent(b, r)
       PROVE  FormInv(b)'
  <2>1. CASE ~reqs[r].live
    BY <1>1, <1>2, <1>9, <1>16, <2>1, FormKept DEF CodeSent
  <2>2. CASE reqs[r].live
    <3>1. form'[b].email = form[b].email /\ form'[b].edited = form[b].edited
      BY <1>1, <1>16, <2>2 DEF CodeSent, Forms
    <3>2. Asks(r, b) /\ reqs[r].kind = "start"
      BY <1>16, <2>2 DEF CodeSent, Asks, FormKinds
    <3>3. \A u \in Requests : ~Asks(u, b)'
      BY <1>1, <1>9, <1>16, <3>2 DEF CodeSent, FormInv, AsksAsBefore
    <3>4. \E m \in mail : m.to = reqs[r].email /\ m.purpose = "register"
      BY <1>16 DEF CodeSent, At, IInv, ReqInv, Invited
    <3>5. form[b].email # None /\ (~form[b].edited => form[b].email = reqs[r].email)
      BY <1>1, <3>2 DEF FormInv
    <3> QED
      BY <1>2, <3>1, <3>3, <3>4, <3>5, FormQuiet
  <2> QED
    BY <2>1, <2>2
<1> QED
  BY <1>5, <1>6, <1>7, <1>8, <1>10, <1>11, <1>13, <1>14, <1>15, <1>16 DEF Browse

LEMMA FormStep ==
  ASSUME IInv, Tables, Next
  PROVE  \A b \in Browsers : FormInv(b)'
<1>1. mail \subseteq mail' /\ \A b \in Browsers : FormInv(b)
  BY DEF IInv, Tables, Grows
<1>2. ASSUME NEW r \in Requests, Handle(r) \/ Break(r), NEW b \in Browsers
      PROVE  FormInv(b)'
  <2>1. UNCHANGED form
    BY <1>2 DEF Handle, Break, clientVars
  <2>2. \A u \in Requests : AsksAsBefore(u, b)
    BY <1>2, HandlersAsk DEF SameAsker, AsksAsBefore, Asks
  <2> QED
    BY <1>1, <2>1, <2>2, FormKept
<1>3. ASSUME NEW r \in Requests, Call(r) \/ Answered(r), NEW b \in Browsers
      PROVE  FormInv(b)'
  <2>1. UNCHANGED form
    BY <1>3 DEF Call, Answered, clientVars
  <2> QED
    BY <1>1, <1>3, <2>1, CallsAsk, FormKept
<1>4. ASSUME Expire \/ TokenExpires, NEW b \in Browsers
      PROVE  FormInv(b)'
  BY <1>1, <1>4, FormKept DEF Expire, TokenExpires, clientVars, AsksAsBefore, Asks
<1>5. ASSUME NEW c \in Browsers, Browse(c), NEW b \in Browsers
      PROVE  FormInv(b)'
  BY <1>1, <1>5, OwnForm, OthersAsk, FormKept
<1> QED
  BY <1>2, <1>3, <1>4, <1>5 DEF Next

-----------------------------------------------------------------------------
(* The invariant                                                           *)

LEMMA InitInv == Init => IInv
<1> SUFFICES ASSUME Init PROVE IInv
  OBVIOUS
<1> USE AccountsAssumption
<1>1. /\ reqs \in [Requests -> Request] /\ \A u \in Requests : reqs[u] = Idle
  BY IdleType DEF Init
<1>2. /\ Idle.at = "idle" /\ Idle.kind = "none" /\ Idle.by = None /\ Idle.tok = None
      /\ Idle.late = FALSE /\ Idle.barred = FALSE /\ Idle.live = FALSE
  BY DEF Idle
<1>3. form \in [Browsers -> Forms] /\ page \in [Browsers -> Pages]
  BY FormAtType DEF Init, Pages, LoginPage
<1>4. TypeOK
  <2>1. DbTypes /\ BoundTypes
    BY DEF Init, DbTypes, BoundTypes
  <2>2. ClientTypes
    BY <1>3 DEF Init, ClientTypes, Forms, Pages
  <2>3. Known
    BY <1>1, <1>2 DEF Init, Known
  <2> QED
    BY <1>1, <2>1, <2>2, <2>3, TypeParts
<1>5. CodeInv /\ SpentInv
  BY DEF Init, CodeInv, SpentInv
<1>6. ASSUME NEW u \in Requests PROVE ReqInv(u)
  <2>1. Shape(u) /\ Invited(u)
    BY <1>1, <1>2 DEF Shape, Invited, CodeSteps
  <2>2. Fresh(u) /\ StillBarred(u)
    BY <1>1, <1>2 DEF Fresh, StillBarred
  <2> QED
    BY <2>1, <2>2 DEF ReqInv
<1>7. ASSUME NEW b \in Browsers PROVE FormInv(b)
  <2>1. \A u \in Requests : ~Asks(u, b)
    BY <1>1, <1>2 DEF Asks
  <2>2. form[b].verify = FALSE
    BY DEF Init, FormAt
  <2> QED
    BY <2>1, <2>2 DEF FormInv
<1> QED
  BY <1>4, <1>5, <1>6, <1>7 DEF IInv

LEMMA StepInv == IInv /\ Next => IInv'
<1> SUFFICES ASSUME IInv, Next PROVE IInv'
  OBVIOUS
<1>1. Tables
  BY TablesStep
<1>2. Moved
  BY <1>1, MoveStep
<1>3. TypeOK'
  <2>1. DbTypes' /\ reqs' \in [Requests -> Request]
    BY <1>1, <1>2 DEF Tables, Moved
  <2> QED
    BY <1>1, <1>2, <2>1, ClientStep, BoundStep, KnownStep, TypeParts
<1>4. CodeInv' /\ SpentInv'
  BY <1>1, <1>2, SpentStep DEF Tables
<1>5. \A u \in Requests : ReqInv(u)'
  BY <1>1, <1>2, ReqStep
<1>6. \A b \in Browsers : FormInv(b)'
  BY <1>1, FormStep
<1> QED
  BY <1>3, <1>4, <1>5, <1>6 DEF IInv

LEMMA StutterInv == IInv /\ UNCHANGED vars => IInv'
<1> SUFFICES ASSUME IInv, UNCHANGED vars PROVE IInv'
  OBVIOUS
<1> USE DEF vars
<1>1. TypeOK' /\ CodeInv'
  BY DEF IInv, TypeOK, CodeInv
<1>2. SpentInv'
  BY DEF IInv, SpentInv, Covered, Taken
<1>3. ASSUME NEW u \in Requests PROVE ReqInv(u)'
  <2>1. ReqInv(u)
    BY DEF IInv
  <2>2. Shape(u)' /\ Invited(u)'
    BY <2>1 DEF ReqInv, Shape, Invited, Mailed
  <2>3. Fresh(u)' /\ StillBarred(u)'
    BY <2>1 DEF ReqInv, Fresh, StillBarred, Purpose, Barred, Admitted
  <2> QED
    BY <2>2, <2>3 DEF ReqInv
<1>4. ASSUME NEW b \in Browsers PROVE FormInv(b)'
  BY FormKept DEF IInv, AsksAsBefore, Asks
<1> QED
  BY <1>1, <1>2, <1>3, <1>4 DEF IInv

LEMMA Invariant == Spec => []IInv
BY InitInv, StepInv, StutterInv, PTL DEF Spec

-----------------------------------------------------------------------------
(* What follows                                                            *)

(***************************************************************************)
(* Types, and every token that is around names an account that exists.     *)
(***************************************************************************)
THEOREM TypeCorrect == Spec => []TypeOK
<1>1. IInv => TypeOK
  BY DEF IInv
<1> QED
  BY <1>1, Invariant, PTL

(***************************************************************************)
(* No request gets past the check of its code (register/route.ts:62,       *)
(* verify-code/route.ts) with a code that was used or replaced when it     *)
(* was sent.                                                               *)
(***************************************************************************)
THEOREM NewestCodeOnly == Spec => []OnlyNewestCode
<1>1. IInv => OnlyNewestCode
  BY DEF IInv, ReqInv, Fresh, OnlyNewestCode
<1> QED
  BY <1>1, Invariant, PTL

(***************************************************************************)
(* A code is used up one statement before the account is inserted, in no   *)
(* transaction (register/route.ts:76-89): still no registration loses its  *)
(* code without an account under its email or name, save when the database *)
(* failed or an administrator gave whoever had the name another one        *)
(* (admin/users/route.ts:75).                                              *)
(***************************************************************************)
THEOREM CodesBuyAccounts == Spec => []SpentCodeHasAccount
<1>1. IInv => SpentCodeHasAccount
  BY DEF IInv, SpentInv, Covered, SpentCodeHasAccount, At
<1> QED
  BY <1>1, Invariant, PTL

(***************************************************************************)
(* A token that outlives its user's rights gives nothing, as long as the   *)
(* database answers getSession (lib/auth.ts:38).                           *)
(***************************************************************************)
THEOREM TokensGiveNoRights == Spec => []LockedOut
<1>1. IInv => LockedOut
  BY DEF IInv, ReqInv, StillBarred, LockedOut
<1> QED
  BY <1>1, Invariant, PTL

(***************************************************************************)
(* The form that says a code was sent says the truth (login/page.tsx:168), *)
(* however its tabs, requests, answers and other pages interleave.         *)
(***************************************************************************)
THEOREM FormIsTrue == Spec => []FormTellsTruth
<1>1. IInv => FormTellsTruth
  BY DEF IInv, FormInv, FormTellsTruth
<1> QED
  BY <1>1, Invariant, PTL

-----------------------------------------------------------------------------
(* The refinement                                                          *)

\* The stage of every address, as the module Accounts maps it.
Stage == [e \in Emails |-> IF account[e] # None THEN "member"
                           ELSE IF \E m \in mail : m.to = e THEN "written"
                           ELSE "unknown"]

LEMMA StageInit == Init => E!Init
BY DEF Init, E!Init

\* Nobody joins or is written to.
LEMMA StageKept ==
  ASSUME \A e \in Emails : account'[e] # None <=> account[e] # None, mail' = mail
  PROVE  Stage' = Stage
BY DEF Stage

\* One address moves.
LEMMA StageMoves ==
  ASSUME NEW e \in Emails, NEW s, Stage'[e] = s, \A f \in Emails \ {e} : Stage'[f] = Stage[f]
  PROVE  Stage' = [Stage EXCEPT ![e] = s]
<1>1. Stage = [f \in Emails |-> Stage[f]] /\ Stage' = [f \in Emails |-> Stage'[f]]
  BY DEF Stage
<1> HIDE DEF Stage
<1> QED
  BY <1>1

LEMMA StageStep ==
  ASSUME IInv, Next
  PROVE  E!Next \/ Stage' = Stage
<1>1. Tables /\ Grows
  BY TablesStep DEF Tables
<1>2. account \in [Emails -> Account \cup {None}]
  BY DEF IInv, TypeOK
<1>3. CASE UNCHANGED <<account, mail>>
  BY <1>3, StageKept
<1>4. ASSUME NEW r \in Requests, SendMail(r)
      PROVE  E!Next \/ Stage' = Stage
  <2> DEFINE m0 == [to |-> reqs[r].email, purpose |-> Purpose(r), code |-> reqs[r].code]
  <2>1. (mail' = mail \/ mail' = mail \cup {m0}) /\ UNCHANGED account
    BY <1>4 DEF SendMail
  <2>2. m0.to = reqs[r].email /\ reqs[r].email \in Emails
    BY <1>4 DEF SendMail, At, IInv, ReqInv, Shape
  <2> HIDE DEF m0
  <2>3. CASE mail' = mail
    BY <2>1, <2>3, StageKept
  <2>4. CASE mail' = mail \cup {m0} /\ Stage[reqs[r].email] # "unknown"
    <3>1. account[reqs[r].email] # None \/ \E m \in mail : m.to = reqs[r].email
      BY <2>2, <2>4 DEF Stage
    <3>2. \A e \in Emails : account[e] # None \/
            ((\E m \in mail' : m.to = e) <=> (\E m \in mail : m.to = e))
      BY <2>2, <2>4, <3>1
    <3> QED
      BY <2>1, <3>2 DEF Stage
  <2>5. CASE mail' = mail \cup {m0} /\ Stage[reqs[r].email] = "unknown"
    <3>1. /\ Stage'[reqs[r].email] = "written"
          /\ \A e \in Emails \ {reqs[r].email} : Stage'[e] = Stage[e]
      BY <2>1, <2>2, <2>5 DEF Stage
    <3>2. Stage' = [Stage EXCEPT ![reqs[r].email] = "written"]
      BY <2>2, <3>1, StageMoves
    <3> QED
      BY <2>2, <2>5, <3>2 DEF Stage, E!Next, E!Write
  <2> QED
    BY <2>1, <2>3, <2>4, <2>5
<1>5. ASSUME NEW r \in Requests, Create(r)
      PROVE  E!Next \/ Stage' = Stage
  <2>1. CASE Refuse(r)
    BY <2>1, StageKept DEF Refuse, dbVars
  <2>2. CASE ~Refuse(r)
    <3> DEFINE e == reqs[r].email
               a == [name |-> reqs[r].name, pw |-> reqs[r].pw, role |-> "user", active |-> TRUE]
    <3>1. /\ e \in Emails /\ account[e] = None /\ account' = [account EXCEPT ![e] = a]
          /\ UNCHANGED mail
      BY <1>5, <2>2 DEF Create, At, CodeSteps, Taken, IInv, ReqInv, Shape
    <3>2. \E m \in mail : m.to = e
      BY <1>5 DEF Create, At, IInv, ReqInv, Invited
    <3>3. a \in Account
      BY DEF IInv, TypeOK, Request, Account, Roles
    <3> HIDE DEF a, e
    <3>4. account'[e] # None /\ \A f \in Emails \ {e} : account'[f] = account[f]
      BY <1>2, <3>1, <3>3, AccountsAssumption
    <3>5. /\ Stage[e] = "written" /\ Stage'[e] = "member"
          /\ \A f \in Emails \ {e} : Stage'[f] = Stage[f]
      BY <3>1, <3>2, <3>4 DEF Stage
    <3>6. Stage' = [Stage EXCEPT ![e] = "member"]
      BY <3>1, <3>5, StageMoves
    <3> QED
      BY <3>1, <3>5, <3>6 DEF Stage, E!Next, E!Join
  <2> QED
    BY <2>1, <2>2
<1>6. ASSUME NEW r \in Requests, Update(r) \/ Patch(r)
      PROVE  Stage' = Stage
  <2> DEFINE e == IF reqs[r].at = "update" THEN reqs[r].tok.sub ELSE reqs[r].email
  <2>1. Shape(r) /\ (reqs[r].tok # None => account[reqs[r].tok.sub] # None)
    BY DEF IInv, ReqInv, TypeOK
  <2>2. e \in Emails /\ account[e] # None
    <3>1. CASE Update(r)
      BY <2>1, <3>1, AccountsAssumption DEF Update, At, Shape, Token
    <3>2. CASE Patch(r)
      BY <2>1, <3>2 DEF Patch, At, Shape
    <3> QED
      BY <1>6, <3>1, <3>2
  <2>3. UNCHANGED mail /\ \A f \in Emails \ {e} : account'[f] = account[f]
    BY <1>2, <1>6 DEF Update, Patch, At
  <2> HIDE DEF e
  <2>4. \A f \in Emails : account'[f] # None <=> account[f] # None
    BY <1>1, <2>2, <2>3 DEF Grows
  <2> QED
    BY <2>3, <2>4, StageKept
<1>7. \/ UNCHANGED <<account, mail>>
      \/ \E r \in Requests : SendMail(r) \/ Create(r) \/ Update(r) \/ Patch(r)
  BY TablesKept DEF dbVars, Expire, Delete, Insert, Mark, Fail
<1> QED
  BY <1>3, <1>4, <1>5, <1>6, <1>7

(***************************************************************************)
(* Registration by code and by form, with all their interleavings and      *)
(* failures, implement Enrolment: an account comes into being once, after  *)
(* a code was mailed to its own address, and stays.                        *)
(***************************************************************************)
THEOREM Implements == Spec => Enrols
<1>1. IInv /\ [Next]_vars => E!Next \/ Stage' = Stage
  <2>1. UNCHANGED vars => Stage' = Stage
    BY StageKept DEF vars
  <2> QED
    BY <2>1, StageStep
<1>2. IInv /\ [Next]_vars => [E!Next]_Stage
  BY <1>1
<1> QED
  BY <1>2, StageInit, Invariant, PTL DEF Spec, Enrols, E!Spec, Stage

=============================================================================
