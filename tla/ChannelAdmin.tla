---------------------------- MODULE ChannelAdmin ----------------------------
(***************************************************************************)
(* Administration of channels (keys of upstream providers) and of the      *)
(* model pools they belong to: api/admin/channels with check-balance and   *)
(* calibrate-balance, api/admin/model-pools, the channels' tab of the      *)
(* console (app/admin/page.tsx), and the records that the gateway's        *)
(* billing writes of a channel (billing/record.go).  Its shadow billing of *)
(* Gemini is never reached: no caller names a provider (record.go:15,      *)
(* worker.go:264).                                                         *)
(*                                                                         *)
(* A route is a sequence of statements without a transaction; between them *)
(* other routes, billing and the upstream accounts go on.                  *)
(***************************************************************************)
EXTENDS Integers, FiniteSets, Sequences, Sums

CONSTANTS
  Channels, Pools,   \* the ids that rows may get, each at most once
  Gemini,            \* the channels of the provider that has no balance to ask for
  Models,            \* names of pools
  None,              \* no value
  Jobs,              \* slots for routes that take several steps
  Lines,             \* what may be imported: sequences of models, not none
  MaxBalance,        \* bound: cents of an upstream account
  Caps               \* bounds: how often each kind of event happens

Priorities == {0, 3}
Channel == [pool : Pools \cup {None}, prio : Priorities, bal : Nat, init : Nat, born : Nat]
Cap == [records : Nat, edits : Nat, deletes : Nat, opens : Nat, adds : Nat, imports : Nat,
        creates : Nat, lists : Nat, faults : Nat]

ASSUME ChannelAdminAssumption ==
  /\ None \notin Channels \cup Pools \cup Models /\ None \notin Channel
  /\ Gemini \subseteq Channels /\ Lines \subseteq Seq(Models) \ {<<>>}
  /\ MaxBalance \in Nat \ {0}
  /\ Caps \subseteq Cap

VARIABLES
  chan,      \* chan[c]: the row of channels with id c, or None
  pool,      \* pool[p]: the name of the row of model_pools with id p, or None
  used,      \* the ids that rows have had
  named,     \* named[c]: the number of billing_records that name c
  unnamed,   \* the number of those that name no channel any more
  account,   \* account[c]: the balance of its account upstream
  jobs,      \* jobs[j]: the route in slot j
  view,      \* the tab: [sel, keys], the pool that is open and its keys as answered, and
             \* [list, loading, asked], the pools as listed and the requests for the list under way
  add,       \* the form for a new key: [at, pool, c, value]
  import,    \* the import: [at, todo, known, pool, made]
  left,      \* what is left of the bounds
  ghost      \* [total, lost, born, model]: the charges so far and those whose record was refused,
             \* the channels so far (created_at), and history: the model that each was created for

recordVars == <<named, unnamed>>
rowVars == <<chan, pool, used, recordVars>>
vars == <<rowVars, account, jobs, view, add, import, left, ghost>>

Seen == [Channels -> Channel \cup {None}]
JobKinds == {"detail", "initial", "channel", "pool"}
IdleJob == [at |-> "idle", kind |-> "detail", pool |-> None, c |-> None, todo |-> {},
            seen |-> [c \in Channels |-> None], value |-> 0, for |-> "view"]
Job == [at : {"idle", "keys", "ask", "write", "answer", "first", "second"},
        kind : JobKinds, pool : Pools \cup {None}, c : Channels \cup {None},
        todo : SUBSET Channels, seen : Seen, value : Nat, for : {"view", "add"}]
NoAdd == [at |-> "idle", pool |-> None, c |-> None, value |-> 0]
NoPools == [p \in Pools |-> None]
NoImport == [at |-> "idle", todo |-> <<>>, known |-> NoPools, pool |-> None, made |-> FALSE]

Rows == {c \in Channels : chan[c] # None}
KeysOf(p) == {c \in Rows : chan[c].pool = p}
Spend(what) == left[what] > 0 /\ left' = [left EXCEPT ![what] = @ - 1]
Fresh(S) == S \ used
\* Which slot it is makes no difference.
Free == {j \in Jobs : jobs[j].at = "idle"}
Put(job) == Free # {} /\ jobs' = [jobs EXCEPT ![CHOOSE j \in Free : TRUE] = job]
Step(j, at) == jobs' = [jobs EXCEPT ![j].at = at]
End(j) == jobs' = [jobs EXCEPT ![j] = IdleJob]
\* loadPoolDetail
Loading(p, for) == [IdleJob EXCEPT !.at = "keys", !.pool = p, !.for = for]
Detail(p, for) == Put(Loading(p, for))

\* ORDER BY key_priority ASC, created_at DESC
Precedes(c, d) ==
  \/ chan[c].prio < chan[d].prio
  \/ chan[c].prio = chan[d].prio /\ chan[c].born >= chan[d].born
First(S) == CHOOSE c \in S : \A d \in S : Precedes(c, d)

-----------------------------------------------------------------------------
Init ==
  /\ chan = [c \in Channels |-> None] /\ pool = [p \in Pools |-> None] /\ used = {}
  /\ named = [c \in Channels |-> 0] /\ unnamed = 0
  /\ account \in [Channels -> {MaxBalance}]
  /\ jobs = [j \in Jobs |-> IdleJob]
  /\ view = [sel |-> None, keys |-> {}, list |-> NoPools, loading |-> TRUE, asked |-> 1]
  /\ add = NoAdd /\ import = NoImport
  /\ left \in Caps
  /\ ghost = [total |-> 0, lost |-> 0, born |-> 0, model |-> [c \in Channels |-> None]]

-----------------------------------------------------------------------------
(***************************************************************************)
(* Upstream and the gateway.                                               *)
(***************************************************************************)
\* An account is used up or paid into.
Account(c) ==
  /\ Spend("edits")
  /\ \E v \in 0..MaxBalance : v # account[c] /\ account' = [account EXCEPT ![c] = v]
  /\ UNCHANGED <<rowVars, jobs, view, add, import, ghost>>

\* recordBilling, of a request that the channel served: charged, then recorded.  The INSERT names
\* the channel and is refused (a line in the log) when that is gone by now.
RecordBilling(c) ==
  /\ c \in used /\ Spend("records")
  /\ \/ /\ chan[c] # None /\ named' = [named EXCEPT ![c] = @ + 1]
        /\ ghost' = [ghost EXCEPT !.total = @ + 1]
     \/ /\ chan[c] = None /\ UNCHANGED named
        /\ ghost' = [ghost EXCEPT !.total = @ + 1, !.lost = @ + 1]
  /\ UNCHANGED <<chan, pool, used, unnamed, account, jobs, view, add, import>>

\* The balance that a provider reports; other providers are not asked, errors count for nothing.
Reports(c, v) == v = 0 \/ (c \notin Gemini /\ v = account[c])

-----------------------------------------------------------------------------
(***************************************************************************)
(* POST of api/admin/channels: the INSERT, refused when the pool is gone.  *)
(* The first balance is asked for after the answer, when a token is given. *)
(***************************************************************************)
Insert(c, p, prio) ==
  /\ c \in Fresh(Channels) /\ pool[p] # None
  /\ chan' = [chan EXCEPT ![c] = [pool |-> p, prio |-> prio, bal |-> 0, init |-> 0,
                                  born |-> ghost.born + 1]]
  /\ used' = used \cup {c}
  /\ ghost' = [ghost EXCEPT !.born = @ + 1, !.model[c] = pool[p]]
  /\ \/ Put([IdleJob EXCEPT !.at = "ask", !.kind = "initial", !.c = c])
     \/ UNCHANGED jobs      \* no token

\* fetchInitialBalance: written, whatever the row holds by now, if it is more than nothing.
InitialAsk(j) ==
  /\ jobs[j].kind = "initial" /\ jobs[j].at = "ask"
  /\ \E v \in 0..MaxBalance :
       /\ Reports(jobs[j].c, v)
       /\ IF v > 0 THEN jobs' = [jobs EXCEPT ![j].at = "write", ![j].value = v] ELSE End(j)
  /\ UNCHANGED chan

InitialWrite(j) ==
  LET c == jobs[j].c IN
  /\ jobs[j].kind = "initial" /\ jobs[j].at = "write"
  /\ chan' = IF chan[c] = None THEN chan
             ELSE [chan EXCEPT ![c].bal = jobs[j].value, ![c].init = jobs[j].value]
  /\ End(j)

(***************************************************************************)
(* GET of api/admin/model-pools for one pool: reads its keys, asks for the *)
(* balance of each in turn, and writes it when it is positive and not the  *)
(* one that was read; the initial balance too when none was read.          *)
(***************************************************************************)
Keys(j) ==
  /\ jobs[j].kind = "detail" /\ jobs[j].at = "keys"
  /\ jobs' = [jobs EXCEPT ![j].at = "ask", ![j].todo = KeysOf(jobs[j].pool), ![j].seen = chan]
  /\ UNCHANGED chan

Ahead(j) == {c \in jobs[j].todo :
  \A d \in jobs[j].todo :
    LET x == jobs[j].seen[c]
        y == jobs[j].seen[d] IN
    x.prio < y.prio \/ (x.prio = y.prio /\ x.born >= y.born)}

DetailAsk(j) ==
  /\ jobs[j].kind = "detail" /\ jobs[j].at = "ask"
  /\ \/ jobs[j].todo = {} /\ Step(j, "answer")
     \/ \E c \in Ahead(j), v \in 0..MaxBalance :
          /\ Reports(c, v)
          /\ IF v > 0 /\ v # jobs[j].seen[c].bal
             THEN jobs' = [jobs EXCEPT ![j].at = "write", ![j].value = v, ![j].c = c,
                                       ![j].todo = @ \ {c}]
             ELSE jobs' = [jobs EXCEPT ![j].todo = @ \ {c}]
  /\ UNCHANGED chan

\* Mutant: whatever was read before.
SetsInitAlways(j) == TRUE
SetsInit(j) == jobs[j].seen[jobs[j].c].init = 0

DetailWrite(j) ==
  LET c == jobs[j].c
      v == jobs[j].value IN
  /\ jobs[j].kind = "detail" /\ jobs[j].at = "write"
  /\ chan' = IF chan[c] = None THEN chan
             ELSE [chan EXCEPT ![c].bal = v, ![c].init = IF SetsInit(j) THEN v ELSE @]
  /\ Step(j, "ask")

(***************************************************************************)
(* The answer, read anew, opens the pool in the tab, also when another one *)
(* or none is open by now; for a new key it names the key to be written.   *)
(***************************************************************************)
DetailAnswer(j) ==
  LET p == jobs[j].pool IN
  /\ jobs[j].kind = "detail" /\ jobs[j].at = "answer"
  /\ IF jobs[j].for = "view"
     THEN /\ view' = [view EXCEPT !.sel = IF pool[p] = None THEN None ELSE p, !.keys = KeysOf(p)]
          /\ UNCHANGED add
     ELSE /\ add' = IF KeysOf(p) = {} THEN [add EXCEPT !.at = "done"]
                    ELSE [add EXCEPT !.at = "patch", !.c = First(KeysOf(p))]
          /\ UNCHANGED view
  /\ End(j)
  /\ UNCHANGED chan

\* loadPools: the list is asked for; until any answer comes the cards are not shown.
Reloaded == [view EXCEPT !.loading = TRUE, !.asked = @ + 1]

-----------------------------------------------------------------------------
(***************************************************************************)
(* DELETE of a channel takes its name off the records first; of a pool,    *)
(* its channels off the pool.  The second statement of the former fails    *)
(* when a record was written in between: foreign key without ON DELETE.    *)
(* Then the pool that was open, or the list, is loaded again.              *)
(***************************************************************************)
\* Mutant: the records go with their channel.
NoLonger(c) == [named EXCEPT ![c] = 0]
UnnamedGone(c) == unnamed
Unnamed(c) == unnamed + named[c]

ChannelFirst(j) ==
  LET c == jobs[j].c IN
  /\ jobs[j].kind = "channel" /\ jobs[j].at = "first"
  /\ \/ /\ named' = NoLonger(c) /\ unnamed' = Unnamed(c)
        /\ Step(j, "second") /\ UNCHANGED left
     \/ Spend("faults") /\ End(j) /\ UNCHANGED recordVars
  /\ UNCHANGED <<chan, pool, view, ghost>>

ChannelSecond(j) ==
  LET c == jobs[j].c IN
  /\ jobs[j].kind = "channel" /\ jobs[j].at = "second"
  /\ \/ /\ named[c] = 0 /\ chan' = [chan EXCEPT ![c] = None]
        /\ jobs' = [jobs EXCEPT ![j] = Loading(jobs[j].pool, "view")] /\ UNCHANGED left
     \/ named[c] > 0 /\ End(j) /\ UNCHANGED <<chan, left>>
     \/ Spend("faults") /\ End(j) /\ UNCHANGED chan
  /\ UNCHANGED <<pool, recordVars, view, ghost>>

PoolFirst(j) ==
  LET p == jobs[j].pool IN
  /\ jobs[j].kind = "pool" /\ jobs[j].at = "first"
  /\ \/ /\ chan' = [c \in Channels |-> IF c \in KeysOf(p) THEN [chan[c] EXCEPT !.pool = None] ELSE chan[c]]
        /\ Step(j, "second") /\ UNCHANGED left
     \/ Spend("faults") /\ End(j) /\ UNCHANGED chan
  /\ UNCHANGED <<pool, recordVars, view, ghost>>

\* Keys that came in between are let go by the foreign key (ON DELETE SET NULL).
PoolSecond(j) ==
  LET p == jobs[j].pool IN
  /\ jobs[j].kind = "pool" /\ jobs[j].at = "second"
  /\ \/ /\ pool' = [pool EXCEPT ![p] = None]
        /\ chan' = [c \in Channels |-> IF c \in KeysOf(p) THEN [chan[c] EXCEPT !.pool = None] ELSE chan[c]]
        /\ view' = Reloaded /\ UNCHANGED left
     \/ Spend("faults") /\ UNCHANGED <<pool, chan, view>>
  /\ End(j)
  /\ UNCHANGED <<recordVars, ghost>>

Route(j) ==
  \/ /\ \/ InitialAsk(j) \/ InitialWrite(j) \/ Keys(j) \/ DetailAsk(j) \/ DetailWrite(j)
     /\ UNCHANGED <<pool, used, recordVars, account, view, add, import, left, ghost>>
  \/ /\ DetailAnswer(j)
     /\ UNCHANGED <<pool, used, recordVars, account, import, left, ghost>>
  \/ /\ ChannelFirst(j) \/ ChannelSecond(j) \/ PoolFirst(j) \/ PoolSecond(j)
     /\ UNCHANGED <<used, account, add, import>>

-----------------------------------------------------------------------------
(***************************************************************************)
(* The tab: the cards of the pools that were listed, or the table of the   *)
(* keys of the one that is open, with a form for a new key and a dialog    *)
(* for one that is there.  The dialog's PATCH writes what it was opened    *)
(* with, of which only the priority matters here.  Calibration writes the  *)
(* balance that is typed; no page calls it.                                *)
(***************************************************************************)
Cards == {p \in Pools : view.sel = None /\ ~view.loading /\ view.list[p] # None}
Table == view.keys   \* none is shown when no pool is open
\* One button for both forms: disabled while either is under way.
Submittable == add.at = "idle"

Refresh ==
  /\ view.sel = None /\ ~view.loading /\ Spend("lists") /\ view' = Reloaded
  /\ UNCHANGED <<rowVars, account, jobs, add, import, ghost>>

\* The list is answered to the tab, or to the import that waits for it; an error leaves the old one.
Listed ==
  /\ \/ view.asked > 0 /\ view' = [view EXCEPT !.list = pool, !.loading = FALSE, !.asked = @ - 1]
        /\ UNCHANGED <<import, left>>
     \/ import.at = "list" /\ view' = [view EXCEPT !.list = pool, !.loading = FALSE]
        /\ import' = [import EXCEPT !.at = "key"] /\ UNCHANGED left
     \/ view.asked > 0 /\ Spend("faults") /\ view' = [view EXCEPT !.loading = FALSE, !.asked = @ - 1]
        /\ UNCHANGED import
  /\ UNCHANGED <<rowVars, account, jobs, add, ghost>>

\* PATCH of channels.
Patched(c, row) == IF chan[c] = None THEN chan ELSE [chan EXCEPT ![c] = row]

EditKey ==
  /\ Spend("edits")
  /\ \E c \in Table, p \in Priorities : chan' = Patched(c, [chan[c] EXCEPT !.prio = p])
  /\ Detail(view.sel, "view")
  /\ UNCHANGED <<pool, used, recordVars, account, view, add, import, ghost>>

\* Mutant: as the first balance is written.
CalibratedBoth(c, v) == [chan EXCEPT ![c].bal = v, ![c].init = v]
Calibrated(c, v) == [chan EXCEPT ![c].bal = v]
\* Mutant: whatever number is typed.
AcceptedAny(v) == TRUE
Accepted(v) == v >= 0
Calibrate(c) ==
  /\ chan[c] # None /\ Spend("edits")
  /\ \E v \in -1..MaxBalance : Accepted(v) /\ chan' = Calibrated(c, v)
  /\ UNCHANGED <<pool, used, recordVars, account, jobs, view, add, import, ghost>>

\* POST of model-pools: a name has one pool.
Taken(m) == \E q \in Pools : pool[q] = m
InsertPool(p, m) ==
  /\ p \in Fresh(Pools) /\ ~Taken(m)
  /\ pool' = [pool EXCEPT ![p] = m] /\ used' = used \cup {p}

CreatePool ==
  /\ view.sel = None /\ Submittable /\ Spend("creates")
  /\ \E p \in Pools, m \in Models : InsertPool(p, m)
  /\ view' = Reloaded
  /\ UNCHANGED <<chan, recordVars, account, jobs, add, import, ghost>>

OpenPool(p) ==
  /\ p \in Cards /\ Spend("opens")
  /\ Detail(p, "view")
  /\ UNCHANGED <<rowVars, account, view, add, import, ghost>>

Back ==
  /\ view.sel # None /\ view' = [view EXCEPT !.sel = None, !.keys = {}]
  /\ UNCHANGED <<rowVars, account, jobs, add, import, left, ghost>>

DeleteKey(c) ==
  /\ c \in Table /\ Spend("deletes")
  /\ Put([IdleJob EXCEPT !.at = "first", !.kind = "channel", !.c = c, !.pool = view.sel])
  /\ UNCHANGED <<rowVars, account, view, add, import, ghost>>

DeletePool(p) ==
  /\ p \in Cards /\ Spend("deletes")
  /\ Put([IdleJob EXCEPT !.at = "first", !.kind = "pool", !.pool = p])
  /\ UNCHANGED <<rowVars, account, view, add, import, ghost>>

(***************************************************************************)
(* handleAddKey: creates the key, asks for its balance (check-balance),    *)
(* asks for the pool, and writes balance and initial balance of the first  *)
(* key of it, which need not be the new one; then the pool is loaded.      *)
(***************************************************************************)
AddKey ==
  /\ view.sel # None /\ Submittable /\ Spend("adds")
  /\ \E c \in Channels, prio \in Priorities :
       /\ Insert(c, view.sel, prio)
       /\ add' = [add EXCEPT !.at = "check", !.pool = view.sel, !.c = c]
  /\ UNCHANGED <<pool, recordVars, account, view, import>>

CheckBalance ==
  /\ add.at = "check"
  /\ \E v \in 0..MaxBalance :
       /\ Reports(add.c, v)
       /\ IF v > 0
          THEN Detail(add.pool, "add") /\ add' = [add EXCEPT !.at = "first", !.value = v]
          ELSE add' = [add EXCEPT !.at = "done"] /\ UNCHANGED jobs
  /\ UNCHANGED <<rowVars, account, view, import, left, ghost>>

PatchFirst ==
  /\ add.at = "patch"
  /\ chan' = Patched(add.c, [chan[add.c] EXCEPT !.bal = add.value, !.init = add.value])
  /\ add' = [add EXCEPT !.at = "done"]
  /\ UNCHANGED <<pool, used, recordVars, account, jobs, view, import, left, ghost>>

Added ==
  /\ add.at = "done" /\ add' = NoAdd
  /\ Detail(add.pool, "view")
  /\ UNCHANGED <<rowVars, account, view, import, left, ghost>>

(***************************************************************************)
(* The import: for each model the pool of that name among those that were  *)
(* listed when it began, or a new one, which is refused when the name has  *)
(* one by now; the list is loaded, then the key is created.  Errors pass   *)
(* in silence; if a key was created the list is loaded at the end.         *)
(***************************************************************************)
StartImport ==
  /\ view.sel = None /\ import.at = "idle" /\ Spend("imports")
  /\ \E l \in Lines : import' = [NoImport EXCEPT !.at = "pool", !.todo = l, !.known = view.list]
  /\ UNCHANGED <<rowVars, account, jobs, view, add, ghost>>

Last == Len(import.todo) = 1
NextLine(made) == IF Last THEN NoImport
                  ELSE [import EXCEPT !.at = "pool", !.todo = Tail(@), !.made = made]
AtEnd(made) == IF Last /\ made THEN Reloaded ELSE view

\* Mutant: the pool of the line before is kept.
KnownOrLast(m) == IF import.pool # None THEN {import.pool} ELSE {p \in Pools : import.known[p] = m}
Known(m) == {p \in Pools : import.known[p] = m}

FindPool ==
  LET m == Head(import.todo) IN
  /\ import.at = "pool"
  /\ IF Known(m) # {}
     THEN /\ \E p \in Known(m) : import' = [import EXCEPT !.at = "key", !.pool = p]
          /\ UNCHANGED <<pool, used, view>>
     ELSE IF Taken(m) \/ Fresh(Pools) = {}
          THEN import' = NextLine(import.made) /\ view' = AtEnd(import.made) /\ UNCHANGED <<pool, used>>
          ELSE \E p \in Pools :
                 /\ InsertPool(p, m)
                 /\ import' = [import EXCEPT !.at = "list", !.pool = p]
                 /\ view' = [view EXCEPT !.loading = TRUE]
  /\ UNCHANGED <<chan, recordVars, account, jobs, add, left, ghost>>

ImportKey ==
  /\ import.at = "key"
  /\ \/ /\ pool[import.pool] = None \/ Fresh(Channels) = {}
        /\ import' = NextLine(import.made) /\ view' = AtEnd(import.made)
        /\ UNCHANGED <<chan, used, jobs, ghost>>
     \/ \E c \in Fresh(Channels) :
          /\ pool[import.pool] # None
          /\ chan' = [chan EXCEPT ![c] = [pool |-> import.pool, prio |-> 3, bal |-> 0, init |-> 0,
                                          born |-> ghost.born + 1]]
          /\ used' = used \cup {c}
          /\ ghost' = [ghost EXCEPT !.born = @ + 1, !.model[c] = Head(import.todo)]
          /\ Put([IdleJob EXCEPT !.at = "ask", !.kind = "initial", !.c = c])
          /\ import' = NextLine(TRUE) /\ view' = AtEnd(TRUE)
  /\ UNCHANGED <<pool, recordVars, account, add, left>>

Next ==
  \/ \E c \in Channels : Account(c) \/ RecordBilling(c) \/ Calibrate(c) \/ DeleteKey(c)
  \/ \E j \in Jobs : Route(j)
  \/ Refresh \/ Listed \/ EditKey \/ CreatePool \/ \E p \in Pools : OpenPool(p) \/ DeletePool(p)
  \/ Back \/ AddKey \/ CheckBalance \/ PatchFirst \/ Added
  \/ StartImport \/ FindPool \/ ImportKey

Spec == Init /\ [][Next]_vars

-----------------------------------------------------------------------------
TypeOK ==
  /\ chan \in Seen /\ pool \in [Pools -> Models \cup {None}]
  /\ used \subseteq Channels \cup Pools
  /\ named \in [Channels -> Nat] /\ unnamed \in Nat
  /\ account \in [Channels -> 0..MaxBalance]
  /\ jobs \in [Jobs -> Job]
  /\ view.sel \in Pools \cup {None} /\ view.keys \subseteq Channels
  /\ add.at \in {"idle", "check", "first", "patch", "done"} /\ add.pool \in Pools \cup {None}
  /\ view.list \in [Pools -> Models \cup {None}] /\ view.asked \in Nat
  /\ import.at \in {"idle", "pool", "list", "key"} /\ import.known \in [Pools -> Models \cup {None}]
  /\ left \in Cap

\* An initial balance that is there is the yardstick of the bar in the console.  It changes only
\* by a route that read the row when there was none (fetchInitialBalance and GET of a pool, which
\* write after they asked upstream), or by the form for a new key, which writes to the first key
\* of the pool; never by calibration, billing or a plain refresh.
InitialStays ==
  [][\A c \in Channels :
       chan[c] # None /\ chan'[c] # None /\ chan[c].init > 0 /\ chan'[c].init # chan[c].init =>
         \/ add.at = "patch" /\ add.c = c
         \/ \E j \in Jobs : jobs[j].at = "write" /\ jobs[j].c = c /\
              (jobs[j].kind = "initial" \/ jobs[j].seen[c].init = 0)]_vars

\* Every charge has its record, but those of requests in flight that were charged after their
\* channel was gone: none is lost with its channel and none names a channel that is gone, although
\* a DELETE may stop or be refused half-way and records are written in between (DELETE of channels).
RecordsKept ==
  /\ Total(named) + unnamed + ghost.lost = ghost.total
  /\ \A c \in Channels : chan[c] = None => named[c] = 0

\* A key that is in a pool is in the pool of its model, also when pools came and went while an
\* import went by the pools that it saw when it began (the import of ChannelsTab).
PlacedRight ==
  \A c \in Rows : chan[c].pool # None => pool[chan[c].pool] = ghost.model[c]
=============================================================================
