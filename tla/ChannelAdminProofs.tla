------------------------- MODULE ChannelAdminProofs -------------------------
(***************************************************************************)
(* For any number of channels, pools and routes at a time, and any bounds: *)
(* a key in a pool is in the pool of its model, no billing record is lost  *)
(* with its channel, and an initial balance that is there stays.           *)
(***************************************************************************)
EXTENDS ChannelAdmin, FiniteSetTheorems, TLAPS

-----------------------------------------------------------------------------
(***************************************************************************)
(* The inductive invariant.  An id is never given to a second row, so that *)
(* what a list says of a pool stays true of it as long as it is there; an  *)
(* import, which trusts the list that it saw when it began, has in hand a  *)
(* pool that is gone or has the name of the line it is at.                 *)
(***************************************************************************)
Tabs == [sel : Pools \cup {None}, keys : SUBSET Channels, list : [Pools -> Models \cup {None}],
         loading : BOOLEAN, asked : Nat]
Histories == [total : Nat, lost : Nat, born : Nat, model : [Channels -> Models \cup {None}]]

RowTypes ==
  /\ chan \in Seen /\ pool \in [Pools -> Models \cup {None}]
  /\ used \subseteq Channels \cup Pools
  /\ named \in [Channels -> Nat] /\ unnamed \in Nat
  /\ ghost \in Histories

IdsSpent ==
  /\ \A c \in Channels : chan[c] # None => c \in used /\ ghost.model[c] \in Models
  /\ \A p \in Pools : pool[p] # None => p \in used

\* The records that name a channel.
Naming(f) == UNION {Share(f, c) : c \in DOMAIN f}

RowInv ==
  RowTypes /\ IdsSpent /\ PlacedRight /\ RecordsKept /\ IsFiniteSet(Naming(named))

ImportTypes ==
  /\ DOMAIN import = {"at", "todo", "known", "pool", "made"}
  /\ import.at \in {"idle", "pool", "list", "key"}
  /\ import.todo \in Seq(Models)
  /\ import.known \in [Pools -> Models \cup {None}]
  /\ import.made \in BOOLEAN

Still(f) == \A p \in Pools : f[p] # None => p \in used /\ pool[p] \in {None, f[p]}

LineInHand ==
  /\ import.at # "idle" => import.todo # <<>>
  /\ import.at \in {"list", "key"} =>
       /\ import.pool \in Pools /\ import.pool \in used
       /\ pool[import.pool] \in {None, Head(import.todo)}

ListInv ==
  /\ view \in Tabs /\ ImportTypes
  /\ Still(view.list) /\ Still(import.known) /\ LineInHand

\* Which key the form has in hand does not matter: its PATCH of no channel does nothing.
FormInv ==
  /\ DOMAIN add = {"at", "pool", "c", "value"}
  /\ add.at \in {"idle", "check", "first", "patch", "done"} /\ add.pool \in Pools \cup {None}
  /\ add.value \in Nat

JobOK(job) ==
  /\ job \in Job
  /\ job.kind \in {"initial", "channel"} \/ job.at = "write" => job.c \in Channels

JobInv == jobs \in [Jobs -> Job] /\ \A j \in Jobs : JobOK(jobs[j])

BoundInv == account \in [Channels -> 0..MaxBalance] /\ left \in Cap

IInv == RowInv /\ ListInv /\ FormInv /\ JobInv /\ BoundInv

-----------------------------------------------------------------------------
(* Sums                                                                    *)

LEMMA ShareSize ==
  ASSUME NEW f, NEW x, f[x] \in Nat
  PROVE  IsFiniteSet(Share(f, x)) /\ Cardinality(Share(f, x)) = f[x]
<1>1. IsFiniteSet({x}) /\ Cardinality({x}) = 1
  BY FS_Singleton
<1>2. IsFiniteSet(1..f[x]) /\ Cardinality(1..f[x]) = f[x]
  BY FS_Interval
<1>3. IsFiniteSet({x} \X (1..f[x])) /\ Cardinality({x} \X (1..f[x])) = 1 * f[x]
  BY <1>1, <1>2, FS_Product
<1> QED
  BY <1>3 DEF Share

\* What is left of a sum without one of its parts.
LEMMA WithoutShare ==
  ASSUME NEW f, NEW e \in DOMAIN f, f[e] \in Nat, IsFiniteSet(Naming(f))
  PROVE  LET Rest == UNION {Share(f, x) : x \in DOMAIN f \ {e}} IN
         IsFiniteSet(Rest) /\ Total(f) = Cardinality(Rest) + f[e]
<1> DEFINE Rest == UNION {Share(f, x) : x \in DOMAIN f \ {e}}
<1>1. Naming(f) = Rest \cup Share(f, e)
  BY DEF Naming
<1>2. Rest \cap Share(f, e) = {}
  BY DEF Share
<1>3. IsFiniteSet(Rest)
  BY <1>1, FS_Subset
<1>4. IsFiniteSet(Share(f, e)) /\ Cardinality(Share(f, e)) = f[e]
  BY ShareSize
<1>5. Cardinality(Rest \cup Share(f, e))
        = Cardinality(Rest) + Cardinality(Share(f, e)) - Cardinality(Rest \cap Share(f, e))
  BY <1>3, <1>4, FS_Union
<1>6. Cardinality(Rest \cap Share(f, e)) = 0
  BY <1>2, FS_EmptySet
<1>7. Cardinality(Rest) \in Nat
  BY <1>3, FS_CardinalityType
<1>8. Total(f) = Cardinality(Naming(f))
  BY DEF Total, Naming
<1> QED
  BY <1>1, <1>3, <1>4, <1>5, <1>6, <1>7, <1>8

\* A sum changes by what one of its parts changes.
LEMMA SumChanges ==
  ASSUME NEW f, NEW e \in DOMAIN f, f[e] \in Nat, IsFiniteSet(Naming(f)),
         NEW g, DOMAIN g = DOMAIN f, g[e] \in Nat, \A x \in DOMAIN f \ {e} : g[x] = f[x]
  PROVE  IsFiniteSet(Naming(g)) /\ Total(f) \in Nat /\ Total(g) = Total(f) - f[e] + g[e]
<1> DEFINE Rest == UNION {Share(f, x) : x \in DOMAIN f \ {e}}
           RestG == UNION {Share(g, x) : x \in DOMAIN g \ {e}}
<1>1. \A x \in DOMAIN f \ {e} : Share(g, x) = Share(f, x)
  BY DEF Share
<1>2. RestG = Rest
  BY <1>1
<1>3. Naming(g) = Rest \cup Share(g, e)
  BY <1>2 DEF Naming
<1>4. IsFiniteSet(Rest) /\ Total(f) = Cardinality(Rest) + f[e]
  BY WithoutShare
<1>5. IsFiniteSet(Share(g, e))
  BY ShareSize
<1>6. IsFiniteSet(Naming(g))
  BY <1>3, <1>4, <1>5, FS_Union
<1>7. Total(g) = Cardinality(RestG) + g[e]
  BY <1>6, WithoutShare
<1>8. Cardinality(Rest) \in Nat
  BY <1>4, FS_CardinalityType
<1> HIDE DEF Rest, RestG
<1> QED
  BY <1>2, <1>4, <1>6, <1>7, <1>8

\* Of nothing but zeroes the sum is zero.
LEMMA SumOfZeroes ==
  ASSUME NEW f, \A x \in DOMAIN f : f[x] = 0
  PROVE  IsFiniteSet(Naming(f)) /\ Total(f) = 0
<1>1. \A x \in DOMAIN f : Share(f, x) = {}
  BY DEF Share
<1>2. Naming(f) = {}
  BY <1>1 DEF Naming
<1> QED
  BY <1>2, FS_EmptySet DEF Total, Naming

-----------------------------------------------------------------------------
(* The rows: what the statements do to them.                               *)

\* A row's key is a record, and only rows have names.
LEMMA RowFacts ==
  ASSUME RowInv
  PROVE  /\ \A c \in Channels : chan[c] # None => chan[c] \in Channel
         /\ \A row \in Channel : row # None
         /\ \A p \in Pools : pool[p] # None => pool[p] \in Models
         /\ \A c \in Channels : chan[c] # None => named[c] \in Nat /\ ghost.model[c] # None
BY ChannelAdminAssumption DEF RowInv, RowTypes, Seen, IdsSpent, Histories

LEMMA RowFrame ==
  ASSUME RowInv, UNCHANGED <<rowVars, ghost>>
  PROVE  RowInv'
BY DEF RowInv, RowTypes, Seen, IdsSpent, PlacedRight, RecordsKept, Rows, Naming, Total, Share,
       rowVars, recordVars

\* A row is written, but for its pool.
LEMMA RowWritten ==
  ASSUME RowInv, NEW c \in Channels, NEW row \in Channel, chan[c] # None,
         row.pool = chan[c].pool, chan' = [chan EXCEPT ![c] = row],
         UNCHANGED <<pool, used, recordVars, ghost>>
  PROVE  RowInv'
<1> USE DEF RowInv, recordVars
<1>1. row # None
  BY RowFacts
<1>2. chan' \in Seen /\ chan'[c] = row /\ \A d \in Channels : d # c => chan'[d] = chan[d]
  BY DEF RowTypes, Seen
<1>3. \A d \in Channels : (chan'[d] # None <=> chan[d] # None)
                          /\ (chan[d] # None => chan'[d].pool = chan[d].pool)
  BY <1>1, <1>2
<1>4. RowTypes'
  BY <1>2 DEF RowTypes
<1>5. IdsSpent'
  BY <1>3 DEF IdsSpent
<1>6. PlacedRight'
  BY <1>3 DEF PlacedRight, Rows
<1>7. RecordsKept' /\ IsFiniteSet(Naming(named))'
  BY <1>3 DEF RecordsKept, Naming, Total, Share
<1> QED
  BY <1>4, <1>5, <1>6, <1>7

\* The keys of a pool are let go, and the pool with them or not.
LetGo(p) ==
  [c \in Channels |-> IF c \in KeysOf(p) THEN [chan[c] EXCEPT !.pool = None] ELSE chan[c]]

LEMMA KeysLetGo ==
  ASSUME RowInv, NEW p, chan' = LetGo(p),
         UNCHANGED pool \/ pool' = [pool EXCEPT ![p] = None],
         UNCHANGED <<used, recordVars, ghost>>
  PROVE  RowInv'
<1> USE DEF RowInv, recordVars
<1>1. \A c \in KeysOf(p) : [chan[c] EXCEPT !.pool = None] \in Channel
  BY RowFacts DEF KeysOf, Rows, Channel
<1>2. chan' \in Seen
  BY <1>1 DEF LetGo, RowTypes, Seen
<1>3. \A c \in Channels : chan'[c] # None <=> chan[c] # None
  BY <1>1, RowFacts DEF LetGo, KeysOf, Rows
<1>4. \A c \in Channels :
        chan[c] # None /\ chan'[c].pool # None => chan[c].pool # p /\ chan'[c].pool = chan[c].pool
  <2>1. SUFFICES ASSUME NEW c \in Channels, chan[c] # None, chan'[c].pool # None
                 PROVE  chan[c].pool # p /\ chan'[c].pool = chan[c].pool
    OBVIOUS
  <2>2. c \notin KeysOf(p)
    <3>1. SUFFICES ASSUME c \in KeysOf(p)
                   PROVE  FALSE
      OBVIOUS
    <3>2. chan'[c] = [chan[c] EXCEPT !.pool = None] /\ chan[c] \in Channel
      BY <2>1, <3>1, RowFacts DEF LetGo
    <3> QED
      BY <2>1, <3>2 DEF Channel
  <2>3. chan'[c] = chan[c]
    BY <2>2 DEF LetGo
  <2> QED
    BY <2>1, <2>2, <2>3 DEF KeysOf, Rows
<1>5. pool' \in [Pools -> Models \cup {None}] /\ \A q \in Pools : q # p => pool'[q] = pool[q]
  BY DEF RowTypes
<1>6. \A q \in Pools : pool'[q] # None => pool[q] # None
  BY DEF RowTypes
<1>7. RowTypes'
  BY <1>2, <1>5 DEF RowTypes
<1>8. IdsSpent'
  BY <1>3, <1>6 DEF IdsSpent
<1>9. PlacedRight'
  <2>1. SUFFICES ASSUME NEW c \in Channels, chan'[c] # None, chan'[c].pool # None
                 PROVE  pool'[chan'[c].pool] = ghost.model[c]
    BY DEF PlacedRight, Rows
  <2>2. chan[c] # None /\ chan[c].pool # p /\ chan'[c].pool = chan[c].pool
    BY <1>3, <1>4, <2>1
  <2>3. chan[c].pool \in Pools
    BY <2>1, <2>2, RowFacts DEF Channel
  <2>4. pool[chan[c].pool] = ghost.model[c]
    BY <2>1, <2>2 DEF PlacedRight, Rows
  <2> QED
    BY <1>5, <2>2, <2>3, <2>4
<1>10. RecordsKept' /\ IsFiniteSet(Naming(named))'
  BY <1>3 DEF RecordsKept, Naming, Total, Share
<1> QED
  BY <1>7, <1>8, <1>9, <1>10

\* A row is deleted that no record names.
LEMMA RowDeleted ==
  ASSUME RowInv, NEW c \in Channels, named[c] = 0, chan' = [chan EXCEPT ![c] = None],
         UNCHANGED <<pool, used, recordVars, ghost>>
  PROVE  RowInv'
<1> USE DEF RowInv, recordVars
<1>1. chan' \in Seen /\ chan'[c] = None /\ \A d \in Channels : d # c => chan'[d] = chan[d]
  BY DEF RowTypes, Seen
<1>2. RowTypes'
  BY <1>1 DEF RowTypes
<1>3. IdsSpent' /\ PlacedRight'
  BY <1>1 DEF IdsSpent, PlacedRight, Rows
<1>4. RecordsKept' /\ IsFiniteSet(Naming(named))'
  BY <1>1 DEF RecordsKept, Naming, Total, Share
<1> QED
  BY <1>2, <1>3, <1>4

\* A row is inserted, with an id that none had and a pool that is there.
LEMMA RowInserted ==
  ASSUME RowInv, NEW c \in Channels, c \notin used, NEW row \in Channel, row.pool \in Pools,
         pool[row.pool] # None,
         chan' = [chan EXCEPT ![c] = row], used' = used \cup {c},
         ghost' = [ghost EXCEPT !.born = @ + 1, !.model[c] = pool[row.pool]],
         UNCHANGED <<pool, recordVars>>
  PROVE  RowInv'
<1> USE DEF RowInv, recordVars
<1> DEFINE m == pool[row.pool]
<1>1. row # None /\ m \in Models
  BY RowFacts
<1>2. chan' \in Seen /\ chan'[c] = row /\ \A d \in Channels : d # c => chan'[d] = chan[d]
  BY DEF RowTypes, Seen
<1> HIDE DEF m
<1>3. ghost' = [ghost EXCEPT !.born = @ + 1, !.model[c] = m]
  BY DEF m
<1>4. /\ ghost' \in Histories /\ ghost'.total = ghost.total /\ ghost'.lost = ghost.lost
      /\ ghost'.model[c] = m /\ \A d \in Channels : d # c => ghost'.model[d] = ghost.model[d]
  <2> DEFINE model == [ghost.model EXCEPT ![c] = m]
             born == ghost.born + 1
  <2>1. ghost \in Histories
    BY DEF RowTypes
  <2>2. /\ model \in [Channels -> Models \cup {None}]
        /\ model[c] = m /\ \A d \in Channels : d # c => model[d] = ghost.model[d]
    BY <1>1, <2>1 DEF Histories
  <2>3. born \in Nat
    BY <2>1 DEF Histories
  <2>4. ghost' = [ghost EXCEPT !.born = born, !.model = model]
    BY <1>3, <2>1 DEF Histories
  <2> HIDE DEF model, born
  <2> QED
    BY <2>1, <2>2, <2>3, <2>4 DEF Histories
<1>5. RowTypes'
  BY <1>2, <1>4 DEF RowTypes
<1>6. IdsSpent'
  BY <1>1, <1>2, <1>4 DEF IdsSpent
<1>7. PlacedRight'
  BY <1>2, <1>4 DEF PlacedRight, Rows, m
<1>8. RecordsKept' /\ IsFiniteSet(Naming(named))'
  BY <1>1, <1>2, <1>4 DEF RecordsKept, Naming, Total, Share
<1> QED
  BY <1>5, <1>6, <1>7, <1>8

\* A pool is inserted, with an id that none had: no key is in it yet.
LEMMA PoolInserted ==
  ASSUME RowInv, NEW p \in Pools, NEW m \in Models, InsertPool(p, m),
         UNCHANGED <<chan, recordVars, ghost>>
  PROVE  RowInv'
<1> USE DEF RowInv, recordVars
<1>1. p \notin used /\ used' = used \cup {p} /\ pool' = [pool EXCEPT ![p] = m]
  BY DEF InsertPool, Fresh
<1>2. RowTypes'
  BY <1>1 DEF RowTypes
<1>3. pool[p] = None /\ \A q \in Pools : q # p => pool'[q] = pool[q]
  BY <1>1 DEF IdsSpent, RowTypes
<1>4. IdsSpent'
  BY <1>1, <1>3 DEF IdsSpent
<1>5. PlacedRight'
  <2>1. SUFFICES ASSUME NEW c \in Channels, chan[c] # None, chan[c].pool # None
                 PROVE  pool'[chan[c].pool] = ghost.model[c]
    BY DEF PlacedRight, Rows
  <2>2. pool[chan[c].pool] = ghost.model[c] /\ ghost.model[c] # None /\ chan[c].pool \in Pools
    BY <2>1, RowFacts DEF PlacedRight, Rows, Channel
  <2> QED
    BY <1>3, <2>2
<1>6. RecordsKept' /\ IsFiniteSet(Naming(named))'
  BY DEF RecordsKept, Naming, Total, Share
<1> QED
  BY <1>2, <1>4, <1>5, <1>6

\* A record is written that names a channel.
LEMMA RecordWritten ==
  ASSUME RowInv, NEW c \in Channels, chan[c] # None,
         named' = [named EXCEPT ![c] = @ + 1], ghost' = [ghost EXCEPT !.total = @ + 1],
         UNCHANGED <<chan, pool, used, unnamed>>
  PROVE  RowInv'
<1> USE DEF RowInv
<1> DEFINE n == named[c] + 1
<1>1. named \in [Channels -> Nat] /\ DOMAIN named = Channels /\ n \in Nat /\ named[c] \in Nat
  BY DEF RowTypes
<1>2. named' = [named EXCEPT ![c] = n] /\ n = named[c] + 1
  OBVIOUS
<1> HIDE DEF n
<1>3. IsFiniteSet(Naming(named')) /\ Total(named) \in Nat /\ Total(named') = Total(named) + 1
  <2>1. DOMAIN named' = Channels /\ named'[c] = n /\ \A d \in Channels \ {c} : named'[d] = named[d]
    BY <1>1, <1>2
  <2>2. /\ IsFiniteSet(Naming(named')) /\ Total(named) \in Nat
        /\ Total(named') = Total(named) - named[c] + named'[c]
    BY <1>1, <2>1, SumChanges
  <2> QED
    BY <1>1, <1>2, <2>1, <2>2
<1>4. /\ ghost' \in Histories /\ ghost'.total = ghost.total + 1 /\ ghost'.lost = ghost.lost
      /\ ghost'.model = ghost.model
  BY DEF RowTypes, Histories
<1>5. named' \in [Channels -> Nat] /\ \A d \in Channels : d # c => named'[d] = named[d]
  BY <1>1, <1>2
<1>6. RowTypes'
  BY <1>4, <1>5 DEF RowTypes
<1>7. IdsSpent' /\ PlacedRight'
  BY <1>4 DEF IdsSpent, PlacedRight, Rows
<1>8. Total(named') + unnamed' + ghost'.lost = ghost'.total
  BY <1>3, <1>4 DEF RecordsKept, RowTypes, Histories
<1>9. \A d \in Channels : chan'[d] = None => named'[d] = 0
  BY <1>5 DEF RecordsKept
<1> QED
  BY <1>3, <1>6, <1>7, <1>8, <1>9 DEF RecordsKept, Naming, Total

\* A charge whose record is refused: the channel is gone.
LEMMA RecordRefused ==
  ASSUME RowInv, ghost' = [ghost EXCEPT !.total = @ + 1, !.lost = @ + 1],
         UNCHANGED <<chan, pool, used, recordVars>>
  PROVE  RowInv'
<1> USE DEF RowInv, recordVars
<1>1. /\ ghost' \in Histories /\ ghost'.total = ghost.total + 1 /\ ghost'.lost = ghost.lost + 1
      /\ ghost'.model = ghost.model
  <2>1. ghost \in Histories /\ ghost.total + 1 \in Nat /\ ghost.lost + 1 \in Nat
    BY DEF RowTypes, Histories
  <2>2. PICK t, l \in Nat : t = ghost.total + 1 /\ l = ghost.lost + 1
    BY <2>1
  <2>3. ghost' = [ghost EXCEPT !.total = t, !.lost = l]
    BY <2>2
  <2> QED
    BY <2>1, <2>2, <2>3 DEF Histories
<1>2. RowTypes'
  BY <1>1 DEF RowTypes
<1>3. IdsSpent' /\ PlacedRight'
  BY <1>1 DEF IdsSpent, PlacedRight, Rows
<1>4. IsFiniteSet(Naming(named))' /\ Total(named') = Total(named) /\ Total(named) \in Nat
  <2>1. Naming(named') = Naming(named)
    BY DEF Naming, Share
  <2> QED
    BY <2>1, FS_CardinalityType DEF Total, Naming
<1>5. RecordsKept'
  <2>1. Total(named') + unnamed' + ghost'.lost = ghost'.total
    BY <1>1, <1>4 DEF RecordsKept, RowTypes, Histories
  <2> QED
    BY <2>1 DEF RecordsKept
<1> QED
  BY <1>2, <1>3, <1>4, <1>5

\* The records of a channel name it no longer.
LEMMA RecordsUnnamed ==
  ASSUME RowInv, NEW c \in Channels, named' = NoLonger(c), unnamed' = Unnamed(c),
         UNCHANGED <<chan, pool, used, ghost>>
  PROVE  RowInv'
<1> USE DEF RowInv
<1>1. DOMAIN named = Channels /\ named[c] \in Nat /\ unnamed \in Nat
  BY DEF RowTypes
<1>2. named' = [named EXCEPT ![c] = 0] /\ unnamed' = unnamed + named[c]
  BY DEF NoLonger, Unnamed
<1>3. /\ IsFiniteSet(Naming(named')) /\ Total(named) \in Nat
      /\ Total(named') = Total(named) - named[c]
  <2>1. DOMAIN named' = Channels /\ named'[c] = 0 /\ \A d \in Channels \ {c} : named'[d] = named[d]
    BY <1>1, <1>2
  <2>2. /\ IsFiniteSet(Naming(named')) /\ Total(named) \in Nat
        /\ Total(named') = Total(named) - named[c] + named'[c]
    BY <1>1, <2>1, SumChanges
  <2> QED
    BY <1>1, <2>1, <2>2
<1>4. named' \in [Channels -> Nat] /\ \A d \in Channels : d # c => named'[d] = named[d]
  BY <1>2 DEF RowTypes
<1>5. RowTypes'
  BY <1>1, <1>2, <1>4 DEF RowTypes
<1>6. IdsSpent' /\ PlacedRight'
  BY DEF IdsSpent, PlacedRight, Rows
<1>7. Total(named') + unnamed' + ghost'.lost = ghost'.total
  BY <1>1, <1>2, <1>3 DEF RecordsKept, RowTypes, Histories
<1>8. \A d \in Channels : chan'[d] = None => named'[d] = 0
  BY <1>1, <1>2, <1>4 DEF RecordsKept
<1> QED
  BY <1>3, <1>5, <1>6, <1>7, <1>8 DEF RecordsKept, Naming, Total

-----------------------------------------------------------------------------
(* The lists that the tab and the import go by.                            *)

\* A pool that was once there keeps its name as long as it is there.
PoolsOnlyGo ==
  used \subseteq used' /\ \A p \in Pools : p \in used => pool'[p] \in {None, pool[p]}

LEMMA PoolsStay ==
  ASSUME UNCHANGED pool, used \subseteq used'
  PROVE  PoolsOnlyGo
BY DEF PoolsOnlyGo

\* What is still true of a list stays true.
LEMMA StaysStill ==
  ASSUME PoolsOnlyGo, NEW f, Still(f)
  PROVE  \A p \in Pools : f[p] # None => p \in used' /\ pool'[p] \in {None, f[p]}
BY DEF PoolsOnlyGo, Still

LEMMA HeadType ==
  ASSUME NEW s \in Seq(Models), s # <<>>
  PROVE  Head(s) \in Models
OBVIOUS

LEMMA ListParts ==
  ASSUME view' \in Tabs, ImportTypes', Still(view.list)', Still(import.known)', LineInHand'
  PROVE  ListInv'
BY DEF ListInv

LEMMA ListFrame ==
  ASSUME ListInv, PoolsOnlyGo, view' \in Tabs, view'.list = view.list, UNCHANGED import
  PROVE  ListInv'
<1> USE DEF ListInv
<1>1. ImportTypes'
  BY DEF ImportTypes
<1>2. Still(view.list)' /\ Still(import.known)'
  BY StaysStill DEF Still
<1>3. LineInHand'
  <2>1. SUFFICES ASSUME import.at \in {"list", "key"}
                 PROVE  import.pool \in used' /\ pool'[import.pool] \in {None, Head(import.todo)}
    BY DEF LineInHand
  <2> QED
    BY <2>1 DEF LineInHand, PoolsOnlyGo
<1> QED
  BY <1>1, <1>2, <1>3

LEMMA TabTypes ==
  ASSUME ListInv
  PROVE  /\ Reloaded \in Tabs /\ Reloaded.list = view.list
         /\ \A b \in BOOLEAN : AtEnd(b) \in Tabs /\ AtEnd(b).list = view.list
<1> DEFINE n == view.asked + 1
<1>1. view \in Tabs
  BY DEF ListInv
<1>2. n \in Nat /\ Reloaded = [view EXCEPT !.loading = TRUE, !.asked = n]
  BY <1>1 DEF Tabs, Reloaded
<1> HIDE DEF n
<1>3. Reloaded \in Tabs /\ Reloaded.list = view.list
  BY <1>1, <1>2 DEF Tabs
<1> QED
  BY <1>1, <1>3 DEF AtEnd

\* A list is answered: what it says is so.
LEMMA AnswerStill ==
  ASSUME RowInv
  PROVE  Still(pool) /\ pool \in [Pools -> Models \cup {None}]
BY DEF RowInv, IdsSpent, RowTypes, Still

\* The import goes on to the next line, or ends.
LEMMA LineDone ==
  ASSUME ListInv, PoolsOnlyGo, import.at # "idle", NEW b \in BOOLEAN,
         import' = NextLine(b), view' = AtEnd(b)
  PROVE  ListInv'
<1> USE DEF ListInv
<1>1. view' \in Tabs /\ view'.list = view.list
  BY TabTypes
<1>2. Still(view.list)'
  <2>1. \A p \in Pools : view.list[p] # None => p \in used' /\ pool'[p] \in {None, view.list[p]}
    BY StaysStill
  <2> QED
    BY <1>1, <2>1 DEF Still
<1>3. import.todo \in Seq(Models) /\ import.todo # <<>>
  BY DEF ImportTypes, LineInHand
<1>4. CASE Last
  <2>1. import' = NoImport
    BY <1>4 DEF NextLine
  <2>2. ImportTypes' /\ LineInHand'
    BY <2>1 DEF ImportTypes, LineInHand, NoImport, NoPools
  <2>3. Still(import.known)'
    BY <2>1 DEF Still, NoImport, NoPools
  <2> QED
    BY <1>1, <1>2, <2>2, <2>3
<1>5. CASE ~Last
  <2>1. import' = [import EXCEPT !.at = "pool", !.todo = Tail(@), !.made = b]
    BY <1>5 DEF NextLine
  <2>2. Tail(import.todo) \in Seq(Models) /\ Tail(import.todo) # <<>>
    <3>1. Len(import.todo) \in Nat /\ Len(import.todo) # 0 /\ Len(import.todo) # 1
      BY <1>3, <1>5 DEF Last
    <3>2. Tail(import.todo) \in Seq(Models) /\ Len(Tail(import.todo)) = Len(import.todo) - 1
      BY <1>3
    <3>3. Len(Tail(import.todo)) # 0
      BY <3>1, <3>2
    <3>4. Len(<<>>) = 0
      OBVIOUS
    <3> QED
      BY <3>2, <3>3, <3>4, Zenon
  <2>3. import'.at = "pool" /\ import'.todo = Tail(import.todo) /\ import'.known = import.known
        /\ import'.made = b /\ DOMAIN import' = DOMAIN import
    BY <2>1 DEF ImportTypes
  <2>4. ImportTypes' /\ LineInHand'
    BY <2>2, <2>3 DEF ImportTypes, LineInHand
  <2>5. Still(import.known)'
    <3>1. \A p \in Pools : import.known[p] # None => p \in used' /\ pool'[p] \in {None, import.known[p]}
      BY StaysStill
    <3> QED
      BY <2>3, <3>1 DEF Still
  <2> QED
    BY <1>1, <1>2, <2>4, <2>5
<1> QED
  BY <1>4, <1>5

-----------------------------------------------------------------------------
(* The routes in their slots, the form and the bounds.                     *)

LEMMA JobSet ==
  ASSUME JobInv, NEW j \in Jobs, NEW job, JobOK(job), jobs' = [jobs EXCEPT ![j] = job]
  PROVE  JobInv'
BY DEF JobInv, JobOK

LEMMA JobPut ==
  ASSUME JobInv, NEW job, JobOK(job), Put(job)
  PROVE  JobInv'
<1>1. PICK j \in Jobs : jobs' = [jobs EXCEPT ![j] = job]
  BY DEF Put, Free
<1> QED
  BY <1>1, JobSet

LEMMA JobFrame ==
  ASSUME JobInv, UNCHANGED jobs
  PROVE  JobInv'
BY DEF JobInv

LEMMA IdleJobOK == JobOK(IdleJob)
BY DEF JobOK, IdleJob, Job, JobKinds, Seen

LEMMA LoadingOK ==
  ASSUME NEW p \in Pools \cup {None}, NEW for \in {"view", "add"}
  PROVE  JobOK(Loading(p, for))
BY DEF JobOK, Loading, IdleJob, Job, JobKinds, Seen

LEMMA DetailOK ==
  ASSUME JobInv, NEW p \in Pools \cup {None}, NEW for \in {"view", "add"}, Detail(p, for)
  PROVE  JobInv'
BY LoadingOK, JobPut DEF Detail

LEMMA JobEnd ==
  ASSUME JobInv, NEW j \in Jobs, End(j)
  PROVE  JobInv'
BY IdleJobOK, JobSet DEF End

LEMMA JobStep ==
  ASSUME JobInv, NEW j \in Jobs, NEW at \in {"keys", "ask", "answer", "first", "second"}, Step(j, at)
  PROVE  JobInv'
<1> DEFINE job == [jobs[j] EXCEPT !.at = at]
<1>1. JobOK(job)
  BY DEF JobInv, JobOK, Job
<1>2. jobs' = [jobs EXCEPT ![j] = job]
  BY DEF Step
<1> HIDE DEF job
<1> QED
  BY <1>1, <1>2, JobSet

\* The answer of an upstream account is at hand.
LEMMA JobAnswered ==
  ASSUME JobInv, NEW j \in Jobs, NEW c \in Channels, NEW v \in 0..MaxBalance,
         NEW S \in SUBSET Channels
  PROVE  JobOK([jobs[j] EXCEPT !.at = "write", !.value = v, !.c = c, !.todo = S])
<1>1. v \in Nat
  BY ChannelAdminAssumption
<1>2. jobs[j] \in Job
  BY DEF JobInv, JobOK
<1> QED
  BY <1>1, <1>2 DEF JobOK, Job

LEMMA FormFrame ==
  ASSUME FormInv, UNCHANGED add
  PROVE  FormInv'
BY DEF FormInv

LEMMA SpendOK ==
  ASSUME BoundInv, NEW what \in DOMAIN left, Spend(what)
  PROVE  left' \in Cap
<1>1. left[what] \in Nat /\ left[what] > 0
  BY DEF BoundInv, Cap, Spend
<1> DEFINE n == left[what] - 1
<1>2. n \in Nat /\ left' = [left EXCEPT ![what] = n]
  BY <1>1 DEF Spend
<1> HIDE DEF n
<1> QED
  BY <1>2 DEF BoundInv, Cap

LEMMA BoundFrame ==
  ASSUME BoundInv, UNCHANGED account, UNCHANGED left \/ \E what \in DOMAIN left : Spend(what)
  PROVE  BoundInv'
BY SpendOK DEF BoundInv

LEMMA Bounds ==
  ASSUME BoundInv
  PROVE  DOMAIN left = {"records", "edits", "deletes", "opens", "adds", "imports",
                        "creates", "lists", "faults"}
BY DEF BoundInv, Cap

LEMMA InitInv == Init => IInv
<1> SUFFICES ASSUME Init
             PROVE  IInv
  OBVIOUS
<1> USE ChannelAdminAssumption DEF Init
<1>1. RowInv
  <2>1. RowTypes
    BY DEF RowTypes, Seen, Histories
  <2>2. IdsSpent /\ PlacedRight
    BY DEF IdsSpent, PlacedRight, Rows
  <2>3. IsFiniteSet(Naming(named)) /\ Total(named) = 0
    BY SumOfZeroes
  <2>4. RecordsKept
    BY <2>3 DEF RecordsKept
  <2> QED
    BY <2>1, <2>2, <2>3, <2>4 DEF RowInv
<1>2. ListInv
  <2>1. view \in Tabs
    BY DEF Tabs, NoPools
  <2>2. ImportTypes /\ LineInHand
    BY DEF ImportTypes, LineInHand, NoImport, NoPools
  <2>3. Still(view.list) /\ Still(import.known)
    BY DEF Still, NoImport, NoPools
  <2> QED
    BY <2>1, <2>2, <2>3 DEF ListInv
<1>3. FormInv
  BY DEF FormInv, NoAdd
<1>4. JobInv
  BY IdleJobOK DEF JobInv, JobOK
<1>5. BoundInv
  BY DEF BoundInv
<1> QED
  BY <1>1, <1>2, <1>3, <1>4, <1>5 DEF IInv

-----------------------------------------------------------------------------
(* The invariant is inductive: one lemma per action.                       *)

\* A step that touches neither the pools nor the tab nor the import.
LEMMA ListsAside ==
  ASSUME ListInv, UNCHANGED <<pool, view, import>>, used \subseteq used'
  PROVE  ListInv'
BY PoolsStay, ListFrame DEF ListInv

LEMMA AccountInv ==
  ASSUME IInv, NEW c \in Channels, Account(c)
  PROVE  IInv'
<1> USE DEF IInv, Account
<1>1. RowInv' /\ FormInv' /\ JobInv'
  BY RowFrame, FormFrame, JobFrame
<1>2. ListInv'
  BY ListsAside DEF rowVars
<1>3. BoundInv'
  <2>1. left' \in Cap
    BY Bounds, SpendOK
  <2>2. account' \in [Channels -> 0..MaxBalance]
    BY DEF BoundInv
  <2> QED
    BY <2>1, <2>2 DEF BoundInv
<1> QED
  BY <1>1, <1>2, <1>3

LEMMA RecordBillingInv ==
  ASSUME IInv, NEW c \in Channels, RecordBilling(c)
  PROVE  IInv'
<1> USE DEF IInv, RecordBilling
<1>1. RowInv'
  BY RecordWritten, RecordRefused DEF recordVars
<1>2. ListInv' /\ FormInv' /\ JobInv'
  BY ListsAside, FormFrame, JobFrame
<1>3. BoundInv'
  BY Bounds, BoundFrame
<1> QED
  BY <1>1, <1>2, <1>3

LEMMA CalibrateInv ==
  ASSUME IInv, NEW c \in Channels, Calibrate(c)
  PROVE  IInv'
<1> USE DEF IInv, Calibrate
<1>1. RowInv'
  <2>1. PICK v \in -1..MaxBalance : v >= 0 /\ chan' = [chan EXCEPT ![c].bal = v]
    BY DEF Calibrated, Accepted
  <2> DEFINE row == [chan[c] EXCEPT !.bal = v]
  <2>2. chan[c] \in Channel /\ v \in Nat
    BY <2>1, RowFacts, ChannelAdminAssumption
  <2>3. chan' = [chan EXCEPT ![c] = row]
    BY <2>1
  <2>4. row \in Channel /\ row.pool = chan[c].pool
    BY <2>2 DEF Channel
  <2> HIDE DEF row
  <2> QED
    BY <2>3, <2>4, RowWritten DEF recordVars
<1>2. ListInv' /\ FormInv' /\ JobInv'
  BY ListsAside, FormFrame, JobFrame
<1>3. BoundInv'
  BY Bounds, BoundFrame
<1> QED
  BY <1>1, <1>2, <1>3

LEMMA DeleteKeyInv ==
  ASSUME IInv, NEW c \in Channels, DeleteKey(c)
  PROVE  IInv'
<1> USE DEF IInv, DeleteKey
<1>1. RowInv' /\ FormInv'
  BY RowFrame, FormFrame
<1>2. ListInv'
  BY ListsAside DEF rowVars
<1>3. JobInv'
  <2> DEFINE job == [IdleJob EXCEPT !.at = "first", !.kind = "channel", !.c = c, !.pool = view.sel]
  <2>1. view.sel \in Pools \cup {None}
    BY DEF ListInv, Tabs
  <2>2. JobOK(job)
    BY <2>1 DEF JobOK, IdleJob, Job, JobKinds, Seen
  <2> HIDE DEF job
  <2> QED
    BY <2>2, JobPut DEF job
<1>4. BoundInv'
  BY Bounds, BoundFrame
<1> QED
  BY <1>1, <1>2, <1>3, <1>4

LEMMA DeletePoolInv ==
  ASSUME IInv, NEW p \in Pools, DeletePool(p)
  PROVE  IInv'
<1> USE DEF IInv, DeletePool
<1>1. RowInv' /\ FormInv'
  BY RowFrame, FormFrame
<1>2. ListInv'
  BY ListsAside DEF rowVars
<1>3. JobInv'
  <2> DEFINE job == [IdleJob EXCEPT !.at = "first", !.kind = "pool", !.pool = p]
  <2>1. JobOK(job)
    BY DEF JobOK, IdleJob, Job, JobKinds, Seen
  <2> HIDE DEF job
  <2> QED
    BY <2>1, JobPut DEF job
<1>4. BoundInv'
  BY Bounds, BoundFrame
<1> QED
  BY <1>1, <1>2, <1>3, <1>4

LEMMA OpenPoolInv ==
  ASSUME IInv, NEW p \in Pools, OpenPool(p)
  PROVE  IInv'
<1> USE DEF IInv, OpenPool
<1>1. RowInv' /\ FormInv'
  BY RowFrame, FormFrame
<1>2. ListInv' /\ JobInv'
  BY ListsAside, DetailOK DEF rowVars
<1>3. BoundInv'
  BY Bounds, BoundFrame
<1> QED
  BY <1>1, <1>2, <1>3

LEMMA RefreshInv ==
  ASSUME IInv, Refresh
  PROVE  IInv'
<1> USE DEF IInv, Refresh
<1>1. RowInv' /\ FormInv' /\ JobInv'
  BY RowFrame, FormFrame, JobFrame
<1>2. ListInv'
  BY TabTypes, PoolsStay, ListFrame DEF rowVars
<1>3. BoundInv'
  BY Bounds, BoundFrame
<1> QED
  BY <1>1, <1>2, <1>3

LEMMA BackInv ==
  ASSUME IInv, Back
  PROVE  IInv'
<1> USE DEF IInv, Back
<1>1. RowInv' /\ FormInv' /\ JobInv' /\ BoundInv'
  BY RowFrame, FormFrame, JobFrame, BoundFrame
<1>2. view' \in Tabs /\ view'.list = view.list
  BY DEF ListInv, Tabs
<1>3. ListInv'
  BY <1>2, PoolsStay, ListFrame DEF rowVars
<1> QED
  BY <1>1, <1>3

\* The route in a slot.
LEMMA JobFacts ==
  ASSUME JobInv, NEW j \in Jobs
  PROVE  /\ jobs[j] \in Job /\ jobs[j].pool \in Pools \cup {None} /\ jobs[j].value \in Nat
         /\ jobs[j].kind \in {"initial", "channel"} \/ jobs[j].at = "write" => jobs[j].c \in Channels
         /\ jobs[j].todo \in SUBSET Channels
BY DEF JobInv, JobOK, Job

\* A balance is written into a row, if it is still there.
LEMMA BalanceWritten ==
  ASSUME RowInv, NEW c \in Channels, NEW v \in Nat, NEW w \in Nat, chan[c] # None,
         chan' = [chan EXCEPT ![c].bal = v, ![c].init = w],
         UNCHANGED <<pool, used, recordVars, ghost>>
  PROVE  RowInv'
<1> DEFINE row == [chan[c] EXCEPT !.bal = v, !.init = w]
<1>1. chan[c] \in Channel
  BY RowFacts
<1>2. row \in Channel /\ row.pool = chan[c].pool
  BY <1>1 DEF Channel
<1>3. chan \in [Channels -> Channel \cup {None}]
  BY DEF RowInv, RowTypes, Seen
<1>4. chan' = [chan EXCEPT ![c] = row]
  BY <1>3
<1> HIDE DEF row
<1> QED
  BY <1>2, <1>4, RowWritten

\* What the routes that only ask and write leave alone.
LEMMA AskFrame ==
  ASSUME IInv, UNCHANGED <<pool, used, recordVars, account, view, add, import, left, ghost>>
  PROVE  ListInv' /\ FormInv' /\ BoundInv'
<1>1. ListInv'
  BY ListsAside DEF IInv
<1> QED
  BY <1>1, FormFrame, BoundFrame DEF IInv

LEMMA InitialAskInv ==
  ASSUME IInv, NEW j \in Jobs, InitialAsk(j),
         UNCHANGED <<pool, used, recordVars, account, view, add, import, left, ghost>>
  PROVE  IInv'
<1> USE DEF IInv, InitialAsk
<1>1. RowInv' /\ ListInv' /\ FormInv' /\ BoundInv'
  BY AskFrame, RowFrame DEF rowVars
<1>2. PICK v \in 0..MaxBalance :
        IF v > 0 THEN jobs' = [jobs EXCEPT ![j].at = "write", ![j].value = v] ELSE End(j)
  OBVIOUS
<1>3. CASE v > 0
  <2> DEFINE job == [jobs[j] EXCEPT !.at = "write", !.value = v]
  <2>1. jobs[j] \in Job /\ jobs[j].c \in Channels /\ v \in Nat
    BY <1>3, JobFacts, ChannelAdminAssumption
  <2>2. JobOK(job)
    BY <2>1 DEF JobOK, Job
  <2>3. jobs' = [jobs EXCEPT ![j] = job]
    BY <1>2, <1>3 DEF JobInv
  <2> HIDE DEF job
  <2>4. JobInv'
    BY <2>2, <2>3, JobSet
  <2> QED
    BY <1>1, <2>4
<1>4. CASE ~(v > 0)
  BY <1>1, <1>2, <1>4, JobEnd
<1> QED
  BY <1>3, <1>4

LEMMA InitialWriteInv ==
  ASSUME IInv, NEW j \in Jobs, InitialWrite(j),
         UNCHANGED <<pool, used, recordVars, account, view, add, import, left, ghost>>
  PROVE  IInv'
<1> USE DEF IInv, InitialWrite
<1>1. ListInv' /\ FormInv' /\ BoundInv' /\ JobInv'
  BY AskFrame, JobEnd
<1>2. jobs[j].c \in Channels /\ jobs[j].value \in Nat
  BY JobFacts
<1>3. RowInv'
  <2>1. CASE chan[jobs[j].c] = None
    BY <2>1, RowFrame DEF rowVars
  <2>2. CASE chan[jobs[j].c] # None
    BY <2>2, <1>2, BalanceWritten
  <2> QED
    BY <2>1, <2>2
<1> QED
  BY <1>1, <1>3

LEMMA KeysInv ==
  ASSUME IInv, NEW j \in Jobs, Keys(j),
         UNCHANGED <<pool, used, recordVars, account, view, add, import, left, ghost>>
  PROVE  IInv'
<1> USE DEF IInv, Keys
<1>1. RowInv' /\ ListInv' /\ FormInv' /\ BoundInv'
  BY AskFrame, RowFrame DEF rowVars
<1> DEFINE keys == KeysOf(jobs[j].pool)
           job == [jobs[j] EXCEPT !.at = "ask", !.todo = keys, !.seen = chan]
<1>2. keys \in SUBSET Channels /\ chan \in Seen
  BY DEF KeysOf, Rows, RowInv, RowTypes
<1>3. jobs' = [jobs EXCEPT ![j] = job]
  BY DEF JobInv
<1> HIDE DEF keys
<1>4. jobs[j] \in Job /\ jobs[j].kind = "detail"
  BY JobFacts
<1>5. JobOK(job)
  BY <1>2, <1>4 DEF JobOK, Job
<1> HIDE DEF job
<1>6. JobInv'
  BY <1>3, <1>5, JobSet
<1> QED
  BY <1>1, <1>6

LEMMA DetailAskInv ==
  ASSUME IInv, NEW j \in Jobs, DetailAsk(j),
         UNCHANGED <<pool, used, recordVars, account, view, add, import, left, ghost>>
  PROVE  IInv'
<1> USE DEF IInv, DetailAsk
<1>1. RowInv' /\ ListInv' /\ FormInv' /\ BoundInv'
  BY AskFrame, RowFrame DEF rowVars
<1>2. jobs[j] \in Job /\ jobs[j].todo \in SUBSET Channels /\ jobs[j].kind = "detail"
      /\ jobs[j].at = "ask"
  BY JobFacts
<1>3. ASSUME NEW c \in Ahead(j), NEW v \in 0..MaxBalance,
             jobs' = [jobs EXCEPT ![j].at = "write", ![j].value = v, ![j].c = c, ![j].todo = @ \ {c}]
      PROVE  JobInv'
  <2> DEFINE S == jobs[j].todo \ {c}
             job == [jobs[j] EXCEPT !.at = "write", !.value = v, !.c = c, !.todo = S]
  <2>1. c \in Channels /\ S \in SUBSET Channels
    BY <1>2 DEF Ahead
  <2>2. jobs' = [jobs EXCEPT ![j] = job]
    BY <1>2, <1>3 DEF JobInv, Job
  <2> HIDE DEF S
  <2>3. JobOK(job)
    BY <2>1, JobAnswered
  <2> HIDE DEF job
  <2> QED
    BY <2>2, <2>3, JobSet
<1>4. ASSUME NEW c \in Ahead(j), jobs' = [jobs EXCEPT ![j].todo = @ \ {c}]
      PROVE  JobInv'
  <2> DEFINE S == jobs[j].todo \ {c}
             job == [jobs[j] EXCEPT !.todo = S]
  <2>1. S \in SUBSET Channels
    BY <1>2
  <2>2. jobs' = [jobs EXCEPT ![j] = job]
    BY <1>4 DEF JobInv
  <2> HIDE DEF S
  <2>3. JobOK(job)
    BY <1>2, <2>1 DEF JobOK, Job
  <2> HIDE DEF job
  <2> QED
    BY <2>2, <2>3, JobSet
<1>5. JobInv'
  BY <1>3, <1>4, JobStep
<1> QED
  BY <1>1, <1>5

LEMMA DetailWriteInv ==
  ASSUME IInv, NEW j \in Jobs, DetailWrite(j),
         UNCHANGED <<pool, used, recordVars, account, view, add, import, left, ghost>>
  PROVE  IInv'
<1> USE DEF IInv, DetailWrite
<1>1. ListInv' /\ FormInv' /\ BoundInv' /\ JobInv'
  BY AskFrame, JobStep
<1> DEFINE c == jobs[j].c
           v == jobs[j].value
           w == IF SetsInit(j) THEN v ELSE chan[c].init
<1>2. c \in Channels /\ v \in Nat
  BY JobFacts
<1>3. RowInv'
  <2>1. CASE chan[c] = None
    BY <2>1, RowFrame DEF rowVars
  <2>2. CASE chan[c] # None
    <3>1. chan[c] \in Channel
      BY <1>2, <2>2, RowFacts
    <3>2. w \in Nat
      BY <1>2, <3>1 DEF Channel
    <3>3. chan \in [Channels -> Channel \cup {None}]
      BY DEF RowInv, RowTypes, Seen
    <3>4. chan' = [chan EXCEPT ![c].bal = v, ![c].init = w]
      BY <1>2, <2>2, <3>1, <3>3 DEF Channel
    <3> HIDE DEF w, v, c
    <3> QED
      BY <1>2, <2>2, <3>2, <3>4, BalanceWritten
  <2> QED
    BY <2>1, <2>2
<1> QED
  BY <1>1, <1>3

LEMMA DetailAnswerInv ==
  ASSUME IInv, NEW j \in Jobs, DetailAnswer(j),
         UNCHANGED <<pool, used, recordVars, account, import, left, ghost>>
  PROVE  IInv'
<1> USE DEF IInv, DetailAnswer
<1> DEFINE p == jobs[j].pool
<1>1. RowInv' /\ BoundInv' /\ JobInv'
  BY RowFrame, BoundFrame, JobEnd DEF rowVars
<1>2. KeysOf(p) \in SUBSET Channels /\ p \in Pools \cup {None}
  BY JobFacts DEF KeysOf, Rows
<1>3. view' \in Tabs /\ view'.list = view.list
  BY <1>2 DEF ListInv, Tabs
<1>4. ListInv'
  BY <1>3, PoolsStay, ListFrame
<1>5. FormInv'
  BY DEF FormInv
<1> QED
  BY <1>1, <1>4, <1>5

LEMMA ChannelFirstInv ==
  ASSUME IInv, NEW j \in Jobs, ChannelFirst(j), UNCHANGED <<used, account, add, import>>
  PROVE  IInv'
<1> USE DEF IInv, ChannelFirst
<1>1. ListInv' /\ FormInv'
  BY ListsAside, FormFrame
<1>2. JobInv' /\ BoundInv'
  BY JobStep, JobEnd, Bounds, BoundFrame
<1>3. jobs[j].c \in Channels
  BY JobFacts
<1>4. RowInv'
  BY <1>3, RecordsUnnamed, RowFrame DEF rowVars
<1> QED
  BY <1>1, <1>2, <1>4

LEMMA ChannelSecondInv ==
  ASSUME IInv, NEW j \in Jobs, ChannelSecond(j), UNCHANGED <<used, account, add, import>>
  PROVE  IInv'
<1> USE DEF IInv, ChannelSecond
<1>1. ListInv' /\ FormInv'
  BY ListsAside, FormFrame
<1>2. jobs[j].c \in Channels
  BY JobFacts
<1>3. RowInv'
  BY <1>2, RowDeleted, RowFrame DEF rowVars
<1>4. BoundInv'
  BY Bounds, BoundFrame
<1>5. JobInv'
  <2> DEFINE job == Loading(jobs[j].pool, "view")
  <2>1. JobOK(job)
    BY JobFacts, LoadingOK
  <2>2. jobs' = [jobs EXCEPT ![j] = job] \/ End(j)
    OBVIOUS
  <2> HIDE DEF job
  <2> QED
    BY <2>1, <2>2, JobSet, JobEnd
<1> QED
  BY <1>1, <1>3, <1>4, <1>5

LEMMA PoolFirstInv ==
  ASSUME IInv, NEW j \in Jobs, PoolFirst(j), UNCHANGED <<used, account, add, import>>
  PROVE  IInv'
<1> USE DEF IInv, PoolFirst
<1>1. ListInv' /\ FormInv'
  BY ListsAside, FormFrame
<1>2. JobInv' /\ BoundInv'
  BY JobStep, JobEnd, Bounds, BoundFrame
<1>3. chan' = LetGo(jobs[j].pool) \/ UNCHANGED chan
  BY DEF LetGo
<1>4. RowInv'
  BY <1>3, KeysLetGo, RowFrame DEF rowVars
<1> QED
  BY <1>1, <1>2, <1>4

LEMMA PoolSecondInv ==
  ASSUME IInv, NEW j \in Jobs, PoolSecond(j), UNCHANGED <<used, account, add, import>>
  PROVE  IInv'
<1> USE DEF IInv, PoolSecond
<1> DEFINE p == jobs[j].pool
<1>1. FormInv' /\ JobInv' /\ BoundInv'
  BY FormFrame, JobEnd, Bounds, BoundFrame
<1>2. \/ chan' = LetGo(p) /\ pool' = [pool EXCEPT ![p] = None] /\ view' = Reloaded
      \/ UNCHANGED <<pool, chan, view>>
  BY DEF LetGo
<1>3. RowInv'
  BY <1>2, KeysLetGo, RowFrame DEF rowVars
<1>4. PoolsOnlyGo
  BY <1>2 DEF PoolsOnlyGo, RowInv, RowTypes
<1>5. view' \in Tabs /\ view'.list = view.list
  BY <1>2, TabTypes DEF ListInv
<1>6. ListInv'
  BY <1>4, <1>5, ListFrame
<1> QED
  BY <1>1, <1>3, <1>6

LEMMA RouteInv ==
  ASSUME IInv, NEW j \in Jobs, Route(j)
  PROVE  IInv'
<1>1. CASE /\ InitialAsk(j) \/ InitialWrite(j) \/ Keys(j) \/ DetailAsk(j) \/ DetailWrite(j)
           /\ UNCHANGED <<pool, used, recordVars, account, view, add, import, left, ghost>>
  BY <1>1, InitialAskInv, InitialWriteInv, KeysInv, DetailAskInv, DetailWriteInv
<1>2. CASE /\ DetailAnswer(j)
           /\ UNCHANGED <<pool, used, recordVars, account, import, left, ghost>>
  BY <1>2, DetailAnswerInv
<1>3. CASE /\ ChannelFirst(j) \/ ChannelSecond(j) \/ PoolFirst(j) \/ PoolSecond(j)
           /\ UNCHANGED <<used, account, add, import>>
  BY <1>3, ChannelFirstInv, ChannelSecondInv, PoolFirstInv, PoolSecondInv
<1> QED
  BY <1>1, <1>2, <1>3 DEF Route

LEMMA ListedInv ==
  ASSUME IInv, Listed
  PROVE  IInv'
<1> USE DEF IInv, Listed
<1>1. RowInv' /\ FormInv' /\ JobInv'
  BY RowFrame, FormFrame, JobFrame
<1>2. BoundInv'
  BY Bounds, BoundFrame
<1>3. UNCHANGED <<pool, used>> /\ PoolsOnlyGo
  BY PoolsStay DEF rowVars
<1>4. Still(pool) /\ pool \in [Pools -> Models \cup {None}]
  BY AnswerStill
<1>5. view \in Tabs /\ (view.asked > 0 => view.asked - 1 \in Nat)
  BY DEF ListInv, Tabs
<1>6. view' \in Tabs /\ view'.list \in {view.list, pool}
  <2> DEFINE n == view.asked - 1
  <2>1. \/ n \in Nat /\ view' = [view EXCEPT !.list = pool, !.loading = FALSE, !.asked = n]
        \/ view' = [view EXCEPT !.list = pool, !.loading = FALSE]
        \/ n \in Nat /\ view' = [view EXCEPT !.loading = FALSE, !.asked = n]
    BY <1>5
  <2> HIDE DEF n
  <2> QED
    BY <1>4, <1>5, <2>1 DEF Tabs
<1>7. Still(view.list)'
  BY <1>3, <1>4, <1>6 DEF ListInv, Still
<1>8. CASE UNCHANGED import
  <2>1. ImportTypes' /\ Still(import.known)' /\ LineInHand'
    BY <1>3, <1>8 DEF ListInv, ImportTypes, LineInHand, Still
  <2> QED
    BY <1>1, <1>2, <1>6, <1>7, <2>1, ListParts
<1>9. CASE import.at = "list" /\ import' = [import EXCEPT !.at = "key"]
  <2>1. /\ import'.at = "key" /\ import'.todo = import.todo /\ import'.known = import.known
        /\ import'.pool = import.pool /\ import'.made = import.made
        /\ DOMAIN import' = DOMAIN import
    BY <1>9 DEF ListInv, ImportTypes
  <2>2. ImportTypes' /\ Still(import.known)' /\ LineInHand'
    BY <1>3, <1>9, <2>1 DEF ListInv, ImportTypes, LineInHand, Still
  <2> QED
    BY <1>1, <1>2, <1>6, <1>7, <2>2, ListParts
<1> QED
  BY <1>8, <1>9

LEMMA EditKeyInv ==
  ASSUME IInv, EditKey
  PROVE  IInv'
<1> USE DEF IInv, EditKey
<1>1. ListInv' /\ FormInv'
  BY ListsAside, FormFrame
<1>2. BoundInv'
  BY Bounds, BoundFrame
<1>3. JobInv'
  BY DetailOK DEF ListInv, Tabs
<1>4. PICK c \in Table, p \in Priorities : chan' = Patched(c, [chan[c] EXCEPT !.prio = p])
  OBVIOUS
<1>5. c \in Channels
  BY DEF ListInv, Tabs, Table
<1>6. RowInv'
  <2>1. CASE chan[c] = None
    BY <1>4, <2>1, RowFrame DEF rowVars, Patched
  <2>2. CASE chan[c] # None
    <3> DEFINE row == [chan[c] EXCEPT !.prio = p]
    <3>1. chan[c] \in Channel
      BY <1>5, <2>2, RowFacts
    <3>2. row \in Channel /\ row.pool = chan[c].pool
      BY <3>1 DEF Channel
    <3>3. chan' = [chan EXCEPT ![c] = row]
      BY <1>4, <2>2 DEF Patched
    <3> HIDE DEF row
    <3> QED
      BY <1>5, <2>2, <3>2, <3>3, RowWritten
  <2> QED
    BY <2>1, <2>2
<1> QED
  BY <1>1, <1>2, <1>3, <1>6

LEMMA CreatePoolInv ==
  ASSUME IInv, CreatePool
  PROVE  IInv'
<1> USE DEF IInv, CreatePool
<1>1. FormInv' /\ JobInv' /\ BoundInv'
  BY FormFrame, JobFrame, Bounds, BoundFrame
<1>2. PICK p \in Pools, m \in Models : InsertPool(p, m)
  OBVIOUS
<1>3. RowInv'
  BY <1>2, PoolInserted
<1>4. PoolsOnlyGo
  BY <1>2 DEF PoolsOnlyGo, InsertPool, Fresh, RowInv, RowTypes
<1>5. ListInv'
  BY <1>4, TabTypes, ListFrame
<1> QED
  BY <1>1, <1>3, <1>5

\* A new row that is answered, and then asked for its first balance or not.
LEMMA InsertOK ==
  ASSUME RowInv, JobInv, NEW c \in Channels, NEW p \in Pools \cup {None}, NEW prio \in Priorities,
         p # None, Insert(c, p, prio), UNCHANGED <<pool, recordVars>>
  PROVE  RowInv' /\ JobInv'
<1> USE DEF Insert
<1> DEFINE row == [pool |-> p, prio |-> prio, bal |-> 0, init |-> 0, born |-> ghost.born + 1]
           job == [IdleJob EXCEPT !.at = "ask", !.kind = "initial", !.c = c]
<1>1. ghost.born + 1 \in Nat
  BY DEF RowInv, RowTypes, Histories
<1>2. row \in Channel /\ row.pool = p
  BY <1>1 DEF Channel
<1>3. chan' = [chan EXCEPT ![c] = row]
  OBVIOUS
<1> HIDE DEF row
<1>4. RowInv'
  BY <1>2, <1>3, RowInserted DEF Fresh
<1>5. JobOK(job)
  BY DEF JobOK, IdleJob, Job, JobKinds, Seen
<1>6. Put(job) \/ UNCHANGED jobs
  OBVIOUS
<1> HIDE DEF job
<1>7. JobInv'
  BY <1>5, <1>6, JobPut, JobFrame
<1> QED
  BY <1>4, <1>7

LEMMA AddKeyInv ==
  ASSUME IInv, AddKey
  PROVE  IInv'
<1> USE DEF IInv, AddKey
<1>1. BoundInv'
  BY Bounds, BoundFrame
<1>2. PICK c \in Channels, prio \in Priorities :
        /\ Insert(c, view.sel, prio)
        /\ add' = [add EXCEPT !.at = "check", !.pool = view.sel, !.c = c]
  OBVIOUS
<1>3. view.sel \in Pools \cup {None}
  BY DEF ListInv, Tabs
<1>4. RowInv' /\ JobInv'
  BY <1>2, <1>3, InsertOK
<1>5. FormInv'
  BY <1>2, <1>3 DEF FormInv
<1>6. ListInv'
  BY <1>2, ListsAside DEF Insert
<1> QED
  BY <1>1, <1>4, <1>5, <1>6

LEMMA CheckBalanceInv ==
  ASSUME IInv, CheckBalance
  PROVE  IInv'
<1> USE DEF IInv, CheckBalance
<1>1. RowInv' /\ BoundInv'
  BY RowFrame, BoundFrame
<1>2. ListInv'
  BY ListsAside DEF rowVars
<1>3. PICK v \in 0..MaxBalance :
        IF v > 0
        THEN Detail(add.pool, "add") /\ add' = [add EXCEPT !.at = "first", !.value = v]
        ELSE add' = [add EXCEPT !.at = "done"] /\ UNCHANGED jobs
  OBVIOUS
<1>4. v \in Nat /\ add.pool \in Pools \cup {None}
  BY ChannelAdminAssumption DEF FormInv
<1>5. JobInv'
  BY <1>3, <1>4, DetailOK, JobFrame
<1>6. FormInv'
  BY <1>3, <1>4 DEF FormInv
<1> QED
  BY <1>1, <1>2, <1>5, <1>6

LEMMA PatchFirstInv ==
  ASSUME IInv, PatchFirst
  PROVE  IInv'
<1> USE DEF IInv, PatchFirst
<1>1. ListInv' /\ JobInv' /\ BoundInv'
  BY ListsAside, JobFrame, BoundFrame
<1>2. FormInv'
  BY DEF FormInv
<1>3. RowInv'
  <2> DEFINE row == [chan[add.c] EXCEPT !.bal = add.value, !.init = add.value]
  <2>1. chan' = IF chan[add.c] = None THEN chan ELSE [chan EXCEPT ![add.c] = row]
    BY DEF Patched
  <2>2. CASE add.c \notin Channels \/ chan[add.c] = None
    <3>1. chan' = chan
      BY <2>1, <2>2 DEF RowInv, RowTypes, Seen
    <3> QED
      BY <3>1, RowFrame DEF rowVars
  <2>3. CASE add.c \in Channels /\ chan[add.c] # None
    <3>1. chan[add.c] \in Channel /\ add.value \in Nat
      BY <2>3, RowFacts DEF FormInv
    <3>2. row \in Channel /\ row.pool = chan[add.c].pool
      BY <3>1 DEF Channel
    <3> HIDE DEF row
    <3> QED
      BY <2>1, <2>3, <3>2, RowWritten
  <2> QED
    BY <2>2, <2>3
<1> QED
  BY <1>1, <1>2, <1>3

LEMMA AddedInv ==
  ASSUME IInv, Added
  PROVE  IInv'
<1> USE DEF IInv, Added
<1>1. RowInv' /\ BoundInv'
  BY RowFrame, BoundFrame
<1>2. ListInv'
  BY ListsAside DEF rowVars
<1>3. JobInv' /\ FormInv'
  BY DetailOK DEF FormInv, NoAdd
<1> QED
  BY <1>1, <1>2, <1>3

LEMMA StartImportInv ==
  ASSUME IInv, StartImport
  PROVE  IInv'
<1> USE DEF IInv, StartImport
<1>1. RowInv' /\ FormInv' /\ JobInv'
  BY RowFrame, FormFrame, JobFrame
<1>2. BoundInv'
  BY Bounds, BoundFrame
<1>3. PICK l \in Lines : import' = [NoImport EXCEPT !.at = "pool", !.todo = l, !.known = view.list]
  OBVIOUS
<1>4. l \in Seq(Models) /\ l # <<>> /\ view.list \in [Pools -> Models \cup {None}]
  BY ChannelAdminAssumption DEF ListInv, Tabs
<1>5. /\ import'.at = "pool" /\ import'.todo = l /\ import'.known = view.list
      /\ DOMAIN import' = {"at", "todo", "known", "pool", "made"}
      /\ import'.made = FALSE
  BY <1>3 DEF NoImport
<1>6. UNCHANGED <<pool, used, view>>
  BY DEF rowVars
<1>7. ListInv'
  BY <1>4, <1>5, <1>6 DEF ListInv, ImportTypes, LineInHand, Still
<1> QED
  BY <1>1, <1>2, <1>7

LEMMA FindPoolInv ==
  ASSUME IInv, FindPool
  PROVE  IInv'
<1> USE DEF IInv, FindPool
<1> DEFINE m == Head(import.todo)
<1>1. FormInv' /\ JobInv' /\ BoundInv'
  BY FormFrame, JobFrame, BoundFrame
<1>2. m \in Models /\ import.made \in BOOLEAN
  <2>1. import.todo \in Seq(Models) /\ import.todo # <<>> /\ import.made \in BOOLEAN
    BY DEF ListInv, ImportTypes, LineInHand
  <2> QED
    BY <2>1, HeadType
<1>3. CASE Known(m) # {}
  <2>1. PICK p \in Known(m) : import' = [import EXCEPT !.at = "key", !.pool = p]
    BY <1>3
  <2>2. p \in Pools /\ p \in used /\ pool[p] \in {None, m}
    BY <1>2, ChannelAdminAssumption DEF Known, ListInv, Still
  <2>3. /\ import'.at = "key" /\ import'.pool = p /\ import'.todo = import.todo
        /\ import'.known = import.known /\ import'.made = import.made
        /\ DOMAIN import' = DOMAIN import
    BY <2>1 DEF ListInv, ImportTypes
  <2>4. UNCHANGED <<pool, used, view>>
    BY <1>3
  <2>5. ListInv'
    BY <2>2, <2>3, <2>4 DEF ListInv, ImportTypes, LineInHand, Still
  <2>6. RowInv'
    BY <2>4, RowFrame DEF rowVars
  <2> QED
    BY <1>1, <2>5, <2>6
<1>4. CASE Known(m) = {} /\ (Taken(m) \/ Fresh(Pools) = {})
  <2>1. import' = NextLine(import.made) /\ view' = AtEnd(import.made) /\ UNCHANGED <<pool, used>>
    BY <1>4
  <2>2. RowInv' /\ ListInv'
    BY <1>2, <2>1, RowFrame, PoolsStay, LineDone DEF rowVars
  <2> QED
    BY <1>1, <2>2
<1>5. CASE Known(m) = {} /\ ~(Taken(m) \/ Fresh(Pools) = {})
  <2>1. PICK p \in Pools :
          /\ InsertPool(p, m)
          /\ import' = [import EXCEPT !.at = "list", !.pool = p]
          /\ view' = [view EXCEPT !.loading = TRUE]
    BY <1>5
  <2>2. RowInv'
    BY <1>2, <2>1, PoolInserted
  <2>3. PoolsOnlyGo /\ p \in used' /\ pool'[p] = m
    BY <2>1 DEF PoolsOnlyGo, InsertPool, Fresh, RowInv, RowTypes
  <2>4. /\ import'.at = "list" /\ import'.pool = p /\ import'.todo = import.todo
        /\ import'.known = import.known /\ import'.made = import.made
        /\ DOMAIN import' = DOMAIN import
    BY <2>1 DEF ListInv, ImportTypes
  <2>5. view' \in Tabs /\ view'.list = view.list
    BY <2>1 DEF ListInv, Tabs
  <2>6. Still(view.list)' /\ Still(import.known)'
    <3>1. \A q \in Pools : view.list[q] # None => q \in used' /\ pool'[q] \in {None, view.list[q]}
      BY <2>3, StaysStill DEF ListInv
    <3>2. \A q \in Pools : import.known[q] # None => q \in used' /\ pool'[q] \in {None, import.known[q]}
      BY <2>3, StaysStill DEF ListInv
    <3> QED
      BY <2>4, <2>5, <3>1, <3>2 DEF Still
  <2>7. ImportTypes' /\ LineInHand'
    BY <2>3, <2>4 DEF ListInv, ImportTypes, LineInHand
  <2> QED
    BY <1>1, <2>2, <2>5, <2>6, <2>7 DEF ListInv
<1> QED
  BY <1>3, <1>4, <1>5

LEMMA ImportKeyInv ==
  ASSUME IInv, ImportKey
  PROVE  IInv'
<1> USE DEF IInv, ImportKey
<1>1. FormInv' /\ BoundInv'
  BY FormFrame, BoundFrame
<1>2. import.made \in BOOLEAN /\ import.pool \in Pools /\ pool[import.pool] \in {None, Head(import.todo)}
  BY DEF ListInv, ImportTypes, LineInHand
<1>3. CASE /\ import' = NextLine(import.made) /\ view' = AtEnd(import.made)
           /\ UNCHANGED <<chan, used, jobs, ghost>>
  <2>1. RowInv' /\ JobInv'
    BY <1>3, RowFrame, JobFrame DEF rowVars
  <2>2. ListInv'
    BY <1>2, <1>3, PoolsStay, LineDone
  <2> QED
    BY <1>1, <2>1, <2>2
<1>4. ASSUME NEW c \in Fresh(Channels), pool[import.pool] # None,
             chan' = [chan EXCEPT ![c] = [pool |-> import.pool, prio |-> 3, bal |-> 0, init |-> 0,
                                          born |-> ghost.born + 1]],
             used' = used \cup {c},
             ghost' = [ghost EXCEPT !.born = @ + 1, !.model[c] = Head(import.todo)],
             Put([IdleJob EXCEPT !.at = "ask", !.kind = "initial", !.c = c]),
             import' = NextLine(TRUE), view' = AtEnd(TRUE)
      PROVE  IInv'
  <2>1. Head(import.todo) = pool[import.pool] /\ c \in Channels
    BY <1>2, <1>4 DEF Fresh
  <2>2. Insert(c, import.pool, 3)
    BY <1>4, <2>1 DEF Insert
  <2>3. RowInv' /\ JobInv'
    BY <1>2, <2>1, <2>2, InsertOK, ChannelAdminAssumption DEF Priorities
  <2>4. ListInv'
    BY <1>4, PoolsStay, LineDone
  <2> QED
    BY <1>1, <2>3, <2>4
<1> QED
  BY <1>3, <1>4

LEMMA NextInv ==
  ASSUME IInv, [Next]_vars
  PROVE  IInv'
<1>1. CASE UNCHANGED vars
  <2>1. UNCHANGED <<rowVars, ghost, pool, used, view, import, account, jobs, add, left>>
    BY <1>1 DEF vars, rowVars
  <2>2. RowInv' /\ FormInv' /\ JobInv' /\ BoundInv'
    BY <2>1, RowFrame, FormFrame, JobFrame, BoundFrame DEF IInv
  <2>3. ListInv'
    BY <2>1, ListsAside DEF IInv
  <2> QED
    BY <2>2, <2>3 DEF IInv
<1>2. ASSUME NEW c \in Channels,
             Account(c) \/ RecordBilling(c) \/ Calibrate(c) \/ DeleteKey(c)
      PROVE  IInv'
  BY <1>2, AccountInv, RecordBillingInv, CalibrateInv, DeleteKeyInv
<1>3. ASSUME NEW j \in Jobs, Route(j)
      PROVE  IInv'
  BY <1>3, RouteInv
<1>4. ASSUME NEW p \in Pools, OpenPool(p) \/ DeletePool(p)
      PROVE  IInv'
  BY <1>4, OpenPoolInv, DeletePoolInv
<1>5. ASSUME \/ Refresh \/ Listed \/ EditKey \/ CreatePool
             \/ Back \/ AddKey \/ CheckBalance \/ PatchFirst \/ Added
             \/ StartImport \/ FindPool \/ ImportKey
      PROVE  IInv'
  BY <1>5, RefreshInv, ListedInv, EditKeyInv, CreatePoolInv, BackInv, AddKeyInv, CheckBalanceInv,
     PatchFirstInv, AddedInv, StartImportInv, FindPoolInv, ImportKeyInv
<1> QED
  BY <1>1, <1>2, <1>3, <1>4, <1>5 DEF Next

LEMMA Invariance == Spec => []IInv
<1>1. IInv /\ [Next]_vars => IInv'
  BY NextInv
<1> QED
  BY InitInv, <1>1, PTL DEF Spec

-----------------------------------------------------------------------------
(* The properties.                                                         *)

\* Rows, routes, lists, form and counters have their types in every reachable state
\* (channels, model-pools, the channels' tab).
THEOREM TypeCorrect == Spec => []TypeOK
<1>1. IInv => TypeOK
  <2> SUFFICES ASSUME IInv
               PROVE  TypeOK
    OBVIOUS
  <2> QED
    BY DEF IInv, RowInv, RowTypes, ListInv, ImportTypes, Tabs, FormInv, JobInv, BoundInv, TypeOK
<1> QED
  BY <1>1, Invariance, PTL

\* Wherever a DELETE stops and whatever is charged in between, no billing record is lost with its
\* channel and none names a channel that is gone; only a charge that comes after its channel went
\* has none (DELETE of channels, recordBilling).
THEOREM RecordsSurvive == Spec => []RecordsKept
<1>1. IInv => RecordsKept
  BY DEF IInv, RowInv
<1> QED
  BY <1>1, Invariance, PTL

\* A key in a pool is in the pool of its model, although an import goes by the pools that were
\* listed when it began and pools come and go meanwhile (handleAddKey, the import of ChannelsTab).
THEOREM KeysPlacedRight == Spec => []PlacedRight
<1>1. IInv => PlacedRight
  BY DEF IInv, RowInv
<1> QED
  BY <1>1, Invariance, PTL

\* A step that InitialStays allows or that does not touch an initial balance.
InitStep ==
  \A c \in Channels :
    chan[c] # None /\ chan'[c] # None /\ chan[c].init > 0 /\ chan'[c].init # chan[c].init =>
      \/ add.at = "patch" /\ add.c = c
      \/ \E j \in Jobs : jobs[j].at = "write" /\ jobs[j].c = c /\
           (jobs[j].kind = "initial" \/ jobs[j].seen[c].init = 0)

\* The writes of one row: of the others nothing changes.
LEMMA OneRow ==
  ASSUME RowInv, NEW c, NEW row, chan' = [chan EXCEPT ![c] = row]
  PROVE  \A d \in Channels : d # c => chan'[d] = chan[d]
BY DEF RowInv, RowTypes, Seen

\* The fields of a row: without its initial balance it is written as it was.
LEMMA InitKept ==
  ASSUME RowInv, NEW c \in Channels, NEW row, chan[c] # None => row.init = chan[c].init,
         chan' = [chan EXCEPT ![c] = row]
  PROVE  InitStep
<1>1. chan'[c] = row
  BY DEF RowInv, RowTypes, Seen
<1> QED
  BY <1>1, OneRow DEF InitStep

LEMMA RowGone ==
  ASSUME RowInv, NEW c \in Channels, chan' = [chan EXCEPT ![c] = None]
  PROVE  InitStep
<1>1. chan'[c] = None
  BY DEF RowInv, RowTypes, Seen
<1> QED
  BY <1>1, OneRow DEF InitStep

\* A new row has an id that no row has.
LEMMA RowNew ==
  ASSUME RowInv, NEW c \in Channels, c \notin used, NEW row, chan' = [chan EXCEPT ![c] = row]
  PROVE  InitStep
<1>1. chan[c] = None
  BY DEF RowInv, IdsSpent
<1> QED
  BY <1>1, OneRow DEF InitStep

LEMMA LetGoInit ==
  ASSUME RowInv, NEW p, chan' = LetGo(p)
  PROVE  InitStep
<1>1. SUFFICES ASSUME NEW c \in Channels, chan[c] # None
               PROVE  chan'[c].init = chan[c].init
  BY DEF InitStep
<1>2. chan[c] \in Channel
  BY <1>1, RowFacts
<1>3. CASE c \in KeysOf(p)
  <2>1. chan'[c] = [chan[c] EXCEPT !.pool = None]
    BY <1>3 DEF LetGo
  <2> QED
    BY <1>2, <2>1 DEF Channel
<1>4. CASE c \notin KeysOf(p)
  BY <1>4 DEF LetGo
<1> QED
  BY <1>3, <1>4

LEMMA RouteInit ==
  ASSUME IInv, NEW j \in Jobs, Route(j)
  PROVE  InitStep
<1> USE DEF IInv
<1>1. CASE UNCHANGED chan
  BY <1>1 DEF InitStep
<1> DEFINE c == jobs[j].c
           v == jobs[j].value
<1>2. CASE InitialWrite(j)
  <2>1. c \in Channels /\ jobs[j].kind = "initial" /\ jobs[j].at = "write"
    BY <1>2, JobFacts DEF InitialWrite
  <2>2. CASE chan[c] = None
    BY <1>1, <1>2, <2>2 DEF InitialWrite
  <2>3. CASE chan[c] # None
    <3>1. chan' = [chan EXCEPT ![c].bal = v, ![c].init = v]
      BY <1>2, <2>3 DEF InitialWrite
    <3>2. \A d \in Channels : d # c => chan'[d] = chan[d]
      BY <3>1 DEF RowInv, RowTypes, Seen
    <3> QED
      BY <2>1, <3>2 DEF InitStep
  <2> QED
    BY <2>2, <2>3
<1>3. CASE DetailWrite(j)
  <2>1. c \in Channels /\ jobs[j].at = "write"
    BY <1>3, JobFacts DEF DetailWrite
  <2>2. CASE chan[c] = None
    BY <1>1, <1>3, <2>2 DEF DetailWrite
  <2>3. CASE chan[c] # None
    <3>1. chan' = [chan EXCEPT ![c].bal = v, ![c].init = IF SetsInit(j) THEN v ELSE @]
      BY <1>3, <2>3 DEF DetailWrite
    <3>2. \A d \in Channels : d # c => chan'[d] = chan[d]
      BY <3>1 DEF RowInv, RowTypes, Seen
    <3>3. chan[c] \in Channel
      BY <2>1, <2>3, RowFacts
    <3>4. CASE SetsInit(j)
      BY <2>1, <3>2, <3>4 DEF InitStep, SetsInit
    <3>5. CASE ~SetsInit(j)
      <4>1. chan'[c].init = chan[c].init
        BY <2>1, <3>1, <3>3, <3>5 DEF Channel, RowInv, RowTypes, Seen
      <4> QED
        BY <3>2, <4>1 DEF InitStep
    <3> QED
      BY <3>4, <3>5
  <2> QED
    BY <2>2, <2>3
<1>4. CASE InitialAsk(j) \/ Keys(j) \/ DetailAsk(j) \/ DetailAnswer(j) \/ ChannelFirst(j)
  BY <1>1, <1>4 DEF Route, InitialAsk, Keys, DetailAsk, DetailAnswer, ChannelFirst
<1>5. CASE ChannelSecond(j)
  <2>1. c \in Channels
    BY <1>5, JobFacts DEF ChannelSecond
  <2> QED
    BY <1>1, <1>5, <2>1, RowGone DEF ChannelSecond
<1>6. CASE PoolFirst(j) \/ PoolSecond(j)
  <2>1. chan' = LetGo(jobs[j].pool) \/ UNCHANGED chan
    BY <1>6 DEF PoolFirst, PoolSecond, LetGo
  <2> QED
    BY <1>1, <2>1, LetGoInit
<1> QED
  BY <1>2, <1>3, <1>4, <1>5, <1>6 DEF Route

\* An initial balance that is there changes only by a route that read none, or by the form
\* for a new key (fetchInitialBalance, GET of model-pools, handleAddKey).
THEOREM InitialBalanceStays == Spec => InitialStays
<1>1. ASSUME IInv, [Next]_vars
      PROVE  [InitStep]_vars
  <2> USE <1>1 DEF IInv
  <2>1. CASE UNCHANGED vars
    BY <2>1
  <2>2. UNCHANGED chan => InitStep
    BY DEF InitStep
  <2>3. ASSUME NEW c \in Channels,
               Account(c) \/ RecordBilling(c) \/ Calibrate(c) \/ DeleteKey(c)
        PROVE  InitStep
    <3>1. CASE Calibrate(c)
      <4>1. PICK v : chan' = [chan EXCEPT ![c].bal = v]
        BY <3>1 DEF Calibrate, Calibrated
      <4> DEFINE row == [chan[c] EXCEPT !.bal = v]
      <4>2. chan[c] \in Channel
        BY <3>1, RowFacts DEF Calibrate
      <4>3. row.init = chan[c].init /\ chan' = [chan EXCEPT ![c] = row]
        BY <4>1, <4>2 DEF Channel
      <4> QED
        BY <4>3, InitKept
    <3>2. CASE Account(c) \/ RecordBilling(c) \/ DeleteKey(c)
      BY <2>2, <3>2 DEF Account, RecordBilling, DeleteKey, rowVars
    <3> QED
      BY <2>3, <3>1, <3>2
  <2>4. ASSUME NEW j \in Jobs, Route(j)
        PROVE  InitStep
    BY <2>4, RouteInit
  <2>5. ASSUME NEW p \in Pools, OpenPool(p) \/ DeletePool(p)
        PROVE  InitStep
    BY <2>2, <2>5 DEF OpenPool, DeletePool, rowVars
  <2>6. CASE EditKey
    <3>1. PICK c \in Table, q \in Priorities : chan' = Patched(c, [chan[c] EXCEPT !.prio = q])
      BY <2>6 DEF EditKey
    <3>2. c \in Channels
      BY DEF ListInv, Tabs, Table
    <3>3. CASE chan[c] = None
      BY <2>2, <3>1, <3>3 DEF Patched
    <3>4. CASE chan[c] # None
      <4> DEFINE row == [chan[c] EXCEPT !.prio = q]
      <4>1. chan[c] \in Channel
        BY <3>2, <3>4, RowFacts
      <4>2. row.init = chan[c].init /\ chan' = [chan EXCEPT ![c] = row]
        BY <3>1, <3>4, <4>1 DEF Channel, Patched
      <4> QED
        BY <3>2, <4>2, InitKept
    <3> QED
      BY <3>3, <3>4
  <2>7. CASE AddKey
    <3>1. PICK c \in Channels, prio \in Priorities : Insert(c, view.sel, prio)
      BY <2>7 DEF AddKey
    <3>2. c \notin used
      BY <3>1 DEF Insert, Fresh
    <3> QED
      BY <3>1, <3>2, RowNew DEF Insert
  <2>8. CASE PatchFirst
    <3> DEFINE row == [chan[add.c] EXCEPT !.bal = add.value, !.init = add.value]
    <3>1. add.at = "patch" /\ (UNCHANGED chan \/ chan' = [chan EXCEPT ![add.c] = row])
      BY <2>8 DEF PatchFirst, Patched
    <3> HIDE DEF row
    <3>2. \A d \in Channels : d # add.c => chan'[d] = chan[d]
      BY <3>1, OneRow
    <3> QED
      BY <3>1, <3>2 DEF InitStep
  <2>9. CASE ImportKey
    <3>1. CASE UNCHANGED chan
      BY <2>2, <3>1
    <3>2. CASE ~UNCHANGED chan
      <4>1. PICK c \in Fresh(Channels) :
              chan' = [chan EXCEPT ![c] = [pool |-> import.pool, prio |-> 3, bal |-> 0, init |-> 0,
                                           born |-> ghost.born + 1]]
        BY <2>9, <3>2 DEF ImportKey
      <4>2. c \in Channels /\ c \notin used
        BY DEF Fresh
      <4> QED
        BY <4>1, <4>2, RowNew
    <3> QED
      BY <3>1, <3>2
  <2>10. CASE Refresh \/ Listed \/ CreatePool \/ Back \/ CheckBalance \/ Added \/ StartImport \/ FindPool
    BY <2>2, <2>10 DEF Refresh, Listed, CreatePool, Back, CheckBalance, Added, StartImport, FindPool,
                       rowVars
  <2> QED
    BY <1>1, <2>1, <2>3, <2>4, <2>5, <2>6, <2>7, <2>8, <2>9, <2>10 DEF Next
<1>2. Spec => [][InitStep]_vars
  BY <1>1, Invariance, PTL DEF Spec
<1> QED
  BY <1>2 DEF InitialStays, InitStep
=============================================================================
