----------------------------- MODULE KubeProofs -----------------------------
(* What the steps of module Kube preserve, for every kind of resource. *)
EXTENDS Kube, TLAPS

\* A written version is a version, and the cache's backlog stays a sequence of
\* versions (Commit).
LEMMA CommitType ==
    ASSUME KubeTypeOK, NEW r \in Resources, NEW v \in Version, Commit(r, v)
    PROVE  /\ store' \in [Resources -> Version]
           /\ lag' \in [Resources -> Seq(Version)]
<1> USE DEF KubeTypeOK
<1>1. store' \in [Resources -> Version]
  BY DEF Commit
<1>2. Append(lag[r], store[r]) \in Seq(Version)
  OBVIOUS
<1>3. KeepRecent(Append(lag[r], store[r])) \in Seq(Version)
  BY <1>2, KubeAssumption DEF KeepRecent
<1>4. QED
  BY <1>1, <1>3 DEF Commit

\* The versions the cache has still to go through.
Backlog(r) == {lag[r][i] : i \in 1..Len(lag[r])}

\* A commit adds the superseded version to the backlog, and nothing else.
LEMMA CommitBacklog ==
    ASSUME KubeTypeOK, NEW r \in Resources, NEW v, Commit(r, v)
    PROVE  /\ Backlog(r)' \subseteq Backlog(r) \cup {store[r]}
           /\ \A q \in Resources \ {r} : Backlog(q)' = Backlog(q)
<1> USE DEF KubeTypeOK
<1>1. ASSUME NEW q \in Resources \ {r} PROVE Backlog(q)' = Backlog(q)
  BY DEF Commit, Backlog
<1>2. ASSUME NEW i \in 1..Len(lag'[r]) PROVE lag'[r][i] \in Backlog(r) \cup {store[r]}
  <2> DEFINE s == Append(lag[r], store[r])
  <2>1. s \in Seq(Version) /\ Len(s) = Len(lag[r]) + 1
    OBVIOUS
  <2>2. ASSUME NEW j \in 1..Len(s) PROVE s[j] \in Backlog(r) \cup {store[r]}
    <3>1. CASE j = Len(s)
      BY <3>1
    <3>2. CASE j # Len(s)
      <4>1. j \in 1..Len(lag[r]) /\ s[j] = lag[r][j]
        BY <3>2, <2>1
      <4>2. QED BY <4>1 DEF Backlog
    <3>3. QED BY <3>1, <3>2
  <2>3. lag'[r] = KeepRecent(s)
    BY DEF Commit
  <2> HIDE DEF s
  <2>4. CASE Len(s) > MaxLag
    <3>1. lag'[r] = Tail(s) /\ s # <<>>
      BY <2>1, <2>3, <2>4, KubeAssumption DEF KeepRecent
    <3>2. i + 1 \in 1..Len(s) /\ lag'[r][i] = s[i + 1]
      BY <3>1, <2>1, <1>2
    <3>3. QED BY <3>2, <2>2
  <2>5. CASE ~(Len(s) > MaxLag)
    BY <2>5, <2>3, <2>2, <1>2 DEF KeepRecent
  <2>6. QED BY <2>4, <2>5
<1>3. Backlog(r)' \subseteq Backlog(r) \cup {store[r]}
  BY <1>2 DEF Backlog
<1>4. QED BY <1>1, <1>3

\* A watch event only takes from it.
LEMMA DeliverBacklog ==
    ASSUME KubeTypeOK, NEW r \in Resources, Deliver(r)
    PROVE  \A q \in Resources : Backlog(q)' \subseteq Backlog(q)
<1> USE DEF KubeTypeOK, Deliver
<1> SUFFICES ASSUME NEW q \in Resources, NEW i \in 1..Len(lag'[q])
             PROVE  lag'[q][i] \in Backlog(q)
  BY DEF Backlog
<1>1. CASE q # r
  BY <1>1 DEF Backlog
<1>2. CASE q = r
  <2>1. lag'[q] = Tail(lag[q]) /\ lag[q] # <<>>
    BY <1>2
  <2>2. i + 1 \in 1..Len(lag[q]) /\ lag'[q][i] = lag[q][i + 1]
    BY <2>1
  <2>3. QED BY <2>2 DEF Backlog
<1>3. QED BY <1>1, <1>2

\* The cache shows one of the backlog, or what is stored.
LEMMA CachedBacklog ==
    ASSUME KubeTypeOK, NEW r \in Resources
    PROVE  Cached(r) \in Backlog(r) \cup {store[r]}
<1>1. CASE lag[r] = <<>>
  BY <1>1 DEF Cached
<1>2. CASE lag[r] # <<>>
  <2>1. Len(lag[r]) \in Nat /\ 1 \in 1..Len(lag[r]) /\ Head(lag[r]) = lag[r][1]
    BY <1>2 DEF KubeTypeOK
  <2>2. QED BY <1>2, <2>1 DEF Cached, Backlog
<1>3. QED BY <1>1, <1>2

\* A commit of a guarded version leaves only guarded ones behind.
LEMMA CommitGuarded ==
    ASSUME KubeTypeOK, NEW r \in Resources, NEW v \in Version, Commit(r, v), Guarded(v),
           \A q \in Resources :
               Guarded(store[q]) /\ \A i \in 1..Len(lag[q]) : Guarded(lag[q][i])
    PROVE  \A q \in Resources :
               /\ Guarded(store'[q])
               /\ \A i \in 1..Len(lag'[q]) : Guarded(lag'[q][i])
<1> TAKE q \in Resources
<1>1. Guarded(store'[q])
  BY DEF Commit, KubeTypeOK
<1>2. \A x \in Backlog(q) \cup {store[q]} : Guarded(x)
  BY DEF Backlog
<1>3. \A i \in 1..Len(lag'[q]) : lag'[q][i] \in Backlog(q)'
  BY DEF Backlog
<1>4. Backlog(q)' \subseteq Backlog(q) \cup {store[q]}
  BY CommitBacklog
<1>5. QED BY <1>1, <1>2, <1>3, <1>4

\* What the cache shows is a version, and a guarded one.
LEMMA CachedVersion ==
    ASSUME KubeTypeOK, NEW r \in Resources
    PROVE  /\ Cached(r) \in Version
           /\ KubeInv => Guarded(Cached(r))
           /\ lag[r] = <<>> => Cached(r) = store[r]
<1>1. Backlog(r) \cup {store[r]} \subseteq Version
  BY DEF KubeTypeOK, Backlog
<1>2. KubeInv => \A x \in Backlog(r) \cup {store[r]} : Guarded(x)
  BY DEF KubeInv, Backlog
<1>3. QED BY <1>1, <1>2, CachedBacklog DEF Cached

\* No version at all is a guarded one.
LEMMA GuardedAbsent == Guarded(Absent)
BY DEF Guarded

-----------------------------------------------------------------------------
(* Versions as module Lifecycle sees them.                                 *)

\* A step is one of the abstract specification's, or shows nothing there.
Kept == [Life!Next]_(Life!lifeVars)

SameRecord(a, b) ==
    \/ a.currentSpec = Nil /\ b.currentSpec = Nil
    \/ a.currentSpec # Nil /\ b.currentSpec # Nil /\ a.currentSpec.name = b.currentSpec.name

SameLife(a, b) ==
    a.finalizer = b.finalizer /\ a.deleting = b.deleting /\ SameRecord(a, b)

\* What may become of a version: it is created, changed in what Lifecycle does
\* not see, held, given a record, told to forget it, marked, or removed.
Creates(a, b) == a = Absent /\ b \in Object /\ ~b.finalizer /\ ~b.deleting /\ b.currentSpec = Nil
IsHeld(a, b) == ~a.finalizer /\ b.finalizer /\ ~a.deleting /\ ~b.deleting /\ SameRecord(a, b)
Records(a, b) ==
    /\ a.finalizer /\ b.finalizer /\ ~a.deleting /\ ~b.deleting
    /\ a.currentSpec = Nil /\ b.currentSpec \in Currents
Forgets(a, b) ==
    /\ a.finalizer = b.finalizer /\ a.deleting = b.deleting
    /\ a.currentSpec # Nil /\ b.currentSpec = Nil
Marks(a, b) == a.finalizer /\ b.finalizer /\ ~a.deleting /\ b.deleting /\ SameRecord(a, b)
Vanishes(a, b) ==
    a \in Object /\ b = Absent /\ a.currentSpec = Nil /\ (a.deleting \/ ~a.finalizer)

Move(a, b) ==
    \/ Creates(a, b)
    \/ /\ a \in Object /\ b \in Object
       /\ SameLife(a, b) \/ IsHeld(a, b) \/ Records(a, b) \/ Forgets(a, b) \/ Marks(a, b)
    \/ Vanishes(a, b)

\* A step that writes nothing shows nothing.
LEMMA StillKept == ASSUME UNCHANGED store PROVE Kept
BY DEF Kept, Life!lifeVars, existing, held, dying, record, Recorded

\* A write that is a move is a step of Lifecycle, or shows nothing there.
LEMMA MoveKept ==
    ASSUME store \in [Resources -> Version], NEW r \in Resources, NEW v \in Version,
           store' = [store EXCEPT ![r] = v], Move(store[r], v)
    PROVE  Kept
<1> DEFINE a == store[r]
           to(x) == IF x.currentSpec = Nil THEN {} ELSE {x.currentSpec.name}
<1>0. Absent \notin Object /\ Nil \notin Currents
  BY KubeAssumption
<1>1. /\ existing' = IF v = Absent THEN existing \ {r} ELSE existing \cup {r}
      /\ held' = IF v # Absent /\ v.finalizer THEN held \cup {r} ELSE held \ {r}
      /\ dying' = IF v # Absent /\ v.deleting THEN dying \cup {r} ELSE dying \ {r}
  BY DEF existing, held, dying
<1>2. /\ r \in existing <=> a # Absent
      /\ r \in held <=> a # Absent /\ a.finalizer
      /\ r \in dying <=> a # Absent /\ a.deleting
      /\ record[r] = IF a = Absent THEN {} ELSE to(a)
  BY DEF existing, held, dying, record, Recorded
<1>3. record' = [record EXCEPT ![r] = IF v = Absent THEN {} ELSE to(v)]
  BY DEF record, Recorded
<1>4. record = [q \in Resources |-> record[q]]
  BY DEF record
<1>5. a \in Object /\ v \in Object /\ SameRecord(a, v) => record' = record
  BY <1>0, <1>2, <1>3, <1>4 DEF SameRecord
<1> HIDE DEF a, to
<1>6. CASE Creates(a, v)
  <2>1. to(v) = {} /\ v # Absent
    BY <1>0, <1>6 DEF Creates, to
  <2>2. UNCHANGED <<held, dying, record>>
    BY <1>0, <1>1, <1>2, <1>3, <1>4, <1>6, <2>1 DEF Creates
  <2>3. Life!Create(r)
    BY <1>1, <1>2, <1>6, <2>1, <2>2 DEF Creates, Life!Create
  <2>4. QED BY <2>3 DEF Kept, Life!Next
<1>7. CASE a \in Object /\ v \in Object
  <2>1. a # Absent /\ v # Absent /\ existing' = existing
    BY <1>0, <1>1, <1>2, <1>7
  <2>2. CASE SameLife(a, v)
    BY <1>1, <1>2, <1>5, <1>7, <2>1, <2>2 DEF SameLife, Kept, Life!lifeVars
  <2>3. CASE IsHeld(a, v)
    <3>1. Life!Hold(r)
      BY <1>1, <1>2, <1>5, <1>7, <2>1, <2>3 DEF IsHeld, Life!Hold
    <3>2. QED BY <3>1 DEF Kept, Life!Next
  <2>4. CASE Records(a, v)
    <3>1. to(a) = {} /\ to(v) = {v.currentSpec.name} /\ v.currentSpec.name \in recordable
      BY <1>0, <2>4 DEF Records, to, recordable
    <3>2. Life!Record(r)
      BY <1>1, <1>2, <1>3, <2>1, <2>4, <3>1 DEF Records, Life!Record
    <3>3. QED BY <3>2 DEF Kept, Life!Next
  <2>5. CASE Forgets(a, v)
    <3>1. to(a) # {} /\ to(v) = {}
      BY <2>5 DEF Forgets, to
    <3>2. held' = held /\ dying' = dying
      BY <1>1, <1>2, <2>1, <2>5 DEF Forgets
    <3>3. Life!Forget(r)
      BY <1>2, <1>3, <2>1, <3>1, <3>2 DEF Life!Forget
    <3>4. QED BY <3>3 DEF Kept, Life!Next
  <2>6. CASE Marks(a, v)
    <3>1. Life!Mark(r)
      BY <1>1, <1>2, <1>5, <1>7, <2>1, <2>6 DEF Marks, Life!Mark
    <3>2. QED BY <3>1 DEF Kept, Life!Next
  <2>7. QED BY <1>0, <1>7, <2>2, <2>3, <2>4, <2>5, <2>6 DEF Move, Creates, Vanishes, a
<1>8. CASE Vanishes(a, v)
  <2>1. to(a) = {} /\ a # Absent /\ v = Absent
    BY <1>0, <1>8 DEF Vanishes, to
  <2>2. record' = record
    BY <1>2, <1>3, <1>4, <2>1
  <2>3. Life!Vanish(r)
    BY <1>1, <1>2, <1>8, <2>1, <2>2 DEF Vanishes, Life!Vanish
  <2>4. QED BY <2>3 DEF Kept, Life!Next
<1>9. QED BY <1>6, <1>7, <1>8 DEF Move, a

\* What a step of Lifecycle does to a record: it stays under its name, or it is
\* forgotten; the resource stays.
LEMMA KeptRecords ==
    ASSUME Kept, NEW r \in Resources, Recorded(r)
    PROVE  /\ store'[r] # Absent
           /\ Recorded(r)' => store'[r].currentSpec.name = store[r].currentSpec.name
<1> DEFINE n == store[r].currentSpec.name
<1>1. r \in existing /\ record[r] = {n} /\ record = [q \in Resources |-> record[q]]
  BY DEF Recorded, existing, record
<1>2. /\ r \in existing' => store'[r] # Absent
      /\ Recorded(r)' => record'[r] = {store'[r].currentSpec.name}
  BY DEF Recorded, existing, record
<1> HIDE DEF n
<1>3. r \in existing' /\ record'[r] \in {{}, {n}}
  <2>1. CASE UNCHANGED Life!lifeVars
    BY <1>1, <2>1 DEF Life!lifeVars
  <2>2. ASSUME NEW q \in Resources, Life!Create(q) \/ Life!Hold(q) \/ Life!Mark(q)
        PROVE  r \in existing' /\ record'[r] \in {{}, {n}}
    BY <1>1, <2>2 DEF Life!Create, Life!Hold, Life!Mark
  <2>3. ASSUME NEW q \in Resources, Life!Record(q) \/ Life!Forget(q)
        PROVE  r \in existing' /\ record'[r] \in {{}, {n}}
    BY <1>1, <2>3 DEF Life!Record, Life!Forget
  <2>4. ASSUME NEW q \in Resources, Life!Vanish(q)
        PROVE  r \in existing' /\ record'[r] \in {{}, {n}}
    BY <1>1, <2>4 DEF Life!Vanish
  <2>5. QED BY <2>1, <2>2, <2>3, <2>4 DEF Kept, Life!Next
<1>4. QED BY <1>2, <1>3 DEF n

-----------------------------------------------------------------------------
(* The steps, one by one.                                                  *)

\* A step that only returns leaves a call-free state.
LEMMA ReturnInv ==
    ASSUME Return, UNCHANGED <<store, lag>>
    PROVE  /\ KubeTypeOK => KubeTypeOK'
           /\ KubeTypeOK /\ KubeInv => KubeInv'
<1>1. KubeTypeOK => KubeTypeOK'
  BY DEF Return, KubeTypeOK, Version
<1>2. Guarded(obj)'
  BY GuardedAbsent DEF Return, Guarded
<1>3. ASSUME KubeInv PROVE KubeInv'
  <2>1. \A r \in Resources :
          (Guarded(store[r]) /\ \A i \in 1..Len(lag[r]) : Guarded(lag[r][i]))'
    BY <1>3 DEF KubeInv, Guarded
  <2>2. QED BY <1>2, <2>1 DEF Return, KubeInv
<1>4. QED BY <1>1, <1>3

\* Going on to the next remote call changes nothing but the call.
LEMMA ProceedInv ==
    ASSUME NEW next, next # "idle", Proceed(next), UNCHANGED <<store, lag>>,
           pc # "idle"
    PROVE  /\ KubeTypeOK => KubeTypeOK'
           /\ KubeTypeOK /\ KubeInv => KubeInv'
BY DEF Proceed, KubeTypeOK, KubeInv, Guarded

\* Get copies what the cache shows.
LEMMA GetInv ==
    ASSUME NEW r \in Resources, Get(r), pc' # "idle", KubeTypeOK
    PROVE  /\ KubeTypeOK'
           /\ KubeInv => KubeInv'
BY CachedVersion, KubeAssumption DEF Get, KubeTypeOK, KubeInv, Guarded, Version

\* A watch event drops the oldest version of the backlog.
LEMMA DeliverInv ==
    ASSUME NEW r \in Resources, Deliver(r), KubeTypeOK
    PROVE  KubeTypeOK' /\ (KubeInv => KubeInv')
<1> USE DEF Deliver, callVars
<1>1. Tail(lag[r]) \in Seq(Version)
  BY DEF KubeTypeOK
<1>2. KubeTypeOK'
  BY <1>1 DEF KubeTypeOK
<1>3. ASSUME KubeInv PROVE KubeInv'
  <2>1. ASSUME NEW q \in Resources, NEW i \in 1..Len(lag'[q]) PROVE Guarded(lag'[q][i])
    <3>1. lag'[q][i] \in Backlog(q)
      BY DeliverBacklog DEF Backlog
    <3>2. QED BY <3>1, <1>3 DEF KubeInv, Backlog
  <2>2. QED BY <2>1, <1>3 DEF KubeInv, Guarded
<1>4. QED BY <1>2, <1>3

\* A user's write.  The call's copy, if it is of this resource, goes stale.
LEMMA UserCommitInv ==
    ASSUME NEW r \in Resources, NEW v \in Version, UserCommit(r, v), Guarded(v),
           KubeTypeOK, KubeInv
    PROVE  KubeTypeOK' /\ KubeInv'
<1>1. KubeTypeOK'
  BY CommitType DEF UserCommit, KubeTypeOK
<1>2. \A q \in Resources : /\ Guarded(store'[q])
                           /\ \A i \in 1..Len(lag'[q]) : Guarded(lag'[q][i])
  BY CommitGuarded DEF UserCommit, KubeInv
<1>3. fresh' => obj' = store'[req']
  BY KubeAssumption DEF UserCommit, Commit, KubeInv, KubeTypeOK
<1>4. KubeInv'
  BY <1>2, <1>3 DEF UserCommit, KubeInv, KubeTypeOK, Guarded
<1>5. QED BY <1>1, <1>4

\* Users create, edit and delete resources; each is a move of the resource's
\* life.
LEMMA UserMoves ==
    ASSUME NEW r \in Resources, UserStep(r), KubeTypeOK, KubeInv
    PROVE  \E v \in Version : UserCommit(r, v) /\ Guarded(v) /\ Move(store[r], v)
<1>0. store[r] \in Version /\ Guarded(store[r])
  BY DEF KubeTypeOK, KubeInv
<1>1. CASE CreateResource(r)
  <2>1. PICK s \in Specs :
          UserCommit(r, [spec |-> s, currentSpec |-> Nil,
                         finalizer |-> FALSE, deleting |-> FALSE])
    BY <1>1 DEF CreateResource
  <2> DEFINE v == [spec |-> s, currentSpec |-> Nil, finalizer |-> FALSE, deleting |-> FALSE]
  <2>2. v \in Object /\ v.currentSpec = Nil /\ ~v.finalizer /\ ~v.deleting
    BY DEF Object
  <2>3. UserCommit(r, v)
    BY <2>1
  <2> HIDE DEF v
  <2>4. v \in Version /\ Guarded(v) /\ Move(store[r], v)
    BY <1>1, <2>2, KubeAssumption DEF Version, Guarded, Move, Creates, CreateResource
  <2>5. QED BY <2>3, <2>4
<1>2. CASE EditSpec(r)
  <2>1. PICK s \in Specs : UserCommit(r, [store[r] EXCEPT !.spec = s])
    BY <1>2 DEF EditSpec
  <2> DEFINE v == [store[r] EXCEPT !.spec = s]
  <2>2. store[r] \in Object /\ store[r] # Absent
    BY <1>0, <1>2 DEF EditSpec, Version
  <2>3. v \in Object /\ SameLife(store[r], v)
    BY <2>2 DEF Object, SameLife, SameRecord
  <2>4. UserCommit(r, v)
    BY <2>1
  <2> HIDE DEF v
  <2>5. v \in Version /\ Guarded(v) /\ Move(store[r], v)
    BY <1>0, <2>2, <2>3 DEF Version, Guarded, Move, SameLife, SameRecord
  <2>6. QED BY <2>4, <2>5
<1>3. CASE DeleteResource(r)
  <2> DEFINE v == IF store[r].finalizer THEN [store[r] EXCEPT !.deleting = TRUE] ELSE Absent
  <2>1. UserCommit(r, v) /\ store[r] \in Object /\ ~store[r].deleting
    BY <1>0, <1>3 DEF DeleteResource, Version
  <2>2. v \in Version /\ Guarded(v) /\ Move(store[r], v)
    BY <1>0, <2>1, KubeAssumption DEF Version, Object, Guarded, Move, Marks, Vanishes, SameRecord
  <2>3. QED BY <2>1, <2>2
<1>4. QED BY <1>1, <1>2, <1>3 DEF UserStep

\* So users keep what the calls rely on.
LEMMA UserStepInv ==
    ASSUME NEW r \in Resources, UserStep(r), KubeTypeOK, KubeInv
    PROVE  KubeTypeOK' /\ KubeInv' /\ Kept
<1>1. PICK v \in Version : UserCommit(r, v) /\ Guarded(v) /\ Move(store[r], v)
  BY UserMoves
<1>2. KubeTypeOK' /\ KubeInv'
  BY <1>1, UserCommitInv
<1>3. Kept
  BY <1>1, MoveKept DEF UserCommit, Commit, KubeTypeOK
<1>4. QED BY <1>2, <1>3

\* An update by Reconcile of an object that keeps its guard.  It is accepted
\* only when the call's copy is the stored version, so what it says of the copy
\* it says of the resource.
LEMMA UpdateInv ==
    ASSUME NEW o \in Object, NEW next, Update(o, next), Guarded(o),
           o = obj \/ ~o.deleting \/ o.finalizer \/ next = "idle",
           pc # "idle", KubeTypeOK, KubeInv
    PROVE  /\ KubeTypeOK' /\ KubeInv'
           /\ UNCHANGED store \/ (obj = store[req] /\ store' = [store EXCEPT ![req] = Stored(o)])
           /\ pc' = "idle" \/ (pc' = next /\ obj' = o)
<1>0. req \in Resources /\ o \in Version /\ o # Absent
  BY KubeAssumption DEF KubeTypeOK, KubeInv, Version
<1>1. CASE UpdateRejected
  BY <1>1, ReturnInv DEF UpdateRejected, Return
<1>2. CASE UpdateAccepted(o, next)
  <2>1. fresh /\ obj = store[req]
    BY <1>2 DEF UpdateAccepted, KubeInv
  <2>2. Stored(o) \in Version /\ Guarded(Stored(o))
    BY <1>0 DEF Stored, Version, Guarded
  <2>3. /\ store' \in [Resources -> Version]
        /\ lag' \in [Resources -> Seq(Version)]
        /\ \A q \in Resources : /\ Guarded(store'[q])
                                /\ \A i \in 1..Len(lag'[q]) : Guarded(lag'[q][i])
    <3>1. CASE o = obj
      BY <3>1, <1>2 DEF UpdateAccepted, KubeTypeOK, KubeInv
    <3>2. CASE o # obj
      <4>1. Commit(req, Stored(o))
        BY <3>2, <1>2 DEF UpdateAccepted
      <4>2. QED BY <4>1, <2>2, <1>0, CommitType, CommitGuarded DEF KubeInv
    <3>3. QED BY <3>1, <3>2
  <2>4. UNCHANGED store \/ store' = [store EXCEPT ![req] = Stored(o)]
    BY <1>2 DEF UpdateAccepted, Commit
  <2>5. store'[req] = IF o = obj THEN obj ELSE Stored(o)
    BY <1>2, <1>0, <2>1 DEF UpdateAccepted, Commit, KubeTypeOK
  <2>6. CASE next = "idle"
    <3>1. Return
      BY <2>6, <1>2 DEF UpdateAccepted
    <3>2. KubeTypeOK'
      BY <2>3, <3>1 DEF Return, KubeTypeOK, Version
    <3>3. Guarded(obj)'
      BY <3>1, GuardedAbsent DEF Return, Guarded
    <3>4. KubeInv'
      BY <2>3, <3>1, <3>3 DEF Return, KubeInv, Guarded
    <3>5. QED BY <2>1, <2>4, <3>1, <3>2, <3>4 DEF Return
  <2>7. CASE next # "idle"
    <3>1. obj' = o /\ pc' = next /\ req' = req /\ fresh' = fresh
      BY <2>7, <1>2 DEF UpdateAccepted
    <3>2. store'[req] = o
      BY <2>5, <2>7, <1>0 DEF Stored
    <3>3. KubeTypeOK' /\ KubeInv'
      BY <2>3, <2>7, <3>1, <3>2, <1>0 DEF KubeTypeOK, KubeInv, Guarded
    <3>4. QED BY <2>1, <2>4, <3>1, <3>3
  <2>8. QED BY <2>6, <2>7
<1>3. QED BY <1>1, <1>2 DEF Update

\* An update that is a move of the copy is one of the resource.
LEMMA UpdateKept ==
    ASSUME NEW o \in Object, NEW next, Update(o, next), Move(obj, Stored(o)) \/ o = obj,
           pc # "idle", KubeTypeOK, KubeInv
    PROVE  Kept
<1>0. req \in Resources /\ Stored(o) \in Version
  BY DEF KubeTypeOK, KubeInv, Stored, Version
<1>1. CASE UNCHANGED store
  BY <1>1, StillKept
<1>2. CASE fresh /\ o # obj /\ Commit(req, Stored(o))
  BY <1>0, <1>2, MoveKept DEF Commit, KubeTypeOK, KubeInv
<1>3. QED BY <1>1, <1>2 DEF Update, UpdateAccepted, UpdateRejected

-----------------------------------------------------------------------------
(* The same for what a call is entitled to, whatever the calls of the kind *)
(* are named.                                                              *)

Partition(making, holding) ==
    /\ {"create", "setStatus"} \subseteq making
    /\ {"remove", "clearStatus", "dropMigrate", "check"} \subseteq holding
    /\ {"idle", "addFinalizer", "clearFinalizer"} \cap (making \cup holding) = {}
    /\ making \cap holding = {}

CallOK(making, holding) == KubeTypeOK /\ KubeInv /\ Entitled(making, holding)

\* A copy that is being worked on is an object, and one on a record has the
\* finalizer.
LEMMA CallCopy ==
    ASSUME NEW making, NEW holding, Partition(making, holding), CallOK(making, holding)
    PROVE  /\ pc # "idle" => req \in Resources /\ obj \in Object /\ obj.spec \in Specs
           /\ pc \in holding => obj.currentSpec \in Currents /\ obj.finalizer
           /\ pc \in making => obj.currentSpec = Nil /\ obj.finalizer /\ ~obj.deleting
           /\ pc \in making \cup holding => pc # "idle"
<1>1. pc # "idle" => req \in Resources /\ obj \in Object /\ obj # Absent
  BY DEF CallOK, KubeTypeOK, KubeInv, Version
<1>2. pc \in making \cup holding => pc # "idle"
  BY DEF Partition
<1>3. pc \in holding => obj.finalizer
  BY <1>1, <1>2 DEF CallOK, Entitled, KubeInv, Guarded
<1>4. pc \in holding => obj.currentSpec \in Currents
  BY <1>1, <1>2 DEF CallOK, Entitled, Object
<1>5. QED BY <1>1, <1>2, <1>3, <1>4 DEF CallOK, Entitled, Object

\* A call that ends changes neither the resource nor what may be assumed of it.
LEMMA ReturnStep ==
    ASSUME NEW making, NEW holding, Partition(making, holding), CallOK(making, holding),
           Return, UNCHANGED <<store, lag>>
    PROVE  CallOK(making, holding)' /\ Kept
<1>1. KubeTypeOK' /\ KubeInv'
  BY ReturnInv DEF CallOK
<1>2. CallOK(making, holding)'
  BY <1>1 DEF Return, CallOK, Entitled, Partition
<1>3. QED BY <1>2, StillKept

\* A call that goes on stays on its way: to a record, or on one.
LEMMA ProceedStep ==
    ASSUME NEW making, NEW holding, Partition(making, holding), CallOK(making, holding),
           NEW next, Proceed(next), UNCHANGED <<store, lag>>,
           \/ pc \in making /\ next \in making
           \/ pc \in holding /\ next \in holding
    PROVE  CallOK(making, holding)' /\ Kept
<1>1. pc # "idle" /\ next # "idle" /\ next # "clearFinalizer" /\ next # "addFinalizer"
  BY DEF Partition
<1>2. KubeTypeOK' /\ KubeInv'
  BY <1>1, ProceedInv DEF CallOK
<1>3. CallOK(making, holding)'
  BY <1>1, <1>2 DEF Proceed, CallOK, Entitled, Partition
<1>4. QED BY <1>3, StillKept

\* An update that is a move of the copy.
LEMMA UpdateStep ==
    ASSUME NEW making, NEW holding, Partition(making, holding), CallOK(making, holding),
           NEW o \in Object, NEW next, Update(o, next), pc # "idle", Guarded(o),
           o.deleting /\ ~o.finalizer => next = "idle",
           next = "idle" \/ (next \in holding /\ o.currentSpec # Nil),
           o = obj \/ Move(obj, Stored(o))
    PROVE  /\ CallOK(making, holding)' /\ Kept
           /\ pc' \in {"idle", next}
<1>1. KubeTypeOK' /\ KubeInv' /\ Kept
  BY UpdateInv, UpdateKept DEF CallOK
<1>2. pc' = "idle" \/ (pc' = next /\ pc' \in holding /\ obj' = o /\ o.currentSpec # Nil)
  BY DEF Update, UpdateAccepted, UpdateRejected, Return
<1>3. CallOK(making, holding)'
  BY <1>1, <1>2 DEF CallOK, Entitled, Partition
<1>4. QED BY <1>1, <1>2, <1>3

\* An update on a record that changes neither its name nor the finalizer.
LEMMA RecordStep ==
    ASSUME NEW making, NEW holding, Partition(making, holding), CallOK(making, holding),
           pc \in holding, NEW o \in Object, NEW next, Update(o, next),
           o.finalizer = obj.finalizer, o.deleting = obj.deleting, o.currentSpec # Nil,
           o.currentSpec.name = obj.currentSpec.name,
           next = "idle" \/ next \in holding
    PROVE  CallOK(making, holding)' /\ Kept /\ pc' \in {"idle", next}
<1>1. pc # "idle" /\ o.finalizer /\ obj \in Object /\ obj.currentSpec # Nil
  BY CallCopy, KubeAssumption
<1>2. Guarded(o) /\ Move(obj, Stored(o))
  BY <1>1 DEF Guarded, Move, SameLife, SameRecord, Stored
<1>3. QED BY <1>1, <1>2, UpdateStep

\* The first update of a record, on a resource with the finalizer.
LEMMA NewRecordStep ==
    ASSUME NEW making, NEW holding, Partition(making, holding), CallOK(making, holding),
           pc \in making, NEW o \in Object, Update(o, "idle"),
           o.finalizer = obj.finalizer, o.deleting = obj.deleting, o.currentSpec \in Currents
    PROVE  CallOK(making, holding)' /\ Kept /\ pc' = "idle"
<1>1. /\ pc # "idle" /\ o.finalizer /\ ~o.deleting
      /\ obj \in Object /\ obj.finalizer /\ ~obj.deleting /\ obj.currentSpec = Nil
  BY CallCopy
<1>2. Guarded(o) /\ Move(obj, Stored(o))
  BY <1>1 DEF Guarded, Move, Records, Stored
<1>3. QED BY <1>1, <1>2, UpdateStep

\* Get and the branches of Reconcile: the first call is one the copy entitles
\* Reconcile to, however old the copy is.
LEMMA BeginStep ==
    ASSUME NEW making, NEW holding, Partition(making, holding), CallOK(making, holding),
           NEW r \in Resources, Begin(r)
    PROVE  /\ CallOK(making, holding)' /\ Kept
           /\ pc' \in {"addFinalizer", "clearFinalizer"} \cup making \cup holding
<1> DEFINE o == Cached(r)
<1>1. o \in Object /\ Guarded(o) /\ o # Absent
  BY CachedVersion DEF Begin, Get, CallOK, Version
<1>2. pc' = Branch(o) /\ obj' = o
  BY DEF Begin, Get
<1> HIDE DEF o
<1>3. /\ Branch(o) \in {"addFinalizer", "clearFinalizer", "create",
                       "remove", "dropMigrate", "check"}
      /\ Branch(o) = "clearFinalizer" => o.deleting /\ o.currentSpec = Nil
      /\ Branch(o) \in {"create", "addFinalizer"} => ~o.deleting
      /\ Branch(o) = "create" => o.finalizer /\ o.currentSpec = Nil
      /\ Branch(o) \in {"remove", "dropMigrate", "check"} => o.currentSpec # Nil
  BY <1>1 DEF Branch, Object
<1>4. KubeTypeOK' /\ KubeInv'
  BY <1>2, <1>3, GetInv DEF Begin, CallOK
<1>5. CallOK(making, holding)'
  BY <1>2, <1>3, <1>4 DEF CallOK, Entitled, Partition
<1>6. Kept
  BY StillKept DEF Begin, Get
<1>7. QED BY <1>2, <1>3, <1>5, <1>6 DEF Partition

-----------------------------------------------------------------------------
(* Bookkeeping, one update at a time.                                      *)

\* The finalizer is added to a resource that is not deleted.
LEMMA AddFinalizerStep ==
    ASSUME NEW making, NEW holding, Partition(making, holding), CallOK(making, holding),
           AddFinalizer
    PROVE  CallOK(making, holding)' /\ Kept /\ pc' = "idle"
<1> DEFINE o == [obj EXCEPT !.finalizer = TRUE]
<1>1. pc # "idle" /\ obj \in Object /\ ~obj.deleting
  BY CallCopy DEF AddFinalizer, CallOK, Entitled
<1>2. /\ o \in Object /\ o.finalizer /\ ~o.deleting /\ o.currentSpec = obj.currentSpec
      /\ obj.finalizer => o = obj
  BY <1>1 DEF Object
<1>3. Update(o, "idle")
  BY DEF AddFinalizer
<1> HIDE DEF o
<1>4. Guarded(o) /\ (o = obj \/ Move(obj, Stored(o)))
  BY <1>1, <1>2 DEF Guarded, Move, IsHeld, SameRecord, Stored
<1>5. QED BY <1>1, <1>2, <1>3, <1>4, UpdateStep

\* It goes from a deleted resource that records nothing, which goes with it.
LEMMA ClearFinalizerStep ==
    ASSUME NEW making, NEW holding, Partition(making, holding), CallOK(making, holding),
           ClearFinalizer
    PROVE  CallOK(making, holding)' /\ Kept /\ pc' = "idle"
<1> DEFINE o == [obj EXCEPT !.finalizer = FALSE]
<1>1. pc # "idle" /\ obj \in Object /\ obj.deleting /\ obj.currentSpec = Nil
  BY CallCopy DEF ClearFinalizer, CallOK, Entitled
<1>2. o \in Object /\ ~o.finalizer /\ o.deleting /\ o.currentSpec = Nil
  BY <1>1 DEF Object
<1>3. Update(o, "idle")
  BY DEF ClearFinalizer
<1> HIDE DEF o
<1>4. Guarded(o) /\ Move(obj, Stored(o))
  BY <1>1, <1>2 DEF Guarded, Move, Vanishes, Stored
<1>5. QED BY <1>1, <1>2, <1>3, <1>4, UpdateStep

\* The status is cleared while the finalizer stays.
LEMMA ClearStatusStep ==
    ASSUME NEW making, NEW holding, Partition(making, holding), CallOK(making, holding),
           ClearStatus
    PROVE  CallOK(making, holding)' /\ Kept /\ pc' = "idle"
<1> DEFINE o == [obj EXCEPT !.currentSpec = Nil]
<1>1. pc \in holding
  BY DEF ClearStatus, Partition
<1>2. pc # "idle" /\ obj \in Object /\ obj.currentSpec # Nil /\ obj.finalizer
  BY <1>1, CallCopy, KubeAssumption
<1>3. /\ o \in Object /\ o.currentSpec = Nil
      /\ o.finalizer = obj.finalizer /\ o.deleting = obj.deleting
  BY <1>2 DEF Object
<1>4. Update(o, "idle")
  BY DEF ClearStatus
<1> HIDE DEF o
<1>5. Guarded(o) /\ Move(obj, Stored(o))
  BY <1>2, <1>3 DEF Guarded, Move, Forgets, Stored
<1>6. QED BY <1>2, <1>3, <1>4, <1>5, UpdateStep

\* The migrate field of a recorded resource is dropped.
LEMMA DropMigrateStep ==
    ASSUME NEW making, NEW holding, Partition(making, holding), CallOK(making, holding),
           DropMigrate, \A s \in Specs : [s EXCEPT !.migrate = FALSE] \in Specs
    PROVE  CallOK(making, holding)' /\ Kept /\ pc' \in {"idle", "check"}
<1> DEFINE o == [obj EXCEPT !.spec = [obj.spec EXCEPT !.migrate = FALSE]]
<1>1. pc \in holding /\ "check" \in holding
  BY DEF DropMigrate, Partition
<1>2. obj \in Object /\ obj.spec \in Specs /\ obj.currentSpec # Nil
  BY <1>1, CallCopy, KubeAssumption
<1>3. /\ o \in Object
      /\ o.finalizer = obj.finalizer /\ o.deleting = obj.deleting
      /\ o.currentSpec = obj.currentSpec
  BY <1>2 DEF Object
<1>4. Update(o, "check")
  BY DEF DropMigrate
<1> HIDE DEF o
<1>5. QED BY <1>1, <1>2, <1>3, <1>4, RecordStep

\* The status is set on a resource that has the finalizer.
LEMMA SetStatusStep ==
    ASSUME NEW making, NEW holding, Partition(making, holding), CallOK(making, holding),
           SetStatus, \A s \in Specs : [s EXCEPT !.migrate = FALSE] \in Specs \cap Currents
    PROVE  CallOK(making, holding)' /\ Kept /\ pc' = "idle"
<1> DEFINE s == [obj.spec EXCEPT !.migrate = FALSE]
           o == [obj EXCEPT !.spec = s, !.currentSpec = s]
<1>1. pc \in making
  BY DEF SetStatus, Partition
<1>2. obj \in Object /\ obj.spec \in Specs
  BY <1>1, CallCopy
<1>3. /\ o \in Object /\ o.currentSpec \in Currents
      /\ o.finalizer = obj.finalizer /\ o.deleting = obj.deleting
  BY <1>2 DEF Object
<1>4. Update(o, "idle")
  BY DEF SetStatus
<1> HIDE DEF o
<1>5. QED BY <1>1, <1>3, <1>4, NewRecordStep

\* All of it together.
LEMMA BookkeepingStep ==
    ASSUME NEW making, NEW holding, Partition(making, holding), CallOK(making, holding),
           Bookkeeping,
           \A s \in Specs : [s EXCEPT !.migrate = FALSE] \in Specs \cap Currents
    PROVE  CallOK(making, holding)' /\ Kept /\ pc' \in {"idle", "check"}
<1>1. CASE AddFinalizer
  BY <1>1, AddFinalizerStep
<1>2. CASE ClearFinalizer
  BY <1>2, ClearFinalizerStep
<1>3. CASE ClearStatus
  BY <1>3, ClearStatusStep
<1>4. CASE DropMigrate
  BY <1>4, DropMigrateStep
<1>5. CASE SetStatus
  BY <1>5, SetStatusStep
<1>6. QED BY <1>1, <1>2, <1>3, <1>4, <1>5 DEF Bookkeeping

-----------------------------------------------------------------------------
(* What happens while a call is in progress.                               *)

\* A watch event touches no call.
LEMMA DeliverStep ==
    ASSUME NEW making, NEW holding, CallOK(making, holding),
           NEW r \in Resources, Deliver(r)
    PROVE  CallOK(making, holding)' /\ Kept
<1>1. KubeTypeOK' /\ KubeInv'
  BY DeliverInv DEF CallOK
<1>2. CallOK(making, holding)'
  BY <1>1 DEF Deliver, callVars, CallOK, Entitled
<1>3. QED BY <1>2, StillKept DEF Deliver

\* Nor does what users do to the resources; they cannot write the status.
LEMMA UserStepStep ==
    ASSUME NEW making, NEW holding, CallOK(making, holding),
           NEW r \in Resources, UserStep(r)
    PROVE  CallOK(making, holding)' /\ Kept
<1>1. KubeTypeOK' /\ KubeInv' /\ Kept
  BY UserStepInv DEF CallOK
<1>2. UNCHANGED <<pc, obj>>
  BY DEF UserStep, CreateResource, EditSpec, DeleteResource, UserCommit
<1>3. QED BY <1>1, <1>2 DEF CallOK, Entitled

\* A step of anything else.
LEMMA ElsewhereStep ==
    ASSUME NEW making, NEW holding, CallOK(making, holding), UNCHANGED kubeVars
    PROVE  CallOK(making, holding)' /\ Kept
<1>1. KubeTypeOK' /\ KubeInv'
  BY DEF kubeVars, CallOK, KubeTypeOK, KubeInv, Guarded
<1>2. CallOK(making, holding)'
  BY <1>1 DEF kubeVars, CallOK, Entitled
<1>3. QED BY <1>2, StillKept DEF kubeVars

\* The empty cluster is where Lifecycle begins.
LEMMA InitialLife == KubeInit => Life!Init
BY DEF KubeInit, Life!Init, existing, held, dying, record, Recorded

\* Initially nothing is stored, cached or in progress.
LEMMA InitialCall ==
    ASSUME NEW making, NEW holding, Partition(making, holding), KubeInit
    PROVE  CallOK(making, holding)
<1>1. KubeTypeOK
  <2>1. <<>> \in Seq(Version)
    OBVIOUS
  <2>2. QED BY <2>1 DEF KubeInit, KubeTypeOK, Version
<1>2. KubeInv
  BY GuardedAbsent DEF KubeInit, KubeInv
<1>3. QED BY <1>1, <1>2 DEF KubeInit, CallOK, Entitled, Partition

-----------------------------------------------------------------------------
(* All of the above in one lemma, for controllers that update a resource   *)
(* only by bookkeeping.                                                    *)

CallNamesOf(making, holding) == {"idle", "addFinalizer", "clearFinalizer"} \cup making \cup holding

\* Reconcile returns, or goes on making or tending what it was at.
Passes(making, holding) ==
    /\ UNCHANGED <<store, lag>>
    /\ \/ Return
       \/ \E next \in making : pc \in making /\ Proceed(next)
       \/ \E next \in holding : pc \in holding /\ Proceed(next)

Plain(making, holding) ==
    \/ Passes(making, holding)
    \/ Bookkeeping
    \/ \E r \in Resources : Begin(r) \/ Deliver(r) \/ UserStep(r)
    \/ UNCHANGED kubeVars

\* Such a step keeps what the call is entitled to, and is a step of Lifecycle,
\* or shows nothing there.
LEMMA PlainStep ==
    ASSUME NEW making, NEW holding, Partition(making, holding), CallOK(making, holding),
           pc \in CallNamesOf(making, holding), Plain(making, holding),
           \A s \in Specs : [s EXCEPT !.migrate = FALSE] \in Specs \cap Currents
    PROVE  /\ CallOK(making, holding)' /\ Kept
           /\ pc' \in CallNamesOf(making, holding)
<1> DEFINE Goal == CallOK(making, holding)' /\ Kept /\ pc' \in CallNamesOf(making, holding)
<1>1. CASE Return /\ UNCHANGED <<store, lag>>
  BY <1>1, ReturnStep DEF Return, CallNamesOf
<1>2. ASSUME NEW next, Proceed(next), UNCHANGED <<store, lag>>,
             \/ pc \in making /\ next \in making
             \/ pc \in holding /\ next \in holding
      PROVE  Goal
  BY <1>2, ProceedStep DEF Proceed, CallNamesOf
<1>3. CASE Bookkeeping
  BY <1>3, BookkeepingStep DEF Partition, CallNamesOf
<1>4. ASSUME NEW r \in Resources, Begin(r) PROVE Goal
  BY <1>4, BeginStep DEF CallNamesOf
<1>5. ASSUME NEW r \in Resources, Deliver(r) PROVE Goal
  BY <1>5, DeliverStep DEF Deliver, callVars
<1>6. ASSUME NEW r \in Resources, UserStep(r) PROVE Goal
  <2>1. pc' = pc
    BY <1>6 DEF UserStep, CreateResource, EditSpec, DeleteResource, UserCommit
  <2>2. QED BY <1>6, <2>1, UserStepStep
<1>7. CASE UNCHANGED kubeVars
  BY <1>7, ElsewhereStep DEF kubeVars
<1>8. QED BY <1>1, <1>2, <1>3, <1>4, <1>5, <1>6, <1>7 DEF Plain, Passes

-----------------------------------------------------------------------------
(* Where records come from.                                                *)

\* A step makes a record only at "setStatus", under the name of the spec.
NewRecords ==
    \A r \in Resources :
        Recorded(r)' /\ ~Recorded(r)
        => pc = "setStatus" /\ store'[r].currentSpec.name = obj.spec.name

\* Steps that leave the store alone make no record.
LEMMA NoNewRecords == ASSUME UNCHANGED store PROVE NewRecords
BY DEF NewRecords, Recorded

\* An update makes a record only if the copy had none and the new object has.
LEMMA UpdateRecords ==
    ASSUME KubeTypeOK, KubeInv, pc # "idle", NEW o \in Object, NEW next, Update(o, next),
           \/ o.currentSpec = Nil
           \/ obj.currentSpec # Nil
           \/ pc = "setStatus" /\ o.currentSpec.name = obj.spec.name
    PROVE  NewRecords
<1>1. CASE UNCHANGED store
  BY <1>1, NoNewRecords
<1>2. CASE fresh /\ Commit(req, Stored(o))
  <2>1. req \in Resources /\ obj = store[req] /\ obj # Absent
    BY <1>2 DEF KubeInv, KubeTypeOK
  <2>2. store' = [store EXCEPT ![req] = Stored(o)]
    BY <1>2 DEF Commit
  <2>3. Stored(o) \in {Absent, o}
    BY DEF Stored
  <2>4. QED BY <2>1, <2>2, <2>3 DEF NewRecords, Recorded, KubeTypeOK
<1>3. QED BY <1>1, <1>2 DEF Update, UpdateAccepted, UpdateRejected

\* What users write has the old status or none.
LEMMA UserRecords == ASSUME KubeTypeOK, NEW r \in Resources, UserStep(r) PROVE NewRecords
<1>1. PICK v \in Version : /\ store' = [store EXCEPT ![r] = v]
                           /\ v = Absent \/ v.currentSpec = Nil
                              \/ (store[r] # Absent /\ v.currentSpec = store[r].currentSpec)
  <2>0. store[r] \in Version
    BY DEF KubeTypeOK
  <2>1. CASE CreateResource(r)
    BY <2>1 DEF CreateResource, UserCommit, Commit, Version, Object
  <2>2. CASE EditSpec(r)
    BY <2>0, <2>2 DEF EditSpec, UserCommit, Commit, Version, Object
  <2>3. CASE DeleteResource(r)
    <3>1. CASE store[r].finalizer
      <4> DEFINE v == [store[r] EXCEPT !.deleting = TRUE]
      <4>1. store[r] \in Object
        BY <2>0, <2>3 DEF DeleteResource, Version
      <4>2. v \in Version /\ v.currentSpec = store[r].currentSpec
        BY <4>1 DEF Version, Object
      <4>3. store' = [store EXCEPT ![r] = v] /\ store[r] # Absent
        BY <2>3, <3>1 DEF DeleteResource, UserCommit, Commit
      <4> HIDE DEF v
      <4>4. QED BY <4>2, <4>3
    <3>2. CASE ~store[r].finalizer
      BY <2>3, <3>2 DEF DeleteResource, UserCommit, Commit, Version
    <3>3. QED BY <3>1, <3>2
  <2>4. QED BY <2>1, <2>2, <2>3 DEF UserStep
<1>2. QED BY <1>1 DEF NewRecords, Recorded, KubeTypeOK

\* The bookkeeping of Reconcile makes a record in one place.
LEMMA BookkeepingRecords ==
    ASSUME NEW making, NEW holding, Partition(making, holding), CallOK(making, holding),
           Bookkeeping,
           \A s \in Specs : LET m == [s EXCEPT !.migrate = FALSE]
                            IN m \in Specs \cap Currents /\ m.name = s.name
    PROVE  NewRecords
<1>0. pc # "idle"
  BY DEF Bookkeeping, AddFinalizer, ClearFinalizer, ClearStatus, DropMigrate, SetStatus
<1>1. obj \in Object /\ obj.spec \in Specs
  BY <1>0, CallCopy
<1> USE DEF CallOK
<1>2. CASE AddFinalizer
  <2>1. [obj EXCEPT !.finalizer = TRUE] \in Object
    BY <1>1 DEF Object
  <2>2. QED BY <1>0, <1>1, <1>2, <2>1, UpdateRecords DEF AddFinalizer, Object
<1>3. CASE ClearFinalizer
  <2>1. [obj EXCEPT !.finalizer = FALSE] \in Object
    BY <1>1 DEF Object
  <2>2. QED BY <1>0, <1>1, <1>3, <2>1, UpdateRecords DEF ClearFinalizer, Object
<1>4. CASE ClearStatus
  <2>1. /\ [obj EXCEPT !.currentSpec = Nil] \in Object
        /\ [obj EXCEPT !.currentSpec = Nil].currentSpec = Nil
    BY <1>1 DEF Object
  <2>2. QED BY <1>0, <1>4, <2>1, UpdateRecords DEF ClearStatus
<1>5. CASE DropMigrate
  <2>1. [obj EXCEPT !.spec.migrate = FALSE] \in Object
    BY <1>1 DEF Object
  <2>2. obj.currentSpec # Nil
    BY <1>5 DEF DropMigrate, Partition, Entitled
  <2>3. QED BY <1>0, <1>5, <2>1, <2>2, UpdateRecords DEF DropMigrate
<1>6. CASE SetStatus
  <2> DEFINE s == [obj.spec EXCEPT !.migrate = FALSE]
             o == [obj EXCEPT !.spec = s, !.currentSpec = s]
  <2>1. s \in Specs \cap Currents /\ s.name = obj.spec.name
    BY <1>1
  <2>2. o \in Object /\ o.currentSpec.name = obj.spec.name
    BY <1>1, <2>1 DEF Object
  <2>3. pc = "setStatus" /\ Update(o, "idle")
    BY <1>6 DEF SetStatus
  <2> HIDE DEF o
  <2>4. QED BY <1>0, <2>2, <2>3, UpdateRecords
<1>7. QED BY <1>2, <1>3, <1>4, <1>5, <1>6 DEF Bookkeeping

\* So does every plain step.
LEMMA PlainRecords ==
    ASSUME NEW making, NEW holding, Partition(making, holding), CallOK(making, holding),
           Plain(making, holding),
           \A s \in Specs : LET m == [s EXCEPT !.migrate = FALSE]
                            IN m \in Specs \cap Currents /\ m.name = s.name
    PROVE  NewRecords
<1>1. CASE UNCHANGED store
  BY <1>1, NoNewRecords
<1>2. CASE Bookkeeping
  BY <1>2, BookkeepingRecords
<1>3. ASSUME NEW r \in Resources, UserStep(r) PROVE NewRecords
  BY <1>3, UserRecords DEF CallOK
<1>4. QED BY <1>1, <1>2, <1>3 DEF Plain, Passes, Begin, Get, Deliver, kubeVars
=============================================================================
