-------------------------------- MODULE Kube --------------------------------
(***************************************************************************)
(* The Kubernetes side of one controller of the operator: the custom      *)
(* resources of its kind as the API server stores them, the informer      *)
(* cache the manager's client reads them from, and the one Reconcile call *)
(* in progress (a controller runs at most one at a time).                  *)
(*                                                                         *)
(* A resourceVersion is only ever compared with the stored one, so none is *)
(* modelled: 'fresh' says whether the caller's copy carries the stored     *)
(* resourceVersion.  The cache is the oldest version the watch has not yet *)
(* replaced; 'lag' holds that version and the ones between it and the      *)
(* stored one.  The kinds have no status subresource: Update writes        *)
(* metadata, spec and status at once.                                      *)
(***************************************************************************)
EXTENDS Naturals, Sequences

CONSTANTS
    Resources,   \* the custom resources of this kind, by namespaced name
    Specs,       \* the values of .spec
    Currents,    \* the non-nil values of .status.currentSpec
    Nil,         \* a nil pointer or an unset field
    Absent,      \* no such object
    MaxLag       \* bound: how many versions the cache may be behind

Object == [spec: Specs, currentSpec: Currents \cup {Nil},
           finalizer: BOOLEAN, deleting: BOOLEAN]
Version == Object \cup {Absent}

ASSUME KubeAssumption ==
    /\ MaxLag \in Nat
    /\ Nil \notin Currents
    /\ Nil \notin Resources
    /\ Absent \notin Object

VARIABLES
    store,   \* the stored version of each resource
    lag,     \* the superseded versions the cache has still to go through
    req,     \* the resource being reconciled, Nil between two calls
    obj,     \* the call's copy of it
    fresh,   \* whether that copy has the stored resourceVersion
    pc       \* the remote call Reconcile is about to make

kubeVars == <<store, lag, req, obj, fresh, pc>>
callVars == <<req, obj, fresh, pc>>

KubeTypeOK ==
    /\ store \in [Resources -> Version]
    /\ lag \in [Resources -> Seq(Version)]
    /\ req \in Resources \cup {Nil}
    /\ obj \in Version
    /\ fresh \in BOOLEAN

KubeInit ==
    /\ store = [r \in Resources |-> Absent]
    /\ lag = [r \in Resources |-> <<>>]
    /\ req = Nil
    /\ obj = Absent
    /\ fresh = FALSE
    /\ pc = "idle"

-----------------------------------------------------------------------------
(* The API server and the watch.                                           *)

Cached(r) == IF lag[r] = <<>> THEN store[r] ELSE Head(lag[r])

KeepRecent(versions) ==
    IF Len(versions) > MaxLag THEN Tail(versions) ELSE versions

Commit(r, version) ==
    /\ store' = [store EXCEPT ![r] = version]
    /\ lag' = [lag EXCEPT ![r] = KeepRecent(Append(@, store[r]))]

\* A watch event replaces the cached version by the next one.
Deliver(r) ==
    /\ lag[r] # <<>>
    /\ lag' = [lag EXCEPT ![r] = Tail(@)]
    /\ UNCHANGED <<store, callVars>>

-----------------------------------------------------------------------------
(* What users do to resources, through their own clients.                  *)

\* A write by anyone else makes the call's copy of that resource stale.
UserCommit(r, version) ==
    /\ Commit(r, version)
    /\ fresh' = (fresh /\ req # r)
    /\ UNCHANGED <<req, obj, pc>>

CreateResource(r) ==
    /\ store[r] = Absent
    /\ \E s \in Specs : UserCommit(r, [spec |-> s, currentSpec |-> Nil,
                                       finalizer |-> FALSE, deleting |-> FALSE])

EditSpec(r) ==
    /\ store[r] # Absent
    /\ \E s \in Specs \ {store[r].spec} :
           UserCommit(r, [store[r] EXCEPT !.spec = s])

\* Only a finalizer keeps the object, marked with a deletion timestamp.
DeleteResource(r) ==
    /\ store[r] # Absent
    /\ ~store[r].deleting
    /\ UserCommit(r, IF store[r].finalizer
                     THEN [store[r] EXCEPT !.deleting = TRUE]
                     ELSE Absent)

UserStep(r) == CreateResource(r) \/ EditSpec(r) \/ DeleteResource(r)

-----------------------------------------------------------------------------
(* What Reconcile does through the manager's client.                       *)

\* Reconcile returns; its copy of the resource is gone.
Return ==
    /\ req' = Nil
    /\ obj' = Absent
    /\ fresh' = FALSE
    /\ pc' = "idle"

Proceed(next) ==
    /\ pc' = next
    /\ UNCHANGED <<req, obj, fresh>>

\* r.Get: the resource as the cache has it.  A resource that is not found
\* ends the call before it does anything.
Get(r) ==
    /\ pc = "idle"
    /\ Cached(r) # Absent
    /\ req' = r
    /\ obj' = Cached(r)
    /\ fresh' = (lag[r] = <<>>)
    /\ UNCHANGED <<store, lag>>

\* Update of an object with a deletion timestamp and no finalizer removes it;
\* an update that changes nothing makes no new version.
Stored(o) == IF o.deleting /\ ~o.finalizer THEN Absent ELSE o

UpdateAccepted(o, next) ==
    /\ fresh
    /\ IF o = obj THEN UNCHANGED <<store, lag>> ELSE Commit(req, Stored(o))
    /\ IF next = "idle" THEN Return
       ELSE obj' = o /\ pc' = next /\ UNCHANGED <<req, fresh>>

\* Conflict (or not found): Reconcile returns the error.
UpdateRejected ==
    /\ ~fresh
    /\ Return
    /\ UNCHANGED <<store, lag>>

Update(o, next) == UpdateAccepted(o, next) \/ UpdateRejected

\* A call fails, its reply is lost, or the process dies and is restarted:
\* Reconcile is over and what it has done so far stays done.
Fault ==
    /\ pc # "idle"
    /\ Return
    /\ UNCHANGED <<store, lag>>

-----------------------------------------------------------------------------
(* The steps every kind's Reconcile takes in the same way, all but the     *)
(* access key's.                                                           *)

\* Mutant: the remote object is made before the finalizer is there.
BranchWithoutFinalizer(o) ==
    IF o.deleting THEN IF o.currentSpec # Nil THEN "remove" ELSE "clearFinalizer"
    ELSE IF o.currentSpec = Nil THEN "create"
    ELSE IF o.spec.migrate THEN "dropMigrate"
    ELSE "check"

\* Mutant: the finalizer goes without a look at the status.
BranchForgettingStatus(o) ==
    IF o.deleting THEN "clearFinalizer"
    ELSE IF ~o.finalizer THEN "addFinalizer"
    ELSE IF o.currentSpec = Nil THEN "create"
    ELSE IF o.spec.migrate THEN "dropMigrate"
    ELSE "check"

\* The first remote call Reconcile makes for the copy it got.
Branch(o) ==
    IF o.deleting THEN IF o.currentSpec # Nil THEN "remove" ELSE "clearFinalizer"
    ELSE IF ~o.finalizer THEN "addFinalizer"
    ELSE IF o.currentSpec = Nil THEN "create"
    ELSE IF o.spec.migrate THEN "dropMigrate"
    ELSE "check"

Begin(r) == Get(r) /\ pc' = Branch(Cached(r))

AddFinalizer ==
    /\ pc = "addFinalizer"
    /\ Update([obj EXCEPT !.finalizer = TRUE], "idle")

ClearFinalizer ==
    /\ pc = "clearFinalizer"
    /\ Update([obj EXCEPT !.finalizer = FALSE], "idle")

ClearStatus ==
    /\ pc = "clearStatus"
    /\ Update([obj EXCEPT !.currentSpec = Nil], "idle")

DropMigrate ==
    /\ pc = "dropMigrate"
    /\ Update([obj EXCEPT !.spec.migrate = FALSE], "check")

\* Mutant: the migrate field is left as it was.
SetStatusMigrating ==
    /\ pc = "setStatus"
    /\ Update([obj EXCEPT !.currentSpec = obj.spec], "idle")

\* The spec, told to migrate no longer, becomes the recorded one.
SetStatus ==
    /\ pc = "setStatus"
    /\ LET s == [obj.spec EXCEPT !.migrate = FALSE]
       IN Update([obj EXCEPT !.spec = s, !.currentSpec = s], "idle")

\* These leave MinIO alone.
Bookkeeping == AddFinalizer \/ ClearFinalizer \/ ClearStatus \/ DropMigrate \/ SetStatus

-----------------------------------------------------------------------------
(* What every kind's calls rely on.                                        *)

\* A resource that records what it made holds the finalizer.
Guarded(version) == version # Absent /\ version.currentSpec # Nil => version.finalizer

KubeInv ==
    /\ pc = "idle" <=> req = Nil
    /\ pc # "idle" => obj # Absent
    /\ fresh => pc # "idle" /\ obj = store[req]
    /\ Guarded(obj)
    /\ \A r \in Resources :
          Guarded(store[r]) /\ \A i \in 1..Len(lag[r]) : Guarded(lag[r][i])

\* What a call has read or done holds of its copy until it returns.  Only a
\* deleted resource with nothing recorded loses its finalizer; a call on the
\* way to a new record ('making') has the finalizer and no record and is not
\* deleted, one on a record ('holding') has it.
Entitled(making, holding) ==
    /\ pc = "clearFinalizer" => obj.deleting /\ obj.currentSpec = Nil
    /\ pc \in making \cup {"addFinalizer"} => ~obj.deleting
    /\ pc \in making => obj.finalizer /\ obj.currentSpec = Nil
    /\ pc \in holding => obj.currentSpec # Nil

Recorded(r) == store[r] # Absent /\ store[r].currentSpec # Nil

-----------------------------------------------------------------------------
(* What the controller promises: module Lifecycle.                         *)

existing == {r \in Resources : store[r] # Absent}
held == {r \in existing : store[r].finalizer}
dying == {r \in existing : store[r].deleting}
record == [r \in Resources |-> IF Recorded(r) THEN {store[r].currentSpec.name} ELSE {}]
recordable == {c.name : c \in Currents}

Life == INSTANCE Lifecycle WITH Names <- recordable

=============================================================================
