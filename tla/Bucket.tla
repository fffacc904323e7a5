------------------------------- MODULE Bucket -------------------------------
(***************************************************************************)
(* minioBucketReconciler: one action per remote call of Reconcile, in the  *)
(* order the code makes them, over the Kubernetes side of module Kube and  *)
(* the buckets of the MinIO tenants.                                       *)
(*                                                                         *)
(* A bucket's "name" stands for the pair of .tenantRef and .name: the code *)
(* always uses the two together, both from the spec when it creates and    *)
(* both from the status afterwards.  Getting the tenant's client is part   *)
(* of the call that follows it; its failure is a Fault.                    *)
(***************************************************************************)
EXTENDS Kube

CONSTANTS
    Names,      \* where a bucket can be: tenant and bucket name
    Rule,       \* a non-empty lifecycle configuration
    Drifting    \* bound: the buckets others configure

VARIABLES
    buckets,   \* what the tenants hold under each name
    foreign    \* history: the buckets somebody else made, under a name no
               \* resource had claimed, and no resource was told to migrate

vars == <<kubeVars, buckets, foreign>>

\* The two configurations of a bucket, with the values a resource may give.
Fields == {"versioning", "lifecycle"}
Values == [versioning |-> {Nil, "Enabled", "Suspended"}, lifecycle |-> {Nil, Rule}]
Configs == [versioning: Values.versioning, lifecycle: Values.lifecycle]

\* An unset deletion policy counts as IfEmpty.
DeletionPolicies == {Nil, "IfEmpty", "Always"}
BucketSpec == [name: Names, migrate: BOOLEAN, config: Configs,
               deletionPolicy: DeletionPolicies]
Current == {s \in BucketSpec : ~s.migrate}
BucketState == [config: Configs, objects: BOOLEAN]

ASSUME BucketAssumption ==
    /\ Specs \subseteq BucketSpec
    /\ \A s \in Specs : [s EXCEPT !.migrate = FALSE] \in Specs
    /\ Currents = Current
    /\ Absent \notin BucketState
    /\ Nil \notin {"Enabled", "Suspended", "IfEmpty", "Always", Rule}

\* The name of the remote call each configuration is at.
Creating  == [versioning |-> "createVersioning", lifecycle |-> "createLifecycle"]
Getting   == [versioning |-> "getVersioning",    lifecycle |-> "getLifecycle"]
Resetting == [versioning |-> "resetVersioning",  lifecycle |-> "resetLifecycle"]
Setting   == [versioning |-> "setVersioning",    lifecycle |-> "setLifecycle"]
Recording == [versioning |-> "recordVersioning", lifecycle |-> "recordLifecycle"]

\* The calls on the way to a recorded bucket, and those on a recorded one.
Making == {"create", Creating.versioning, Creating.lifecycle, "setStatus"}
Holding == {"remove", "clearStatus", "dropMigrate", "check", "recordPolicy"}
             \cup UNION {{Getting[k], Resetting[k], Setting[k], Recording[k]} : k \in Fields}

TypeOK ==
    /\ KubeTypeOK
    /\ pc \in {"idle", "addFinalizer", "clearFinalizer"} \cup Making \cup Holding
    /\ buckets \in [Names -> BucketState \cup {Absent}]
    /\ foreign \subseteq Names

Unconfigured == [versioning |-> Nil, lifecycle |-> Nil]
Fresh == [config |-> Unconfigured, objects |-> FALSE]

\* The tenants may hold buckets before the operator is installed.
Init ==
    /\ KubeInit
    /\ foreign \in SUBSET Names
    /\ buckets = [n \in Names |->
                    IF n \in foreign
                    THEN [Fresh EXCEPT !.objects = TRUE] ELSE Absent]

-----------------------------------------------------------------------------
(* MinIO's S3 interface, as the reconciler uses it.                        *)

Exists(n) == buckets[n] # Absent

\* A versioning configuration cannot be removed, only suspended; an empty
\* lifecycle configuration removes the one there is.
Sent(k, value) == IF k = "versioning" /\ value = Nil THEN "Suspended" ELSE value

\* SetBucketVersioning and SetBucketLifecycle fail when the bucket is missing.
SetBucket(n, k, value, next) ==
    /\ IF Exists(n)
       THEN /\ buckets' = [buckets EXCEPT ![n].config[k] = Sent(k, value)]
            /\ Proceed(next)
       ELSE UNCHANGED buckets /\ Return
    /\ UNCHANGED <<store, lag, foreign>>

-----------------------------------------------------------------------------
(* Reconcile.                                                              *)

Start(r) == Begin(r) /\ UNCHANGED <<buckets, foreign>>

\* Mutant: NoSuchBucket is an error.
RemoveBucketOnce ==
    /\ pc = "remove"
    /\ LET n == obj.currentSpec.name
           force == obj.currentSpec.deletionPolicy = "Always"
       IN IF ~Exists(n) \/ (buckets[n].objects /\ ~force)
          THEN Return /\ UNCHANGED <<buckets, foreign>>
          ELSE /\ buckets' = [buckets EXCEPT ![n] = Absent]
               /\ foreign' = foreign \ {n}
               /\ Proceed("clearStatus")
    /\ UNCHANGED <<store, lag>>

\* The deletion policy is the recorded one, not the one in the spec.
RemoveBucket ==
    /\ pc = "remove"
    /\ LET n == obj.currentSpec.name
           force == obj.currentSpec.deletionPolicy = "Always"
       IN IF Exists(n) /\ buckets[n].objects /\ ~force
          THEN Return /\ UNCHANGED <<buckets, foreign>>
          ELSE /\ buckets' = [buckets EXCEPT ![n] = Absent]
               /\ foreign' = foreign \ {n}
               /\ Proceed("clearStatus")
    /\ UNCHANGED <<store, lag>>

BucketExists ==
    /\ pc = "check"
    /\ Proceed(IF Exists(obj.currentSpec.name) THEN Getting.versioning
               ELSE "clearStatus")
    /\ UNCHANGED <<store, lag, buckets, foreign>>

\* Lifecycle follows versioning.
After(steps, k, last) == IF k = "versioning" THEN steps.lifecycle ELSE last

\* Mutant: the remote configuration is never compared.
GetConfigUnread(k) ==
    /\ pc = Getting[k]
    /\ Proceed(Setting[k])
    /\ UNCHANGED <<store, lag, buckets, foreign>>

GetConfig(k) ==
    /\ pc = Getting[k]
    /\ LET n == obj.currentSpec.name
       IN IF ~Exists(n) THEN Return
          ELSE Proceed(IF buckets[n].config[k] # obj.currentSpec.config[k]
                       THEN Resetting[k] ELSE Setting[k])
    /\ UNCHANGED <<store, lag, buckets, foreign>>

ResetConfig(k) ==
    /\ pc = Resetting[k]
    /\ SetBucket(obj.currentSpec.name, k, obj.currentSpec.config[k], Setting[k])

SetConfig(k) ==
    /\ pc = Setting[k]
    /\ IF obj.spec.config[k] = obj.currentSpec.config[k]
       THEN /\ Proceed(After(Getting, k, "recordPolicy"))
            /\ UNCHANGED <<store, lag, buckets, foreign>>
       ELSE SetBucket(obj.currentSpec.name, k, obj.spec.config[k], Recording[k])

RecordConfig(k) ==
    /\ pc = Recording[k]
    /\ Update([obj EXCEPT !.currentSpec.config[k] = obj.spec.config[k]],
              After(Getting, k, "recordPolicy"))
    /\ UNCHANGED <<buckets, foreign>>

GetVersioning    == GetConfig("versioning")
ResetVersioning  == ResetConfig("versioning")
SetVersioning    == SetConfig("versioning")
RecordVersioning == RecordConfig("versioning")
GetLifecycle     == GetConfig("lifecycle")
ResetLifecycle   == ResetConfig("lifecycle")
SetLifecycle     == SetConfig("lifecycle")
RecordLifecycle  == RecordConfig("lifecycle")

\* Mutant: the whole spec is recorded, as the other kinds do.
RecordSpec ==
    /\ pc = "recordPolicy"
    /\ Update([obj EXCEPT !.currentSpec = obj.spec], "idle")
    /\ UNCHANGED <<buckets, foreign>>

RecordPolicy ==
    /\ pc = "recordPolicy"
    /\ Update([obj EXCEPT !.currentSpec.deletionPolicy = obj.spec.deletionPolicy],
              "idle")
    /\ UNCHANGED <<buckets, foreign>>

\* Mutant: BucketAlreadyOwnedByYou is never an error.
MakeBucketOrAdopt ==
    /\ pc = "create"
    /\ LET n == obj.spec.name
       IN /\ buckets' = IF Exists(n) THEN buckets
                        ELSE [buckets EXCEPT ![n] = Fresh]
          /\ foreign' = IF obj.spec.migrate THEN foreign \ {n} ELSE foreign
          /\ Proceed(Creating.versioning)
    /\ UNCHANGED <<store, lag>>

\* BucketAlreadyOwnedByYou is an error unless the resource is to migrate.
MakeBucket ==
    /\ pc = "create"
    /\ LET n == obj.spec.name
       IN IF Exists(n) /\ ~obj.spec.migrate
          THEN Return /\ UNCHANGED <<buckets, foreign>>
          ELSE /\ buckets' = IF Exists(n) THEN buckets
                             ELSE [buckets EXCEPT ![n] = Fresh]
               /\ foreign' = IF obj.spec.migrate THEN foreign \ {n} ELSE foreign
               /\ Proceed(Creating.versioning)
    /\ UNCHANGED <<store, lag>>

CreateConfig(k) ==
    /\ pc = Creating[k]
    /\ IF obj.spec.config[k] = Nil
       THEN /\ Proceed(After(Creating, k, "setStatus"))
            /\ UNCHANGED <<store, lag, buckets, foreign>>
       ELSE SetBucket(obj.spec.name, k, obj.spec.config[k],
                      After(Creating, k, "setStatus"))

CreateVersioning == CreateConfig("versioning")
CreateLifecycle  == CreateConfig("lifecycle")

Reconcile ==
    \/ Bookkeeping /\ UNCHANGED <<buckets, foreign>>
    \/ RemoveBucket \/ BucketExists
    \/ GetVersioning \/ ResetVersioning \/ SetVersioning \/ RecordVersioning
    \/ GetLifecycle \/ ResetLifecycle \/ SetLifecycle \/ RecordLifecycle
    \/ RecordPolicy
    \/ MakeBucket \/ CreateVersioning \/ CreateLifecycle

-----------------------------------------------------------------------------
(* The environment: users of the resources and of the buckets.             *)

\* A resource has recorded the name, or a call that made the bucket is about
\* to record it.
Claimed(n) ==
    \/ \E r \in Resources : Recorded(r) /\ store[r].currentSpec.name = n
    \/ /\ pc \in {Creating.versioning, Creating.lifecycle, "setStatus"}
       /\ obj.spec.name = n

ExternalMake(n) ==
    /\ ~Exists(n)
    /\ buckets' = [buckets EXCEPT ![n] = Fresh]
    /\ foreign' = IF Claimed(n) THEN foreign ELSE foreign \cup {n}

ExternalRemove(n) ==
    /\ Exists(n)
    /\ buckets' = [buckets EXCEPT ![n] = Absent]
    /\ foreign' = foreign \ {n}

\* Objects are put and removed; a configuration drifts.
ExternalWrite(n) ==
    /\ Exists(n)
    /\ \/ buckets' = [buckets EXCEPT ![n].objects = ~@]
       \/ /\ n \in Drifting
          /\ \E k \in Fields : \E v \in {Sent(k, w) : w \in Values[k]} \ {buckets[n].config[k]} :
                buckets' = [buckets EXCEPT ![n].config[k] = v]
    /\ UNCHANGED foreign

Environment ==
    \/ /\ Fault \/ \E r \in Resources : UserStep(r)
       /\ UNCHANGED <<buckets, foreign>>
    \/ /\ \E n \in Names : ExternalMake(n) \/ ExternalRemove(n) \/ ExternalWrite(n)
       /\ UNCHANGED kubeVars

Controller ==
    \/ Reconcile
    \/ \E r \in Resources : Start(r)
    \/ \E r \in Resources : Deliver(r) /\ UNCHANGED <<buckets, foreign>>

Next == Controller \/ Environment

Spec == Init /\ [][Next]_vars

\* A call in progress goes on, the watch delivers, and the work queue, first
\* in first out and refilled by events, the sync interval and the retries,
\* brings every resource up again.
Fairness ==
    /\ WF_vars(Reconcile)
    /\ \A r \in Resources : /\ SF_vars(Start(r))
                            /\ WF_vars(Deliver(r) /\ UNCHANGED <<buckets, foreign>>)

LiveSpec == Spec /\ Fairness

-----------------------------------------------------------------------------
(* Safety.                                                                 *)

\* Reconcile is only ever at a call its copy of the resource entitles it to:
\* only a deleted resource with nothing recorded loses its finalizer, only one
\* with the finalizer and nothing recorded makes a bucket, and only one that
\* has recorded a bucket touches it.  This is the inductive invariant.
CallInv == KubeInv /\ Entitled(Making, Holding)

\* The controller implements module Lifecycle: whatever the cache showed and
\* wherever calls failed or were interrupted, a MinioBucket is held before it
\* records a bucket, the bucket is removed and configured under the name it
\* was made under, however often the spec's name is edited (README,
\* Limitations), and the resource goes only when it records none.
FollowsLifecycle == Life!Spec

\* What a resource records, or a call is about to record, is never somebody
\* else's bucket: Reconcile records a name only after it has made the bucket
\* there or was told to migrate it, and every other record repeats an old one.
RecordedIsOwned ==
    \A n \in foreign : Exists(n) /\ ~Claimed(n)

\* As long as its copy of the resource is the stored one, Reconcile never
\* changes or removes a bucket that somebody else made under a name no resource
\* had claimed, unless a resource was told to migrate it.  (With a stale copy it
\* does: a deleted resource whose status was already cleared, as the cache still
\* shows it before, removes the bucket once more, whoever has made it since.)
FreshCallSparesForeign ==
    [][\A n \in foreign : pc' # pc /\ fresh => buckets'[n] = buckets[n]]_vars

-----------------------------------------------------------------------------
(* Liveness, once users stop editing and calls stop failing.               *)

Quiet == <>[][Controller]_vars

Holds(n, spec) ==
    /\ Exists(n)
    /\ \A k \in Fields : buckets[n].config[k] \in {spec.config[k], Sent(k, spec.config[k])}

\* What a recorded bucket holds, and what is recorded of it, end up as the
\* spec says, and the migrate field is gone.
ConfigConverges ==
    Quiet => <>[](\A r \in Resources :
                    Recorded(r) /\ ~store[r].deleting
                    => /\ Holds(store[r].currentSpec.name, store[r].spec)
                       /\ ~store[r].spec.migrate
                       /\ [store[r].currentSpec EXCEPT !.name = store[r].spec.name]
                             = store[r].spec)

\* A deleted resource goes away, unless its bucket has objects and may not be
\* force-deleted.
DeletionCompletes ==
    Quiet => <>[](\A r \in Resources :
                    store[r] # Absent /\ store[r].deleting
                    => /\ store[r].currentSpec # Nil
                       /\ store[r].currentSpec.deletionPolicy # "Always"
                       /\ Exists(store[r].currentSpec.name)
                       /\ buckets[store[r].currentSpec.name].objects)

\* A resource whose bucket nobody else made ends up recorded.
CreationCompletes ==
    Quiet => <>[](\A r \in Resources :
                    store[r] # Absent /\ ~store[r].deleting
                    => \/ store[r].currentSpec # Nil
                       \/ store[r].spec.name \in foreign)
=============================================================================
