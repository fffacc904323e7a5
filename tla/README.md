# A TLA+ model of minio-operator-ext

minio-operator-ext is a Kubernetes operator: for each of seven custom resource
kinds (MinioBucket, MinioPolicy, MinioPolicyBinding, MinioAccessKey, MinioUser,
MinioGroup, MinioGroupBinding) a controller makes, tends and removes the object
of that kind in a MinIO tenant. This directory models the controllers from
their source, checks them with TLC on small instances and proves what holds of
every instance with TLAPS. Paths below are relative to `src/`.

## Inventory

| Part | State | Operations | Talks to |
| --- | --- | --- | --- |
| manager, client, cache (`internal/operator/operator.go:149-184`, controller-runtime) | stored resources, informer cache, work queues | cached Get, Update with a resourceVersion, watch events, requeue | API server |
| bucket reconciler | MinioBucket `.spec`, `.status.currentSpec`, finalizer | Reconcile | S3 interface |
| policy, user, group reconcilers | the same, of their kinds; the user also the recorded resourceVersion of its secret | Reconcile | admin interface |
| policy binding, group binding reconcilers | the same | Reconcile | admin interface |
| access key reconciler | the same, a generated secret and its recorded resourceVersion | Reconcile, and helpers for the secret and for the account | secrets, admin interface |
| tenant client discovery (`minio_tenant_client_info.go`) | none | reads tenant, secrets, service, CA bundles | API server |
| process start (`cmd/operator`, `internal/operator/main.go`) | none | flags, logger, manager | |

What makes it hard:

- **The cache.** Resources are read from an informer cache that may be behind
  the API server (secrets are not, `operator.go:151-157`). A call acts on MinIO
  for an old version and only finds out when it updates the resource.
- **Two systems, no transaction.** A call to MinIO and the status update that
  records it are separate; a conflict, an error or a restart may come between.
- **Concurrency.** A controller runs one call at a time, but the seven run side
  by side, and users edit resources, secrets and MinIO at any moment.
- **Ownership.** Only `.spec.migrate` allows the operator to take over what it
  did not make; nothing but the record in the status tells what it did make.
- **Deletion.** A finalizer must outlive everything the resource stands for and
  must go in the end.

Correctness, accordingly: no call acts beyond what its copy of the resource
entitles it to; no resource vanishes while it records something; a record keeps
its name; other people's objects are left alone; a client's data fit together;
once the world is quiet, MinIO and the record agree with the spec, and deleted
resources go. The list of hazards in `PROJECT.json` gives the line where each of
these bites.

## Modules

| Module | Models |
| --- | --- |
| `Lifecycle` | the abstract specification: what every controller promises about its resources |
| `Kube` | API server, informer cache, users' edits, and the part of Reconcile that all kinds but the access key share |
| `Bucket` | `minio_bucket_reconciler.go` and the buckets of the tenants |
| `Iam` | MinIO's policies, users, groups, members and attachments, as the reconcilers use them (external) |
| `Policy` | `minio_policy_reconciler.go` over `Iam` |
| `PolicyOwnership`, `AccessKeyOwnership` | `Policy` and `AccessKey` with a history of which objects somebody else made |
| `PolicyBinding` | `minio_policy_binding_reconciler.go` over `Iam` |
| `PolicySystem` | two instances of `Kube` with `Policy` and `PolicyBinding` on one `Iam` |
| `AccessKey` | `minio_access_key_reconciler.go`, the generated secrets and the service accounts |
| `User` | `minio_user_reconciler.go` over `Iam`, and the secrets its specs refer to |
| `Group`, `GroupBinding` | `minio_group_reconciler.go` and `minio_group_binding_reconciler.go` over `Iam` |
| `GroupSystem` | two instances of `Kube` with `Group` and `GroupBinding` on one `Iam` |
| `Tenant` | `getMinioTenantClientInfo`, the chain of reads behind every MinIO client |
| `MC*` | the specs users write in each run |
| `KubeProofs` | lemmas on the steps of `Kube`, for every kind of resource |
| `BucketProofs`, `PolicyProofs`, `UserProofs`, `AccessKeyProofs`, `TenantProofs` | theorems on the module of that name |
| `PolicySystemProofs`, `GroupSystemProofs` | theorems on the two compositions, and so on the binding and the group controllers |

**State.** `store[r]` is the stored resource: spec, `currentSpec` (the status),
whether it has the finalizer and the deletion timestamp. `lag[r]` holds the
versions the cache has still to go through; the oldest is what Get returns.
A resourceVersion is only compared with the stored one, so the model keeps a
Boolean instead: `fresh` says whether the call's copy `obj` is the stored
version. `req` and `pc` are the resource being reconciled and the next remote
call. Each kind adds what it uses of MinIO. History variables, which the code does
not have and no guard of it reads, tell whose an object is: `foreign` (somebody
else made it), `late`, `others` and `migrated`. `foreign` of policies and of access
keys is in a module of its own, so that the runs and proofs that do not need it
are spared.

**Actions.** One action per remote call of Reconcile, with the local code up to
the next one; so whatever happens between two calls (edits, drift, watch
events, other controllers, restarts) happens between two actions. `Fault` ends
a call in front of any of its remote calls: an error reply, a lost reply of the
call before, a client that could not be made, a restart of the process. Where
the code treats an error in its own way there is an action for it
(`LookupFails`, `AddAccountFails`). `PROJECT.json` maps every definition to
its lines.

**Data.** The tenant and the name of an object are one "name": the code uses
the two together everywhere. Lifecycle rules, policy documents, account
settings are opaque values. A policy document has a content and an order,
because `getHash` sorts before it compares and `reflect.DeepEqual` does not.
What MinIO keeps of a policy has what a spec can state (`stated`) and possibly
more (`more`: Condition, NotAction, NotResource), which somebody else can put there
and which is lost when the code unmarshals it into a MinioPolicySpec
(`minio_policy_reconciler.go:246-252`): it never shows in the hash.
A nil versioning configuration is sent as Suspended. `resourceVersion`s of
generated secrets are numbers of a bounded set, reused only when nobody
remembers them; those of the secrets users write are the number of the write, as
the API server counts them. Built-in and LDAP identities are treated alike.

**The abstract specification.** `Lifecycle` knows only which resources exist,
are held (have the finalizer) and are dying (have been deleted), and what each
records. A resource is held before it records an object, keeps what it records
under one name until it forgets it, records nothing once it is dying, and goes
only when it records nothing. Cache, conflicts, faults and MinIO do not show.
`Kube` has the refinement mapping (`existing`, `held`, `dying`, `record`), and
`FollowsLifecycle` of each kind says that it implements `Lifecycle`. The access
key is its own case (`keyRecord`): both the name of its secret and its access key
may be edited, so that it only records something or nothing.

**Access keys.** `getDesiredCredentials` makes two reads past the cache and is
two actions: `Desire` determines the access key and `DesireSecretKey` the secret
key. `provided` is what `accessKeyRef` and `secretKeyRef` lead to at the moment;
users write and delete those secrets at any time, and a missing secret or key is
an error of the call, as is a resource that migrates and does not give both keys
(`minio_access_key_reconciler.go:646`; `internal/e2e/main_test.go:2541`). An
account has a config, which InfoServiceAccount shows as far as the code can read
it, and a secret key, which nothing shows: `Theirs` is one that somebody else
set. The config stands for what a spec can say of name, description, expiration
and policy; fields that a spec leaves empty, and what MinIO then makes of them,
are not told apart.

**Users.** The spec gives the access key outright or by a secret. Either way
SetUserStatus writes the resolved key into spec and status, so a recorded user
is checked, rotated and removed without that secret. `us` is the copy of the
secret with the secret key, from which both AddUser and the recorded
resourceVersion are taken.

**Groups.** UpdateGroupMembers makes a group, adds and removes members and,
without members, removes the group. Adding a member makes the group if it is
gone by then; removing one is refused with one error when the group is gone
and with another when the user is, of which the code ignores the latter.

**Discovery.** Each read of `Tenant` is an action. Errors of the reads of the
tenant, its secret and its service end the call; those of the CA certificates
are skipped. The pool of certificates begins with the system's
(`x509.SystemCertPool`, line 130), or empty when they cannot be had: the system
is a source that nobody edits and whose read may fail. A source of certificates
has one certificate or none, named like the source, and a port goes by its name.
A tenant without a configuration makes the code dereference nil at line 82;
controller-runtime 0.19 recovers the panic, so the call ends as with an error.
`seen` is a history: all versions of the cluster there were during the call. In
the reconciler modules a discovery that fails is a `Fault`.

## Runs

Users may create, edit and delete the resource in every run, and a call may
fault anywhere. All runs have one resource per kind;
resources of a kind do not share state but for the objects they name, and a
second object name stands for the rest.

| Run | Bounds | Checks |
| --- | --- | --- |
| `bucket_sync` | one bucket, all fields edited, objects and drift, no lag | `TypeOK`; `ConfigConverges`, `DeletionCompletes` |
| `bucket_cache` | two buckets, one of which others configure, name and migrate edited, cache one version behind | `CallInv`, `FollowsLifecycle`, `RecordedIsOwned`, `FreshCallSparesForeign` |
| `bucket_create` | one bucket | `CreationCompletes` (violated) |
| `policy` | two names, two documents, policies in MinIO that say more than a spec can, a user to attach to, cache one version behind | `TypeOK`, `CallInv`, `FollowsLifecycle`; `DocumentConverges`, `DeletionCompletes` |
| `policy_lookup` | one name, two contents | `ForeignUntouched` (violated) |
| `policies` | a policy, a user others remove and make again, a group that is not there, a policy resource, a binding resource with migration behind a cache one version late | `CallInv`, `RecordedIsOwned`, `FollowsLifecycle`, `FreshCallSparesForeign`; `BindingConverges`, `PolicyWaitsOnlyForOthers`, `BindingFollowsPolicy` |
| `key_sync` | one key, two secret keys and one of others, two configs, a secretKeyRef that is given or not and leads nowhere at times, migrate edited (with both keys and with one) | `CredentialsConverge`, `CreationCompletesOrBlocked`, `DeletionCompletes` |
| `key_cache` | one key, two names for the secret, cache one version behind | `TypeOK`, `CallInv`, `FollowsLifecycle` |
| `key_takeover` | two keys, two configs | `ForeignUntouched` (violated) |
| `users` | a user, a secret written up to three times with two secret keys or without one of its keys, cache one version behind | `TypeOK`, `CallInv`, `FollowsLifecycle`, `KeyFollowsSecret`, `OverwritesOnlyLate`; `UserConverges` |
| `groups` | two groups, one that others make and work on and one that nobody makes (the group resource names the first), a user, a group resource, a binding resource moved between the groups and migrated behind a cache one version late | `CallInv`, `FollowsLifecycle`; `BindingConverges`, `GroupWaitsOnlyForOthers`, `BindingFollowsGroup` |
| `tenant` | four tenants (automatic certificates; external ones and a CA that counts; none and a CA that does not; no configuration), one complete secret and two broken ones, the system's and three other sources of CA certificates, up to two edits during a call | `TypeOK`, `ConsistentInfo`, `TrustsItsSources`; `DiscoverySettles` |

One version of lag is enough for a call to see a resource before and after any
single update; two names are enough to confuse the recorded and the specified
one; two values of a configuration are enough for record, spec and MinIO to
disagree, and three for all to differ (versioning has them). Three writes of a
secret are enough for one to be recorded, one to be under way and one to come in
between; two edits during a discovery, for one before and one after the same
read.

In `policies` and `groups` the policy and the group resources have a cache that
is up to date and do not migrate; lag and migration are left to the bindings,
for the run to end in minutes.
No run writes a spec with an `accessKeyRef`: a ref that leads nowhere ends the call
in `Desire` as a missing `secretKeyRef` does in `DesireSecretKey`, and the state
space of both together is too large; the theorems cover it. `tenant` has a single
complete pair of keys, so that it checks scheme and port of `ConsistentInfo` in
earnest, while the half about the keys rests on the theorem `InfoConsistent`.
`CallInv` and `FollowsLifecycle` of a policy behind a lagging cache are the
business of `policy` and of the proofs.
Others do not work on everything there is: `Shared` is the identities (in
`groups`, the groups) that they make and remove, `Drifting` the buckets that they
configure. What is outside of it shows what the operator alone makes
of it; a binding moved to the group outside of `Shared` in `policies` waits there
for an identity that does not exist. The theorems hold for any `Shared` and
`Drifting`. `key_cache` treats the two names of secrets as symmetric: they
are only compared with each other.

**Fairness and quiet.** A call in progress goes on, the watch delivers, and the
work queue, first in first out and filled by events, by the sync interval
(`RequeueAfter`) and by rate-limited retries, brings every resource up again,
even if others occupy the worker most of the time: weak fairness of Reconcile
and Deliver, strong fairness of Start. Nothing is assumed of users and faults.
The liveness properties speak of behaviours in which users and faults stop at
some point (`Quiet`): until then there is nothing to converge to.

`Tenant` has no watch and no queue: weak fairness of its steps says that a
reconciler goes on and that its resource comes up again.

**What the properties except.** Several of them say exactly where the code stops
short, so that they hold and stay useful:

- `FreshCallSparesForeign` holds while the copy is the stored version. With a
  stale copy a deleted resource whose status was just cleared is seen with the
  status set, and RemoveBucket runs again (`minio_bucket_reconciler.go:96`), or
  DetachPolicy does (`minio_policy_binding_reconciler.go:95`).
- `BindingConverges` excepts a binding that still has to detach what is no
  longer attached (`Wedged`: DetachPolicy's error is not ignored at
  `minio_policy_binding_reconciler.go:103`, so that a deleted binding whose policy
  was detached behind its back, or by a call that then failed, keeps its
  finalizer for ever), and one whose policy is attached but not recorded.
- `PolicyWaitsOnlyForOthers` excepts attachments that no binding records.
- `DocumentConverges` speaks of what a spec can state: elements that
  MinioPolicyStatement has no field for stay until the policy is written for
  another reason (`minio_policy_reconciler.go:247`).
- `CredentialsConverge` excepts an account that is lost (the status is cleared
  at `minio_access_key_reconciler.go:223` and set again at 133, so the account is
  not made again), a migrated one, which keeps its secret key until the
  secret changes, and one whose secret key somebody else changed, which
  InfoServiceAccount does not show. It also says nothing while the secret is
  missing, or while a ref of the spec leads nowhere: every call then ends at
  `minio_access_key_reconciler.go:594-600` or 623-629, before it looks at the
  account.
- `CreationCompletesOrBlocked`: a secret of the name the spec gives is in the way
  for good, even if a call of the same resource made it and then failed
  (`minio_access_key_reconciler.go:448`); so is an account of the access key, unless
  the resource migrates it; and so are credentials that are not determined, by a
  ref that leads nowhere or by a resource that is to migrate without both keys (646).
- `OverwritesOnlyLate` is about the call that creates the user: its AddUser
  overwrites a user that appeared after its GetUserInfo
  (`minio_user_reconciler.go:229`, 249). A rotation overwrites the recorded user.
- `UserConverges`: a user that exists and is not to be migrated blocks the
  resource, the one a call made and failed to record included. It speaks of the
  recorded version of the secret: a key that somebody else changed in MinIO is not
  restored.
- `BindingConverges` of `groups` excepts a binding that records a group that is
  gone: both the check (`minio_group_binding_reconciler.go:165`) and the removal
  (91) fail until somebody makes the group again; a deleted binding gets away
  only when the user is gone too. A member that was added and not recorded is
  taken for somebody else's.
- `GroupWaitsOnlyForOthers` excepts members that no binding records.
- `TrustsItsSources` excepts certificates whose read failed, and counts the
  system's root certificates among those that every client trusts.
- `DiscoverySettles` says that the tenant's absence makes every call fail, so
  the resources of a tenant that is gone keep their finalizers.

**The three violations** are disagreements of the code with its tests or with
the README; `findings` in `PROJECT.json` quotes the lines:

- `bucket_create`: a bucket that was made and not recorded is taken for
  somebody else's on every retry.
- `policy_lookup`: an error of the lookup is dropped, and the policy that is
  there is overwritten.
- `key_takeover`: an edit of `.spec.accessKey` makes the operator rewrite and
  delete an account it did not make, without migrate.

## Proofs

Every safety property that a passing run checks is also a theorem, for every set
of resources, names, specs, identities and secrets and every cache lag:

| Theorem | Statement | of |
| --- | --- | --- |
| `TypeCorrect` | `Spec => []TypeOK` | `Bucket`, `Policy`, `PolicySystem`, `User`, `GroupSystem`, `AccessKey`, `Tenant` |
| `CallsEntitled` | `Spec => []CallInv` | the same but `Tenant` |
| `Refinement` | `Spec => FollowsLifecycle` | the same but `Tenant` |
| `RecordsOwned` | `Spec => []RecordedIsOwned` | `Bucket`, `PolicySystem` |
| `ForeignSpared` | `Spec => FreshCallSparesForeign` | `Bucket`, `PolicySystem` |
| `OverwritesLate` | `Spec => OverwritesOnlyLate` | `User` |
| `KeysFollowSecrets` | `Spec /\ []Unshared => []KeyFollowsSecret` | `User` |
| `KeyFollowsItsSecret` | `Spec => []KeyFollowsSecret`, with one resource | `User` |
| `InfoConsistent` | `Spec => ConsistentInfo` | `Tenant` |
| `SourcesTrusted` | `Spec => TrustsItsSources` | `Tenant` |

**Calls and refinement.** `KubeProofs` proves, for any two sets of calls that make
and that hold an object, what each step of `Kube` preserves: starting a call,
proceeding, returning, updating, the shared bookkeeping, users' edits and watch
events. The proofs of a kind apply it, one lemma per action.

The inductive invariant is `TypeOK /\ CallInv`. `CallInv` joins what the API
server guarantees (`KubeInv`: a fresh copy is the stored version; every stored,
cached or copied version that records something has the finalizer) with what
Reconcile has established at each call (`Entitled`: at `clearFinalizer` the copy
is deleted and records nothing, and so on). Neither part is enough: that clearing
a finalizer is harmless needs the freshness of the copy, and that the cached
versions are guarded needs what holds at the calls that write them.

`Refinement` shows that the initial states map to the initial state of
`Lifecycle` and that every step maps to one of its steps or to a stutter.
`KubeProofs` sorts what an update can do to the stored version (`Move`: create,
be held, record, forget, mark, vanish, or nothing that shows) and proves once that
each move is the `Lifecycle` step of that name and leaves the other resources
alone (`MoveKept`). The step needs the invariant: an update is accepted only for
a fresh copy, so what `Entitled` says of the copy is true of the stored version.

**Compositions.** In `PolicySystem` and `GroupSystem` each controller has its own
instance of `Kube` and shares MinIO's identities with the other. The invariant is
the conjunction of the two controllers' and the type of the identities. A step of
one controller is for it a step of the kinds `KubeProofs` names (`Plain`), or one
of `PolicyProofs`, and a stutter for the other. So `PolicySystemProofs` reuses
`PolicyProofs` as a whole through an instance, and the controllers of bindings and
groups are covered with no specification of their own. The first lemmas of both
modules only say that `Kube` under a controller and `Kube` under its proofs are
the same formulas.

**Ownership.** The second part of `BucketProofs` strengthens the invariant by
`RecordedIsOwned`: a foreign bucket exists, and no record and no call between
MakeBucket and the status update names it. Existence is what makes MakeBucket
refuse it, and the two others are what keeps every later call off it. The one
fact about the updates it needs is that a record appears only at `setStatus`,
under the name of the copy's spec; all others repeat the name of an old record.
`KubeProofs` proves that of the shared steps (`NewRecords`, `PlainRecords`).
`ForeignSpared` then needs freshness in one place: a call that holds a record
acts on the name in its copy, and only the stored record is known to be owned.

`PolicySystemProofs` makes the same argument for attachments, with the policy
controller and the removal of identities next to it: `foreign` are the attachments
somebody else made while no resource claimed them. AttachPolicy answers whether
the policy was attached before, so that there is no gap between the look and the
act. A foreign attachment is there, hence a call that does not migrate is refused
it; an attachment that goes with its identity is nobody's any more, even
when the identity comes back; and the policy controller neither attaches nor
detaches. This invariant is also what types `foreign`.

**Users.** `TypeOK /\ CallInv` is not inductive here: that the status update
records a version of a secret needs that the secret in hand was written and not
after now, and that there is an access key needs what the calls before it found
(`LocalsOK`). `KeyInv`, for `KeyFollowsSecret`, adds what ties record, secret and
MinIO together while calls are cut short and the secret is written: all versions
of a recorded resource that the cache may still show name the recorded secret
(`SameSecret`); a fresh copy on the way to the first record has nothing behind it
(`NothingWritten`); recorded versions are old ones (`RecordsOld`); a secret in
hand that is still the stored version has the stored key (`SecretInHand`); and
between AddUser and the status update the user has the key in hand or somebody
else changed it (`KeyAdded`). `Unshared`, the premise of `KeysFollowSecrets`, says
that a call about to write a user's key finds no other resource that records the
same user with another secret. The code does not prevent it: a second resource
told to migrate the user under its own secret overwrites the key, and the record
of the first goes on naming a version whose key the user no longer has.

**Access keys.** Reconcile of this kind does not share the branches of the others,
so that its invariant has a part of its own (`Known`): what each call knows of
its copy and of the credentials it holds. A call that tends a key, for one, has a
copy that is not deleted and no longer migrates, and credentials in hand: that is
what makes its status update one that may be recorded. That the access key in
hand between the two reads of `getDesiredCredentials` is one (`DesiredOK`) completes
it. The
refinement maps a record to a single value, because name and key may both be
edited.

**Discovery.** The invariant follows the reads: the tenant, keys and port in hand
were in the cluster at some version in `seen` (`TenantSeen`, `KeysSeen`,
`PortSeen`), and the certificates read so far are exactly those of the sources
read so far, the system's first, but for failures (`CasSeen`).

**Assumptions.** `KubeAssumption` and `IamAssumption` (nil, absent and "no entry"
are no values) and the one of the kind, e.g. `BucketAssumption` (specs are well
formed, and a spec may stop migrating); `SystemAssumption` of a composition is
those of its controllers. TLC evaluates them in every run. In `AccessKey` a write
of a secret waits while all numbers of the bounded set of resourceVersions are
remembered (`FreeVersions`); in the runs there are enough of them for that never
to happen, and the theorems hold for any number.

`TypeOK` of the two compositions is proved and left out of their runs. Only
model-checked: all liveness properties, since fairness and ENABLED are out
of the prover's reach, and the three violations.

## Not modelled

- **Process start** (`NewOperator` apart from the manager's options and the
  list of reconcilers, `cmd/operator`, `internal/embed.go`): flags, logging and
  registration, straight-line and without state.
- **API types** (`pkg/api`): the specs appear as records; scheme registration
  and the generated deep copies have no behaviour of their own. References
  without a namespace get the resource's (`SetDefaultNamespace`), so that the
  check for an empty one in `getMinioTenantClientInfo` never fails.
- **MinIO clients** (`GetClient`, `GetAdminClient`): library calls on the data of
  `Tenant`, without a remote call.
- **LDAP names**: completing a user to a distinguished name
  (`minio_policy_binding_reconciler.go:205-214`).
- **Conversions** of lifecycle rules and documents to XML and JSON.
- **Time**: the sync interval and the back-off are only "again later".
- **Several operators**: the chart runs one replica and there is no leader
  election; two would be two users of the same resources.

## Plan

1. Done: all seven controllers, the two compositions that share MinIO's
   identities, discovery, and `Lifecycle` with the refinement of every kind;
   proofs of every safety property the runs check; ownership of buckets and of
   attached policies.
2. Ownership of policies, users, groups and members, as for buckets: which objects
   that somebody else made a call with a fresh copy may change. The lookup and the
   write are two calls, so an object that appears in between has to be excepted,
   as `late` of `User` does, before more than `OverwritesOnlyLate` can be said.
3. An abstract specification of ownership (an object is nobody's, made by a
   resource, or foreign, and changes hands only by migration) that the
   reconcilers with fresh copies implement.
