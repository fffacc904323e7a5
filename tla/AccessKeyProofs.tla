--------------------------- MODULE AccessKeyProofs --------------------------
(***************************************************************************)
(* Proofs about the access key reconciler, for any resources, keys,        *)
(* secrets, configs and cache lag.  What the code relies on from one       *)
(* remote call to the next is spelled out in Known: with it the call's     *)
(* invariant is inductive.                                                 *)
(***************************************************************************)
EXTENDS AccessKey, KubeProofs

CallNames ==
    {"idle", "addFinalizer", "clearStatus", "clearFinalizer"} \cup Making \cup Holding \cup Either

\* The calls of deleteAccessKey, and those on a spec that does not migrate.
Deleting == {"findAccount", "deleteAccount", "clearStatus"}
Settled == {"check", "resetAccount", "updateAccount", "regetSecret", "redropSecret",
            "unsetStatus", "setStatus"}
WithCreds == {"deleteAccount", "createSecret", "updateSecret", "dropMigrate"} \cup Settled \cup Making

MinioOK ==
    /\ secrets \in [SecretNames -> Secret \cup {Absent}]
    /\ accounts \in [Keys -> Account \cup {Absent}]
    /\ provided \in Provided
    /\ migrated \subseteq Keys

\* What a call knows of its copy, and of the credentials.
Known ==
    /\ Entitled(Making, Holding)
    /\ pc \in Either => obj.finalizer
    /\ pc \in Deleting => obj.deleting
    /\ pc \in (Making \cup Holding \cup Either) \ Deleting => ~obj.deleting
    /\ pc \in Settled => ~obj.spec.migrate
    /\ creds \in Secret \cup {Absent}
    /\ pc \in WithCreds => creds # Absent
    /\ pc = "idle" \/ (pc \in {"desire", "desireSecretKey"} /\ obj.currentSpec = Nil)
       => creds = Absent

\* All of the invariant but the access key that is desired, which only
\* getDesiredCredentials knows.
Inv == KubeTypeOK /\ KubeInv /\ pc \in CallNames /\ MinioOK /\ Known
DesiredOK == desired \in Keys \cup {Nil}

\* The invariant implies what the runs check.
LEMMA InvImplies == Inv /\ DesiredOK => TypeOK /\ CallInv
BY DEF Inv, DesiredOK, TypeOK, CallInv, MinioOK, Known, CallNames, WithCreds, Settled

\* What a call finds in its copy.
LEMMA Copy ==
    ASSUME Inv
    PROVE  /\ pc # "idle" => req \in Resources /\ obj \in Object /\ obj.spec \in Specs
                             /\ obj.spec \in AccessKeySpec
           /\ pc \in Holding => obj.currentSpec \in Current /\ obj.currentSpec # Nil /\ obj.finalizer
           /\ \A s \in AccessKeySpec : s.secretName \in SecretNames /\ s.accessKey \in Keys \cup {Nil}
                                       /\ s.config \in Configs
           /\ \A c \in Current : c.spec \in AccessKeySpec /\ ~c.spec.migrate /\ c.version \in Versions
<1>1. \A s \in AccessKeySpec : s.secretName \in SecretNames /\ s.accessKey \in Keys \cup {Nil}
                               /\ s.config \in Configs
  BY DEF AccessKeySpec
<1>2. \A c \in Current : c.spec \in AccessKeySpec /\ ~c.spec.migrate /\ c.version \in Versions
  BY DEF Current
<1>3. pc # "idle" => req \in Resources /\ obj \in Object /\ obj # Absent
  BY DEF Inv, KubeTypeOK, KubeInv, Version
<1>4. pc # "idle" => obj.spec \in Specs /\ obj.spec \in AccessKeySpec
                     /\ obj.currentSpec \in Current \cup {Nil}
  BY <1>3, AccessKeyAssumption DEF Object
<1>5. pc \in Holding => pc # "idle" /\ obj.currentSpec # Nil
  BY DEF Inv, Known, Entitled, Holding
<1>6. pc \in Holding => obj.finalizer
  BY <1>3, <1>5 DEF Inv, KubeInv, Guarded
<1>7. QED BY <1>1, <1>2, <1>3, <1>4, <1>5, <1>6

\* What a copy of a secret or an account has.
LEMMA Contents ==
    /\ \A s \in Secret : s.accessKey \in Keys /\ s.secretKey \in SecretKeys /\ s.version \in Versions
    /\ \A k \in SecretKeys \cup {Theirs}, c \in Configs : [config |-> c, secretKey |-> k] \in Account
    /\ \A a \in Account : a.secretKey \in SecretKeys \cup {Theirs}
    /\ \A p \in Provided : p.accessKey \in Keys \cup {Nil} /\ p.secretKey \in SecretKeys \cup {Nil}
BY AccessKeyAssumption DEF Secret, Account

-----------------------------------------------------------------------------
(* The resource's life, with no name to the record.                        *)

KeyKept == [KeyLife!Next]_(KeyLife!lifeVars)

\* Every step keeps the invariant and is a step of Lifecycle, or shows nothing
\* there.
Safe == Inv' /\ KeyKept

Alike(a, b) == a.currentSpec = Nil <=> b.currentSpec = Nil

\* What may become of a version, as in KubeProofs, but that what is recorded
\* may change.
KeyMove(a, b) ==
    \/ Creates(a, b)
    \/ /\ a \in Object /\ b \in Object
       /\ \/ a.finalizer = b.finalizer /\ a.deleting = b.deleting /\ Alike(a, b)
          \/ ~a.finalizer /\ b.finalizer /\ ~a.deleting /\ ~b.deleting /\ Alike(a, b)
          \/ Records(a, b)
          \/ Forgets(a, b)
          \/ a.finalizer /\ b.finalizer /\ ~a.deleting /\ b.deleting /\ Alike(a, b)
    \/ Vanishes(a, b)

\* The moves of KubeProofs are among them.
LEMMA MoveIsKeyMove == \A a, b : Move(a, b) => KeyMove(a, b)
BY DEF Move, KeyMove, SameLife, SameRecord, IsHeld, Marks, Alike

\* A step that writes nothing shows nothing.
LEMMA StillKeyKept == ASSUME UNCHANGED store PROVE KeyKept
BY DEF KeyKept, KeyLife!lifeVars, existing, held, dying, keyRecord, Recorded

\* A write that is such a move is a step of Lifecycle, or shows nothing there.
LEMMA KeyMoveKept ==
    ASSUME store \in [Resources -> Version], NEW r \in Resources, NEW v \in Version,
           store' = [store EXCEPT ![r] = v], KeyMove(store[r], v)
    PROVE  KeyKept
<1> DEFINE a == store[r]
           to(x) == IF x.currentSpec = Nil THEN {} ELSE {"account"}
<1>0. Absent \notin Object /\ Nil \notin Currents
  BY KubeAssumption
<1>1. /\ existing' = IF v = Absent THEN existing \ {r} ELSE existing \cup {r}
      /\ held' = IF v # Absent /\ v.finalizer THEN held \cup {r} ELSE held \ {r}
      /\ dying' = IF v # Absent /\ v.deleting THEN dying \cup {r} ELSE dying \ {r}
  BY DEF existing, held, dying
<1>2. /\ r \in existing <=> a # Absent
      /\ r \in held <=> a # Absent /\ a.finalizer
      /\ r \in dying <=> a # Absent /\ a.deleting
      /\ keyRecord[r] = IF a = Absent THEN {} ELSE to(a)
  BY DEF existing, held, dying, keyRecord, Recorded
<1>3. keyRecord' = [keyRecord EXCEPT ![r] = IF v = Absent THEN {} ELSE to(v)]
  BY DEF keyRecord, Recorded
<1>4. keyRecord = [q \in Resources |-> keyRecord[q]]
  BY DEF keyRecord
<1>5. a \in Object /\ v \in Object /\ Alike(a, v) => keyRecord' = keyRecord
  BY <1>0, <1>2, <1>3, <1>4 DEF Alike
<1> HIDE DEF a, to
<1>6. CASE Creates(a, v)
  <2>1. to(v) = {} /\ v # Absent
    BY <1>0, <1>6 DEF Creates, to
  <2>2. UNCHANGED <<held, dying, keyRecord>>
    BY <1>0, <1>1, <1>2, <1>3, <1>4, <1>6, <2>1 DEF Creates
  <2>3. KeyLife!Create(r)
    BY <1>1, <1>2, <1>6, <2>1, <2>2 DEF Creates, KeyLife!Create
  <2>4. QED BY <2>3 DEF KeyKept, KeyLife!Next
<1>7. CASE a \in Object /\ v \in Object
  <2>1. a # Absent /\ v # Absent /\ existing' = existing
    BY <1>0, <1>1, <1>2, <1>7
  <2>2. CASE a.finalizer = v.finalizer /\ a.deleting = v.deleting /\ Alike(a, v)
    BY <1>1, <1>2, <1>5, <1>7, <2>1, <2>2 DEF KeyKept, KeyLife!lifeVars
  <2>3. CASE ~a.finalizer /\ v.finalizer /\ ~a.deleting /\ ~v.deleting /\ Alike(a, v)
    <3>1. KeyLife!Hold(r)
      BY <1>1, <1>2, <1>5, <1>7, <2>1, <2>3 DEF KeyLife!Hold
    <3>2. QED BY <3>1 DEF KeyKept, KeyLife!Next
  <2>4. CASE Records(a, v)
    <3>1. to(a) = {} /\ to(v) = {"account"}
      BY <1>0, <2>4 DEF Records, to
    <3>2. KeyLife!Record(r)
      BY <1>1, <1>2, <1>3, <2>1, <2>4, <3>1 DEF Records, KeyLife!Record
    <3>3. QED BY <3>2 DEF KeyKept, KeyLife!Next
  <2>5. CASE Forgets(a, v)
    <3>1. to(a) # {} /\ to(v) = {}
      BY <2>5 DEF Forgets, to
    <3>2. held' = held /\ dying' = dying
      BY <1>1, <1>2, <2>1, <2>5 DEF Forgets
    <3>3. KeyLife!Forget(r)
      BY <1>2, <1>3, <2>1, <3>1, <3>2 DEF KeyLife!Forget
    <3>4. QED BY <3>3 DEF KeyKept, KeyLife!Next
  <2>6. CASE a.finalizer /\ v.finalizer /\ ~a.deleting /\ v.deleting /\ Alike(a, v)
    <3>1. KeyLife!Mark(r)
      BY <1>1, <1>2, <1>5, <1>7, <2>1, <2>6 DEF KeyLife!Mark
    <3>2. QED BY <3>1 DEF KeyKept, KeyLife!Next
  <2>7. QED BY <1>0, <1>7, <2>2, <2>3, <2>4, <2>5, <2>6 DEF KeyMove, Creates, Vanishes, a
<1>8. CASE Vanishes(a, v)
  <2>1. to(a) = {} /\ a # Absent /\ v = Absent
    BY <1>0, <1>8 DEF Vanishes, to
  <2>2. keyRecord' = keyRecord
    BY <1>2, <1>3, <1>4, <2>1
  <2>3. KeyLife!Vanish(r)
    BY <1>1, <1>2, <1>8, <2>1, <2>2 DEF Vanishes, KeyLife!Vanish
  <2>4. QED BY <2>3 DEF KeyKept, KeyLife!Next
<1>9. QED BY <1>6, <1>7, <1>8 DEF KeyMove, a

-----------------------------------------------------------------------------
(* The ways a call can go.                                                 *)

\* Reconcile returns.
LEMMA Stops == ASSUME Inv, Stop, UNCHANGED <<store, lag>>, MinioOK' PROVE Safe
<1>1. KubeTypeOK' /\ KubeInv'
  BY ReturnInv DEF Inv, Stop
<1>2. pc' = "idle" /\ creds' = Absent
  BY DEF Stop, Return
<1>3. Known'
  BY <1>2 DEF Known, Entitled, Making, Holding, Either, Deleting, Settled, WithCreds
<1>4. QED BY <1>1, <1>2, <1>3, StillKeyKept DEF Safe, Inv, CallNames

\* Reconcile goes on.
LEMMA GoesOn ==
    ASSUME Inv, pc # "idle", NEW next \in CallNames \ {"idle"}, Proceed(next),
           UNCHANGED <<store, lag>>, MinioOK', Known'
    PROVE  Safe
<1>1. KubeTypeOK' /\ KubeInv'
  BY ProceedInv DEF Inv
<1>2. QED BY <1>1, StillKeyKept DEF Proceed, Safe, Inv

\* Reconcile updates the resource, and returns or goes on.
LEMMA Updates ==
    ASSUME Inv, pc # "idle", NEW o \in Object, NEW next \in CallNames, UpdateResource(o, next),
           Guarded(o), o = obj \/ ~o.deleting \/ o.finalizer \/ next = "idle",
           o = obj \/ KeyMove(obj, Stored(o)), pc' = next /\ next # "idle" => Known'
    PROVE  Safe
<1>1. /\ KubeTypeOK' /\ KubeInv'
      /\ UNCHANGED store \/ (obj = store[req] /\ store' = [store EXCEPT ![req] = Stored(o)])
      /\ pc' = "idle" \/ (pc' = next /\ obj' = o)
  BY UpdateInv DEF UpdateResource, Inv
<1>2. MinioOK'
  BY DEF UpdateResource, minioVars, Inv, MinioOK
<1>3. KeyKept
  <2>1. req \in Resources /\ Stored(o) \in Version /\ store \in [Resources -> Version]
    BY DEF Inv, KubeTypeOK, KubeInv, Stored, Version
  <2>2. CASE UNCHANGED store
    BY <2>2, StillKeyKept
  <2>3. CASE o # obj /\ fresh /\ Commit(req, Stored(o))
    BY <2>1, <2>3, KeyMoveKept DEF Commit, Inv, KubeInv
  <2>4. QED BY <2>2, <2>3 DEF UpdateResource, Update, UpdateAccepted, UpdateRejected
<1>4. Known'
  <2>1. CASE pc' = "idle"
    <3>1. creds' = Absent
      BY <2>1 DEF UpdateResource
    <3>2. QED BY <2>1, <3>1 DEF Known, Entitled, Making, Holding, Either, Deleting, Settled, WithCreds
  <2>2. QED BY <1>1, <2>1
<1>5. QED BY <1>1, <1>2, <1>3, <1>4 DEF Safe, Inv, CallNames

\* Somebody else's step.
LEMMA ElsewhereSafe ==
    ASSUME Inv, UNCHANGED <<kubeVars, creds>>, MinioOK' PROVE Safe
<1>1. KubeTypeOK' /\ KubeInv'
  BY DEF kubeVars, Inv, KubeTypeOK, KubeInv, Guarded
<1>2. Known'
  BY DEF kubeVars, Inv, Known, Entitled
<1>3. QED BY <1>1, <1>2, StillKeyKept DEF kubeVars, Safe, Inv

-----------------------------------------------------------------------------
(* The steps.                                                              *)

\* Nothing is there at first but accounts of others.
LEMMA InitInv == Init => Inv /\ DesiredOK
<1> SUFFICES ASSUME Init PROVE Inv /\ DesiredOK
  OBVIOUS
<1>1. KubeTypeOK
  <2>1. <<>> \in Seq(Version)
    OBVIOUS
  <2>2. QED BY <2>1 DEF Init, KubeInit, KubeTypeOK, Version
<1>2. KubeInv
  BY GuardedAbsent DEF Init, KubeInit, KubeInv
<1>3. pc = "idle" /\ creds = Absent /\ MinioOK
  BY DEF Init, KubeInit, MinioOK
<1>4. Known
  BY <1>3 DEF Known, Entitled, Making, Holding, Either, Deleting, Settled, WithCreds
<1>5. DesiredOK
  BY DEF Init, DesiredOK
<1>6. QED BY <1>1, <1>2, <1>3, <1>4, <1>5 DEF Inv, CallNames

\* Get and the branches of Reconcile.
LEMMA StartStep == ASSUME Inv, NEW r \in Resources, Start(r) PROVE Safe
<1> DEFINE o == Cached(r)
<1>1. o \in Object /\ Guarded(o) /\ o # Absent
  BY CachedVersion DEF Start, Get, Inv, Version
<1>2. pc' = FirstCall(o) /\ obj' = o /\ creds' = Absent
  BY DEF Start, Get, Inv, Known
<1> HIDE DEF o
<1>3. /\ FirstCall(o) \in {"findAccount", "clearStatus", "addFinalizer", "getSecret", "desire"}
      /\ FirstCall(o) \in {"findAccount", "clearStatus"} => o.deleting
      /\ FirstCall(o) \in {"findAccount", "getSecret"} => o.currentSpec # Nil
      /\ FirstCall(o) \in {"addFinalizer", "getSecret", "desire"} => ~o.deleting
      /\ FirstCall(o) \in {"getSecret", "desire"} => o.finalizer
      /\ FirstCall(o) = "desire" => o.currentSpec = Nil
  BY <1>1 DEF FirstCall, Object
<1>4. KubeTypeOK' /\ KubeInv'
  BY <1>2, <1>3, GetInv DEF Start, Inv
<1>5. Known'
  BY <1>2, <1>3 DEF Known, Entitled, Making, Holding, Either, Deleting, Settled, WithCreds
<1>6. MinioOK' /\ KeyKept
  BY StillKeyKept DEF Start, Get, minioVars, Inv, MinioOK
<1>7. QED BY <1>2, <1>3, <1>4, <1>5, <1>6 DEF Safe, Inv, CallNames, Holding, Either

\* The secret of the recorded spec is read, whether it is there or not.
LEMMA RecordedSecret ==
    ASSUME Inv, pc \in Holding
    PROVE  recorded.secretName \in SecretNames
           /\ secrets[recorded.secretName] \in Secret \cup {Absent}
<1>1. recorded.secretName \in SecretNames
  BY Copy DEF recorded
<1>2. QED BY <1>1 DEF Inv, MinioOK

\* Finding the account of a deleted resource by its secret.
LEMMA FindAccountStep == ASSUME Inv, FindAccount PROVE Safe
<1>1. pc = "findAccount" /\ pc \in Holding
  BY DEF FindAccount, Holding
<1>2. creds' \in Secret \cup {Absent}
  BY <1>1, RecordedSecret DEF FindAccount
<1>3. PICK next \in {"clearStatus", "deleteAccount"} :
        Proceed(next) /\ (next = "deleteAccount" => creds' # Absent)
  BY DEF FindAccount
<1>4. MinioOK' /\ UNCHANGED <<store, lag>>
  BY DEF FindAccount, Keep, minioVars, Inv, MinioOK
<1>5. Known'
  BY <1>1, <1>2, <1>3 DEF Proceed, Inv, Known, Entitled, Making, Holding, Either, Deleting, Settled, WithCreds
<1>6. QED BY <1>1, <1>3, <1>4, <1>5, GoesOn DEF CallNames, Holding

\* Deleting it.
LEMMA DeleteAccountStep == ASSUME Inv, DeleteAccount PROVE Safe
<1>1. pc = "deleteAccount" /\ creds \in Secret
  BY DEF DeleteAccount, Inv, Known, WithCreds
<1>2. MinioOK' /\ UNCHANGED <<store, lag>> /\ Proceed("clearStatus") /\ creds' = creds
  BY <1>1, Contents DEF DeleteAccount, Go, Inv, MinioOK
<1>3. Known'
  BY <1>1, <1>2 DEF Proceed, Inv, Known, Entitled, Making, Holding, Either, Deleting, Settled, WithCreds
<1>4. QED BY <1>1, <1>2, <1>3, GoesOn DEF CallNames

\* The status of a deleted resource is cleared, and the finalizer goes next.
LEMMA ClearRecordStep == ASSUME Inv, ClearRecord PROVE Safe
<1> DEFINE o == [obj EXCEPT !.currentSpec = Nil]
<1>1. pc = "clearStatus" /\ UpdateResource(o, "clearFinalizer")
  BY DEF ClearRecord
<1>2. obj \in Object /\ obj.deleting /\ Guarded(obj) /\ obj # Absent
  BY <1>1, Copy, KubeAssumption DEF Inv, Known, Deleting, KubeInv
<1>3. /\ o \in Object /\ o.finalizer = obj.finalizer /\ o.deleting = obj.deleting
      /\ o.currentSpec = Nil /\ (obj.currentSpec = Nil => o = obj)
  BY <1>2 DEF Object
<1> HIDE DEF o
<1>4. Guarded(o) /\ (o = obj \/ (o.finalizer /\ KeyMove(obj, Stored(o))))
  BY <1>2, <1>3 DEF Guarded, Stored, KeyMove, Forgets
<1>5. ASSUME pc' = "clearFinalizer" PROVE Known'
  <2>1. obj' = o /\ creds' = creds
    BY <1>1, <1>5 DEF UpdateResource, Update, UpdateAccepted, UpdateRejected, Return
  <2>2. QED BY <1>2, <1>3, <1>5, <2>1 DEF Inv, Known, Entitled, Making, Holding, Either,
               Deleting, Settled, WithCreds
<1>6. QED BY <1>1, <1>3, <1>4, <1>5, Updates DEF CallNames

\* The secret of a recorded resource is read; the name may have changed.
LEMMA GetSecretStep == ASSUME Inv, GetSecret PROVE Safe
<1>1. pc = "getSecret" /\ pc \in Holding
  BY DEF GetSecret, Holding
<1>2. creds' \in Secret \cup {Absent} /\ obj.finalizer
  BY <1>1, RecordedSecret, Copy DEF GetSecret
<1>3. PICK next \in {"dropSecret", "desire"} : Proceed(next)
  BY DEF GetSecret
<1>4. MinioOK' /\ UNCHANGED <<store, lag>>
  BY DEF GetSecret, Keep, minioVars, Inv, MinioOK
<1>5. Known'
  BY <1>1, <1>2, <1>3 DEF Proceed, Inv, Known, Entitled, Making, Holding, Either, Deleting, Settled, WithCreds
<1>6. QED BY <1>1, <1>3, <1>4, <1>5, GoesOn DEF CallNames, Holding, Either

\* The secret of the old name goes.
LEMMA DropSecretStep == ASSUME Inv, DropSecret PROVE Safe
<1>1. pc = "dropSecret" /\ pc \in Holding /\ UNCHANGED <<store, lag>>
  BY DEF DropSecret, Holding
<1>2. MinioOK'
  BY <1>1, RecordedSecret DEF DropSecret, Inv, MinioOK
<1>3. CASE Stop
  BY <1>1, <1>2, <1>3, Stops
<1>4. CASE creds' = Absent /\ Proceed("moveSecret")
  <2>1. Known'
    BY <1>1, <1>4 DEF Proceed, Inv, Known, Entitled, Making, Holding, Either, Deleting, Settled, WithCreds
  <2>2. QED BY <1>1, <1>2, <1>4, <2>1, GoesOn DEF CallNames, Holding
<1>5. QED BY <1>3, <1>4 DEF DropSecret

\* An update on a record that keeps it one, with the finalizer.
LEMMA Renews ==
    ASSUME Inv, pc \in Holding, ~obj.deleting, NEW o \in Object, NEW next \in {"idle", "desire", "check"},
           UpdateResource(o, next), o.finalizer = obj.finalizer, o.deleting = obj.deleting,
           o.currentSpec # Nil, next = "check" => ~o.spec.migrate /\ creds # Absent
    PROVE  Safe
<1>1. obj \in Object /\ obj.currentSpec # Nil /\ obj.finalizer /\ pc # "idle"
  BY Copy DEF Holding
<1>2. Guarded(o) /\ KeyMove(obj, Stored(o))
  BY <1>1 DEF Guarded, Stored, KeyMove, Alike
<1>3. ASSUME pc' = next, next # "idle" PROVE Known'
  <2>1. obj' = o /\ creds' = creds
    BY <1>3 DEF UpdateResource, Update, UpdateAccepted, UpdateRejected, Return
  <2>2. QED BY <1>1, <1>3, <2>1 DEF Inv, Known, Entitled, Making, Holding, Either,
               Deleting, Settled, WithCreds
<1>4. QED BY <1>1, <1>2, <1>3, Updates DEF CallNames, Holding, Either

\* The record follows the secret's name.
LEMMA MoveSecretStep == ASSUME Inv, MoveSecret PROVE Safe
<1> DEFINE s == [obj.currentSpec.spec EXCEPT !.secretName = obj.spec.secretName]
           c == [obj.currentSpec EXCEPT !.spec = s]
           o == [obj EXCEPT !.currentSpec = c]
<1>1. pc = "moveSecret" /\ pc \in Holding /\ ~obj.deleting
  BY DEF MoveSecret, Holding, Inv, Known, Deleting
<1>2. UpdateResource(o, "desire")
  BY DEF MoveSecret
<1>3. obj \in Object /\ obj.currentSpec \in Current /\ obj.spec.secretName \in SecretNames
  BY <1>1, Copy
<1>4. s \in AccessKeySpec /\ ~s.migrate
  BY <1>3 DEF Current, AccessKeySpec
<1> HIDE DEF s
<1>5. c \in Current
  BY <1>3, <1>4 DEF Current
<1>6. c \in Currents /\ c # Nil
  BY <1>5, AccessKeyAssumption, KubeAssumption
<1> HIDE DEF c
<1>7. /\ o \in Object /\ o.finalizer = obj.finalizer /\ o.deleting = obj.deleting
      /\ o.currentSpec = c
  BY <1>3, <1>6 DEF Object
<1> HIDE DEF o
<1>8. QED BY <1>1, <1>2, <1>6, <1>7, Renews

\* Where the call goes once the secret is as desired.
LEMMA AfterSecretKnown ==
    ASSUME Inv, pc \in Holding \cup Either, ~obj.deleting, obj.finalizer, creds' \in Secret,
           UNCHANGED <<store, lag>>, Proceed(AfterSecret), MinioOK'
    PROVE  Safe
<1>1. /\ AfterSecret \in {"addAccount", "dropMigrate", "check"}
      /\ AfterSecret = "addAccount" => obj.currentSpec = Nil
      /\ AfterSecret # "addAccount" => obj.currentSpec # Nil
      /\ AfterSecret = "check" => ~obj.spec.migrate
  BY DEF AfterSecret
<1>2. pc # "idle" /\ creds' # Absent
  BY AccessKeyAssumption DEF Holding, Either
<1>3. Known'
  BY <1>1, <1>2 DEF Proceed, Known, Entitled, Making, Holding, Either, Deleting, Settled, WithCreds
<1>4. QED BY <1>1, <1>2, <1>3, GoesOn DEF CallNames, Making, Holding

\* A version that is chosen is one.
LEMMA VersionType == ASSUME FreeVersions # {} PROVE NewVersion \in Versions
<1>1. NewVersion \in FreeVersions
  BY DEF NewVersion
<1>2. QED BY <1>1 DEF FreeVersions

\* The desired access key is a key, or there is none.
LEMMA DesireStep == ASSUME Inv, Desire PROVE Safe /\ desired' \in Keys \cup {Nil, desired}
<1>1. pc = "desire" /\ pc # "idle"
  BY DEF Desire
<1>2. MinioOK' /\ UNCHANGED <<store, lag>>
  BY DEF Desire, Keep, minioVars, Inv, MinioOK
<1>3. CASE Stop /\ UNCHANGED desired
  BY <1>2, <1>3, Stops
<1>4. CASE desired' \in DesiredAccessKeys /\ Go("desireSecretKey")
  <2>1. Known'
    BY <1>1, <1>4 DEF Go, Proceed, Inv, Known, Entitled, Making, Holding, Either, Deleting,
       Settled, WithCreds
  <2>2. Safe
    BY <1>1, <1>2, <1>4, <2>1, GoesOn DEF Go, CallNames, Either
  <2>3. /\ obj.spec.accessKey \in Keys \cup {Nil} /\ provided.accessKey \in Keys \cup {Nil}
        /\ creds # Absent => creds.accessKey \in Keys
    BY <1>1, Copy, Contents DEF Inv, Known, MinioOK
  <2>4. DesiredAccessKeys \subseteq Keys \cup {Nil}
    BY <2>3 DEF DesiredAccessKeys, GivenKey
  <2>5. QED BY <1>4, <2>2, <2>4
<1>5. QED BY <1>3, <1>4 DEF Desire

\* With the secret key the desired credentials are complete.
LEMMA DesireSecretKeyStep == ASSUME Inv, DesiredOK, DesireSecretKey PROVE Safe
<1>1. /\ pc = "desireSecretKey" /\ pc # "idle" /\ ~obj.deleting /\ obj.finalizer
      /\ obj.currentSpec = Nil => creds = Absent
  BY DEF DesireSecretKey, Inv, Known, Either, Deleting
<1>2. MinioOK' /\ UNCHANGED <<store, lag>>
  BY DEF DesireSecretKey, Keep, minioVars, Inv, MinioOK
<1>3. CASE Stop
  BY <1>2, <1>3, Stops
<1>4. ASSUME ~SecretKeyMissing(obj.spec), desired # Nil, NEW s \in DesiredSecretKeys,
             IF creds = Absent
             THEN /\ FreeVersions # {}
                  /\ creds' = [accessKey |-> desired, secretKey |-> s, version |-> NewVersion]
                  /\ Proceed("createSecret")
             ELSE /\ creds' = [creds EXCEPT !.accessKey = desired, !.secretKey = s]
                  /\ Proceed(IF creds' = creds THEN AfterSecret ELSE "updateSecret")
      PROVE  Safe
  <2>0. creds \in Secret \cup {Absent} /\ provided.secretKey \in SecretKeys \cup {Nil}
    BY Contents DEF Inv, Known, MinioOK
  <2>1. desired \in Keys
    BY <1>4 DEF DesiredOK
  <2>2. s \in SecretKeys
    BY <1>4, <2>0, Contents DEF SecretKeyMissing, DesiredSecretKeys
  <2>3. CASE creds = Absent
    <3>1. creds' \in Secret
      BY <1>4, <2>1, <2>2, <2>3, VersionType DEF Secret
    <3>2. Known'
      BY <1>1, <1>4, <2>3, <3>1, AccessKeyAssumption DEF Proceed, Known, Entitled, Making,
         Holding, Either, Deleting, Settled, WithCreds
    <3>3. QED BY <1>1, <1>2, <1>4, <2>3, <3>2, GoesOn DEF CallNames, Either
  <2>4. CASE creds # Absent
    <3>1. creds' \in Secret
      BY <1>4, <2>0, <2>1, <2>2, <2>4 DEF Secret
    <3>2. CASE creds' = creds
      BY <1>1, <1>2, <1>4, <2>4, <3>1, <3>2, AfterSecretKnown DEF Either
    <3>3. CASE creds' # creds
      <4>1. Known'
        BY <1>1, <1>4, <2>4, <3>1, <3>3, AccessKeyAssumption DEF Proceed, Known, Entitled, Making,
           Holding, Either, Deleting, Settled, WithCreds
      <4>2. QED BY <1>1, <1>2, <1>4, <2>4, <3>3, <4>1, GoesOn DEF CallNames, Holding
    <3>4. QED BY <3>2, <3>3
  <2>5. QED BY <2>3, <2>4
<1>5. QED BY <1>3, <1>4 DEF DesireSecretKey

\* The secret is created, unless there is one.
LEMMA CreateSecretStep == ASSUME Inv, CreateSecret PROVE Safe
<1>1. /\ pc = "createSecret" /\ creds \in Secret /\ ~obj.deleting /\ obj.finalizer
      /\ UNCHANGED <<store, lag>>
  BY DEF CreateSecret, Inv, Known, Either, Deleting, WithCreds
<1>2. obj.spec.secretName \in SecretNames
  BY <1>1, Copy
<1>3. MinioOK'
  BY <1>1, <1>2 DEF CreateSecret, Inv, MinioOK
<1>4. CASE Stop
  BY <1>1, <1>3, <1>4, Stops
<1>5. CASE Go(AfterSecret)
  BY <1>1, <1>3, <1>5, AfterSecretKnown DEF Go, Either
<1>6. QED BY <1>4, <1>5 DEF CreateSecret

\* It is updated, unless it was written or removed meanwhile.
LEMMA UpdateSecretStep == ASSUME Inv, UpdateSecret PROVE Safe
<1>1. /\ pc = "updateSecret" /\ pc \in Holding /\ creds \in Secret /\ ~obj.deleting
      /\ UNCHANGED <<store, lag>>
  BY DEF UpdateSecret, Inv, Known, Holding, Deleting, WithCreds
<1>2. recorded.secretName \in SecretNames /\ obj.finalizer
  BY <1>1, RecordedSecret, Copy
<1>3. CASE Stop /\ UNCHANGED secrets
  <2>1. MinioOK'
    BY <1>3 DEF UpdateSecret, Inv, MinioOK
  <2>2. QED BY <1>1, <1>3, <2>1, Stops
<1>4. CASE /\ FreeVersions # {} /\ creds' = [creds EXCEPT !.version = NewVersion]
           /\ secrets' = [secrets EXCEPT ![recorded.secretName] = creds']
           /\ Proceed(AfterSecret)
  <2>1. creds' \in Secret
    BY <1>1, <1>4, VersionType DEF Secret
  <2>2. MinioOK'
    BY <1>2, <1>4, <2>1 DEF UpdateSecret, Inv, MinioOK
  <2>3. QED BY <1>1, <1>2, <1>4, <2>1, <2>2, AfterSecretKnown
<1>5. QED BY <1>3, <1>4 DEF UpdateSecret

\* The account is compared with the record.
LEMMA CheckAccountStep == ASSUME Inv, CheckAccount PROVE Safe
<1>1. pc = "check" /\ pc \in Holding
  BY DEF CheckAccount, Holding
<1>2. MinioOK' /\ UNCHANGED <<store, lag>> /\ obj.finalizer
  BY <1>1, Copy DEF CheckAccount, Keep, minioVars, Inv, MinioOK
<1>3. PICK next \in {"regetSecret", "resetAccount", "updateAccount", "setStatus"} : Go(next)
  BY DEF CheckAccount
<1>4. Known'
  BY <1>1, <1>2, <1>3 DEF Go, Proceed, Inv, Known, Entitled, Making, Holding, Either, Deleting,
     Settled, WithCreds
<1>5. QED BY <1>1, <1>2, <1>3, <1>4, GoesOn DEF Go, CallNames, Holding, Either

\* The account is written, if it is still there.
LEMMA UpdateServiceAccountStep ==
    ASSUME Inv, pc \in {"resetAccount", "updateAccount"}, NEW config \in Configs,
           NEW next \in {"updateAccount", "setStatus"}, UpdateServiceAccount(config, next)
    PROVE  Safe
<1>1. pc \in Holding /\ pc # "idle" /\ creds \in Secret /\ UNCHANGED <<store, lag>> /\ obj.finalizer
  BY Copy DEF UpdateServiceAccount, Inv, Known, Holding, WithCreds, Settled
<1>2. [config |-> config, secretKey |-> creds.secretKey] \in Account
  BY <1>1, Contents
<1>3. MinioOK'
  BY <1>1, <1>2 DEF UpdateServiceAccount, Inv, MinioOK
<1>4. CASE Stop
  BY <1>1, <1>3, <1>4, Stops
<1>5. CASE Go(next)
  <2>1. Known'
    BY <1>1, <1>5 DEF Go, Proceed, Inv, Known, Entitled, Making, Holding, Either, Deleting,
       Settled, WithCreds
  <2>2. QED BY <1>1, <1>3, <1>5, <2>1, GoesOn DEF Go, CallNames, Holding, Either
<1>6. QED BY <1>4, <1>5 DEF UpdateServiceAccount

\* It is reset to the record, or brought to the spec.
LEMMA WriteAccountStep == ASSUME Inv, ResetAccount \/ UpdateAccount PROVE Safe
<1>1. pc \in {"resetAccount", "updateAccount"} /\ pc \in Holding /\ pc # "idle"
  BY DEF ResetAccount, UpdateAccount, Holding
<1>2. recorded.config \in Configs /\ obj.spec.config \in Configs
  BY <1>1, Copy DEF recorded
<1>3. QED BY <1>1, <1>2, UpdateServiceAccountStep DEF ResetAccount, UpdateAccount

\* A lost account's secret is looked for and removed.
LEMMA LostAccountStep == ASSUME Inv, RegetSecret \/ RedropSecret PROVE Safe
<1>1. pc \in {"regetSecret", "redropSecret"} /\ pc \in Holding /\ UNCHANGED <<store, lag>>
  BY DEF RegetSecret, RedropSecret, Keep, Holding
<1>2. recorded.secretName \in SecretNames
  BY <1>1, RecordedSecret
<1>3. MinioOK'
  BY <1>2 DEF RegetSecret, RedropSecret, Keep, minioVars, Inv, MinioOK
<1>4. CASE Stop
  BY <1>1, <1>3, <1>4, Stops
<1>5. ASSUME NEW next \in {"redropSecret", "unsetStatus"}, Go(next) PROVE Safe
  <2>1. Known'
    BY <1>1, <1>5 DEF Go, Proceed, Inv, Known, Entitled, Making, Holding, Either, Deleting,
       Settled, WithCreds
  <2>2. QED BY <1>1, <1>3, <1>5, <2>1, GoesOn DEF Go, CallNames, Holding
<1>6. QED BY <1>4, <1>5 DEF RegetSecret, RedropSecret

\* Its record is cleared, only to be written again.
LEMMA UnsetStatusStep == ASSUME Inv, UnsetStatus PROVE Safe
<1> DEFINE o == [obj EXCEPT !.currentSpec = Nil]
<1>1. pc = "unsetStatus" /\ pc \in Holding /\ UpdateResource(o, "setStatus")
  BY DEF UnsetStatus, Holding
<1>2. obj \in Object /\ ~obj.deleting /\ obj.finalizer /\ obj.currentSpec # Nil /\ ~obj.spec.migrate
  BY <1>1, Copy DEF Inv, Known, Deleting, Settled
<1>3. /\ o \in Object /\ o.finalizer = obj.finalizer /\ o.deleting = obj.deleting
      /\ o.currentSpec = Nil /\ o.spec = obj.spec
  BY <1>2 DEF Object
<1> HIDE DEF o
<1>4. Guarded(o) /\ KeyMove(obj, Stored(o))
  BY <1>2, <1>3 DEF Guarded, Stored, KeyMove, Forgets
<1>5. ASSUME pc' = "setStatus" PROVE Known'
  <2>1. obj' = o /\ creds' = creds
    BY <1>1, <1>5 DEF UpdateResource, Update, UpdateAccepted, UpdateRejected, Return
  <2>2. QED BY <1>1, <1>2, <1>3, <1>5, <2>1 DEF Inv, Known, Entitled, Making, Holding, Either,
               Deleting, Settled, WithCreds
<1>6. QED BY <1>1, <1>2, <1>3, <1>4, <1>5, Updates DEF CallNames, Either

\* The status is set on a resource that has the finalizer, whether it has a
\* record or not.
LEMMA Writes ==
    ASSUME Inv, pc \in {"setStatus", "newStatus"}, NEW o \in Object, UpdateResource(o, "idle"),
           o.finalizer = obj.finalizer, o.deleting = obj.deleting, o.currentSpec \in Currents
    PROVE  Safe
<1>1. obj \in Object /\ obj.finalizer /\ ~obj.deleting /\ pc # "idle"
  BY Copy DEF Inv, Known, Entitled, Making, Either, Deleting
<1>2. o.currentSpec # Nil
  BY KubeAssumption
<1>3. Guarded(o) /\ KeyMove(obj, Stored(o))
  BY <1>1, <1>2 DEF Guarded, Stored, KeyMove, Records, Alike
<1>4. QED BY <1>1, <1>3, Updates DEF CallNames

\* The spec is recorded again.
LEMMA RecordSpecStep == ASSUME Inv, RecordSpec PROVE Safe
<1> DEFINE c == [spec |-> obj.spec, version |-> creds.version]
           o == [obj EXCEPT !.currentSpec = c]
<1>1. pc = "setStatus" /\ UpdateResource(o, "idle")
  BY DEF RecordSpec
<1>2. obj \in Object /\ obj.spec \in AccessKeySpec /\ ~obj.spec.migrate /\ creds \in Secret
  BY <1>1, Copy DEF Inv, Known, Settled, WithCreds
<1>3. c \in Current
  BY <1>2, Contents DEF Current
<1>4. c \in Currents
  BY <1>3, AccessKeyAssumption
<1> HIDE DEF c
<1>5. o \in Object /\ o.finalizer = obj.finalizer /\ o.deleting = obj.deleting /\ o.currentSpec = c
  BY <1>2, <1>4 DEF Object
<1> HIDE DEF o
<1>6. QED BY <1>1, <1>4, <1>5, Writes

\* The new account is recorded under its access key.
LEMMA NewStatusStep == ASSUME Inv, NewStatus PROVE Safe
<1> DEFINE s == [obj.spec EXCEPT !.migrate = FALSE, !.accessKey = creds.accessKey]
           c == [spec |-> s, version |-> creds.version]
           o == [obj EXCEPT !.spec = s, !.currentSpec = c]
<1>1. pc = "newStatus" /\ UpdateResource(o, "idle")
  BY DEF NewStatus
<1>2. obj \in Object /\ obj.spec \in Specs /\ obj.spec \in AccessKeySpec /\ creds \in Secret
  BY <1>1, Copy DEF Inv, Known, Making, WithCreds
<1>3. creds.accessKey \in Keys /\ creds.version \in Versions
  BY <1>2, Contents
<1>4. s \in Specs
  BY <1>2, <1>3, AccessKeyAssumption
<1>5. s \in AccessKeySpec /\ ~s.migrate
  BY <1>2, <1>3 DEF AccessKeySpec
<1> HIDE DEF s
<1>6. c \in Current
  BY <1>3, <1>5 DEF Current
<1>7. c \in Currents
  BY <1>6, AccessKeyAssumption
<1> HIDE DEF c
<1>8. o \in Object /\ o.finalizer = obj.finalizer /\ o.deleting = obj.deleting /\ o.currentSpec = c
  BY <1>2, <1>4, <1>7 DEF Object
<1> HIDE DEF o
<1>9. QED BY <1>1, <1>7, <1>8, Writes

\* An account is made, found, or not made after all.
LEMMA AddAccountStep == ASSUME Inv, AddAccount \/ AddAccountFails PROVE Safe
<1>1. pc = "addAccount" /\ creds \in Secret /\ UNCHANGED <<store, lag>>
  BY DEF AddAccount, AddAccountFails, Inv, Known, Making, WithCreds
<1>2. [config |-> obj.spec.config, secretKey |-> creds.secretKey] \in Account /\ creds.accessKey \in Keys
  BY <1>1, Copy, Contents
<1>3. MinioOK'
  BY <1>2 DEF AddAccount, AddAccountFails, Inv, MinioOK
<1>4. PICK next \in {"newStatus", "undoSecret"} : Go(next)
  BY DEF AddAccount, AddAccountFails
<1>5. Known'
  BY <1>1, <1>4 DEF Go, Proceed, Inv, Known, Entitled, Making, Holding, Either, Deleting,
     Settled, WithCreds
<1>6. QED BY <1>1, <1>3, <1>4, <1>5, GoesOn DEF Go, CallNames, Making

\* The secret of an account that was not made goes again.
LEMMA UndoSecretStep == ASSUME Inv, UndoSecret PROVE Safe
<1>1. pc = "undoSecret" /\ Stop /\ UNCHANGED <<store, lag>>
  BY DEF UndoSecret
<1>2. obj.spec.secretName \in SecretNames
  BY <1>1, Copy
<1>3. MinioOK'
  BY <1>2 DEF UndoSecret, Inv, MinioOK
<1>4. QED BY <1>1, <1>3, Stops

\* The updates of the finalizer and of the migrate field.
LEMMA BookkeepingSafe ==
    ASSUME Inv, UNCHANGED minioVars,
           \/ (AddFinalizer \/ ClearFinalizer) /\ creds' = Absent
           \/ DropMigrate /\ creds' = (IF pc' = "idle" THEN Absent ELSE creds)
    PROVE  Safe
<1>1. CASE AddFinalizer /\ creds' = Absent
  <2> DEFINE o == [obj EXCEPT !.finalizer = TRUE]
  <2>1. pc = "addFinalizer" /\ Update(o, "idle") /\ obj \in Object /\ ~obj.deleting
    BY <1>1, Copy DEF AddFinalizer, Inv, Known, Entitled
  <2>2. /\ o \in Object /\ o.finalizer /\ ~o.deleting /\ o.currentSpec = obj.currentSpec
        /\ obj.finalizer => o = obj
    BY <2>1 DEF Object
  <2> HIDE DEF o
  <2>3. UpdateResource(o, "idle")
    BY <1>1, <2>1 DEF UpdateResource, Update, UpdateAccepted, UpdateRejected, Return
  <2>4. Guarded(o) /\ (o = obj \/ KeyMove(obj, Stored(o)))
    BY <2>1, <2>2 DEF Guarded, Stored, KeyMove, Alike
  <2>5. QED BY <2>1, <2>2, <2>3, <2>4, Updates DEF CallNames
<1>2. CASE ClearFinalizer /\ creds' = Absent
  <2> DEFINE o == [obj EXCEPT !.finalizer = FALSE]
  <2>1. /\ pc = "clearFinalizer" /\ Update(o, "idle") /\ obj \in Object /\ obj.deleting
        /\ obj.currentSpec = Nil
    BY <1>2, Copy DEF ClearFinalizer, Inv, Known, Entitled
  <2>2. o \in Object /\ ~o.finalizer /\ o.deleting /\ o.currentSpec = Nil
    BY <2>1 DEF Object
  <2> HIDE DEF o
  <2>3. UpdateResource(o, "idle")
    BY <1>2, <2>1 DEF UpdateResource, Update, UpdateAccepted, UpdateRejected, Return
  <2>4. Guarded(o) /\ KeyMove(obj, Stored(o))
    BY <2>1, <2>2 DEF Guarded, Stored, KeyMove, Vanishes
  <2>5. QED BY <2>1, <2>2, <2>3, <2>4, Updates DEF CallNames
<1>3. CASE DropMigrate /\ creds' = (IF pc' = "idle" THEN Absent ELSE creds)
  <2> DEFINE s == [obj.spec EXCEPT !.migrate = FALSE]
             o == [obj EXCEPT !.spec = s]
  <2>1. /\ pc = "dropMigrate" /\ pc \in Holding /\ UpdateResource(o, "check")
        /\ ~obj.deleting /\ creds # Absent
    BY <1>3 DEF DropMigrate, UpdateResource, Holding, Inv, Known, Deleting, WithCreds
  <2>2. obj \in Object /\ obj.spec \in Specs /\ obj.spec \in AccessKeySpec /\ obj.currentSpec # Nil
    BY <2>1, Copy
  <2>3. s = [obj.spec EXCEPT !.migrate = FALSE, !.accessKey = obj.spec.accessKey]
    BY <2>2 DEF AccessKeySpec
  <2>4. s \in Specs
    BY <2>2, <2>3, AccessKeyAssumption
  <2>5. ~s.migrate
    BY <2>2 DEF AccessKeySpec
  <2> HIDE DEF s
  <2>6. /\ o \in Object /\ o.finalizer = obj.finalizer /\ o.deleting = obj.deleting
        /\ o.currentSpec = obj.currentSpec /\ o.spec = s
    BY <2>2, <2>4 DEF Object
  <2> HIDE DEF o
  <2>7. QED BY <2>1, <2>2, <2>5, <2>6, Renews
<1>4. QED BY <1>1, <1>2, <1>3

\* Every call but those of getDesiredCredentials is safe.
LEMMA OtherCallStep == ASSUME Inv, OtherCall PROVE Safe
BY BookkeepingSafe, FindAccountStep, DeleteAccountStep, ClearRecordStep, GetSecretStep,
   DropSecretStep, MoveSecretStep, CreateSecretStep, UpdateSecretStep, CheckAccountStep,
   WriteAccountStep, LostAccountStep, UnsetStatusStep, RecordSpecStep, AddAccountStep,
   UndoSecretStep, NewStatusStep DEF OtherCall

\* So is every step of the controller.
LEMMA ControllerStep == ASSUME Inv, DesiredOK, Controller PROVE Safe /\ DesiredOK'
<1>1. CASE Desire
  BY <1>1, DesireStep DEF DesiredOK
<1>2. CASE DesireSecretKey
  <2>1. desired' = Nil
    BY <1>2 DEF DesireSecretKey
  <2>2. QED BY <1>2, <2>1, DesireSecretKeyStep DEF DesiredOK
<1>3. CASE OtherCall /\ UNCHANGED desired
  BY <1>3, OtherCallStep DEF DesiredOK
<1>4. ASSUME NEW r \in Resources, Deliver(r), UNCHANGED <<minioVars, creds, desired>>
      PROVE  Safe /\ DesiredOK'
  <2>1. KubeTypeOK' /\ KubeInv'
    BY <1>4, DeliverInv DEF Inv
  <2>2. UNCHANGED <<store, pc, obj>>
    BY <1>4 DEF Deliver, callVars
  <2>3. MinioOK' /\ Known' /\ DesiredOK'
    BY <1>4, <2>2 DEF minioVars, Inv, MinioOK, Known, Entitled, DesiredOK
  <2>4. QED BY <2>1, <2>2, <2>3, StillKeyKept DEF Safe, Inv
<1>5. ASSUME NEW r \in Resources, Start(r) PROVE Safe /\ DesiredOK'
  BY <1>5, StartStep DEF Start, DesiredOK
<1>6. QED BY <1>1, <1>2, <1>3, <1>4, <1>5 DEF Controller, Reconcile

\* So is every one of others, in Kubernetes and in MinIO.
LEMMA EnvironmentStep == ASSUME Inv, DesiredOK, Environment PROVE Safe /\ DesiredOK'
<1>0. DesiredOK'
  BY DEF Environment, DesiredOK
<1>1. ASSUME Fault, creds' = Absent, UNCHANGED minioVars PROVE Safe
  <2>1. MinioOK'
    BY <1>1 DEF minioVars, Inv, MinioOK
  <2>2. QED BY <1>1, <2>1, Stops DEF Fault, Stop
<1>2. ASSUME NEW r \in Resources, UserStep(r), UNCHANGED <<minioVars, creds>> PROVE Safe
  <2>1. PICK v \in Version : UserCommit(r, v) /\ Guarded(v) /\ Move(store[r], v)
    BY <1>2, UserMoves DEF Inv
  <2>2. KubeTypeOK' /\ KubeInv'
    BY <2>1, UserCommitInv DEF Inv
  <2>3. KeyKept
    BY <2>1, MoveIsKeyMove, KeyMoveKept DEF UserCommit, Commit, Inv, KubeTypeOK
  <2>4. MinioOK' /\ Known' /\ pc' = pc
    BY <1>2, <2>1 DEF UserCommit, minioVars, Inv, MinioOK, Known, Entitled
  <2>5. QED BY <2>2, <2>3, <2>4 DEF Safe, Inv
<1>3. ASSUME UNCHANGED <<kubeVars, creds>>,
             \/ \E k \in Keys : ExternalAdd(k) \/ ExternalChange(k) \/ ExternalRemove(k)
             \/ \E n \in SecretNames : RemoveSecret(n)
             \/ ProvideKey
      PROVE  Safe
  <2>1. ASSUME NEW k \in Keys, ExternalChange(k) PROVE MinioOK'
    <3>1. accounts[k] \in Account
      BY <2>1 DEF ExternalChange, Inv, MinioOK
    <3>2. PICK c \in Configs, s \in SecretKeys \cup {Theirs} :
             /\ accounts' = [accounts EXCEPT ![k] = [config |-> c, secretKey |-> s]]
             /\ migrated' \subseteq migrated
      BY <2>1, <3>1, Contents DEF ExternalChange
    <3>3. [config |-> c, secretKey |-> s] \in Account
      BY Contents
    <3>4. QED BY <2>1, <3>2, <3>3 DEF ExternalChange, Inv, MinioOK
  <2>2. ASSUME NEW k \in Keys, ExternalAdd(k) \/ ExternalRemove(k) PROVE MinioOK'
    BY <2>2, Contents DEF ExternalAdd, ExternalRemove, Inv, MinioOK
  <2>3. ASSUME NEW n \in SecretNames, RemoveSecret(n) PROVE MinioOK'
    BY <2>3 DEF RemoveSecret, Inv, MinioOK
  <2>4. ASSUME ProvideKey PROVE MinioOK'
    BY <2>4 DEF ProvideKey, Inv, MinioOK
  <2>5. MinioOK'
    BY <1>3, <2>1, <2>2, <2>3, <2>4
  <2>6. QED BY <1>3, <2>5, ElsewhereSafe
<1>4. QED BY <1>0, <1>1, <1>2, <1>3, AddAccountStep DEF Environment

\* The invariant is inductive, and every step is safe.
LEMMA NextStep == ASSUME Inv, DesiredOK, [Next]_vars PROVE Safe /\ DesiredOK'
<1>1. CASE Next
  BY <1>1, ControllerStep, EnvironmentStep DEF Next
<1>2. CASE UNCHANGED vars
  <2>1. MinioOK'
    BY <1>2 DEF vars, minioVars, Inv, MinioOK
  <2>2. QED BY <1>2, <2>1, ElsewhereSafe DEF vars, DesiredOK
<1>3. QED BY <1>1, <1>2

-----------------------------------------------------------------------------
(* The theorems.                                                           *)

\* Resources, generated secrets, service accounts and the call's state are
\* always of the declared type: in particular whatever is recorded is a spec
\* that no longer migrates with the version of a secret that was written.
THEOREM TypeCorrect == Spec => []TypeOK
<1>1. Init => Inv /\ DesiredOK
  BY InitInv
<1>2. Inv /\ DesiredOK /\ [Next]_vars => Inv' /\ DesiredOK'
  BY NextStep DEF Safe
<1>3. Inv /\ DesiredOK => TypeOK
  BY InvImplies
<1>4. QED BY <1>1, <1>2, <1>3, PTL DEF Spec

\* In every order of lost secrets, lost accounts, conflicts, stale reads and
\* restarts, Reconcile is at a call its copy of the MinioAccessKey entitles it
\* to, and has credentials in hand whenever the call names an access key or a
\* resourceVersion.
THEOREM CallsEntitled == Spec => []CallInv
<1>1. Init => Inv /\ DesiredOK
  BY InitInv
<1>2. Inv /\ DesiredOK /\ [Next]_vars => Inv' /\ DesiredOK'
  BY NextStep DEF Safe
<1>3. Inv /\ DesiredOK => CallInv
  BY InvImplies
<1>4. QED BY <1>1, <1>2, <1>3, PTL DEF Spec

\* The controller of a MinioAccessKey implements module Lifecycle, even where
\* updateAccessKey clears the status of a lost account and Reconcile sets it
\* again in the same call: it is held before it records anything, records
\* nothing once it is deleted, and goes only without a record.
THEOREM Refinement == Spec => FollowsLifecycle
<1>1. Init => Inv /\ DesiredOK /\ KeyLife!Init
  BY InitInv DEF Init, KubeInit, KeyLife!Init, existing, held, dying, keyRecord, Recorded
<1>2. Inv /\ DesiredOK /\ [Next]_vars => Inv' /\ DesiredOK' /\ [KeyLife!Next]_(KeyLife!lifeVars)
  BY NextStep DEF Safe, KeyKept
<1>3. QED BY <1>1, <1>2, PTL DEF Spec, FollowsLifecycle, KeyLife!Spec
=============================================================================
