-------------------------------- MODULE Iam ---------------------------------
(***************************************************************************)
(* The identities MinIO's admin interface keeps, as the reconcilers use    *)
(* it: policies, users, groups with their members, and the policies        *)
(* attached to users and groups.  A name stands for the pair of a tenant   *)
(* and a name.  MinIO itself is not part of the repository.                *)
(***************************************************************************)
EXTENDS Naturals

CONSTANTS
    PolicyNames, Contents,   \* names and contents of policies
    Users, Groups,           \* access keys of users and names of groups
    SecretKeys,              \* secret keys of users
    NoEntry                  \* no such policy, user or group

Entities == Users \cup Groups

ASSUME IamAssumption ==
    /\ NoEntry \notin Contents
    /\ NoEntry \notin SecretKeys
    /\ \A members \in SUBSET Users : members # NoEntry
    /\ Users \cap Groups = {}

VARIABLES
    policies,   \* the content of each policy
    users,      \* the secret key of each user
    groups,     \* the members of each group
    attached    \* the pairs of a user or group and a policy attached to it

iamVars == <<policies, users, groups, attached>>

IamTypeOK ==
    /\ policies \in [PolicyNames -> Contents \cup {NoEntry}]
    /\ users \in [Users -> SecretKeys \cup {NoEntry}]
    /\ groups \in [Groups -> {NoEntry} \cup SUBSET Users]
    /\ attached \subseteq Entities \X PolicyNames

-----------------------------------------------------------------------------
(* Policies.                                                               *)

HasPolicy(n) == policies[n] # NoEntry
InUse(n) == \E e \in Entities : <<e, n>> \in attached

\* AddCannedPolicy writes a policy, whether or not there was one.
AddCannedPolicy(n, content) ==
    /\ policies' = [policies EXCEPT ![n] = content]
    /\ UNCHANGED <<users, groups, attached>>

\* RemoveCannedPolicy of a policy that is in use is an error; of one that
\* does not exist, it is not.
DropPolicy(n) ==
    /\ policies' = [policies EXCEPT ![n] = NoEntry]
    /\ UNCHANGED <<users, groups, attached>>

-----------------------------------------------------------------------------
(* Users and groups.                                                       *)

HasUser(u) == users[u] # NoEntry
HasGroup(g) == groups[g] # NoEntry
HasEntity(e) == (e \in Users /\ HasUser(e)) \/ (e \in Groups /\ HasGroup(e))

\* AddUser makes a user or replaces its secret key.
AddUser(u, key) ==
    /\ users' = [users EXCEPT ![u] = key]
    /\ UNCHANGED <<policies, groups, attached>>

\* RemoveUser takes the user's memberships and policies with it.
DropUser(u) ==
    /\ users' = [users EXCEPT ![u] = NoEntry]
    /\ groups' = [g \in Groups |-> IF HasGroup(g) THEN groups[g] \ {u} ELSE NoEntry]
    /\ attached' = attached \ ({u} \X PolicyNames)
    /\ UNCHANGED policies

\* UpdateGroupMembers with no members makes an empty group of one that does
\* not exist; with IsRemove it removes an empty group.
DropGroupError(g) ==
    IF ~HasGroup(g) THEN "NoSuchGroup" ELSE IF groups[g] # {} THEN "GroupNotEmpty" ELSE "none"

MakeGroup(g) ==
    /\ groups' = [groups EXCEPT ![g] = IF HasGroup(g) THEN @ ELSE {}]
    /\ UNCHANGED <<policies, users, attached>>

DropGroup(g) ==
    /\ groups' = [groups EXCEPT ![g] = NoEntry]
    /\ attached' = attached \ ({g} \X PolicyNames)
    /\ UNCHANGED <<policies, users>>

SetMembers(g, members) ==
    /\ groups' = [groups EXCEPT ![g] = members]
    /\ UNCHANGED <<policies, users, attached>>

\* UpdateGroupMembers with a member looks up the user first; adding to a group
\* that does not exist makes it, removing one that is no member is no error.
IsMember(g, u) == HasGroup(g) /\ u \in groups[g]
AddMember(g, u) == SetMembers(g, IF HasGroup(g) THEN groups[g] \cup {u} ELSE {u})
RemoveMember(g, u) == SetMembers(g, groups[g] \ {u})

RemoveMemberError(g, u) ==
    IF ~HasUser(u) THEN "NoSuchUser" ELSE IF ~HasGroup(g) THEN "NoSuchGroup" ELSE "none"

\* Somebody else makes and removes a user, or a group.
OtherUser(u) ==
    \/ HasUser(u) /\ DropUser(u)
    \/ ~HasUser(u) /\ \E k \in SecretKeys : AddUser(u, k)

OtherGroup(g) ==
    \/ DropGroupError(g) = "none" /\ DropGroup(g)
    \/ ~HasGroup(g) /\ MakeGroup(g)

-----------------------------------------------------------------------------
(* Attaching policies.  The entity is looked up first.                     *)

AttachError(e, n) ==
    IF ~HasEntity(e) THEN "NoSuchEntity"
    ELSE IF ~HasPolicy(n) THEN "NoSuchPolicy"
    ELSE IF <<e, n>> \in attached THEN "AlreadyApplied"
    ELSE "none"

DetachError(e, n) ==
    IF ~HasEntity(e) THEN "NoSuchEntity"
    ELSE IF <<e, n>> \notin attached THEN "AlreadyApplied"
    ELSE "none"

Attach(e, n) ==
    /\ attached' = attached \cup {<<e, n>>}
    /\ UNCHANGED <<policies, users, groups>>

Detach(e, n) ==
    /\ attached' = attached \ {<<e, n>>}
    /\ UNCHANGED <<policies, users, groups>>

=============================================================================
