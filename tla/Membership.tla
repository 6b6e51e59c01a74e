----------------------------- MODULE Membership -----------------------------
(***************************************************************************)
(* Families, their members and the roles they hold                         *)
(* (src/src/server/family-members.ts, onboarding-service.ts,               *)
(* middleware/authz.ts, middleware/session.ts, auth.server.ts, and the     *)
(* last-owner trigger of the family_membership migration).                 *)
(*                                                                         *)
(* A call runs in two database transactions.  The middleware reads the     *)
(* actor's role in one (Authorize); the handler changes rows in another,   *)
(* with the role it was given (Begin, Commit).  The second runs on a       *)
(* snapshot and overlaps others.  PostgreSQL's SERIALIZABLE keeps those    *)
(* apart: it refuses a commit that overwrites a row changed since the      *)
(* snapshot, and one that would close a cycle of overlooked writes.        *)
(*                                                                         *)
(* Which family a call is for says User.familyId, a pointer that the user  *)
(* may also set through the authentication library: familyId is one of its *)
(* additional fields, and its handler is mounted as it is.  Nothing but    *)
(* the foreign key checks what they set.                                   *)
(*                                                                         *)
(* Keys and replays are the subject of module Requests.                    *)
(***************************************************************************)
EXTENDS Integers, FiniteSets

CONSTANTS
  Users,
  Families,    \* the families that may be founded
  Handlers,    \* server-side executions that may overlap
  Roles,       \* the roles a client may ask for
  MaxCalls,    \* bound on the calls that pass the middleware
  MaxUpdates,  \* bound on the users' own changes of their pointer
  Nobody       \* no family, no member row

ASSUME MembershipAssumption ==
  /\ Roles \subseteq {"owner", "admin", "member", "viewer"}
  /\ MaxCalls \in Nat /\ MaxUpdates \in Nat
  /\ Nobody \notin Families

VARIABLES
  member,      \* family -> user -> FamilyMember row, or Nobody
  home,        \* user -> User.familyId, or Nobody
  handler,     \* Handlers -> the call it runs
  calls,       \* how many calls have passed the middleware
  updates      \* how often users have set their pointer themselves

vars == <<member, home, handler, calls, updates>>

-----------------------------------------------------------------------------
(* Rows, requests and rights. *)

AllRoles == {"owner", "admin", "member", "viewer"}
Row == [role: AllRoles, status: {"active", "revoked"}]
Table == [Users -> Row \cup {Nobody}]

ASSUME NobodyIsNoRow == Nobody \notin Row

Active(table, u) == table[u] # Nobody /\ table[u].status = "active"
Owner(table, u) == Active(table, u) /\ table[u].role = "owner"

\* Family rows come and stay with the first member row.
Founded(f) == \E u \in Users : member[f][u] # Nobody

Request ==
  [op: {"add", "update"}, target: Users, role: Roles]
    \cup [op: {"remove", "transfer"}, target: Users]

\* ROLE_CAPABILITIES for the capability that each server function requires.
Capable(role, req) ==
  IF req.op = "transfer" THEN role = "owner" ELSE role \in {"owner", "admin"}

MayAssign(role, new) ==
  \/ role = "owner"
  \/ role = "admin" /\ new \in {"member", "viewer"}

MayManage(role, current) ==
  \/ role = "owner"
  \/ role = "admin" /\ current \in {"member", "viewer"}

Idle == [pc |-> "idle"]
\* context.familyId and context.role are those that the middleware saw.
Waiting(actor, family, role, req) ==
  [pc |-> "ready", actor |-> actor, family |-> family, role |-> role, req |-> req]

\* An open database transaction.  changed: the rows that others have committed
\* since the snapshot.  pivot: one of them read what this one overwrites after
\* this one had overlooked a write.  doomed: the mirror image.  moved: the
\* target's pointer was set by a statement that is not SERIALIZABLE.
Open(call, snap, homeless) ==
  [pc |-> "open", actor |-> call.actor, family |-> call.family, role |-> call.role,
   req |-> call.req, snap |-> snap, homeless |-> homeless, changed |-> {},
   pivot |-> FALSE, doomed |-> FALSE, moved |-> FALSE]

-----------------------------------------------------------------------------
(* What a call decides on its snapshot. *)

\* countActiveOwners: u is not the last active owner.
NotLastOwner(table, u) == \E v \in Users \ {u} : Owner(table, v)

\* The handlers, each as the set of member tables it may leave: none if it
\* refuses the call, and one otherwise.

\* addMemberForFamily: a row that is there, revoked or not, is managed again.
AddMember(table, role, t, new) ==
  IF table[t] # Nobody /\ ~MayManage(role, table[t].role) THEN {}
  ELSE {[table EXCEPT ![t] = [role |-> new, status |-> "active"]]}

\* updateMemberRoleForFamily
UpdateRole(table, role, t, new) ==
  IF /\ Active(table, t)
     /\ MayManage(role, table[t].role)
     /\ MayAssign(role, new)
     /\ Owner(table, t) /\ new # "owner" => NotLastOwner(table, t)
  THEN {[table EXCEPT ![t].role = new]} ELSE {}

\* removeMemberForFamily: revoking twice changes nothing.
RemoveMember(table, role, t) ==
  IF /\ table[t] # Nobody
     /\ table[t].status # "revoked"
     /\ MayManage(role, table[t].role)
     /\ Owner(table, t) => NotLastOwner(table, t)
  THEN {[table EXCEPT ![t].status = "revoked"]} ELSE {}

\* transferOwnershipForFamily: the target is promoted, the actor demoted.
TransferOwnership(table, actor, t) ==
  IF Owner(table, actor) /\ Active(table, t)
  THEN {[table EXCEPT ![t].role = "owner", ![actor].role = "admin"]} ELSE {}

Outcome(table, call) ==
  LET req == call.req IN
  CASE req.op = "add" -> AddMember(table, call.role, req.target, req.role)
    [] req.op = "update" -> UpdateRole(table, call.role, req.target, req.role)
    [] req.op = "remove" -> RemoveMember(table, call.role, req.target)
    [] req.op = "transfer" -> TransferOwnership(table, call.actor, req.target)

\* enforce_family_has_owner: no update takes the last active owner away.
TriggerPasses(before, after) ==
  (\E u \in Users : Owner(before, u) /\ ~Owner(after, u))
    => \E v \in Users : Owner(after, v)

\* Faulty variant: the policies look at the tenant alone.
PolicyOpen(before, after, actor) == TRUE

\* app_is_active_member in the policies of the record and audit tables, before
\* and after the update: nobody who is revoked writes, and nobody can revoke
\* themselves.
PolicyPasses(before, after, actor) == Active(before, actor) /\ Active(after, actor)

Accepted(table, call) ==
  \E after \in Outcome(table, call) :
    /\ TriggerPasses(table, after)
    /\ PolicyPasses(table, after, call.actor)

\* The member rows that an accepted call leaves in its own snapshot.
After(tx) == CHOOSE after \in Outcome(tx.snap, tx) : TRUE

-----------------------------------------------------------------------------
(* Conflicts. *)

MemberRow(f, u) == <<"FamilyMember", f, u>>
UserRow(u) == <<"User", u>>

\* Faulty variant: a user who has a home is taken over.
AdoptsAlways(tx) == tx.req.op = "add"

\* The row whose familyId is set for a user who had none.
Adopts(tx) == tx.req.op = "add" /\ tx.homeless

Written(tx) ==
  {MemberRow(tx.family, tx.req.target)}
    \cup (IF tx.req.op = "transfer" THEN {MemberRow(tx.family, tx.actor)} ELSE {})
    \cup (IF Adopts(tx) THEN {UserRow(tx.req.target)} ELSE {})

\* Whether an owner steps down, so that the other owners are counted.
StepsDown(tx) ==
  \E u \in Users : Owner(tx.snap, u) /\ ~Owner(After(tx), u)

Read(tx) ==
  {MemberRow(tx.family, u) : u \in IF StepsDown(tx) THEN Users
                                   ELSE {tx.actor, tx.req.target}}
    \cup (IF tx.req.op = "add" THEN {UserRow(tx.req.target)} ELSE {})

\* Faulty variant: REPEATABLE READ, which refuses overwrites only.
SerializableNever(tx) == Written(tx) \cap tx.changed = {}

\* What PostgreSQL lets commit under SERIALIZABLE.  An overwrite is refused
\* whoever changed the row; the cycles are looked for among SERIALIZABLE
\* transactions only.
Serializable(tx) ==
  /\ Written(tx) \cap tx.changed = {}
  /\ ~(Adopts(tx) /\ tx.moved)
  /\ ~tx.doomed
  /\ ~(tx.pivot /\ Read(tx) \cap tx.changed # {})

\* What a commit that read and wrote those rows means for an open g.
Overlapped(g, read, written, overlooked) ==
  LET changed == g.changed \cup written
  IN [g EXCEPT !.changed = changed,
               !.pivot = @ \/ (/\ read \cap Written(g) # {}
                                /\ Read(g) \cap changed # {}),
               !.doomed = @ \/ (overlooked /\ Read(g) \cap written # {})]

Others(h, read, written, overlooked) ==
  [g \in Handlers |->
     IF g # h /\ handler[g].pc = "open"
     THEN Overlapped(handler[g], read, written, overlooked) ELSE handler[g]]

-----------------------------------------------------------------------------
Init ==
  /\ member = [f \in Families |-> [u \in Users |-> Nobody]]
  /\ home = [u \in Users |-> Nobody]
  /\ handler = [h \in Handlers |-> Idle]
  /\ calls = 0
  /\ updates = 0

(* initializeOnboardingForUser.  The user's row is locked first, so a      *)
(* conflicting call waits or is retried: one step.                         *)
Onboard(u, f) ==
  /\ home[u] = Nobody
  /\ ~Founded(f)
  /\ home' = [home EXCEPT ![u] = f]
  /\ member' = [member EXCEPT ![f][u] = [role |-> "owner", status |-> "active"]]
  /\ handler' = [g \in Handlers |->
                   IF handler[g].pc = "open"
                   THEN Overlapped(handler[g], {UserRow(u)}, {UserRow(u)}, FALSE)
                   ELSE handler[g]]
  /\ UNCHANGED <<calls, updates>>

(* auth.handler: the user sets familyId to any family there is, or to null,*)
(* when they sign up or later.                                             *)
UpdateUser(u, f) ==
  /\ updates < MaxUpdates
  /\ f # Nobody => Founded(f)
  /\ home' = [home EXCEPT ![u] = f]
  /\ handler' = [g \in Handlers |->
                   IF handler[g].pc = "open" /\ handler[g].req.target = u
                   THEN [handler[g] EXCEPT !.moved = TRUE] ELSE handler[g]]
  /\ updates' = updates + 1
  /\ UNCHANGED <<member, calls>>

(* familyMiddleware and requireCapability, and the check of the requested  *)
(* role that addMemberForFamily makes before its transaction.              *)
Authorize(h, u, req) ==
  /\ handler[h].pc = "idle"
  /\ calls < MaxCalls
  /\ home[u] # Nobody
  /\ LET table == member[home[u]] IN
       /\ Active(table, u)
       /\ Capable(table[u].role, req)
       /\ req.op = "add" => MayAssign(table[u].role, req.role)
       /\ req.op = "transfer" => req.target # u
       /\ handler' = [handler EXCEPT ![h] = Waiting(u, home[u], table[u].role, req)]
  /\ calls' = calls + 1
  /\ UNCHANGED <<member, home, updates>>

\* The handler's transaction takes its snapshot.
Begin(h) ==
  LET call == handler[h]
      table == member[call.family]
  IN
  /\ call.pc = "ready"
  /\ handler' = [handler EXCEPT ![h] =
                   IF Accepted(table, call)
                   THEN Open(call, table, home[call.req.target] = Nobody)
                   ELSE Idle]
  /\ UNCHANGED <<member, home, calls, updates>>

Commit(h) ==
  LET tx == handler[h]
      after == After(tx)
  IN
  /\ tx.pc = "open"
  /\ Serializable(tx)
  /\ member' = [member EXCEPT ![tx.family] =
                  [u \in Users |-> IF MemberRow(tx.family, u) \in Written(tx)
                                   THEN after[u] ELSE @[u]]]
  /\ home' = IF Adopts(tx) THEN [home EXCEPT ![tx.req.target] = tx.family] ELSE home
  /\ handler' = [Others(h, Read(tx), Written(tx), Read(tx) \cap tx.changed # {})
                   EXCEPT ![h] = Idle]
  /\ UNCHANGED <<calls, updates>>

\* 40001: withSerializableRetry runs the handler again, with the same role.
Retry(h) ==
  LET tx == handler[h] IN
  /\ tx.pc = "open"
  /\ tx.changed # {} \/ tx.moved
  /\ handler' = [handler EXCEPT ![h] = Waiting(tx.actor, tx.family, tx.role, tx.req)]
  /\ UNCHANGED <<member, home, calls, updates>>

\* The retries are used up, or the process dies.
GiveUp(h) ==
  /\ handler[h].pc # "idle"
  /\ handler' = [handler EXCEPT ![h] = Idle]
  /\ UNCHANGED <<member, home, calls, updates>>

Next ==
  \/ \E u \in Users, f \in Families : Onboard(u, f)
  \/ \E u \in Users, f \in Families \cup {Nobody} : UpdateUser(u, f)
  \/ \E h \in Handlers, u \in Users, req \in Request : Authorize(h, u, req)
  \/ \E h \in Handlers : Begin(h)
  \/ \E h \in Handlers : Commit(h)
  \/ \E h \in Handlers : Retry(h)
  \/ \E h \in Handlers : GiveUp(h)

Spec == Init /\ [][Next]_vars

-----------------------------------------------------------------------------
(* Properties. *)

\* The tables hold rows, and a call in progress is for a founded family.
TypeOK ==
  /\ member \in [Families -> Table]
  /\ home \in [Users -> Families \cup {Nobody}]
  /\ calls \in 0..MaxCalls /\ updates \in 0..MaxUpdates
  /\ \A h \in Handlers : handler[h].pc # "idle" => Founded(handler[h].family)

\* ADR-0036: a family that was founded has an active owner at any time, however
\* owners demote, remove and re-add each other and themselves at once.
FamilyHasOwner ==
  \A f \in Families : Founded(f) => \E u \in Users : Owner(member[f], u)

\* Onboarding and being added to a family never take over a user who points at
\* a family (family-members.ts: those "keep that pointer"), although both read
\* the pointer before they set it, and the family they give is one where the
\* user is an active member; a member row stays when revoked.  The pointer
\* itself is not for good: the exception are the users themselves, who may set
\* it to any family, or to none, through auth.handler (counted in updates).
HandlersKeepHomes ==
  [][/\ \A u \in Users : updates' = updates /\ home'[u] # home[u] =>
          home[u] = Nobody /\ Active(member'[home'[u]], u)
     /\ \A f \in Families, u \in Users :
          member[f][u] # Nobody => member'[f][u] # Nobody]_vars

\* A user who was revoked before a handler's transaction began changes nothing
\* any more, although the role that the middleware read says otherwise.
RevokedChangeNothing ==
  [][\A h \in Handlers :
       handler[h].pc = "open" /\ handler'[h].pc = "idle" /\ member' # member
         => Active(handler[h].snap, handler[h].actor)]_vars

=============================================================================
