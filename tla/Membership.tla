----------------------------- MODULE Membership -----------------------------
(***************************************************************************)
(* The members and invites of one workspace, and the API requests that     *)
(* change them: workspaces.service, invites.service, their controllers and *)
(* the two guards of apps/api/src/tenancy.                                 *)
(*                                                                         *)
(* A request reads the caller's membership in the guard, reads the member  *)
(* or invite it is about in the service, and writes last; any number of    *)
(* others may run between these steps.  Consecutive reads of a request are *)
(* one step where every outcome of the separate reads is one of the joint  *)
(* read, too.  acceptInvite is a transaction (READ COMMITTED): it reads    *)
(* what is committed, and its two writes take effect at its commit.        *)
(*                                                                         *)
(* A user stands for the user and the email address.                       *)
(***************************************************************************)
EXTENDS Naturals

CONSTANTS
  Users,
  Creator,      \* the user who created the workspace
  Invites,      \* bound: the invites that are ever created
  Requests      \* simultaneous requests

ASSUME MembershipAssumption == Creator \in Users

VARIABLES
  role,     \* workspaceMember.role by user; "none": no row
  rowId,    \* workspaceMember.id by user: how many rows the user has had
  invite,   \* workspaceInvite: invite[i]
  joins,    \* history: the rows made from invite i
  req       \* the requests in progress

vars == <<role, rowId, invite, joins, req>>
-----------------------------------------------------------------------------
Roles == {"OWNER", "ADMIN", "MEMBER"}

Invite == [status: {"absent", "PENDING", "ACCEPTED", "REVOKED"},
           email: Users,
           role: Roles,
           fresh: BOOLEAN]    \* expiresAt is in the future

NoInvite ==
  [status |-> "absent", email |-> Creator, role |-> "MEMBER", fresh |-> TRUE]

Op == {"patch", "remove", "create", "revoke", "accept"}

\* What a request holds after the guard (its caller's role) and after the
\* service's read (target, its row id and what to grant; or the invite).
Guarded == [pc: {"guarded"}, op: Op, role: Roles]

OnMember == [pc: {"found"}, op: {"patch", "remove"}, target: Users, id: Nat,
             grant: Roles \ {"OWNER"}, role: Roles]

OnEmail == [pc: {"found"}, op: {"create"}, target: Users, grant: Roles]

OnInvite == [pc: {"found"}, op: {"revoke", "accept"}, invite: Invites]

NoRequest == [pc |-> "idle"]

\* Type invariant.  In particular no request that is past updateMemberRole's
\* checks is about to grant OWNER.
TypeOK ==
  /\ role \in [Users -> Roles \cup {"none"}]
  /\ rowId \in [Users -> Nat]
  /\ invite \in [Invites -> Invite]
  /\ joins \in [Invites -> Nat]
  /\ req \in [Requests ->
                {NoRequest} \cup Guarded \cup OnMember \cup OnEmail \cup OnInvite]

\* createWorkspace: the workspace and its OWNER are one nested create.
Init ==
  /\ role = [u \in Users |-> IF u = Creator THEN "OWNER" ELSE "none"]
  /\ rowId = [u \in Users |-> IF u = Creator THEN 1 ELSE 0]
  /\ invite = [i \in Invites |-> NoInvite]
  /\ joins = [i \in Invites |-> 0]
  /\ req = [r \in Requests |-> NoRequest]
-----------------------------------------------------------------------------
(* The guards. *)

\* @WorkspaceRoles of the routes.
Allowed(op) == IF op = "patch" THEN {"OWNER"} ELSE {"OWNER", "ADMIN"}

\* WorkspaceMemberGuard reads the membership, WorkspaceRoleGuard judges it; the
\* request keeps the role that was read.  acceptInvite has no such guard.
Guard(r, u) ==
  /\ req[r] = NoRequest
  /\ \E op \in Op \ {"accept"} :
       /\ role[u] \in Allowed(op)
       /\ req' = [req EXCEPT ![r] = [pc |-> "guarded", op |-> op, role |-> role[u]]]
  /\ UNCHANGED <<role, rowId, invite, joins>>

At(r, pc, op) == req[r].pc = pc /\ req[r].op = op

Finish(r) == req' = [req EXCEPT ![r] = NoRequest]

\* A request may end early at any point: refused, or the database or the process
\* fails.  Nothing was written.
RequestEnds(r) ==
  /\ req[r] # NoRequest
  /\ Finish(r)
  /\ UNCHANGED <<role, rowId, invite, joins>>
-----------------------------------------------------------------------------
(* Members. *)

\* The row with this id is (still) there.
RowExists(u, id) == role[u] # "none" /\ rowId[u] = id

\* Mutant: OWNER can be granted.
FindForPatchAny(r, t, g) ==
  /\ At(r, "guarded", "patch")
  /\ role[t] \notin {"none", "OWNER"}
  /\ req' = [req EXCEPT ![r] =
       [pc |-> "found", op |-> "patch", target |-> t, id |-> rowId[t],
        grant |-> g, role |-> req[r].role]]
  /\ UNCHANGED <<role, rowId, invite, joins>>

\* updateMemberRole: OWNER can be neither granted nor changed.
FindForPatch(r, t, g) ==
  /\ At(r, "guarded", "patch")
  /\ g # "OWNER"
  /\ role[t] \notin {"none", "OWNER"}
  /\ req' = [req EXCEPT ![r] =
       [pc |-> "found", op |-> "patch", target |-> t, id |-> rowId[t],
        grant |-> g, role |-> req[r].role]]
  /\ UNCHANGED <<role, rowId, invite, joins>>

\* Mutant: the update is by workspace and user.
PatchUser(r) ==
  LET t == req[r].target IN
  /\ At(r, "found", "patch")
  /\ role[t] # "none"
  /\ role' = [role EXCEPT ![t] = req[r].grant]
  /\ Finish(r)
  /\ UNCHANGED <<rowId, invite, joins>>

\* The update is by row id; a row that is gone makes it fail.
Patch(r) ==
  LET t == req[r].target IN
  /\ At(r, "found", "patch")
  /\ RowExists(t, req[r].id)
  /\ role' = [role EXCEPT ![t] = req[r].grant]
  /\ Finish(r)
  /\ UNCHANGED <<rowId, invite, joins>>

\* removeMember: an OWNER cannot be removed, and by an ADMIN only a MEMBER.
FindForRemove(r, t) ==
  /\ At(r, "guarded", "remove")
  /\ role[t] \notin {"none", "OWNER"}
  /\ req[r].role = "ADMIN" => role[t] = "MEMBER"
  /\ req' = [req EXCEPT ![r] =
       [pc |-> "found", op |-> "remove", target |-> t, id |-> rowId[t],
        grant |-> "MEMBER", role |-> req[r].role]]
  /\ UNCHANGED <<role, rowId, invite, joins>>

\* Mutant: the delete is by workspace and user.
RemoveUser(r) ==
  LET t == req[r].target IN
  /\ At(r, "found", "remove")
  /\ role[t] # "none"
  /\ role' = [role EXCEPT ![t] = "none"]
  /\ Finish(r)
  /\ UNCHANGED <<rowId, invite, joins>>

\* The delete is by row id, too.
Remove(r) ==
  LET t == req[r].target IN
  /\ At(r, "found", "remove")
  /\ RowExists(t, req[r].id)
  /\ role' = [role EXCEPT ![t] = "none"]
  /\ Finish(r)
  /\ UNCHANGED <<rowId, invite, joins>>
-----------------------------------------------------------------------------
(* Invites. *)

Open(i) == invite[i].status = "PENDING" /\ invite[i].fresh

\* createInvite: not for a member, not beside an open invite.
CheckEmail(r, e, g) ==
  /\ At(r, "guarded", "create")
  /\ role[e] = "none"
  /\ \A i \in Invites : invite[i].email = e => ~Open(i)
  /\ req' = [req EXCEPT ![r] =
       [pc |-> "found", op |-> "create", target |-> e, grant |-> g]]
  /\ UNCHANGED <<role, rowId, invite, joins>>

CreateInvite(r, i) ==
  /\ At(r, "found", "create")
  /\ invite[i].status = "absent"
  /\ invite' = [invite EXCEPT ![i] =
       [status |-> "PENDING", email |-> req[r].target, role |-> req[r].grant,
        fresh |-> TRUE]]
  /\ Finish(r)
  /\ UNCHANGED <<role, rowId, joins>>

\* INVITE_TTL_DAYS have passed.
Expire(i) ==
  /\ Open(i)
  /\ invite' = [invite EXCEPT ![i].fresh = FALSE]
  /\ UNCHANGED <<role, rowId, joins, req>>

\* revokeInvite's read ...
FindForRevoke(r, i) ==
  /\ At(r, "guarded", "revoke")
  /\ invite[i].status = "PENDING"
  /\ req' = [req EXCEPT ![r] = [pc |-> "found", op |-> "revoke", invite |-> i]]
  /\ UNCHANGED <<role, rowId, invite, joins>>

\* ... and its update by id, whatever the status is by then.
Revoke(r) ==
  /\ At(r, "found", "revoke")
  /\ invite' = [invite EXCEPT ![req[r].invite].status = "REVOKED"]
  /\ Finish(r)
  /\ UNCHANGED <<role, rowId, joins>>

\* acceptInvite's reads.  An invite that has expired is left PENDING: the write
\* of EXPIRED is rolled back by the exception that follows it.
FindForAccept(r, i) ==
  /\ req[r] = NoRequest
  /\ Open(i)
  /\ role[invite[i].email] = "none"
  /\ req' = [req EXCEPT ![r] = [pc |-> "found", op |-> "accept", invite |-> i]]
  /\ UNCHANGED <<role, rowId, invite, joins>>

\* Mutant: without the transaction, the process may die between the two writes.
AcceptHalf(r) ==
  LET i == req[r].invite
      u == invite[i].email IN
  /\ At(r, "found", "accept")
  /\ role[u] = "none"
  /\ role' = [role EXCEPT ![u] = invite[i].role]
  /\ rowId' = [rowId EXCEPT ![u] = @ + 1]
  /\ joins' = [joins EXCEPT ![i] = @ + 1]
  /\ \/ UNCHANGED invite
     \/ invite' = [invite EXCEPT ![i].status = "ACCEPTED"]
  /\ Finish(r)

\* Mutant: every invitee becomes an OWNER.
AcceptAsOwner(r) ==
  LET i == req[r].invite
      u == invite[i].email IN
  /\ At(r, "found", "accept")
  /\ role[u] = "none"
  /\ role' = [role EXCEPT ![u] = "OWNER"]
  /\ rowId' = [rowId EXCEPT ![u] = @ + 1]
  /\ invite' = [invite EXCEPT ![i].status = "ACCEPTED"]
  /\ joins' = [joins EXCEPT ![i] = @ + 1]
  /\ Finish(r)

\* The transaction's commit: the new row, unless (workspaceId, userId) exists by
\* now, and the update of the invite, whatever its status is by then.
Accept(r) ==
  LET i == req[r].invite
      u == invite[i].email IN
  /\ At(r, "found", "accept")
  /\ role[u] = "none"
  /\ role' = [role EXCEPT ![u] = invite[i].role]
  /\ rowId' = [rowId EXCEPT ![u] = @ + 1]
  /\ invite' = [invite EXCEPT ![i].status = "ACCEPTED"]
  /\ joins' = [joins EXCEPT ![i] = @ + 1]
  /\ Finish(r)
-----------------------------------------------------------------------------
MemberRequest(r) ==
  \/ \E t \in Users : FindForRemove(r, t) \/ \E g \in Roles : FindForPatch(r, t, g)
  \/ Patch(r) \/ Remove(r)

InviteRequest(r) ==
  \/ \E e \in Users, g \in Roles : CheckEmail(r, e, g)
  \/ \E i \in Invites :
       CreateInvite(r, i) \/ FindForRevoke(r, i) \/ FindForAccept(r, i)
  \/ Revoke(r) \/ Accept(r)

Next ==
  \/ \E r \in Requests :
       \/ \E u \in Users : Guard(r, u)
       \/ MemberRequest(r) \/ InviteRequest(r) \/ RequestEnds(r)
  \/ \E i \in Invites : Expire(i)

Spec == Init /\ [][Next]_vars
-----------------------------------------------------------------------------
\* An OWNER stays one: no request removes or demotes an OWNER, however old the
\* role and the row are that it has read.  In particular the workspace never
\* loses its last OWNER.
OwnersStay ==
  [][\A u \in Users : role[u] = "OWNER" => role'[u] = "OWNER"]_vars

\* Whoever is OWNER has created the workspace or has joined by an invite as
\* OWNER that was addressed to them; whoever is a member was invited.
MembersWereInvited ==
  \A u \in Users \ {Creator} :
    role[u] # "none" =>
      \E i \in Invites :
        /\ joins[i] > 0
        /\ invite[i].email = u
        /\ role[u] = "OWNER" => invite[i].role = "OWNER"

\* An invite that somebody has joined with is not open again: a later request
\* with the same token is refused, even after the member was removed.
UsedIsClosed ==
  \A i \in Invites : joins[i] > 0 => invite[i].status \in {"ACCEPTED", "REVOKED"}

\* Every acceptance finds the invite PENDING when it is recorded: an invite is
\* accepted once, and not after it was revoked.
AcceptedWhilePending ==
  [][\A i \in Invites :
       joins'[i] # joins[i] => invite[i].status = "PENDING"]_vars
-----------------------------------------------------------------------------
(* The refinement. *)

Invited == {<<invite[i].email, invite[i].role>> :
              i \in {j \in Invites : invite[j].status # "absent"}}

Abstract == INSTANCE Roster WITH invited <- Invited

\* The requests, whose steps interleave with what they hold long out of date, are
\* together no more than a roster that changes in single steps: no interleaving
\* lets a member in who was not invited to the role, or touches an OWNER.
ImplementsRoster == Abstract!Spec
=============================================================================
