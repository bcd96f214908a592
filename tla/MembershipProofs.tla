-------------------------- MODULE MembershipProofs --------------------------
(* Theorems about Membership, for every set of users and invites and every  *)
(* number of simultaneous requests.                                         *)
EXTENDS Membership, TLAPS

\* What a request holds tells its kind.
LEMMA RequestKinds ==
  ASSUME TypeOK, NEW r \in Requests
  PROVE  /\ At(r, "found", "patch") \/ At(r, "found", "remove") =>
              req[r] \in OnMember
         /\ At(r, "found", "create") => req[r] \in OnEmail
         /\ At(r, "found", "revoke") \/ At(r, "found", "accept") =>
              req[r] \in OnInvite
         /\ \A op \in Op : At(r, "guarded", op) => req[r] \in Guarded
<1>1. req[r] \in {NoRequest} \cup Guarded \cup OnMember \cup OnEmail \cup OnInvite
  BY DEF TypeOK
<1>2. CASE req[r] = NoRequest
  BY <1>2 DEF NoRequest, At
<1>3. CASE req[r] \in Guarded
  BY <1>3 DEF Guarded, At
<1>4. CASE req[r] \in OnMember
  BY <1>4 DEF OnMember, At
<1>5. CASE req[r] \in OnEmail
  BY <1>5 DEF OnEmail, At
<1>6. CASE req[r] \in OnInvite
  BY <1>6 DEF OnInvite, At
<1>7. QED
  BY <1>1, <1>2, <1>3, <1>4, <1>5, <1>6

\* A request that ends leaves the others alone.
LEMMA FinishType ==
  ASSUME TypeOK, NEW r \in Requests, Finish(r)
  PROVE  req' \in [Requests -> {NoRequest} \cup Guarded \cup OnMember
                                 \cup OnEmail \cup OnInvite]
  BY DEF TypeOK, Finish

\* A new workspace is well typed.
LEMMA InitType == Init => TypeOK
  BY MembershipAssumption DEF Init, TypeOK, NoInvite, Invite, Roles, NoRequest

\* Every step of every request keeps the state well typed.
LEMMA StepType == TypeOK /\ [Next]_vars => TypeOK'
<1> SUFFICES ASSUME TypeOK, [Next]_vars PROVE TypeOK'
  OBVIOUS
<1>1. ASSUME NEW r \in Requests, NEW u \in Users, Guard(r, u) PROVE TypeOK'
  <2>1. PICK op \in Op :
          /\ role[u] \in Allowed(op)
          /\ req' = [req EXCEPT ![r] =
                       [pc |-> "guarded", op |-> op, role |-> role[u]]]
    BY <1>1 DEF Guard
  <2>2. [pc |-> "guarded", op |-> op, role |-> role[u]] \in Guarded
    BY <2>1 DEF Guarded, Allowed, Roles
  <2>3. QED
    BY <1>1, <2>1, <2>2 DEF Guard, TypeOK
<1>2. ASSUME NEW r \in Requests, RequestEnds(r) PROVE TypeOK'
  BY <1>2, FinishType DEF RequestEnds, TypeOK
<1>3. ASSUME NEW r \in Requests, NEW t \in Users, NEW g \in Roles,
             FindForPatch(r, t, g)
      PROVE  TypeOK'
  <2>1. req[r] \in Guarded
    BY <1>3, RequestKinds DEF FindForPatch, Op
  <2>2. [pc |-> "found", op |-> "patch", target |-> t, id |-> rowId[t],
         grant |-> g, role |-> req[r].role] \in OnMember
    BY <1>3, <2>1 DEF FindForPatch, OnMember, Guarded, TypeOK
  <2>3. QED
    BY <1>3, <2>2 DEF FindForPatch, TypeOK
<1>4. ASSUME NEW r \in Requests, Patch(r) PROVE TypeOK'
  <2>1. req[r].target \in Users /\ req[r].grant \in Roles
    BY <1>4, RequestKinds DEF Patch, OnMember
  <2>2. role' \in [Users -> Roles \cup {"none"}]
    BY <1>4, <2>1 DEF Patch, TypeOK
  <2>3. QED
    BY <1>4, <2>2, FinishType DEF Patch, TypeOK
<1>5. ASSUME NEW r \in Requests, NEW t \in Users, FindForRemove(r, t)
      PROVE  TypeOK'
  <2>1. req[r] \in Guarded
    BY <1>5, RequestKinds DEF FindForRemove, Op
  <2>2. [pc |-> "found", op |-> "remove", target |-> t, id |-> rowId[t],
         grant |-> "MEMBER", role |-> req[r].role] \in OnMember
    BY <1>5, <2>1 DEF FindForRemove, OnMember, Guarded, Roles, TypeOK
  <2>3. QED
    BY <1>5, <2>2 DEF FindForRemove, TypeOK
<1>6. ASSUME NEW r \in Requests, Remove(r) PROVE TypeOK'
  <2>1. req[r].target \in Users
    BY <1>6, RequestKinds DEF Remove, OnMember
  <2>2. role' \in [Users -> Roles \cup {"none"}]
    BY <1>6, <2>1 DEF Remove, TypeOK
  <2>3. QED
    BY <1>6, <2>2, FinishType DEF Remove, TypeOK
<1>7. ASSUME NEW r \in Requests, NEW e \in Users, NEW g \in Roles,
             CheckEmail(r, e, g)
      PROVE  TypeOK'
  <2>1. [pc |-> "found", op |-> "create", target |-> e, grant |-> g] \in OnEmail
    BY DEF OnEmail
  <2>2. QED
    BY <1>7, <2>1 DEF CheckEmail, TypeOK
<1>8. ASSUME NEW r \in Requests, NEW i \in Invites, CreateInvite(r, i)
      PROVE  TypeOK'
  <2>1. req[r].target \in Users /\ req[r].grant \in Roles
    BY <1>8, RequestKinds DEF CreateInvite, OnEmail
  <2>2. invite' \in [Invites -> Invite]
    BY <1>8, <2>1 DEF CreateInvite, TypeOK, Invite
  <2>3. QED
    BY <1>8, <2>2, FinishType DEF CreateInvite, TypeOK
<1>9. ASSUME NEW i \in Invites, Expire(i) PROVE TypeOK'
  <2>1. invite' \in [Invites -> Invite]
    BY <1>9 DEF Expire, TypeOK, Invite
  <2>2. QED
    BY <1>9, <2>1 DEF Expire, TypeOK
<1>10. ASSUME NEW r \in Requests, NEW i \in Invites,
              FindForRevoke(r, i) \/ FindForAccept(r, i)
       PROVE  TypeOK'
  <2>1. /\ [pc |-> "found", op |-> "revoke", invite |-> i] \in OnInvite
        /\ [pc |-> "found", op |-> "accept", invite |-> i] \in OnInvite
    BY DEF OnInvite
  <2>2. QED
    BY <1>10, <2>1 DEF FindForRevoke, FindForAccept, TypeOK
<1>11. ASSUME NEW r \in Requests, Revoke(r) PROVE TypeOK'
  <2>1. req[r].invite \in Invites
    BY <1>11, RequestKinds DEF Revoke, OnInvite
  <2>2. invite' \in [Invites -> Invite]
    BY <1>11, <2>1 DEF Revoke, TypeOK, Invite
  <2>3. QED
    BY <1>11, <2>2, FinishType DEF Revoke, TypeOK
<1>12. ASSUME NEW r \in Requests, Accept(r) PROVE TypeOK'
  <2>1. req[r].invite \in Invites
    BY <1>12, RequestKinds DEF Accept, OnInvite
  <2>2. /\ invite[req[r].invite] \in Invite
        /\ invite[req[r].invite].email \in Users
        /\ invite[req[r].invite].role \in Roles
    BY <2>1 DEF TypeOK, Invite
  <2>3. invite' \in [Invites -> Invite]
    BY <1>12, <2>1, <2>2 DEF Accept, TypeOK, Invite
  <2>4. /\ role' \in [Users -> Roles \cup {"none"}]
        /\ rowId' \in [Users -> Nat]
        /\ joins' \in [Invites -> Nat]
    BY <1>12, <2>1, <2>2 DEF Accept, TypeOK
  <2>5. QED
    BY <1>12, <2>3, <2>4, FinishType DEF Accept, TypeOK
<1>13. CASE UNCHANGED vars
  BY <1>13 DEF vars, TypeOK
<1>14. QED
  BY <1>1, <1>2, <1>3, <1>4, <1>5, <1>6, <1>7, <1>8, <1>9, <1>10, <1>11,
     <1>12, <1>13
  DEF Next, MemberRequest, InviteRequest

\* The model's state is well typed: in particular no request ever holds OWNER
\* as the role that PATCH /members/:memberId is to grant.
THEOREM TypeCorrect == Spec => []TypeOK
<1>1. QED
  BY InitType, StepType, PTL DEF Spec
-----------------------------------------------------------------------------
(* The inductive invariant.                                                 *)

\* A request holds the id of a row that is there or gone for good, and of no
\* OWNER's: rows become OWNER only when they are made, and a user who joins
\* again has a new row.
HeldRow(r) ==
  At(r, "found", "patch") \/ At(r, "found", "remove") =>
    /\ req[r].id <= rowId[req[r].target]
    /\ RowExists(req[r].target, req[r].id) => role[req[r].target] # "OWNER"

\* A request about an invite holds one that was created.
HeldInvite(r) ==
  At(r, "found", "revoke") \/ At(r, "found", "accept") =>
    invite[req[r].invite].status # "absent"

IInv ==
  /\ TypeOK
  /\ \A r \in Requests : HeldRow(r) /\ HeldInvite(r)
  /\ UsedIsClosed
  /\ MembersWereInvited

\* The inductive invariant holds of a new workspace.
LEMMA InitIInv == Init => IInv
<1> SUFFICES ASSUME Init PROVE IInv
  OBVIOUS
<1>1. TypeOK
  BY InitType
<1>2. \A r \in Requests : HeldRow(r) /\ HeldInvite(r)
  BY DEF Init, HeldRow, HeldInvite, At, NoRequest
<1>3. UsedIsClosed /\ MembersWereInvited
  BY DEF Init, UsedIsClosed, MembersWereInvited
<1>4. QED
  BY <1>1, <1>2, <1>3 DEF IInv

\* A step that changes no row and no invite, and after which request r holds
\* nothing or a row or invite that it has just read, keeps what is held.
LEMMA HeldAfterRead ==
  ASSUME TypeOK, NEW r \in Requests, NEW x,
         \A s \in Requests : HeldRow(s) /\ HeldInvite(s),
         req' = [req EXCEPT ![r] = x],
         UNCHANGED <<role, rowId, invite>>,
         HeldRow(r)', HeldInvite(r)'
  PROVE  \A s \in Requests : HeldRow(s)' /\ HeldInvite(s)'
<1>1. \A s \in Requests : s # r => req'[s] = req[s]
  BY DEF TypeOK
<1>2. QED
  BY <1>1 DEF HeldRow, HeldInvite, At, RowExists

\* After its last step a request holds nothing.
LEMMA Finished ==
  ASSUME TypeOK, NEW r \in Requests, Finish(r)
  PROVE  /\ req'[r] = NoRequest
         /\ \A s \in Requests : s # r => req'[s] = req[s]
         /\ HeldRow(r)' /\ HeldInvite(r)'
<1>1. /\ req'[r] = NoRequest
      /\ \A s \in Requests : s # r => req'[s] = req[s]
  BY DEF TypeOK, Finish
<1>2. QED
  BY <1>1 DEF HeldRow, HeldInvite, At, NoRequest

\* What is recorded about members and invites is kept by every step.
LEMMA RecordsStep ==
  ASSUME IInv, [Next]_vars
  PROVE  UsedIsClosed' /\ MembersWereInvited'
<1> USE DEF IInv
<1>k. ASSUME UNCHANGED <<role, invite, joins>>
      PROVE  UsedIsClosed' /\ MembersWereInvited'
  BY <1>k DEF UsedIsClosed, MembersWereInvited
<1>1. ASSUME NEW r \in Requests,
             \/ \E u \in Users : Guard(r, u)
             \/ \E t \in Users : FindForRemove(r, t)
             \/ \E t \in Users, g \in Roles : FindForPatch(r, t, g)
             \/ \E e \in Users, g \in Roles : CheckEmail(r, e, g)
             \/ \E i \in Invites : FindForRevoke(r, i) \/ FindForAccept(r, i)
             \/ RequestEnds(r)
      PROVE  UsedIsClosed' /\ MembersWereInvited'
  BY <1>1, <1>k DEF Guard, FindForRemove, FindForPatch, CheckEmail,
                    FindForRevoke, FindForAccept, RequestEnds
<1>2. ASSUME NEW r \in Requests, Patch(r)
      PROVE  UsedIsClosed' /\ MembersWereInvited'
  <2> DEFINE t == req[r].target
  <2>1. t \in Users /\ req[r].grant # "OWNER"
    BY <1>2, RequestKinds DEF Patch, OnMember
  <2>2. /\ role[t] # "none" /\ role'[t] # "OWNER"
        /\ \A u \in Users : u # t => role'[u] = role[u]
        /\ UNCHANGED <<invite, joins>>
    BY <1>2, <2>1 DEF Patch, RowExists, TypeOK
  <2>3. QED
    BY <2>1, <2>2 DEF UsedIsClosed, MembersWereInvited
<1>3. ASSUME NEW r \in Requests, Remove(r)
      PROVE  UsedIsClosed' /\ MembersWereInvited'
  <2>1. /\ \A u \in Users : role'[u] = role[u] \/ role'[u] = "none"
        /\ UNCHANGED <<invite, joins>>
    BY <1>3 DEF Remove, TypeOK
  <2>2. QED
    BY <2>1 DEF UsedIsClosed, MembersWereInvited
<1>4. ASSUME NEW r \in Requests, NEW i \in Invites, CreateInvite(r, i)
      PROVE  UsedIsClosed' /\ MembersWereInvited'
  <2>1. joins[i] = 0
    BY <1>4 DEF CreateInvite, UsedIsClosed, TypeOK
  <2>2. /\ \A j \in Invites : j # i => invite'[j] = invite[j]
        /\ UNCHANGED <<role, joins>>
    BY <1>4 DEF CreateInvite, TypeOK
  <2>3. QED
    BY <2>1, <2>2 DEF UsedIsClosed, MembersWereInvited
<1>5. ASSUME NEW i \in Invites, Expire(i)
      PROVE  UsedIsClosed' /\ MembersWereInvited'
  <2>1. /\ \A j \in Invites : /\ invite'[j].status = invite[j].status
                              /\ invite'[j].email = invite[j].email
                              /\ invite'[j].role = invite[j].role
        /\ UNCHANGED <<role, joins>>
    BY <1>5 DEF Expire, TypeOK, Invite
  <2>2. QED
    BY <2>1 DEF UsedIsClosed, MembersWereInvited
<1>6. ASSUME NEW r \in Requests, Revoke(r)
      PROVE  UsedIsClosed' /\ MembersWereInvited'
  <2> DEFINE i == req[r].invite
  <2>1. i \in Invites
    BY <1>6, RequestKinds DEF Revoke, OnInvite
  <2>2. /\ invite'[i].status = "REVOKED"
        /\ \A j \in Invites : /\ invite'[j].email = invite[j].email
                              /\ invite'[j].role = invite[j].role
                              /\ j # i => invite'[j].status = invite[j].status
        /\ UNCHANGED <<role, joins>>
    BY <1>6, <2>1 DEF Revoke, TypeOK, Invite
  <2>3. QED
    BY <2>1, <2>2 DEF UsedIsClosed, MembersWereInvited
<1>7. ASSUME NEW r \in Requests, Accept(r)
      PROVE  UsedIsClosed' /\ MembersWereInvited'
  <2> DEFINE i == req[r].invite
             e == invite[i].email
  <2>1. i \in Invites
    BY <1>7, RequestKinds DEF Accept, OnInvite
  <2>2. e \in Users /\ joins[i] \in Nat
    BY <2>1 DEF TypeOK, Invite
  <2>3. /\ invite'[i].status = "ACCEPTED"
        /\ \A j \in Invites : /\ invite'[j].email = invite[j].email
                              /\ invite'[j].role = invite[j].role
                              /\ j # i => invite'[j].status = invite[j].status
    BY <1>7, <2>1 DEF Accept, TypeOK, Invite
  <2>4. /\ joins'[i] = joins[i] + 1
        /\ \A j \in Invites : j # i => joins'[j] = joins[j]
    BY <1>7, <2>1 DEF Accept, TypeOK
  <2>5. /\ role'[e] = invite[i].role
        /\ \A u \in Users : u # e => role'[u] = role[u]
    BY <1>7, <2>2 DEF Accept, TypeOK
  <2>6. UsedIsClosed'
    BY <2>1, <2>3, <2>4 DEF UsedIsClosed
  <2>7. joins'[i] > 0
    BY <2>2, <2>4
  <2>8. \A j \in Invites : joins[j] > 0 => joins'[j] > 0
    BY <2>4, <2>7
  <2>9. MembersWereInvited'
    BY <2>1, <2>3, <2>5, <2>7, <2>8 DEF MembersWereInvited
  <2>10. QED
    BY <2>6, <2>9
<1>8. CASE UNCHANGED vars
  BY <1>8, <1>k DEF vars
<1>9. QED
  BY <1>1, <1>2, <1>3, <1>4, <1>5, <1>6, <1>7, <1>8
  DEF Next, MemberRequest, InviteRequest

\* What requests hold is kept by every step, theirs or another's.
LEMMA HeldStep ==
  ASSUME IInv, [Next]_vars
  PROVE  \A s \in Requests : HeldRow(s)' /\ HeldInvite(s)'
<1> USE DEF IInv
<1>1. ASSUME NEW r \in Requests, NEW u \in Users, Guard(r, u)
      PROVE  \A s \in Requests : HeldRow(s)' /\ HeldInvite(s)'
  <2>1. PICK op \in Op :
          req' = [req EXCEPT ![r] =
                    [pc |-> "guarded", op |-> op, role |-> role[u]]]
    BY <1>1 DEF Guard
  <2>2. req'[r].pc = "guarded"
    BY <2>1 DEF TypeOK
  <2>3. HeldRow(r)' /\ HeldInvite(r)'
    BY <2>2 DEF HeldRow, HeldInvite, At
  <2>4. UNCHANGED <<role, rowId, invite>>
    BY <1>1 DEF Guard
  <2>5. QED
    BY <2>1, <2>3, <2>4, HeldAfterRead
<1>2. ASSUME NEW r \in Requests, RequestEnds(r)
      PROVE  \A s \in Requests : HeldRow(s)' /\ HeldInvite(s)'
  BY <1>2, Finished DEF RequestEnds, HeldRow, HeldInvite, At, RowExists
<1>3. ASSUME NEW r \in Requests, NEW t \in Users,
             \/ FindForRemove(r, t)
             \/ \E g \in Roles : FindForPatch(r, t, g)
      PROVE  \A s \in Requests : HeldRow(s)' /\ HeldInvite(s)'
  <2>1. /\ req'[r].target = t /\ req'[r].id = rowId[t]
        /\ req'[r].op \in {"patch", "remove"}
        /\ \A s \in Requests : s # r => req'[s] = req[s]
        /\ role[t] # "OWNER"
        /\ UNCHANGED <<role, rowId, invite>>
    BY <1>3 DEF FindForRemove, FindForPatch, TypeOK
  <2>2. rowId[t] \in Nat
    BY DEF TypeOK
  <2>3. HeldRow(r)' /\ HeldInvite(r)'
    BY <2>1, <2>2 DEF HeldRow, HeldInvite, At
  <2>4. QED
    BY <2>1, <2>3 DEF HeldRow, HeldInvite, At, RowExists
<1>4. ASSUME NEW r \in Requests, NEW e \in Users, NEW g \in Roles,
             CheckEmail(r, e, g)
      PROVE  \A s \in Requests : HeldRow(s)' /\ HeldInvite(s)'
  <2>1. /\ req'[r].op = "create"
        /\ \A s \in Requests : s # r => req'[s] = req[s]
        /\ UNCHANGED <<role, rowId, invite>>
    BY <1>4 DEF CheckEmail, TypeOK
  <2>2. QED
    BY <2>1 DEF HeldRow, HeldInvite, At, RowExists
<1>5. ASSUME NEW r \in Requests, NEW i \in Invites,
             FindForRevoke(r, i) \/ FindForAccept(r, i)
      PROVE  \A s \in Requests : HeldRow(s)' /\ HeldInvite(s)'
  <2>1. /\ req'[r].op \in {"revoke", "accept"} /\ req'[r].invite = i
        /\ \A s \in Requests : s # r => req'[s] = req[s]
        /\ invite[i].status # "absent"
        /\ UNCHANGED <<role, rowId, invite>>
    BY <1>5 DEF FindForRevoke, FindForAccept, Open, TypeOK
  <2>2. QED
    BY <2>1 DEF HeldRow, HeldInvite, At, RowExists
<1>6. ASSUME NEW r \in Requests, Patch(r) \/ Remove(r)
      PROVE  \A s \in Requests : HeldRow(s)' /\ HeldInvite(s)'
  <2>1. req[r].grant # "OWNER" \/ Remove(r)
    BY <1>6, RequestKinds DEF Patch, OnMember
  <2>2. \A u \in Users : role'[u] = role[u] \/ role'[u] # "OWNER"
    BY <1>6, <2>1 DEF Patch, Remove, TypeOK
  <2>3. \A u \in Users : role'[u] # "none" => role[u] # "none"
    BY <1>6 DEF Patch, Remove, RowExists, TypeOK
  <2>4. Finish(r) /\ UNCHANGED <<rowId, invite>>
    BY <1>6 DEF Patch, Remove
  <2>5. ASSUME NEW s \in Requests, s # r PROVE HeldRow(s)' /\ HeldInvite(s)'
    <3>1. req'[s] = req[s]
      BY <2>4, <2>5, Finished
    <3>2. At(s, "found", "patch") \/ At(s, "found", "remove") =>
            req[s].target \in Users
      BY RequestKinds DEF OnMember
    <3>3. QED
      BY <2>2, <2>3, <2>4, <3>1, <3>2 DEF HeldRow, HeldInvite, At, RowExists
  <2>6. QED
    BY <2>4, <2>5, Finished
<1>7. ASSUME NEW r \in Requests, NEW i \in Invites, CreateInvite(r, i)
      PROVE  \A s \in Requests : HeldRow(s)' /\ HeldInvite(s)'
  <2>1. /\ invite'[i].status = "PENDING"
        /\ \A j \in Invites : j # i => invite'[j] = invite[j]
        /\ Finish(r) /\ UNCHANGED <<role, rowId>>
    BY <1>7 DEF CreateInvite, TypeOK
  <2>2. ASSUME NEW s \in Requests, s # r PROVE HeldRow(s)' /\ HeldInvite(s)'
    <3>1. req'[s] = req[s]
      BY <2>1, <2>2, Finished
    <3>2. At(s, "found", "revoke") \/ At(s, "found", "accept") =>
            req[s].invite \in Invites
      BY RequestKinds DEF OnInvite
    <3>3. QED
      BY <2>1, <3>1, <3>2 DEF HeldRow, HeldInvite, At, RowExists
  <2>3. QED
    BY <2>1, <2>2, Finished
<1>8. ASSUME NEW i \in Invites, Expire(i)
      PROVE  \A s \in Requests : HeldRow(s)' /\ HeldInvite(s)'
  <2>1. /\ \A j \in Invites : invite'[j].status = invite[j].status
        /\ UNCHANGED <<role, rowId, req>>
    BY <1>8 DEF Expire, TypeOK, Invite
  <2>2. ASSUME NEW s \in Requests PROVE HeldRow(s)' /\ HeldInvite(s)'
    <3>1. At(s, "found", "revoke") \/ At(s, "found", "accept") =>
            req[s].invite \in Invites
      BY RequestKinds DEF OnInvite
    <3>2. QED
      BY <2>1, <3>1 DEF HeldRow, HeldInvite, At, RowExists
  <2>3. QED
    BY <2>2
<1>9. ASSUME NEW r \in Requests, Revoke(r)
      PROVE  \A s \in Requests : HeldRow(s)' /\ HeldInvite(s)'
  <2>1. req[r].invite \in Invites
    BY <1>9, RequestKinds DEF Revoke, OnInvite
  <2>2. /\ \A j \in Invites : invite'[j].status \in {invite[j].status, "REVOKED"}
        /\ Finish(r) /\ UNCHANGED <<role, rowId>>
    BY <1>9, <2>1 DEF Revoke, TypeOK, Invite
  <2>3. ASSUME NEW s \in Requests, s # r PROVE HeldRow(s)' /\ HeldInvite(s)'
    <3>1. req'[s] = req[s]
      BY <2>2, <2>3, Finished
    <3>2. At(s, "found", "revoke") \/ At(s, "found", "accept") =>
            req[s].invite \in Invites
      BY RequestKinds DEF OnInvite
    <3>3. QED
      BY <2>2, <3>1, <3>2 DEF HeldRow, HeldInvite, At, RowExists
  <2>4. QED
    BY <2>2, <2>3, Finished
<1>10. ASSUME NEW r \in Requests, Accept(r)
       PROVE  \A s \in Requests : HeldRow(s)' /\ HeldInvite(s)'
  <2> DEFINE i == req[r].invite
             e == invite[i].email
  <2>1. i \in Invites /\ e \in Users
    BY <1>10, RequestKinds DEF Accept, OnInvite, TypeOK, Invite
  <2>2. /\ \A j \in Invites : invite'[j].status \in {invite[j].status, "ACCEPTED"}
        /\ Finish(r)
    BY <1>10, <2>1 DEF Accept, TypeOK, Invite
  <2>3. /\ rowId[e] \in Nat /\ rowId'[e] = rowId[e] + 1
        /\ \A u \in Users : u # e => role'[u] = role[u] /\ rowId'[u] = rowId[u]
    BY <1>10, <2>1 DEF Accept, TypeOK
  <2>4. ASSUME NEW s \in Requests, s # r PROVE HeldRow(s)' /\ HeldInvite(s)'
    <3>1. req'[s] = req[s]
      BY <2>2, <2>4, Finished
    <3>2. At(s, "found", "revoke") \/ At(s, "found", "accept") =>
            req[s].invite \in Invites
      BY RequestKinds DEF OnInvite
    <3>3. HeldInvite(s)'
      BY <2>2, <3>1, <3>2 DEF HeldInvite, At
    <3>4. At(s, "found", "patch") \/ At(s, "found", "remove") =>
            req[s].target \in Users /\ req[s].id \in Nat
      BY RequestKinds DEF OnMember
    <3>5. HeldRow(s)'
      BY <2>3, <3>1, <3>4 DEF HeldRow, At, RowExists
    <3>6. QED
      BY <3>3, <3>5
  <2>5. QED
    BY <2>2, <2>4, Finished
<1>11. CASE UNCHANGED vars
  BY <1>11 DEF vars, HeldRow, HeldInvite, At, RowExists
<1>12. QED
  BY <1>1, <1>2, <1>3, <1>4, <1>5, <1>6, <1>7, <1>8, <1>9, <1>10, <1>11
  DEF Next, MemberRequest, InviteRequest

\* Every step keeps the inductive invariant.
LEMMA StepIInv == IInv /\ [Next]_vars => IInv'
  BY StepType, RecordsStep, HeldStep DEF IInv

\* The inductive invariant from which the theorems below follow.
THEOREM Invariance == Spec => []IInv
<1>1. QED
  BY InitIInv, StepIInv, PTL DEF Spec
-----------------------------------------------------------------------------
(* The theorems. *)

\* Every member but the creator was invited, and every OWNER as OWNER.
THEOREM MembersAlwaysInvited == Spec => []MembersWereInvited
<1>1. IInv => MembersWereInvited
  BY DEF IInv
<1>2. QED
  BY <1>1, Invariance, PTL

\* An invite somebody has joined with is closed to later requests.
THEOREM UsedAlwaysClosed == Spec => []UsedIsClosed
<1>1. IInv => UsedIsClosed
  BY DEF IInv
<1>2. QED
  BY <1>1, Invariance, PTL

\* No request removes or demotes an OWNER, whatever stale role or row it holds.
THEOREM OwnersAlwaysStay == Spec => OwnersStay
<1>1. ASSUME IInv, [Next]_vars, NEW u \in Users, role[u] = "OWNER"
      PROVE  role'[u] = "OWNER"
  <2> USE DEF IInv
  <2>1. ASSUME NEW r \in Requests, Patch(r) \/ Remove(r) PROVE role'[u] = "OWNER"
    <3>1. req[r].target # u
      BY <1>1, <2>1 DEF Patch, Remove, HeldRow
    <3>2. QED
      BY <1>1, <2>1, <3>1 DEF Patch, Remove, TypeOK
  <2>2. ASSUME NEW r \in Requests, Accept(r) PROVE role'[u] = "OWNER"
    BY <1>1, <2>2 DEF Accept, TypeOK
  <2>3. ASSUME UNCHANGED role PROVE role'[u] = "OWNER"
    BY <1>1, <2>3
  <2>4. QED
    BY <1>1, <2>1, <2>2, <2>3
    DEF Next, MemberRequest, InviteRequest, Guard, FindForRemove, FindForPatch,
        CheckEmail, CreateInvite, FindForRevoke, FindForAccept, Revoke,
        RequestEnds, Expire, vars
<1>2. IInv /\ [Next]_vars => [\A u \in Users : role[u] = "OWNER" => role'[u] = "OWNER"]_vars
  BY <1>1
<1>3. QED
  BY <1>2, Invariance, PTL DEF Spec, OwnersStay
-----------------------------------------------------------------------------
(* The refinement. *)

\* A step that changes no invite but its status, and creates none, invites nobody.
LEMMA InvitedFrame ==
  ASSUME \A i \in Invites : /\ invite'[i].email = invite[i].email
                            /\ invite'[i].role = invite[i].role
                            /\ invite'[i].status = "absent" <=> invite[i].status = "absent"
  PROVE  Invited' = Invited
<1>1. {j \in Invites : invite'[j].status # "absent"}
        = {j \in Invites : invite[j].status # "absent"}
  OBVIOUS
<1>2. QED
  BY <1>1 DEF Invited

\* The writes to a member: SetRole, Leave.
LEMMA MemberWrites ==
  ASSUME IInv, NEW r \in Requests, Patch(r) \/ Remove(r)
  PROVE  \E u \in Users : Abstract!SetRole(u) \/ Abstract!Leave(u)
<1> DEFINE t == req[r].target
<1>1. TypeOK /\ HeldRow(r)
  BY DEF IInv
<1>2. t \in Users /\ req[r].grant \in {"ADMIN", "MEMBER"}
  BY <1>1, RequestKinds DEF Patch, Remove, OnMember, Roles
<1>3. role[t] \in {"ADMIN", "MEMBER"}
  BY <1>1, <1>2 DEF Patch, Remove, HeldRow, RowExists, TypeOK, Roles
<1>4. Invited' = Invited
  BY DEF Patch, Remove, Invited
<1>5. CASE Patch(r)
  <2>1. Abstract!SetRole(t)
    BY <1>2, <1>3, <1>4, <1>5 DEF Patch, Abstract!SetRole
  <2>2. QED
    BY <1>2, <2>1
<1>6. CASE Remove(r)
  <2>1. Abstract!Leave(t)
    BY <1>2, <1>3, <1>4, <1>6 DEF Remove, Abstract!Leave
  <2>2. QED
    BY <1>2, <2>1
<1>7. QED
  BY <1>5, <1>6

\* The commit of acceptInvite: Join.
LEMMA AcceptJoins ==
  ASSUME IInv, NEW r \in Requests, Accept(r)
  PROVE  \E u \in Users : Abstract!Join(u)
<1> DEFINE i == req[r].invite
           u == invite[i].email
           g == invite[i].role
<1>1. TypeOK /\ HeldInvite(r)
  BY DEF IInv
<1>2. i \in Invites
  BY <1>1, RequestKinds DEF Accept, OnInvite
<1>3. u \in Users /\ g \in {"OWNER", "ADMIN", "MEMBER"}
  BY <1>1, <1>2 DEF TypeOK, Invite, Roles
<1>4. invite[i].status # "absent"
  BY <1>1 DEF HeldInvite, Accept
<1>5. <<u, g>> \in Invited
  BY <1>2, <1>4 DEF Invited
<1>6. invite' = [invite EXCEPT ![i].status = "ACCEPTED"]
  BY DEF Accept
<1>7. Invited' = Invited
  <2>1. \A j \in Invites : /\ invite'[j].email = invite[j].email
                           /\ invite'[j].role = invite[j].role
                           /\ invite'[j].status = "absent" <=> invite[j].status = "absent"
    BY <1>1, <1>2, <1>4, <1>6 DEF TypeOK, Invite
  <2>2. QED
    BY <2>1, InvitedFrame
<1>8. Abstract!Join(u)
  BY <1>3, <1>5, <1>7 DEF Accept, Abstract!Join
<1>9. QED
  BY <1>3, <1>8

\* The write of createInvite: Invite.
LEMMA CreateInvites ==
  ASSUME IInv, NEW r \in Requests, NEW i \in Invites, CreateInvite(r, i)
  PROVE  \E u \in Users, g \in {"OWNER", "ADMIN", "MEMBER"} : Abstract!Invite(u, g)
<1> DEFINE u == req[r].target
           g == req[r].grant
           new == [status |-> "PENDING", email |-> u, role |-> g, fresh |-> TRUE]
<1>1. TypeOK
  BY DEF IInv
<1>2. u \in Users /\ g \in {"OWNER", "ADMIN", "MEMBER"}
  BY <1>1, RequestKinds DEF CreateInvite, OnEmail, Roles
<1>3. /\ invite[i].status = "absent"
      /\ \A j \in Invites : invite'[j] = IF j = i THEN new ELSE invite[j]
  BY <1>1 DEF CreateInvite, TypeOK
<1>4. Invited' = {<<invite'[j].email, invite'[j].role>> :
                    j \in {k \in Invites : invite'[k].status # "absent"}}
  BY DEF Invited
<1>5. {k \in Invites : invite'[k].status # "absent"}
        = {k \in Invites : invite[k].status # "absent"} \cup {i}
  BY <1>3
<1>6. Invited' = Invited \cup {<<u, g>>}
  BY <1>3, <1>4, <1>5 DEF Invited
<1>7. Abstract!Invite(u, g)
  BY <1>6 DEF CreateInvite, Abstract!Invite
<1>8. QED
  BY <1>2, <1>7

\* A revoke and an expiry change no more than an invite's status.
LEMMA InviteWrites ==
  ASSUME IInv,
         (\E r \in Requests : Revoke(r)) \/ (\E i \in Invites : Expire(i))
  PROVE  UNCHANGED <<role, Invited>>
<1>1. TypeOK
  BY DEF IInv
<1>2. CASE \E r \in Requests : Revoke(r)
  <2>1. PICK r \in Requests : Revoke(r)
    BY <1>2
  <2>2. req[r].invite \in Invites /\ invite[req[r].invite].status # "absent"
    BY <1>1, <2>1, RequestKinds DEF Revoke, OnInvite, IInv, HeldInvite
  <2>3. invite' = [invite EXCEPT ![req[r].invite].status = "REVOKED"]
    BY <2>1 DEF Revoke
  <2>4. \A j \in Invites : /\ invite'[j].email = invite[j].email
                           /\ invite'[j].role = invite[j].role
                           /\ invite'[j].status = "absent" <=> invite[j].status = "absent"
    BY <1>1, <2>2, <2>3 DEF TypeOK, Invite
  <2>5. QED
    BY <2>1, <2>4, InvitedFrame DEF Revoke
<1>3. CASE \E i \in Invites : Expire(i)
  <2>1. PICK i \in Invites : Expire(i)
    BY <1>3
  <2>2. invite' = [invite EXCEPT ![i].fresh = FALSE]
    BY <2>1 DEF Expire
  <2>3. \A j \in Invites : /\ invite'[j].email = invite[j].email
                           /\ invite'[j].role = invite[j].role
                           /\ invite'[j].status = "absent" <=> invite[j].status = "absent"
    BY <1>1, <2>2 DEF TypeOK, Invite
  <2>4. QED
    BY <2>1, <2>3, InvitedFrame DEF Expire
<1>4. QED
  BY <1>2, <1>3

\* Every step of every request is a step of the roster or none.
LEMMA RosterStep ==
  ASSUME IInv, [Next]_vars
  PROVE  [Abstract!Next]_(Abstract!vars)
<1>1. ASSUME NEW r \in Requests, Patch(r) \/ Remove(r) PROVE Abstract!Next
  BY <1>1, MemberWrites DEF Abstract!Next
<1>2. ASSUME NEW r \in Requests, Accept(r) PROVE Abstract!Next
  BY <1>2, AcceptJoins DEF Abstract!Next
<1>3. ASSUME NEW r \in Requests, NEW i \in Invites, CreateInvite(r, i) PROVE Abstract!Next
  BY <1>3, CreateInvites DEF Abstract!Next
<1>4. ASSUME (\E r \in Requests : Revoke(r)) \/ (\E i \in Invites : Expire(i))
      PROVE  UNCHANGED Abstract!vars
  BY <1>4, InviteWrites DEF Abstract!vars
<1>5. ASSUME UNCHANGED <<role, invite>> PROVE UNCHANGED Abstract!vars
  BY <1>5 DEF Abstract!vars, Invited
<1>6. QED
  BY <1>1, <1>2, <1>3, <1>4, <1>5
  DEF Next, MemberRequest, InviteRequest, Guard, FindForRemove, FindForPatch,
      CheckEmail, FindForRevoke, FindForAccept, RequestEnds, vars

\* The requests together implement a roster whose changes are single steps.
THEOREM RosterImplemented == Spec => ImplementsRoster
<1>1. Init => Abstract!Init
  BY DEF Init, Abstract!Init, Invited, NoInvite
<1>2. IInv /\ [Next]_vars => [Abstract!Next]_(Abstract!vars)
  BY RosterStep
<1>3. QED
  BY <1>1, <1>2, Invariance, PTL DEF Spec, ImplementsRoster, Abstract!Spec
=============================================================================
