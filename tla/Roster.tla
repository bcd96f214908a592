------------------------------- MODULE Roster -------------------------------
(***************************************************************************)
(* What a workspace promises about its members, with every change in one   *)
(* step and no request in sight: whoever joins was invited, to the role    *)
(* they get; an OWNER is OWNER for good; the others change between ADMIN   *)
(* and MEMBER or leave, and come back as they came.                        *)
(***************************************************************************)
CONSTANTS
  Users,
  Creator    \* the user who created the workspace

VARIABLES
  role,      \* by user; "none" for those who are no members
  invited    \* the users that were ever invited, with the role to get

vars == <<role, invited>>
-----------------------------------------------------------------------------
Init ==
  /\ role = [u \in Users |-> IF u = Creator THEN "OWNER" ELSE "none"]
  /\ invited = {}

Invite(u, g) ==
  /\ invited' = invited \cup {<<u, g>>}
  /\ UNCHANGED role

Join(u) ==
  /\ role[u] = "none"
  /\ \E g \in {"OWNER", "ADMIN", "MEMBER"} :
       /\ <<u, g>> \in invited
       /\ role' = [role EXCEPT ![u] = g]
  /\ UNCHANGED invited

SetRole(u) ==
  /\ role[u] \in {"ADMIN", "MEMBER"}
  /\ \E g \in {"ADMIN", "MEMBER"} : role' = [role EXCEPT ![u] = g]
  /\ UNCHANGED invited

Leave(u) ==
  /\ role[u] \in {"ADMIN", "MEMBER"}
  /\ role' = [role EXCEPT ![u] = "none"]
  /\ UNCHANGED invited

Next ==
  \E u \in Users :
    \/ \E g \in {"OWNER", "ADMIN", "MEMBER"} : Invite(u, g)
    \/ Join(u) \/ SetRole(u) \/ Leave(u)

Spec == Init /\ [][Next]_vars
=============================================================================
