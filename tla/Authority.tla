----------------------------- MODULE Authority -----------------------------
(***************************************************************************)
(* What the roles promise, whatever the tables, transactions and caches do. *)
(* A role permits menus.  What it permits changes as a whole, to the menus  *)
(* that one errand ordered for it and that still exist, or when a menu is   *)
(* retired.  What a session is permitted is all that its roles permitted at *)
(* one moment since the session began, until it is told anew or told        *)
(* nothing.  Errands that overlap may be done in any order and may be given *)
(* up; nobody promises that a role ordered menus for still exists.          *)
(***************************************************************************)
CONSTANTS Roles, AdminRole, Menus, Sessions, Requests

VARIABLES
    existing,   \* the menus that there are
    standing,   \* the existing menus that each role permits
    member,     \* the roles of each session, as a set of sets
    permits,    \* the menus each session is permitted
    errand      \* what each thread is about to change

avars == <<existing, standing, member, permits, errand>>

Nothing == [kind |-> "nothing"]
Ordered(o, menus) == [kind |-> "order", role |-> o, menus |-> menus]
Seen(s, menus) == [kind |-> "look", session |-> s, menus |-> menus]

AInit ==
    /\ existing = Menus
    /\ standing = [o \in Roles |-> IF o = AdminRole THEN Menus ELSE {}]
    /\ member = [s \in Sessions |-> {}]
    /\ permits = [s \in Sessions |-> {}]
    /\ errand = [r \in Requests |-> Nothing]

Begun(r, e) ==
    /\ errand[r] = Nothing
    /\ errand' = [errand EXCEPT ![r] = e]
Ended(r) == errand' = [errand EXCEPT ![r] = Nothing]

Order(r, o, menus) ==
    /\ Begun(r, Ordered(o, menus))
    /\ UNCHANGED <<existing, standing, member, permits>>

Serve(r) ==
    /\ errand[r].kind = "order"
    /\ standing' = [standing EXCEPT ![errand[r].role] =
                       errand[r].menus \cap existing]
    /\ Ended(r)
    /\ UNCHANGED <<existing, member, permits>>

Withdraw(r) ==
    /\ errand[r].kind = "order"
    /\ Ended(r)
    /\ UNCHANGED <<existing, standing, member, permits>>

Retire(m) ==
    /\ m \in existing
    /\ existing' = existing \ {m}
    /\ standing' = [o \in Roles |-> standing[o] \ {m}]
    /\ UNCHANGED <<member, permits, errand>>

Enter(s, roles) ==
    /\ member[s] = {}
    /\ member' = [member EXCEPT ![s] = {roles}]
    /\ UNCHANGED <<existing, standing, permits, errand>>

Leave(s) ==
    /\ member[s] # {}
    /\ member' = [member EXCEPT ![s] = {}]
    /\ permits' = [permits EXCEPT ![s] = {}]
    /\ errand' = [r \in Requests |->
          IF errand[r].kind = "look" /\ errand[r].session = s
          THEN Nothing ELSE errand[r]]
    /\ UNCHANGED <<existing, standing>>

Look(r, s) ==
    /\ member[s] # {}
    /\ Begun(r, Seen(s, UNION {standing[o] : o \in UNION member[s]}))
    /\ UNCHANGED <<existing, standing, member, permits>>

Tell(r) ==
    /\ errand[r].kind = "look"
    /\ permits' = [permits EXCEPT ![errand[r].session] = errand[r].menus]
    /\ Ended(r)
    /\ UNCHANGED <<existing, standing, member>>

Forget(sessions) ==
    /\ permits' = [s \in Sessions |-> IF s \in sessions THEN {} ELSE permits[s]]
    /\ UNCHANGED <<existing, standing, member, errand>>

ANext ==
    \/ \E r \in Requests :
          \/ \E o \in Roles, menus \in SUBSET Menus : Order(r, o, menus)
          \/ \E s \in Sessions : Look(r, s)
          \/ Serve(r) \/ Withdraw(r) \/ Tell(r)
    \/ \E m \in Menus : Retire(m)
    \/ \E s \in Sessions :
          \/ \E roles \in SUBSET Roles : Enter(s, roles)
          \/ Leave(s)
    \/ \E sessions \in SUBSET Sessions : Forget(sessions)

ASpec == AInit /\ [][ANext]_avars
=============================================================================
