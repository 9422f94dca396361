---------------------------- MODULE AuditOffice ----------------------------
(***************************************************************************)
(* What the audit of applications promises, whatever the devices do: an     *)
(* application is filed once, pending; it is decided only by an audit that  *)
(* was opened while it was pending; it never becomes pending again; once     *)
(* removed it stays removed.  An audit decides at most once.  Audits opened *)
(* together may each decide, and the last decision stands: the promise is   *)
(* no stronger than what ApplicationController.audit keeps.                 *)
(***************************************************************************)
CONSTANTS Applications, Requests

VARIABLES
    phase,  \* of each application id
    open    \* the audits open on it

avars == <<phase, open>>

Phases == {"absent", "pending", "approved", "refused", "removed"}

AInit ==
    /\ phase = [a \in Applications |-> "absent"]
    /\ open = [a \in Applications |-> {}]

File(a) ==
    /\ phase[a] = "absent"
    /\ phase' = [phase EXCEPT ![a] = "pending"]
    /\ UNCHANGED open

OpenAudit(a, r) ==
    /\ phase[a] = "pending"
    /\ \A b \in Applications : r \notin open[b]
    /\ open' = [open EXCEPT ![a] = @ \cup {r}]
    /\ UNCHANGED phase

Decide(a, r, verdict) ==
    /\ r \in open[a]
    /\ phase[a] \in {"pending", "approved", "refused"}
    /\ phase' = [phase EXCEPT ![a] = verdict]
    /\ open' = [open EXCEPT ![a] = @ \ {r}]

\* Audits may end undecided, several at a time.
Abandon ==
    /\ open' \in [Applications -> SUBSET Requests]
    /\ \A a \in Applications : open'[a] \subseteq open[a]
    /\ UNCHANGED phase

Remove(a) ==
    /\ phase[a] \in {"pending", "approved", "refused"}
    /\ phase' = [phase EXCEPT ![a] = "removed"]
    /\ UNCHANGED open

ANext ==
    \/ \E a \in Applications :
          \/ File(a) \/ Remove(a)
          \/ \E r \in Requests :
                \/ OpenAudit(a, r)
                \/ \E verdict \in {"approved", "refused"} : Decide(a, r, verdict)
    \/ Abandon

ASpec == AInit /\ [][ANext]_avars
=============================================================================
