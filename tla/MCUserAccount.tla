--------------------------- MODULE MCUserAccount ---------------------------
(* Threads are interchangeable, and so are the users beside the admin. *)
EXTENDS UserAccount, TLC

Symmetric == Permutations(Requests) \cup Permutations(Users \ {Admin})

\* The form of the page; forms that send the status of enabled users,
\* a salt or a digest alone.
NothingSent == [account |-> NotSent, password |-> NotSent, salt |-> NotSent,
                status |-> NotSent, roles |-> NotSent]
PageForms == {[NothingSent EXCEPT !.account = a, !.password = NoDigest] : a \in Accounts}
MCForms == PageForms \cup {[NothingSent EXCEPT !.status = "ok"]}
                     \cup {[NothingSent EXCEPT !.salt = s] : s \in Salts}
                     \cup {[NothingSent EXCEPT !.password = d] : d \in Digests}
=============================================================================
