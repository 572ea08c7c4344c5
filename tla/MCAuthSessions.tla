--------------------------- MODULE MCAuthSessions ---------------------------
(* Small instances of AuthSessions for TLC.  Requests are interchangeable, *)
(* and so are users.                                                       *)
EXTENDS AuthSessions, FiniteSets, TLC

CONSTANT MaxFailures  \* bound: requests that end without an answer

Symmetry == Permutations(Reqs) \cup Permutations(Users)

FewFailures == Cardinality({r \in Reqs : At(r, "failed")}) <= MaxFailures

(* Accounts stay as they are: SetActive is explored by the other instance. *)
CalmAccounts == FewFailures /\ \A u \in Users : active[u]

(* Liveness has no symmetry sets.  Requests that are numbered arrive in    *)
(* that order instead: whoever arrives first may as well be called 1.      *)
InOrder == \A q, r \in Reqs : q < r /\ At(q, "idle") => At(r, "idle")

OrderlySpec == Init /\ [][Next /\ InOrder']_vars /\ Fairness

=============================================================================
