---------------------------- MODULE SingleSession ---------------------------
(***************************************************************************)
(* What the token version and the one-time refresh token promise together. *)
(*                                                                         *)
(* Every user has a current epoch and at most one refresh credential of    *)
(* that epoch.  The credential is "stored" while the client can spend it,  *)
(* "minting" while the server holds it, and "gone" once it is lost,        *)
(* refused, revoked or expired.  A credential that is gone returns only    *)
(* with a new epoch, that is with a new login.                             *)
(***************************************************************************)
EXTENDS Naturals

CONSTANT Users

VARIABLES epoch, cred

States == {"gone", "minting", "stored"}

Init ==
  /\ epoch = [u \in Users |-> 0]
  /\ cred = [u \in Users |-> "gone"]

(* A login or a logout: all credentials of earlier epochs are void.        *)
NewEpoch(u, c) ==
  /\ epoch' = [epoch EXCEPT ![u] = @ + 1]
  /\ c \in {"gone", "minting"}
  /\ cred' = [cred EXCEPT ![u] = c]

Move(u, from, to) ==
  /\ cred[u] = from
  /\ cred' = [cred EXCEPT ![u] = to]
  /\ UNCHANGED epoch

Deposit(u) == Move(u, "minting", "stored")

Take(u) == Move(u, "stored", "minting")

Drop(u) == \E from \in {"minting", "stored"} : Move(u, from, "gone")

Next ==
  \E u \in Users :
    \/ \E c \in States : NewEpoch(u, c)
    \/ Deposit(u)
    \/ Take(u)
    \/ Drop(u)

Spec == Init /\ [][Next]_<<epoch, cred>>

=============================================================================
