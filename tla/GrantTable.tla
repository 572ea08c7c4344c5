----------------------------- MODULE GrantTable -----------------------------
(***************************************************************************)
(* What granting and revoking promise together: a table of grants on which *)
(* every request acts at most once, in one step, and is told the truth.    *)
(*                                                                         *)
(* A request wishes for a row to be there or not.  It is answered "done"   *)
(* in a step that changed the table, "idempotent" in a step that found the *)
(* wish fulfilled, and "refused" in a step that left the table alone.      *)
(* After an "error" its wish may or may not have come true: at that time,  *)
(* and never later.                                                        *)
(***************************************************************************)
CONSTANTS
  Clients,
  Rows,     \* what the table can hold
  Wishes    \* records [kind, row], of kind "grant" or "revoke"

VARIABLES table, wish, told

NoWish == [kind |-> "none"]

Init ==
  /\ table \in SUBSET Rows
  /\ wish = [c \in Clients |-> NoWish]
  /\ told = [c \in Clients |-> "idle"]

Granted(w) == IF w.kind = "grant" THEN table \cup {w.row} ELSE table \ {w.row}

Ask(c, w) ==
  /\ told[c] = "idle"
  /\ wish' = [wish EXCEPT ![c] = w]
  /\ told' = [told EXCEPT ![c] = "open"]
  /\ UNCHANGED table

Tell(c, answer) ==
  /\ told[c] = "open"
  /\ told' = [told EXCEPT ![c] = answer]
  /\ UNCHANGED wish

(* The table holds nothing but its rows, whatever is wished.               *)
Act(c) ==
  LET rows == Granted(wish[c])
  IN /\ Tell(c, IF rows = table THEN "idempotent" ELSE "done")
     /\ rows \subseteq Rows
     /\ table' = rows

Refuse(c) == Tell(c, "refused") /\ UNCHANGED table

Err(c) ==
  /\ Tell(c, "error")
  /\ table' \in {table, Granted(wish[c])} \cap SUBSET Rows

Next ==
  \E c \in Clients :
    \/ \E w \in Wishes : Ask(c, w)
    \/ Act(c)
    \/ Refuse(c)
    \/ Err(c)

Spec == Init /\ [][Next]_<<table, wish, told>>

=============================================================================
