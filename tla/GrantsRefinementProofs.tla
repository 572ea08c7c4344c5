----------------------- MODULE GrantsRefinementProofs -----------------------
(***************************************************************************)
(* TLAPS proof that Grants implements GrantTable under the mapping Wish,   *)
(* Told, for any number of requests, users, roles and scopes.              *)
(*                                                                         *)
(* A request of the administration is open from its start to its answer.   *)
(* It acts on the table with its COMMIT, or with the select that made a    *)
(* COMMIT needless: what it answers then is true of the table at that      *)
(* step (Met in Moves, Changed in Writes), and its last step it is.        *)
(***************************************************************************)
EXTENDS GrantsProofs

Wishing == {"grant", "revoke"}

WishMap == [r \in Requests |-> Wish(r)]

ToldMap == [r \in Requests |-> Told(r)]

mapped == <<grants, WishMap, ToldMap>>

-----------------------------------------------------------------------------
(* The mapping, case by case.                                              *)

LEMMA Wished ==
  ASSUME NEW r \in Requests
  PROVE  /\ req[r].kind \in Wishing => Wish(r) = [kind |-> req[r].kind, row |-> req[r].row]
         /\ req[r].kind \notin Wishing => Wish(r) = [kind |-> "none"] /\ Told(r) = "idle"
BY DEF Wish, Told, Wishing

LEMMA ToldOpen ==
  ASSUME NEW r \in Requests, req[r].kind \in Wishing, req[r].pc \in Active
  PROVE  Told(r) = "open"
BY DEF Told, Wishing, At, Active, Admitted

(* A step of one request moves the mapping there only.                     *)
LEMMA MapAlone ==
  ASSUME NEW r \in Requests, Alone(r)
  PROVE  /\ WishMap' = [WishMap EXCEPT ![r] = Wish(r)']
         /\ ToldMap' = [ToldMap EXCEPT ![r] = Told(r)']
         /\ WishMap[r] = Wish(r) /\ ToldMap[r] = Told(r)
         /\ Wish(r)' = Wish(r) => WishMap' = WishMap
         /\ Told(r)' = Told(r) => ToldMap' = ToldMap
<1>1. ASSUME NEW q \in Requests \ {r}
      PROVE  Wish(q)' = Wish(q) /\ Told(q)' = Told(q)
  BY DEF Alone, Wish, Told, At
<1> QED
  BY <1>1 DEF WishMap, ToldMap

-----------------------------------------------------------------------------
(* The steps.                                                              *)

(* What an open request that answers does to the table of GrantTable.      *)
LEMMA Answers ==
  ASSUME NEW r \in Requests, Alone(r), Wish(r)' = Wish(r), Told(r) = "open",
         grants' \subseteq GrantRows,
         \/ /\ grants' = Abstract!Granted(Wish(r))
            /\ Told(r)' = IF grants' = grants THEN "idempotent" ELSE "done"
         \/ Told(r)' = "refused" /\ grants' = grants
         \/ Told(r)' = "error" /\ grants' \in {grants, Abstract!Granted(Wish(r))}
  PROVE  Abstract!Next
<1>1. /\ WishMap' = WishMap /\ WishMap[r] = Wish(r) /\ ToldMap[r] = "open"
      /\ ToldMap' = [ToldMap EXCEPT ![r] = Told(r)']
  BY MapAlone
<1>2. Abstract!Tell(r, Told(r)')
  BY <1>1 DEF Abstract!Tell, WishMap, ToldMap
<1>3. CASE /\ grants' = Abstract!Granted(Wish(r))
           /\ Told(r)' = IF grants' = grants THEN "idempotent" ELSE "done"
  BY <1>1, <1>2, <1>3 DEF Abstract!Act, Abstract!Next, WishMap
<1>4. CASE Told(r)' = "refused" /\ grants' = grants
  BY <1>2, <1>4 DEF Abstract!Refuse, Abstract!Next
<1>5. CASE Told(r)' = "error" /\ grants' \in {grants, Abstract!Granted(Wish(r))}
  BY <1>1, <1>2, <1>5 DEF Abstract!Err, Abstract!Next, WishMap
<1> QED
  BY <1>3, <1>4, <1>5

LEMMA StartRefines ==
  ASSUME Intents, Intents', NEW r \in Requests, Moves(r), At(r, "idle")
  PROVE  [Abstract!Next]_mapped
<1>1. /\ Alone(r) /\ grants' = grants /\ req'[r].pc \in Active
      /\ req'[r].kind \in {"grant", "revoke", "list"}
      /\ req'[r].kind \in Wishing => req'[r].row \in Asked
  BY DEF Moves, At, Active, Admitted, Wishing
<1>2. Wish(r) = [kind |-> "none"] /\ Told(r) = "idle"
  BY Wished DEF Intents, Wishing
<1>3. CASE req'[r].kind = "list"
  <2>1. Wish(r)' = [kind |-> "none"] /\ Told(r)' = "idle"
    BY <1>3, Wished DEF Wish, Told, Wishing
  <2> QED
    BY <1>1, <1>2, <2>1, MapAlone DEF mapped
<1>4. CASE req'[r].kind \in Wishing
  <2>1. /\ Wish(r)' = [kind |-> req'[r].kind, row |-> req'[r].row]
        /\ Told(r)' = "open"
    BY <1>1, <1>4 DEF Wish, Told, Wishing, At, Active, Admitted
  <2>2. Wish(r)' \in [kind : {"grant", "revoke"}, row : Asked]
    BY <1>1, <1>4, <2>1 DEF Wishing
  <2>3. Abstract!Ask(r, Wish(r)')
    BY <1>1, <1>2, <2>1, MapAlone DEF Abstract!Ask, WishMap, ToldMap
  <2> QED
    BY <2>2, <2>3 DEF Abstract!Next
<1> QED
  BY <1>1, <1>3, <1>4 DEF Wishing

LEMMA MoveRefines ==
  ASSUME IInv, IInv', NEW r \in Requests, Moves(r), req[r].pc \in Active
  PROVE  [Abstract!Next]_mapped
<1>1. /\ Alone(r) /\ grants' = grants /\ SameTask(r) /\ req'[r].pc \in PCs \ {"idle"}
      /\ grants \subseteq GrantRows
  BY DEF Moves, Alone, At, Active, Admitted, IInv, TypeOK, Request
<1>2. CASE req[r].kind \notin Wishing
  <2>1. Wish(r)' = Wish(r) /\ Told(r)' = Told(r)
    BY <1>1, <1>2 DEF SameTask, Wish, Told, Wishing
  <2> QED
    BY <1>1, <2>1, MapAlone DEF mapped
<1>3. CASE req[r].kind \in Wishing
  <2>1. /\ Wish(r)' = Wish(r) /\ Told(r) = "open" /\ req'[r].kind \in Wishing
        /\ Wish(r).kind = req[r].kind /\ Wish(r).row = req[r].row
    BY <1>1, <1>3, ToldOpen, Wished DEF SameTask, Wish
  <2>2. CASE req'[r].pc \in Active
    <3>1. Told(r)' = "open"
      BY <2>1, <2>2 DEF Told, Wishing, At, Active, Admitted
    <3> QED
      BY <1>1, <2>1, <3>1, MapAlone DEF mapped
  <2>3. CASE req'[r].pc = "ok"
    <3>1. Met(r) /\ req'[r].idem
      BY <1>1, <1>3, <2>3 DEF Moves, Changed, At, SameTask, Wishing
    <3>2. Abstract!Granted(Wish(r)) = grants
      BY <1>3, <2>1, <3>1 DEF Abstract!Granted, Met, Wishing
    <3>3. Told(r)' = "idempotent"
      BY <2>1, <2>3, <3>1 DEF Told, Wishing, At
    <3> QED
      BY <1>1, <2>1, <3>2, <3>3, Answers
  <2>4. CASE req'[r].pc \in {"forbidden", "not_found"}
    <3>1. Told(r)' = "refused"
      BY <2>1, <2>4 DEF Told, Wishing, At
    <3> QED
      BY <1>1, <2>1, <3>1, Answers
  <2>5. CASE req'[r].pc = "error"
    <3>1. Told(r)' = "error"
      BY <2>1, <2>5 DEF Told, Wishing, At
    <3> QED
      BY <1>1, <2>1, <3>1, Answers
  <2> QED
    BY <1>1, <2>2, <2>3, <2>4, <2>5 DEF PCs, Ends, Active
<1> QED
  BY <1>2, <1>3

LEMMA WriteRefines ==
  ASSUME IInv, IInv', NEW r \in Requests, Writes(r)
  PROVE  [Abstract!Next]_mapped
<1>1. /\ Alone(r) /\ SameTask(r) /\ req[r].kind \in Wishing /\ req[r].pc \in Active
      /\ grants' \subseteq GrantRows /\ req'[r].pc \in {"ok", "error"}
  BY DEF Writes, IInv, Intents, TypeOK, At, Active, Admitted, Wishing
<1>2. /\ Wish(r)' = Wish(r) /\ Told(r) = "open" /\ req'[r].kind \in Wishing
      /\ Wish(r).kind = req[r].kind /\ Wish(r).row = req[r].row
  BY <1>1, ToldOpen, Wished DEF SameTask, Wish
<1>3. grants' = Abstract!Granted(Wish(r))
  BY <1>2 DEF Writes, IInv, Intents, Abstract!Granted, At
<1>4. CASE req'[r].pc = "ok"
  <2>1. req'[r].idem <=> grants' = grants
    BY <1>4 DEF Writes, Changed, At
  <2>2. Told(r)' = IF req'[r].idem THEN "idempotent" ELSE "done"
    BY <1>2, <1>4 DEF Told, Wishing, At
  <2> QED
    BY <1>1, <1>2, <1>3, <2>1, <2>2, Answers
<1>5. CASE req'[r].pc = "error"
  <2>1. Told(r)' = "error"
    BY <1>2, <1>5 DEF Told, Wishing, At
  <2> QED
    BY <1>1, <1>2, <1>3, <2>1, Answers
<1> QED
  BY <1>1, <1>4, <1>5

-----------------------------------------------------------------------------
LEMMA InitRefines == Init => Abstract!Init
<1> SUFFICES ASSUME Init
             PROVE  Abstract!Init
  OBVIOUS
<1>1. \A r \in Requests : Wish(r) = [kind |-> "none"] /\ Told(r) = "idle"
  BY Wished DEF Init, Blank, Wishing
<1>2. grants \in SUBSET GrantRows
  BY DEF Init
<1> QED
  BY <1>1, <1>2 DEF Abstract!Init, Abstract!NoWish, WishMap, ToldMap

LEMMA StepRefines == IInv /\ IInv' /\ [Next]_vars => [Abstract!Next]_mapped
<1> SUFFICES ASSUME IInv, IInv', [Next]_vars
             PROVE  [Abstract!Next]_mapped
  OBVIOUS
<1>1. CASE UNCHANGED <<grants, req>>
  BY <1>1 DEF mapped, WishMap, ToldMap, Wish, Told, At
<1>2. ASSUME NEW r \in Requests, Moves(r)
      PROVE  [Abstract!Next]_mapped
  BY <1>2, StartRefines, MoveRefines DEF Moves, IInv
<1>3. ASSUME NEW r \in Requests, Writes(r)
      PROVE  [Abstract!Next]_mapped
  BY <1>3, WriteRefines
<1> QED
  BY <1>1, <1>2, <1>3, Steps DEF vars, grantVars

(* grant_role and revoke_role implement GrantTable: whatever overlaps or   *)
(* fails, a request takes effect in one step or not at all, and a client   *)
(* that is answered is told whether that step changed the table.           *)
THEOREM HandlersImplementGrantTable == Spec => ImplementsGrantTable
<1>1. Init => Abstract!Init
  BY InitRefines
<1>2. IInv /\ IInv' /\ [Next]_vars => [Abstract!Next]_mapped
  BY StepRefines
<1> QED
  BY <1>1, <1>2, Invariance, PTL
  DEF Spec, ImplementsGrantTable, Abstract!Spec, mapped, WishMap, ToldMap

=============================================================================
