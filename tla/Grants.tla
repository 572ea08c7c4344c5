------------------------------- MODULE Grants -------------------------------
(***************************************************************************)
(* The administration of grants (modules/admin/routes.py) behind the check *)
(* of permissions (modules/authz), while instances start (Startup).        *)
(*                                                                         *)
(* Every select is a step.  A write and its COMMIT are one step: another   *)
(* transaction's INSERT ... ON CONFLICT DO NOTHING or DELETE of the same   *)
(* row waits for the COMMIT.  Roles and users are only ever added, so that *)
(* the two selects that look them up are one step.                         *)
(*                                                                         *)
(* strictBegin: the selects have begun the session's transaction, and      *)
(* begin() refuses it, as in KbAssets.                                     *)
(***************************************************************************)
EXTENDS Startup, FiniteSets

CONSTANTS
  Requests,
  Users,
  Supers,   \* those with users.is_superadmin, which the code only reads
  NoUser,   \* a user_id that has no row
  Roles,    \* the roles of seed.py
  Scopes,   \* scope keys
  Global,   \* SCOPE_GLOBAL
  Manage,   \* the permission workspace.manage
  Asked     \* the rows <<user, role, scope>> that requests name

GrantRows == Users \X Roles \X Scopes
NoRow     == <<>>

ASSUME GrantsAssumption ==
  /\ Supers \subseteq Users
  /\ NoUser \notin Users
  /\ Global \in Scopes
  /\ Links \subseteq Roles \X {Manage}
  /\ Asked \subseteq (Users \cup {NoUser}) \X Roles \X Scopes
  /\ IsFiniteSet(Requests)

VARIABLES
  strictBegin,   \* whether begin() refuses a transaction that has begun
  initial,       \* history: user_role_grants at the beginning
  grants,        \* user_role_grants, one row per <<user, role, scope>>
  req            \* the local variables of every request

grantVars == <<strictBegin, initial, grants, req>>

vars == <<seeded, links, inst, strictBegin, initial, grants, req>>

-----------------------------------------------------------------------------
(* State                                                                   *)

Admitted == {"lookup", "exists", "insert", "delete"}
Ends     == {"forbidden", "not_found", "ok", "error"}
PCs      == {"idle", "roles", "perms"} \cup Admitted \cup Ends
Kinds    == {"none", "grant", "revoke", "list"}

Request ==
  [pc    : PCs,
   kind  : Kinds,
   actor : Users \cup {NoUser},
   row   : Asked \cup {NoRow},
   roles : SUBSET Roles,   \* role_ids of require_perms
   idem  : BOOLEAN,        \* idempotent, as answered
   lost  : BOOLEAN]        \* history: it changed the table and could not answer

Blank == [pc |-> "idle", kind |-> "none", actor |-> NoUser, row |-> NoRow, roles |-> {},
          idem |-> FALSE, lost |-> FALSE]

(* Grants are rows of roles that exist.                                    *)
Init ==
  /\ StartupInit
  /\ strictBegin \in BOOLEAN
  /\ initial \in SUBSET (Asked \cap GrantRows)
  /\ initial # {} => seeded
  /\ grants = initial
  /\ req = [r \in Requests |-> Blank]

(* Only existing users hold roles, and only existing roles.                *)
TypeOK ==
  /\ StartupTypeOK
  /\ strictBegin \in BOOLEAN
  /\ initial \subseteq GrantRows
  /\ grants \subseteq GrantRows
  /\ grants # {} => seeded
  /\ req \in [Requests -> Request]

-----------------------------------------------------------------------------
(* Steps of a request                                                      *)

At(r, pc) == req[r].pc = pc

Update(r, state) ==
  /\ req' = [req EXCEPT ![r] = state]
  /\ UNCHANGED <<seeded, links, inst, strictBegin, initial>>

(* role_ids is a local variable of require_perms.                          *)
Goto(r, pc) == Update(r, [req[r] EXCEPT !.pc = pc, !.roles = {}]) /\ UNCHANGED grants

Answer(r, idem) == Update(r, [req[r] EXCEPT !.pc = "ok", !.idem = idem]) /\ UNCHANGED grants

(* get_current_user has selected the user; a superadmin passes.            *)
Start(r, u, kind, row) ==
  /\ At(r, "idle")
  /\ Serving
  /\ Update(r, [req[r] EXCEPT !.pc = IF u \in Supers THEN "lookup" ELSE "roles",
                              !.kind = kind, !.actor = u, !.row = row])
  /\ UNCHANGED grants

-----------------------------------------------------------------------------
(* require_perms(user, scope_key="global", perm_codes=["workspace.manage"])*)

(* scopes_with_global; the scope of the administration is global itself.   *)
ScopesWithGlobal(scope) == {scope, Global}

HeldRoles(u, scopes) == {role \in Roles : \E s \in scopes : <<u, role, s>> \in grants}

(* Mutant: roles held in any scope count.                                  *)
QueryRoles_AnyScope(r) ==
  LET held == HeldRoles(req[r].actor, Scopes)
  IN /\ At(r, "roles")
     /\ \/ held = {} /\ Goto(r, "forbidden")
        \/ /\ held # {}
           /\ Update(r, [req[r] EXCEPT !.pc = "perms", !.roles = held])
           /\ UNCHANGED grants

QueryRoles(r) ==
  LET held == HeldRoles(req[r].actor, ScopesWithGlobal(Global))
  IN /\ At(r, "roles")
     /\ \/ held = {} /\ Goto(r, "forbidden")
        \/ /\ held # {}
           /\ Update(r, [req[r] EXCEPT !.pc = "perms", !.roles = held])
           /\ UNCHANGED grants

(* The permissions of the roles that were held at the first query.         *)
QueryPerms(r) ==
  LET have == \E role \in req[r].roles : <<role, Manage>> \in links
  IN /\ At(r, "perms")
     /\ \/ have /\ Goto(r, "lookup")
        \/ ~ have /\ Goto(r, "forbidden")

-----------------------------------------------------------------------------
(* The handlers                                                            *)

(* The selects of the role and, to grant it, of the user.                  *)
GrantLookup(r) ==
  /\ At(r, "lookup") /\ req[r].kind = "grant"
  /\ \/ seeded /\ req[r].row[1] \in Users /\ Goto(r, "exists")
     \/ ~ (seeded /\ req[r].row[1] \in Users) /\ Goto(r, "not_found")

(* Mutant: the select forgets the scope.                                   *)
GrantExists_AnyScope(r) ==
  LET found == \E s \in Scopes : <<req[r].row[1], req[r].row[2], s>> \in grants
  IN /\ At(r, "exists")
     /\ \/ found /\ Answer(r, TRUE)
        \/ ~ found /\ Goto(r, "insert")

GrantExists(r) ==
  /\ At(r, "exists")
  /\ \/ req[r].row \in grants /\ Answer(r, TRUE)
     \/ req[r].row \notin grants /\ Goto(r, "insert")

RevokeLookup(r) ==
  /\ At(r, "lookup") /\ req[r].kind = "revoke"
  /\ \/ seeded /\ Goto(r, "delete")
     \/ ~ seeded /\ Answer(r, TRUE)

(* One select, over a join with roles.                                     *)
List(r) ==
  /\ At(r, "lookup") /\ req[r].kind = "list"
  /\ Answer(r, FALSE)

(* A COMMIT; its answer arrives, with what the rowcount says, or is lost.  *)
Commit(r, rows) ==
  /\ grants' = rows
  /\ \/ Update(r, [req[r] EXCEPT !.pc = "ok", !.idem = (rows = grants)])
     \/ Update(r, [req[r] EXCEPT !.pc = "error", !.lost = (rows # grants)])

(* Mutant: what the earlier select found is answered, not the rowcount.    *)
Insert_Stale(r) ==
  /\ At(r, "insert") /\ ~ strictBegin
  /\ grants' = grants \cup {req[r].row}
  /\ Update(r, [req[r] EXCEPT !.pc = "ok", !.idem = FALSE])

Insert(r) ==
  /\ At(r, "insert") /\ ~ strictBegin
  /\ Commit(r, grants \cup {req[r].row})

Delete(r) ==
  /\ At(r, "delete") /\ ~ strictBegin
  /\ Commit(r, grants \ {req[r].row})

(* begin() raises: grant_role catches it, revoke_role does not.            *)
Refuse(r) ==
  /\ strictBegin
  /\ req[r].pc \in {"insert", "delete"}
  /\ Goto(r, "error")

(* A statement fails, or the process dies: without effect either way.      *)
Fail(r) ==
  /\ req[r].pc \in {"roles", "perms"} \cup Admitted
  /\ Goto(r, "error")

-----------------------------------------------------------------------------
Handler(r) ==
  \/ QueryRoles(r)
  \/ QueryPerms(r)
  \/ GrantLookup(r)
  \/ GrantExists(r)
  \/ RevokeLookup(r)
  \/ List(r)
  \/ Insert(r)
  \/ Delete(r)
  \/ Refuse(r)

Next ==
  \/ StartupStep /\ UNCHANGED grantVars
  \/ \E r \in Requests, u \in Users, row \in Asked, kind \in {"grant", "revoke"} :
       Start(r, u, kind, row)
  \/ \E r \in Requests, u \in Users : Start(r, u, "list", NoRow)
  \/ \E r \in Requests : Handler(r) \/ Fail(r)

Spec == Init /\ [][Next]_vars

(* An instance that is starting goes on: statements are answered, and a    *)
(* row that stays free is locked.                                          *)
Fairness == \A i \in Instances : WF_vars(Progress(i) /\ UNCHANGED grantVars)

FairSpec == Spec /\ Fairness

-----------------------------------------------------------------------------
(* Safety                                                                  *)

(* The request has changed the table, by its answer or without one.        *)
Changed(r) == (At(r, "ok") /\ ~ req[r].idem) \/ req[r].lost

(* The requests that changed the row in that way.                          *)
Changes(row, kind) ==
  {r \in Requests : req[r].row = row /\ req[r].kind = kind /\ Changed(r)}

Held(row, rows) == IF row \in rows THEN 1 ELSE 0

(* The answers account for the table: the grants and revocations of a row  *)
(* that were not answered as idempotent alternate, however requests overlap*)
(* and whatever their selects had found (routes.py:106, 126-127, 191, 206).*)
EffectsAddUp ==
  \A row \in GrantRows :
    Held(row, initial) + Cardinality(Changes(row, "grant"))
      = Held(row, grants) + Cardinality(Changes(row, "revoke"))

(* The user can still act, or be found able to.                            *)
Inside(u) ==
  \/ u \in Supers
  \/ \E role \in Roles : <<u, role, Global>> \in grants
  \/ \E r \in Requests : req[r].actor = u /\ req[r].pc \in {"perms"} \cup Admitted

(* A user without a global role enters the administration only by a grant  *)
(* that another user makes who is inside: neither a role held in another   *)
(* scope nor a request decided on an earlier grant opens it again, also    *)
(* after a revocation (authz/service.py:12-67, routes.py:35-38).           *)
NobodyLetsThemselvesIn ==
  [][\A u \in Users :
       ~ Inside(u) /\ Inside(u)' =>
         \E r \in Requests : At(r, "insert") /\ Inside(req[r].actor) /\ req[r].actor # u]_vars

-----------------------------------------------------------------------------
(* What the handlers implement.  Who lists the grants is no client of it.  *)

Wish(r) ==
  IF req[r].kind \in {"grant", "revoke"}
  THEN [kind |-> req[r].kind, row |-> req[r].row]
  ELSE [kind |-> "none"]

Told(r) ==
  IF req[r].kind \notin {"grant", "revoke"} THEN "idle"
  ELSE CASE At(r, "ok")    -> IF req[r].idem THEN "idempotent" ELSE "done"
         [] At(r, "error") -> "error"
         [] req[r].pc \in {"forbidden", "not_found"} -> "refused"
         [] OTHER          -> "open"

Abstract == INSTANCE GrantTable WITH
  Clients <- Requests,
  Rows    <- GrantRows,
  Wishes  <- [kind : {"grant", "revoke"}, row : Asked],
  table   <- grants,
  wish    <- [r \in Requests |-> Wish(r)],
  told    <- [r \in Requests |-> Told(r)]

(* grant_role and revoke_role take effect in one step, at most once, and   *)
(* `idempotent` is true of that very step, though what they answer from    *)
(* was read in up to four earlier ones (routes.py:42-206).                 *)
ImplementsGrantTable == Abstract!Spec

=============================================================================
