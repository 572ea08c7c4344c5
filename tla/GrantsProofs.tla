---------------------------- MODULE GrantsProofs ----------------------------
(***************************************************************************)
(* TLAPS proofs about Grants and Startup, for any number of instances,     *)
(* requests, users, roles and scopes, and whether or not begin() refuses a *)
(* transaction that has begun.                                             *)
(*                                                                         *)
(* The row locks of two transactions are disjoint, and a transaction that  *)
(* compares has all of them: nobody inserts what it found missing.  The    *)
(* requests that changed a row are counted one by one.                     *)
(***************************************************************************)
EXTENDS Grants, FiniteSetTheorems, TLAPS

-----------------------------------------------------------------------------
(* The inductive invariant.                                                *)

(* Locks exclude each other, and what was missing still is.                *)
Locks ==
  /\ \A i, k \in Instances : i # k => inst[i].locked \cap inst[k].locked = {}
  /\ \A i \in Instances : inst[i].pc = "commit" => inst[i].missing = Defaults \ links

(* Everybody locks the rows from the first one on.                         *)
InOrder == \A i \in Instances : \E n \in 0 .. NumRows : inst[i].locked = 1 .. n

(* A request about to write is of that kind, and names what exists.        *)
Intents ==
  \A r \in Requests :
    /\ At(r, "exists") \/ At(r, "insert") =>
         req[r].kind = "grant" /\ req[r].row \in GrantRows /\ seeded
    /\ At(r, "delete") => req[r].kind = "revoke"
    /\ req[r].lost => At(r, "error")
    /\ At(r, "idle") <=> req[r].kind = "none"
    /\ req[r].kind \in {"grant", "revoke"} => req[r].row \in Asked

IInv ==
  /\ TypeOK
  /\ Locks
  /\ InOrder
  /\ ServesSeeded
  /\ Intents
  /\ EffectsAddUp

-----------------------------------------------------------------------------
LEMMA InitInvariant == Init => IInv
<1> SUFFICES ASSUME Init
             PROVE  IInv
  OBVIOUS
<1> USE StartupAssumption, GrantsAssumption DEF Init, StartupInit, New, Blank
<1>1. TypeOK
  <2>1. New \in Instance
    BY DEF Instance, Starting, Rows
  <2>2. Blank \in Request
    BY DEF Request, PCs, Kinds
  <2> QED
    BY <2>1, <2>2 DEF TypeOK, StartupTypeOK, GrantRows
<1>2. Locks /\ ServesSeeded /\ Intents
  BY DEF Locks, ServesSeeded, Intents, At
<1>o. InOrder
  <2>1. 0 \in 0 .. NumRows /\ {} = 1 .. 0
    OBVIOUS
  <2> QED
    BY <2>1 DEF InOrder
<1>3. EffectsAddUp
  <2>1. \A row \in GrantRows, kind \in {"grant", "revoke"} : Changes(row, kind) = {}
    BY DEF Changes, Changed, At
  <2>2. Cardinality({}) = 0
    BY FS_EmptySet
  <2> QED
    BY <2>1, <2>2 DEF EffectsAddUp, Held
<1> QED
  BY <1>1, <1>2, <1>o, <1>3 DEF IInv

-----------------------------------------------------------------------------
(* The steps of an instance.                                               *)

Only(i) ==
  /\ inst' \in [Instances -> Instance]
  /\ \A k \in Instances \ {i} : inst'[k] = inst[k]

(* It serves without a sync, or ends.                                      *)
Plain(i) ==
  /\ UNCHANGED <<seeded, links>>
  /\ inst'[i].locked = {} /\ inst'[i].pc # "commit" /\ ~ inst'[i].synced

Locking(i) ==
  /\ UNCHANGED <<seeded, links>>
  /\ inst'[i].pc = "upsert" /\ ~ inst'[i].synced
  /\ \E row \in Rows \ inst[i].locked :
       /\ \A before \in Rows : before < row => before \in inst[i].locked
       /\ inst'[i].locked = inst[i].locked \cup {row} /\ Free(i, row)

Comparing(i) ==
  /\ UNCHANGED <<seeded, links>>
  /\ inst'[i].pc = "commit" /\ ~ inst'[i].synced
  /\ inst'[i].locked = inst[i].locked /\ inst[i].locked = Rows
  /\ inst'[i].missing = Defaults \ links

Committing(i) ==
  /\ inst[i].pc = "commit" /\ seeded' = TRUE /\ links' = links \cup inst[i].missing
  /\ inst'[i].locked = {} /\ inst'[i].pc \in {"serving", "ended"}
  /\ inst'[i].synced => inst'[i].pc = "serving"

LEMMA StartupFields ==
  ASSUME StartupTypeOK, NEW i \in Instances, Progress(i) \/ FailStart(i) \/ Stop(i)
  PROVE  Only(i) /\ (Plain(i) \/ Locking(i) \/ Comparing(i) \/ Committing(i))
<1>t. /\ inst \in [Instances -> Instance] /\ inst[i] \in Instance
      /\ inst[i].pc \notin {"upsert", "commit"} => inst[i].locked = {}
      /\ inst[i].pc \in Starting => ~ inst[i].synced
      /\ links \subseteq Links /\ Defaults \subseteq Links
  BY StartupAssumption DEF StartupTypeOK, Starting
<1>0. ASSUME NEW state \in Instance, Becomes(i, state)
      PROVE  Only(i) /\ inst'[i] = state
  BY <1>t, <1>0 DEF Becomes, Only
<1>l. ASSUME NEW pc \in {"serving", "ended"}, Leaves(i, pc)
      PROVE  /\ Only(i) /\ inst'[i].locked = {} /\ inst'[i].pc = pc
             /\ inst'[i].synced = (pc = "serving")
  <2> DEFINE state == [New EXCEPT !.pc = pc, !.synced = (pc = "serving")]
  <2>1. /\ state \in Instance /\ state.locked = {} /\ state.pc = pc
        /\ state.synced = (pc = "serving")
    BY DEF New, Instance, Starting
  <2> QED
    BY <1>l, <1>0, <2>1 DEF Leaves
<1>1. CASE Checked(i)
  <2>1. ASSUME NEW pc \in {"upsert", "serving"}, Becomes(i, [inst[i] EXCEPT !.pc = pc])
        PROVE  Only(i) /\ inst'[i].locked = {} /\ inst'[i].pc = pc /\ ~ inst'[i].synced
    <3> DEFINE state == [inst[i] EXCEPT !.pc = pc]
    <3>1. /\ state \in Instance /\ state.locked = inst[i].locked /\ state.pc = pc
          /\ state.synced = inst[i].synced
      BY <1>t DEF Instance, Starting
    <3> QED
      BY <1>0, <1>1, <1>t, <2>1, <3>1 DEF Checked, Starting
  <2> QED
    BY <1>1, <2>1 DEF Checked, Plain
<1>2. CASE Upsert(i)
  <2>1. PICK row \in Rows \ inst[i].locked :
               /\ \A before \in Rows : before < row => before \in inst[i].locked
               /\ Free(i, row) /\ Lock(i, row)
    BY <1>2 DEF Upsert
  <2> DEFINE state == [inst[i] EXCEPT !.locked = @ \cup {row}]
  <2>2. /\ state \in Instance /\ state.locked = inst[i].locked \cup {row}
        /\ state.pc = "upsert" /\ state.synced = inst[i].synced
    BY <1>2, <1>t DEF Instance, Upsert
  <2> QED
    BY <1>0, <1>2, <1>t, <2>1, <2>2 DEF Lock, Upsert, Locking, Starting
<1>3. CASE Compare(i)
  <2> DEFINE state == [inst[i] EXCEPT !.pc = "commit", !.missing = Defaults \ links]
  <2>1. /\ state \in Instance /\ state.locked = inst[i].locked /\ state.pc = "commit"
        /\ state.synced = inst[i].synced /\ state.missing = Defaults \ links
    BY <1>t DEF Instance, Starting
  <2> QED
    BY <1>0, <1>3, <1>t, <2>1 DEF Compare, Comparing, Starting
<1>4. CASE CommitSync(i)
  BY <1>4, <1>l DEF CommitSync, Committing
<1>5. CASE FailStart(i) \/ Stop(i)
  BY <1>5, <1>l DEF FailStart, Stop, Plain
<1> QED
  BY <1>1, <1>2, <1>3, <1>4, <1>5 DEF Progress

LEMMA StepStartup ==
  ASSUME StartupTypeOK, Locks, InOrder, ServesSeeded, NEW i \in Instances,
         Only(i) /\ (Plain(i) \/ Locking(i) \/ Comparing(i) \/ Committing(i))
  PROVE  /\ StartupTypeOK' /\ Locks' /\ InOrder' /\ ServesSeeded'
         /\ seeded => seeded'
<1>t. /\ StartupTypeOK /\ inst[i] \in Instance /\ inst[i].missing \subseteq Links
      /\ Rows # {}
  BY StartupAssumption DEF StartupTypeOK, Instance, Rows
<1>1. \A k \in Instances : inst'[k] \in Instance
  BY DEF Only
<1>o. InOrder'
  <2>1. \A k \in Instances \ {i} : \E n \in 0 .. NumRows : inst'[k].locked = 1 .. n
    BY DEF Only, InOrder
  <2>2. \E n \in 0 .. NumRows : inst'[i].locked = 1 .. n
    <3>1. CASE inst'[i].locked = {}
      <4>1. 0 \in 0 .. NumRows /\ {} = 1 .. 0
        BY StartupAssumption
      <4> QED
        BY <3>1, <4>1
    <3>2. CASE inst'[i].locked = inst[i].locked
      BY <3>2 DEF InOrder
    <3>3. CASE Locking(i)
      <4>1. PICK n \in 0 .. NumRows : inst[i].locked = 1 .. n
        BY DEF InOrder
      <4>2. PICK row \in Rows \ inst[i].locked :
                   /\ \A before \in Rows : before < row => before \in inst[i].locked
                   /\ inst'[i].locked = inst[i].locked \cup {row}
        BY <3>3 DEF Locking
      <4>3. row = n + 1
        BY <4>1, <4>2, StartupAssumption DEF Rows
      <4>4. n + 1 \in 0 .. NumRows /\ (1 .. n) \cup {n + 1} = 1 .. n + 1
        BY <4>2, <4>3, StartupAssumption DEF Rows
      <4> QED
        BY <4>1, <4>2, <4>3, <4>4
    <3> QED
      BY <3>1, <3>2, <3>3 DEF Plain, Comparing, Committing
  <2> QED
    BY <2>1, <2>2 DEF InOrder
<1>2. CASE Plain(i)
  <2>1. StartupTypeOK'
    BY <1>t, <1>2 DEF Plain, Only, StartupTypeOK, Instance, Starting
  <2>2. Locks' /\ ServesSeeded'
    BY <1>2 DEF Plain, Only, Locks, ServesSeeded
  <2> QED
    BY <1>2, <1>o, <2>1, <2>2 DEF Plain
<1>3. CASE Locking(i)
  <2>1. StartupTypeOK'
    BY <1>t, <1>3 DEF Locking, Only, StartupTypeOK
  <2>2. Locks' /\ ServesSeeded'
    BY <1>3 DEF Locking, Only, Locks, ServesSeeded, Free
  <2> QED
    BY <1>3, <1>o, <2>1, <2>2 DEF Locking
<1>4. CASE Comparing(i)
  <2>1. StartupTypeOK'
    BY <1>t, <1>4 DEF Comparing, Only, StartupTypeOK
  <2>2. Locks' /\ ServesSeeded'
    BY <1>4 DEF Comparing, Only, Locks, ServesSeeded
  <2> QED
    BY <1>4, <1>o, <2>1, <2>2 DEF Comparing
<1>5. CASE Committing(i)
  <2>1. StartupTypeOK'
    BY <1>t, <1>5 DEF Committing, Only, StartupTypeOK
  <2>2. \A k \in Instances \ {i} : inst[k].pc # "commit"
    BY <1>t, <1>5 DEF Committing, Locks, StartupTypeOK
  <2>3. Locks'
    BY <1>5, <2>2 DEF Committing, Only, Locks
  <2>4. Defaults \subseteq links'
    BY <1>5 DEF Committing, Locks
  <2>5. ServesSeeded'
    BY <1>5, <2>4 DEF Committing, ServesSeeded
  <2> QED
    BY <1>5, <1>o, <2>1, <2>3, <2>5 DEF Committing
<1> QED
  BY <1>2, <1>3, <1>4, <1>5

-----------------------------------------------------------------------------
(* The steps of a request.                                                 *)

Alone(r) ==
  /\ req' \in [Requests -> Request]
  /\ \A q \in Requests \ {r} : req'[q] = req[q]
  /\ UNCHANGED <<seeded, links, inst, strictBegin, initial>>

Active == {"roles", "perms"} \cup Admitted

SameTask(r) == req'[r].kind = req[r].kind /\ req'[r].row = req[r].row /\ req'[r].actor = req[r].actor

(* What the request wishes is the case.                                    *)
Met(r) == IF req[r].kind = "grant" THEN req[r].row \in grants ELSE req[r].row \notin grants

(* It changes nothing, says so, and nobody comes in that was not.          *)
Moves(r) ==
  /\ Alone(r) /\ grants' = grants
  /\ \/ At(r, "idle") /\ req'[r].pc \in Active /\ req'[r].kind \in {"grant", "revoke", "list"}
     \/ req[r].pc \in Active /\ SameTask(r) /\ req'[r].pc # "idle"
  /\ ~ Changed(r)' \/ req'[r].kind = "list"
  /\ req'[r].pc = "ok" => req[r].kind = "list" \/ Met(r)
  /\ req'[r].lost = req[r].lost
  /\ req'[r].kind \in {"grant", "revoke"} => req'[r].row \in Asked
  /\ req'[r].pc \in {"exists", "insert"} =>
       req'[r].kind = "grant" /\ req'[r].row \in GrantRows /\ seeded
  /\ req'[r].pc = "delete" => req'[r].kind = "revoke"
  /\ req'[r].pc \in {"perms"} \cup Admitted => Inside(req'[r].actor)

(* It writes.                                                              *)
Writes(r) ==
  /\ Alone(r) /\ SameTask(r) /\ ~ strictBegin
  /\ \/ At(r, "insert") /\ grants' = grants \cup {req[r].row}
     \/ At(r, "delete") /\ grants' = grants \ {req[r].row}
  /\ req'[r].pc \in {"ok", "error"}
  /\ Changed(r)' <=> grants' # grants
  /\ req'[r].lost => req'[r].pc = "error"

LEMMA UpdateFields ==
  ASSUME TypeOK, NEW r \in Requests, NEW new \in Request, Update(r, new)
  PROVE  Alone(r) /\ req'[r] = new
BY DEF TypeOK, Update, Alone

(* The handlers' records are requests.                                     *)
LEMMA Records ==
  ASSUME NEW q \in Request, NEW pc \in PCs, NEW b \in BOOLEAN, NEW h \in SUBSET Roles,
         NEW k \in Kinds, NEW u \in Users, NEW row \in Asked \cup {NoRow}
  PROVE  /\ [q EXCEPT !.pc = pc, !.roles = h] \in Request
         /\ [q EXCEPT !.pc = pc, !.idem = b] \in Request
         /\ [q EXCEPT !.pc = pc, !.lost = b] \in Request
         /\ [q EXCEPT !.pc = pc, !.kind = k, !.actor = u, !.row = row] \in Request
<1>1. [q EXCEPT !.pc = pc, !.roles = h] \in Request
  BY DEF Request
<1>2. [q EXCEPT !.pc = pc, !.idem = b] \in Request
  BY DEF Request
<1>3. [q EXCEPT !.pc = pc, !.lost = b] \in Request
  BY DEF Request
<1>4. [q EXCEPT !.pc = pc, !.kind = k, !.actor = u, !.row = row] \in Request
  BY DEF Request
<1> QED
  BY <1>1, <1>2, <1>3, <1>4

LEMMA GotoFields ==
  ASSUME TypeOK, NEW r \in Requests, NEW pc \in PCs, Goto(r, pc)
  PROVE  /\ Alone(r) /\ SameTask(r) /\ grants' = grants
         /\ req'[r].pc = pc /\ req'[r].lost = req[r].lost
<1> DEFINE new == [req[r] EXCEPT !.pc = pc, !.roles = {}]
<1>1. req[r] \in Request
  BY DEF TypeOK
<1>2. new \in Request
  BY <1>1 DEF Request
<1>3. Update(r, new) /\ grants' = grants
  BY DEF Goto
<1>4. Alone(r) /\ req'[r] = new
  BY <1>2, <1>3, UpdateFields
<1> QED
  BY <1>1, <1>3, <1>4 DEF SameTask, Request

LEMMA AnswerFields ==
  ASSUME TypeOK, NEW r \in Requests, NEW b \in BOOLEAN, Answer(r, b)
  PROVE  /\ Alone(r) /\ SameTask(r) /\ grants' = grants
         /\ req'[r].pc = "ok" /\ req'[r].lost = req[r].lost /\ req'[r].idem = b
<1> DEFINE new == [req[r] EXCEPT !.pc = "ok", !.idem = b]
<1>1. req[r] \in Request
  BY DEF TypeOK
<1>2. new \in Request
  BY <1>1 DEF Request, PCs, Ends
<1>3. Update(r, new) /\ grants' = grants
  BY DEF Answer
<1>4. Alone(r) /\ req'[r] = new
  BY <1>2, <1>3, UpdateFields
<1> QED
  BY <1>1, <1>3, <1>4 DEF SameTask, Request

LEMMA CommitFields ==
  ASSUME TypeOK, NEW r \in Requests, NEW rows, Commit(r, rows), ~ req[r].lost
  PROVE  /\ Alone(r) /\ SameTask(r) /\ grants' = rows
         /\ req'[r].pc \in {"ok", "error"}
         /\ Changed(r)' <=> rows # grants
         /\ req'[r].lost => req'[r].pc = "error"
<1>1. req[r] \in Request
  BY DEF TypeOK
<1>2. CASE Update(r, [req[r] EXCEPT !.pc = "ok", !.idem = (rows = grants)])
  <2> DEFINE new == [req[r] EXCEPT !.pc = "ok", !.idem = (rows = grants)]
  <2>1. new \in Request
    BY <1>1 DEF Request, PCs, Ends
  <2>2. Alone(r) /\ req'[r] = new
    BY <1>2, <2>1, UpdateFields
  <2> QED
    BY <1>1, <2>2 DEF SameTask, Request, Changed, At, Commit
<1>3. CASE Update(r, [req[r] EXCEPT !.pc = "error", !.lost = (rows # grants)])
  <2> DEFINE new == [req[r] EXCEPT !.pc = "error", !.lost = (rows # grants)]
  <2>1. new \in Request
    BY <1>1 DEF Request, PCs, Ends
  <2>2. Alone(r) /\ req'[r] = new
    BY <1>3, <2>1, UpdateFields
  <2> QED
    BY <1>1, <2>2 DEF SameTask, Request, Changed, At, Commit
<1> QED
  BY <1>2, <1>3 DEF Commit

LEMMA RequestFields ==
  ASSUME TypeOK, Intents, NEW r \in Requests,
         \/ Handler(r) \/ Fail(r)
         \/ \E u \in Users, row \in Asked, kind \in {"grant", "revoke"} : Start(r, u, kind, row)
         \/ \E u \in Users : Start(r, u, "list", NoRow)
  PROVE  Moves(r) \/ Writes(r)
<1>t. /\ req \in [Requests -> Request] /\ req[r] \in Request
      /\ Active \cup Ends \subseteq PCs
      /\ ~ At(r, "error") => ~ req[r].lost
      /\ req[r].kind \in {"grant", "revoke"} => req[r].row \in Asked
      /\ grants # {} => seeded
  BY DEF TypeOK, Active, PCs, Intents
<1>a. req[r].pc \in {"perms"} \cup Admitted => Inside(req[r].actor)
  BY DEF Inside
<1>g. ASSUME NEW pc \in PCs \ {"ok", "idle"}, Goto(r, pc), req[r].pc \in Active,
             pc \in {"exists", "insert"} =>
               req[r].kind = "grant" /\ req[r].row \in GrantRows /\ seeded,
             pc = "delete" => req[r].kind = "revoke",
             pc \in {"perms"} \cup Admitted => Inside(req[r].actor)
      PROVE  Moves(r)
  <2>1. ~ req[r].lost
    BY <1>g, <1>t DEF At, Active, Admitted
  <2> QED
    BY <1>g, <1>t, <2>1, GotoFields DEF Moves, SameTask, Changed, At
<1>h. ASSUME NEW b \in BOOLEAN, Answer(r, b), req[r].pc \in Active,
             req[r].kind = "list" \/ (b /\ Met(r))
      PROVE  Moves(r)
  <2>1. ~ req[r].lost
    BY <1>h, <1>t DEF At, Active, Admitted
  <2> QED
    BY <1>h, <1>t, <2>1, AnswerFields DEF Moves, SameTask, Changed, At, Admitted
<1>p. {"forbidden", "lookup", "exists", "not_found", "insert", "delete", "error"} \subseteq PCs \ {"ok", "idle"}
  BY DEF PCs, Admitted, Ends
<1>1. ASSUME NEW u \in Users, NEW row \in Asked \cup {NoRow},
             NEW kind \in {"grant", "revoke", "list"}, kind = "list" \/ row \in Asked,
             Start(r, u, kind, row)
      PROVE  Moves(r)
  <2> DEFINE pc == IF u \in Supers THEN "lookup" ELSE "roles"
             new == [req[r] EXCEPT !.pc = pc, !.kind = kind, !.actor = u, !.row = row]
  <2>1. new \in Request
    <3>1. pc \in PCs
      BY DEF PCs, Admitted
    <3>2. kind \in Kinds
      BY DEF Kinds
    <3> HIDE DEF pc
    <3> QED
      BY <1>t, <3>1, <3>2, Records, Zenon
  <2>2. /\ new.pc = pc /\ new.kind = kind /\ new.actor = u /\ new.row = row
        /\ new.lost = req[r].lost
    BY <1>t DEF Request
  <2>3. Alone(r) /\ req'[r] = new /\ grants' = grants /\ ~ req[r].lost
    BY <1>1, <1>t, <2>1, UpdateFields DEF Start, At
  <2>4. pc = "roles" \/ (pc = "lookup" /\ Inside(u))
    BY DEF Inside
  <2>5. At(r, "idle")
    BY <1>1 DEF Start
  <2>6. ~ At(r, "idle")' /\ ~ At(r, "ok")' /\ req'[r].pc \in Active
    BY <2>2, <2>3, <2>4 DEF At, Active, Admitted
  <2> HIDE DEF new
  <2> QED
    BY <1>1, <2>2, <2>3, <2>4, <2>5, <2>6 DEF Moves, Changed, At, Admitted
<1>2. CASE QueryRoles(r)
  <2> DEFINE held == HeldRoles(req[r].actor, ScopesWithGlobal(Global))
             new == [req[r] EXCEPT !.pc = "perms", !.roles = held]
  <2>1. CASE Goto(r, "forbidden")
    BY <1>2, <1>g, <1>p, <2>1 DEF QueryRoles, At, Active, Admitted
  <2>2. CASE held # {} /\ Update(r, new) /\ grants' = grants
    <3>1. held \subseteq Roles /\ new \in Request
      BY <1>t DEF HeldRoles, Request, PCs
    <3>2. Inside(req[r].actor)
      BY <2>2 DEF HeldRoles, ScopesWithGlobal, Inside
    <3>3. Alone(r) /\ req'[r] = new
      BY <2>2, <3>1, UpdateFields
    <3>4. /\ new.pc = "perms" /\ new.kind = req[r].kind /\ new.actor = req[r].actor
          /\ new.row = req[r].row /\ new.lost = req[r].lost
      BY <1>t DEF Request
    <3> QED
      BY <1>2, <1>t, <2>2, <3>2, <3>3, <3>4
         DEF Moves, SameTask, QueryRoles, At, Active, Changed
  <2> QED
    BY <1>2, <2>1, <2>2 DEF QueryRoles
<1>3. CASE QueryPerms(r)
  BY <1>3, <1>a, <1>g, <1>p DEF QueryPerms, At, Active
<1>4. CASE GrantLookup(r)
  <2>2. req[r].row[1] \in Users => req[r].row \in GrantRows
    BY <1>t, <1>4, GrantsAssumption DEF GrantRows, GrantLookup
  <2>3. CASE Goto(r, "not_found")
    BY <1>4, <1>g, <1>p, <2>3 DEF GrantLookup, At, Active, Admitted
  <2>4. CASE seeded /\ req[r].row[1] \in Users /\ Goto(r, "exists")
    BY <1>4, <1>a, <1>g, <1>p, <2>2, <2>4 DEF GrantLookup, At, Active, Admitted
  <2> QED
    BY <1>4, <2>3, <2>4 DEF GrantLookup
<1>5. CASE GrantExists(r)
  <2>1. CASE req[r].row \in grants /\ Answer(r, TRUE)
    <3>1. Met(r) /\ req[r].pc \in Active
      BY <1>5, <2>1 DEF GrantExists, Intents, Met, At, Active, Admitted
    <3> QED
      BY <1>h, <2>1, <3>1
  <2>2. CASE Goto(r, "insert")
    BY <1>5, <1>a, <1>g, <1>p, <2>2 DEF GrantExists, At, Active, Admitted, Intents
  <2> QED
    BY <1>5, <2>1, <2>2 DEF GrantExists
<1>6. CASE RevokeLookup(r)
  <2>1. CASE ~ seeded /\ Answer(r, TRUE)
    <3>1. Met(r) /\ req[r].pc \in Active
      BY <1>6, <1>t, <2>1 DEF RevokeLookup, Met, At, Active, Admitted
    <3> QED
      BY <1>h, <2>1, <3>1
  <2>2. CASE Goto(r, "delete")
    BY <1>6, <1>a, <1>g, <1>p, <2>2 DEF RevokeLookup, At, Active, Admitted
  <2> QED
    BY <1>6, <2>1, <2>2 DEF RevokeLookup
<1>7. CASE List(r)
  BY <1>7, <1>h DEF List, At, Active, Admitted
<1>8. CASE Insert(r) \/ Delete(r)
  BY <1>8, <1>t, CommitFields DEF Insert, Delete, Writes, At
<1>9. CASE Refuse(r) \/ Fail(r)
  BY <1>9, <1>g, <1>p DEF Refuse, Fail, Active, Admitted
<1> QED
  BY <1>1, <1>2, <1>3, <1>4, <1>5, <1>6, <1>7, <1>8, <1>9 DEF Handler

-----------------------------------------------------------------------------
(* What a request's steps do to the invariant.                             *)

(* Of the requests' changes, a step touches at most its own.               *)
LEMMA OthersChanges ==
  ASSUME NEW r \in Requests, Alone(r), NEW row, NEW kind
  PROVE  Changes(row, kind)' \ {r} = Changes(row, kind) \ {r}
BY DEF Alone, Changes, Changed, At

LEMMA FiniteChanges ==
  ASSUME NEW row, NEW kind
  PROVE  /\ IsFiniteSet(Changes(row, kind))
         /\ Cardinality(Changes(row, kind)) \in Nat
BY GrantsAssumption, FS_Subset, FS_CardinalityType DEF Changes

(* A request that is active has changed nothing yet.                       *)
LEMMA ActiveUnchanged ==
  ASSUME Intents, NEW r \in Requests, At(r, "idle") \/ req[r].pc \in Active
  PROVE  ~ Changed(r) /\ ~ req[r].lost
BY DEF Intents, Changed, At, Active, Admitted

LEMMA MoveKeepsCount ==
  ASSUME EffectsAddUp, Intents, NEW r \in Requests, Moves(r)
  PROVE  EffectsAddUp'
<1>1. ~ Changed(r)
  BY ActiveUnchanged DEF Moves
<1>2. ASSUME NEW row, NEW kind \in {"grant", "revoke"}
      PROVE  Changes(row, kind)' = Changes(row, kind)
  <2>1. r \notin Changes(row, kind) /\ r \notin Changes(row, kind)'
    BY <1>1 DEF Changes, Moves
  <2>2. Changes(row, kind)' \ {r} = Changes(row, kind) \ {r}
    BY OthersChanges DEF Moves
  <2> QED
    BY <2>1, <2>2
<1>3. initial' = initial /\ grants' = grants
  BY DEF Moves, Alone
<1> QED
  BY <1>2, <1>3 DEF EffectsAddUp, Held

(* The write that changes its row is counted, and counted once.            *)
LEMMA WriteKeepsCount ==
  ASSUME EffectsAddUp, Intents, NEW r \in Requests, Writes(r)
  PROVE  EffectsAddUp'
<1>0. PICK mine, kind : mine = req[r].row /\ kind = req[r].kind
  OBVIOUS
<1>1. /\ ~ Changed(r) /\ Alone(r) /\ initial' = initial
      /\ req'[r].row = mine /\ req'[r].kind = kind
      /\ kind \in {"grant", "revoke"}
  BY <1>0, ActiveUnchanged DEF Writes, Alone, SameTask, Intents, At, Active, Admitted
<1>2. ASSUME NEW row \in GrantRows, row # mine \/ grants' = grants
      PROVE  /\ Held(row, grants') = Held(row, grants)
             /\ \A k \in {"grant", "revoke"} : Changes(row, k)' = Changes(row, k)
  <2>1. Held(row, grants') = Held(row, grants)
    BY <1>0, <1>2 DEF Writes, Held
  <2>2. ASSUME NEW k \in {"grant", "revoke"}
        PROVE  Changes(row, k)' = Changes(row, k)
    <3>1. r \notin Changes(row, k) /\ r \notin Changes(row, k)'
      BY <1>0, <1>1, <1>2 DEF Changes, Writes
    <3>2. Changes(row, k)' \ {r} = Changes(row, k) \ {r}
      BY <1>1, OthersChanges
    <3> QED
      BY <3>1, <3>2
  <2> QED
    BY <2>1, <2>2
<1>3. ASSUME mine \in GrantRows, grants' # grants
      PROVE  /\ Held(mine, initial) + Cardinality(Changes(mine, "grant")')
                  = Held(mine, grants') + Cardinality(Changes(mine, "revoke")')
  <2>1. r \notin Changes(mine, kind) /\ r \in Changes(mine, kind)'
    BY <1>0, <1>1, <1>3 DEF Changes, Writes
  <2>2. Changes(mine, kind)' = Changes(mine, kind) \cup {r}
    BY <1>1, <2>1, OthersChanges
  <2>3. Cardinality(Changes(mine, kind)') = Cardinality(Changes(mine, kind)) + 1
    BY <2>1, <2>2, FiniteChanges, FS_AddElement
  <2>4. ASSUME NEW k \in {"grant", "revoke"} \ {kind}
        PROVE  Changes(mine, k)' = Changes(mine, k)
    <3>1. r \notin Changes(mine, k) /\ r \notin Changes(mine, k)'
      BY <1>0, <1>1 DEF Changes
    <3>2. Changes(mine, k)' \ {r} = Changes(mine, k) \ {r}
      BY <1>1, OthersChanges
    <3> QED
      BY <3>1, <3>2
  <2>5. /\ kind = "grant" => Held(mine, grants) = 0 /\ Held(mine, grants') = 1
        /\ kind = "revoke" => Held(mine, grants) = 1 /\ Held(mine, grants') = 0
    BY <1>0, <1>3 DEF Writes, Intents, At, Held
  <2>6. /\ Held(mine, initial) \in Nat
        /\ Cardinality(Changes(mine, "grant")) \in Nat
        /\ Cardinality(Changes(mine, "revoke")) \in Nat
        /\ Held(mine, initial) + Cardinality(Changes(mine, "grant"))
             = Held(mine, grants) + Cardinality(Changes(mine, "revoke"))
    BY <1>3, FiniteChanges DEF EffectsAddUp, Held
  <2>7. CASE kind = "grant"
    <3>1. Changes(mine, "revoke")' = Changes(mine, "revoke")
      BY <2>4, <2>7
    <3> QED
      BY <2>3, <2>5, <2>6, <2>7, <3>1
  <2>8. CASE kind = "revoke"
    <3>1. Changes(mine, "grant")' = Changes(mine, "grant")
      BY <2>4, <2>8
    <3> QED
      BY <2>3, <2>5, <2>6, <2>8, <3>1
  <2> QED
    BY <1>1, <2>7, <2>8
<1> QED
  BY <1>1, <1>2, <1>3 DEF EffectsAddUp

LEMMA StepRequest ==
  ASSUME IInv, NEW r \in Requests, Moves(r) \/ Writes(r)
  PROVE  IInv'
<1> USE DEF IInv
<1>1. Alone(r) /\ UNCHANGED <<seeded, links, inst, strictBegin, initial>>
  BY DEF Moves, Writes, Alone
<1>2. StartupTypeOK' /\ Locks' /\ InOrder' /\ ServesSeeded'
  BY <1>1 DEF TypeOK, StartupTypeOK, Locks, InOrder, ServesSeeded
<1>3. grants' \subseteq GrantRows /\ (grants' # {} => seeded)
  BY DEF TypeOK, Moves, Writes, Intents, At
<1>4. TypeOK'
  BY <1>1, <1>2, <1>3 DEF TypeOK, Alone
<1>5. Intents'
  <2>1. ASSUME NEW q \in Requests \ {r}
        PROVE  req'[q] = req[q]
    BY <1>1 DEF Alone
  <2>2. CASE Moves(r)
    <3>1. ~ req[r].lost
      BY <2>2, ActiveUnchanged DEF Moves
    <3>2. ~ At(r, "idle")' /\ req'[r].kind # "none"
      BY <2>2 DEF Intents, Moves, SameTask, Active, Admitted, At
    <3>3. /\ ~ req'[r].lost
          /\ req'[r].kind \in {"grant", "revoke"} => req'[r].row \in Asked
          /\ req'[r].pc \in {"exists", "insert"} =>
               req'[r].kind = "grant" /\ req'[r].row \in GrantRows /\ seeded'
          /\ req'[r].pc = "delete" => req'[r].kind = "revoke"
      BY <1>1, <2>2, <3>1 DEF Moves
    <3>4. UNCHANGED seeded
      BY <1>1
    <3> QED
      BY <2>1, <3>2, <3>3, <3>4 DEF Intents, At
  <2>3. CASE Writes(r)
    <3>1. ~ At(r, "idle") /\ ~ At(r, "idle")'
      BY <2>3 DEF Writes, At
    <3>2. /\ req'[r].kind = req[r].kind /\ req'[r].row = req[r].row
          /\ req'[r].pc \in {"ok", "error"} /\ (req'[r].lost => req'[r].pc = "error")
      BY <2>3 DEF Writes, SameTask
    <3>3. UNCHANGED seeded
      BY <1>1
    <3> QED
      BY <2>1, <3>1, <3>2, <3>3 DEF Intents, At
  <2> QED
    BY <2>2, <2>3
<1>6. EffectsAddUp'
  BY MoveKeepsCount, WriteKeepsCount
<1> QED
  BY <1>2, <1>4, <1>5, <1>6

(* Every step of the specification is one of these.                        *)
LEMMA Steps ==
  ASSUME IInv, [Next]_vars
  PROVE  \/ UNCHANGED vars
         \/ /\ UNCHANGED grantVars
            /\ \E i \in Instances :
                 Only(i) /\ (Plain(i) \/ Locking(i) \/ Comparing(i) \/ Committing(i))
         \/ \E r \in Requests : Moves(r) \/ Writes(r)
<1> USE DEF IInv
<1>1. ASSUME StartupStep, UNCHANGED grantVars
      PROVE  \E i \in Instances :
               Only(i) /\ (Plain(i) \/ Locking(i) \/ Comparing(i) \/ Committing(i))
  BY <1>1, StartupFields DEF StartupStep, TypeOK
<1>2. ASSUME NEW r \in Requests,
             \/ Handler(r) \/ Fail(r)
             \/ \E u \in Users, row \in Asked, kind \in {"grant", "revoke"} : Start(r, u, kind, row)
             \/ \E u \in Users : Start(r, u, "list", NoRow)
      PROVE  Moves(r) \/ Writes(r)
  BY <1>2, RequestFields
<1> QED
  BY <1>1, <1>2 DEF Next

LEMMA NextInvariant == IInv /\ [Next]_vars => IInv'
<1> SUFFICES ASSUME IInv, [Next]_vars
             PROVE  IInv'
  OBVIOUS
<1>1. CASE UNCHANGED vars
  BY <1>1 DEF vars, IInv, TypeOK, StartupTypeOK, Locks, InOrder, ServesSeeded, Intents,
              EffectsAddUp, Changes, Changed, Held, At
<1>2. ASSUME UNCHANGED grantVars,
             NEW i \in Instances,
             Only(i) /\ (Plain(i) \/ Locking(i) \/ Comparing(i) \/ Committing(i))
      PROVE  IInv'
  <2>1. StartupTypeOK' /\ Locks' /\ InOrder' /\ ServesSeeded' /\ (seeded => seeded')
    BY <1>2, StepStartup DEF IInv, TypeOK
  <2>2. TypeOK'
    BY <1>2, <2>1 DEF IInv, TypeOK, grantVars
  <2>3. Intents'
    BY <1>2, <2>1 DEF IInv, Intents, grantVars, At
  <2>4. EffectsAddUp'
    BY <1>2 DEF IInv, EffectsAddUp, Changes, Changed, Held, grantVars, At
  <2> QED
    BY <2>1, <2>2, <2>3, <2>4 DEF IInv
<1>3. ASSUME NEW r \in Requests, Moves(r) \/ Writes(r)
      PROVE  IInv'
  BY <1>3, StepRequest
<1> QED
  BY <1>1, <1>2, <1>3, Steps

-----------------------------------------------------------------------------
(* Waiting for rows.                                                       *)

(* The guards of Progress, one by one.                                     *)
GoesOn(i) ==
  \/ inst[i].pc = "checks"
  \/ /\ inst[i].pc = "upsert"
     /\ \E row \in Rows \ inst[i].locked :
          /\ \A before \in Rows : before < row => before \in inst[i].locked
          /\ Free(i, row)
  \/ inst[i].pc = "upsert" /\ inst[i].locked = Rows
  \/ inst[i].pc = "commit" /\ ~ Collides(i)

(* While instances start, one of them can go on.                           *)
SomeStartGoesOn ==
  (\E i \in Instances : inst[i].pc \in Starting) => \E i \in Instances : GoesOn(i)

(* Whoever has the first row is ahead of everybody else.                   *)
LEMMA FirstGoesOn ==
  ASSUME StartupTypeOK, Locks, InOrder, NEW i \in Instances, inst[i].pc = "upsert",
         \A k \in Instances \ {i} : 1 \notin inst[k].locked
  PROVE  GoesOn(i)
<1>1. PICK n \in 0 .. NumRows : inst[i].locked = 1 .. n
  BY DEF InOrder
<1>2. \A k \in Instances \ {i} : inst[k].locked = {}
  <2>1. ASSUME NEW k \in Instances \ {i}, NEW m \in 0 .. NumRows, inst[k].locked = 1 .. m
        PROVE  inst[k].locked = {}
    <3>1. m = 0
      BY <2>1, StartupAssumption
    <3> QED
      BY <2>1, <3>1
  <2> QED
    BY <2>1 DEF InOrder
<1>3. CASE n = NumRows
  BY <1>1, <1>3 DEF GoesOn, Rows
<1>4. CASE n # NumRows
  <2>1. /\ n + 1 \in Rows \ inst[i].locked
        /\ \A before \in Rows : before < n + 1 => before \in inst[i].locked
    BY <1>1, <1>4, StartupAssumption DEF Rows
  <2>2. Free(i, n + 1)
    BY <1>2 DEF Free
  <2> QED
    BY <2>1, <2>2 DEF GoesOn
<1> QED
  BY <1>3, <1>4

LEMMA StartsGoOn ==
  ASSUME IInv
  PROVE  SomeStartGoesOn
<1> SUFFICES ASSUME NEW i \in Instances, inst[i].pc \in Starting
             PROVE  \E k \in Instances : GoesOn(k)
  BY DEF SomeStartGoesOn
<1>t. StartupTypeOK /\ Locks /\ InOrder
  BY DEF IInv, TypeOK
<1>1. CASE inst[i].pc = "checks"
  BY <1>1 DEF GoesOn
<1>2. CASE inst[i].pc = "commit"
  BY <1>2 DEF GoesOn, IInv, Locks, Collides
<1>3. ASSUME NEW k \in Instances, 1 \in inst[k].locked
      PROVE  GoesOn(k)
  <2>1. inst[k].pc \in {"upsert", "commit"}
    BY <1>3, <1>t DEF StartupTypeOK
  <2>2. CASE inst[k].pc = "commit"
    BY <2>2 DEF GoesOn, IInv, Locks, Collides
  <2>3. CASE inst[k].pc = "upsert"
    <3>1. \A j \in Instances \ {k} : 1 \notin inst[j].locked
      BY <1>3, <1>t DEF Locks
    <3> QED
      BY <1>t, <2>3, <3>1, FirstGoesOn
  <2> QED
    BY <2>1, <2>2, <2>3
<1>4. CASE inst[i].pc = "upsert" /\ \A k \in Instances : 1 \notin inst[k].locked
  BY <1>4, <1>t, FirstGoesOn
<1> QED
  BY <1>1, <1>2, <1>3, <1>4 DEF Starting

-----------------------------------------------------------------------------
(* The theorems.                                                           *)

THEOREM Invariance == Spec => []IInv
BY InitInvariant, NextInvariant, PTL DEF Spec

(* Type correctness: grants are rows of existing users and roles, and rows *)
(* are locked inside the transactions of sync_authz only.                  *)
THEOREM TypeCorrect == Spec => []TypeOK
<1>1. IInv => TypeOK
  BY DEF IInv
<1> QED
  BY <1>1, Invariance, PTL

(* Instances that synchronise the permissions at the same time do not run  *)
(* into each other's plain INSERTs: the locked rows queue them.            *)
THEOREM SyncsNeverCollide == Spec => []SyncNeverCollides
<1>1. IInv => SyncNeverCollides
  BY DEF IInv, Locks, SyncNeverCollides, Collides
<1> QED
  BY <1>1, Invariance, PTL

(* Instances that start together never all wait for each other's rows      *)
(* (seed_sync.py:14-34).                                                   *)
THEOREM StartsNeverBlock == Spec => []SomeStartGoesOn
BY Invariance, StartsGoOn, PTL

(* What an instance serves on after its sync is complete.                  *)
THEOREM ServedTablesAreSeeded == Spec => []ServesSeeded
<1>1. IInv => ServesSeeded
  BY DEF IInv
<1> QED
  BY <1>1, Invariance, PTL

(* The answers of grant_role and revoke_role account for the table.        *)
THEOREM AnswersAccountForTheTable == Spec => []EffectsAddUp
<1>1. IInv => EffectsAddUp
  BY DEF IInv
<1> QED
  BY <1>1, Invariance, PTL

(* A user without a global role enters the administration only by a grant  *)
(* of another user who is inside.                                          *)
THEOREM AnotherLetsThemIn == Spec => NobodyLetsThemselvesIn
<1>1. ASSUME IInv, [Next]_vars, NEW u \in Users, ~ Inside(u), Inside(u)'
      PROVE  \E r \in Requests : At(r, "insert") /\ Inside(req[r].actor) /\ req[r].actor # u
  <2>1. CASE UNCHANGED vars \/ UNCHANGED grantVars
    BY <1>1, <2>1 DEF vars, grantVars, Inside
  <2>2. ASSUME NEW r \in Requests, Moves(r)
        PROVE  FALSE
    <3>1. Alone(r) /\ grants' = grants
      BY <2>2 DEF Moves
    <3>2. PICK q \in Requests : req'[q].actor = u /\ req'[q].pc \in {"perms"} \cup Admitted
      BY <1>1, <3>1 DEF Inside
    <3>3. q = r
      BY <1>1, <3>1, <3>2 DEF Alone, Inside
    <3> QED
      BY <1>1, <2>2, <3>2, <3>3 DEF Moves
  <2>3. ASSUME NEW r \in Requests, Writes(r)
        PROVE  At(r, "insert") /\ Inside(req[r].actor) /\ req[r].actor # u
    <3>1. Inside(req[r].actor)
      BY <2>3 DEF Writes, At, Inside, Admitted
    <3>2. At(r, "insert")
      BY <1>1, <2>3 DEF Writes, Alone, SameTask, At, Inside, Admitted
    <3> QED
      BY <1>1, <3>1, <3>2
  <2> QED
    BY <1>1, <2>1, <2>2, <2>3, Steps
<1>2. IInv /\ [Next]_vars =>
        [\A u \in Users :
           ~ Inside(u) /\ Inside(u)' =>
             \E r \in Requests : At(r, "insert") /\ Inside(req[r].actor) /\ req[r].actor # u]_vars
  BY <1>1
<1> QED
  BY <1>2, Invariance, PTL DEF Spec, NobodyLetsThemselvesIn

=============================================================================
