------------------------------ MODULE Startup -------------------------------
(***************************************************************************)
(* The start of the application's instances (main.py, lifespan) and the    *)
(* synchronisation of roles and permissions that each of them runs         *)
(* (modules/authz/seed_sync.py) on the database they share.                *)
(*                                                                         *)
(* sync_authz is one transaction at READ COMMITTED.  Its upserts lock the  *)
(* rows of roles and permissions, in the order of seed.py, until the       *)
(* transaction ends; the missing rows of role_permissions are then         *)
(* inserted with a plain INSERT, when the session is flushed by COMMIT.    *)
(***************************************************************************)
EXTENDS Naturals

CONSTANTS
  Instances,   \* processes of the application
  NumRows,     \* how many roles and permissions seed.py lists
  Links,       \* rows that role_permissions can have
  Defaults     \* those of DEFAULT_ROLE_PERMS

ASSUME StartupAssumption == NumRows \in Nat \ {0} /\ Defaults \subseteq Links

VARIABLES
  seeded,   \* roles and permissions hold the rows of seed.py
  links,    \* role_permissions
  inst      \* the instances

startupVars == <<seeded, links, inst>>

-----------------------------------------------------------------------------
(* State                                                                   *)

Rows == 1 .. NumRows

(* "upsert" and "commit": in the transaction of sync_authz.                *)
Starting == {"checks", "upsert", "commit"}

Instance ==
  [pc      : Starting \cup {"serving", "ended"},
   locked  : SUBSET Rows,    \* the rows that its transaction has upserted
   missing : SUBSET Links,   \* the rows that it is going to insert
   synced  : BOOLEAN]        \* history: its sync_authz has returned

New == [pc |-> "checks", locked |-> {}, missing |-> {}, synced |-> FALSE]

(* A new database, or one that an older version of seed.py has filled.     *)
StartupInit ==
  /\ seeded \in BOOLEAN
  /\ links \in SUBSET Links
  /\ links # {} => seeded
  /\ inst = [i \in Instances |-> New]

(* Rows are locked in the transaction only; its COMMIT ends the sync.      *)
StartupTypeOK ==
  /\ seeded \in BOOLEAN
  /\ links \subseteq Links
  /\ inst \in [Instances -> Instance]
  /\ \A i \in Instances : inst[i].pc \notin {"upsert", "commit"} => inst[i].locked = {}
  /\ \A i \in Instances : inst[i].pc = "commit" => inst[i].locked = Rows
  /\ \A i \in Instances : inst[i].synced => inst[i].pc = "serving"

-----------------------------------------------------------------------------
(* The start of one instance                                               *)

Serving == \E i \in Instances : inst[i].pc = "serving"

Becomes(i, state) == inst' = [inst EXCEPT ![i] = state]

(* The transaction of sync_authz ends, and with it its locks.              *)
Leaves(i, pc) == Becomes(i, [New EXCEPT !.pc = pc, !.synced = (pc = "serving")])

(* run_startup_checks has passed.  auto_sync_authz is a setting.           *)
Checked(i) ==
  /\ inst[i].pc = "checks"
  /\ \/ Becomes(i, [inst[i] EXCEPT !.pc = "upsert"])
     \/ Becomes(i, [inst[i] EXCEPT !.pc = "serving"])
  /\ UNCHANGED <<seeded, links>>

Free(i, row) == \A k \in Instances \ {i} : row \notin inst[k].locked

Lock(i, row) ==
  /\ Becomes(i, [inst[i] EXCEPT !.locked = @ \cup {row}])
  /\ UNCHANGED <<seeded, links>>

(* Mutant: the rows are upserted in no particular order.                   *)
Upsert_AnyOrder(i) ==
  /\ inst[i].pc = "upsert"
  /\ \E row \in Rows \ inst[i].locked : Free(i, row) /\ Lock(i, row)

(* Mutant: ON CONFLICT DO NOTHING, which does not lock a row that is there.*)
Upsert_Nothing(i) ==
  /\ inst[i].pc = "upsert"
  /\ \E row \in Rows \ inst[i].locked :
       /\ \A before \in Rows : before < row => before \in inst[i].locked
       /\ seeded \/ Free(i, row)
       /\ Lock(i, row)

(* ON CONFLICT DO UPDATE waits for the transaction that has the row.       *)
Upsert(i) ==
  /\ inst[i].pc = "upsert"
  /\ \E row \in Rows \ inst[i].locked :
       /\ \A before \in Rows : before < row => before \in inst[i].locked
       /\ Free(i, row)
       /\ Lock(i, row)

(* What the selects find is missing; the last one reads role_permissions.  *)
Compare(i) ==
  /\ inst[i].pc = "upsert"
  /\ inst[i].locked = Rows
  /\ Becomes(i, [inst[i] EXCEPT !.pc = "commit", !.missing = Defaults \ links])
  /\ UNCHANGED <<seeded, links>>

Collides(i) == inst[i].pc = "commit" /\ inst[i].missing \cap links # {}

(* Mutant: only the first missing rows are inserted.                       *)
CommitSync_Part(i) ==
  /\ inst[i].pc = "commit"
  /\ ~ Collides(i)
  /\ seeded' = TRUE
  /\ \E part \in SUBSET inst[i].missing : links' = links \cup part
  /\ Leaves(i, "serving") \/ Leaves(i, "ended")

(* COMMIT takes effect; its answer arrives or is lost.                     *)
CommitSync(i) ==
  /\ inst[i].pc = "commit"
  /\ ~ Collides(i)
  /\ seeded' = TRUE
  /\ links' = links \cup inst[i].missing
  /\ Leaves(i, "serving") \/ Leaves(i, "ended")

(* Mutant: the transaction is not rolled back.                             *)
FailStart_Open(i) ==
  /\ inst[i].pc \in Starting
  /\ Becomes(i, [inst[i] EXCEPT !.pc = "ended"])
  /\ UNCHANGED <<seeded, links>>

(* A check or a statement fails, or the process dies: lifespan ends        *)
(* before its yield, and the transaction is rolled back.                   *)
FailStart(i) ==
  /\ inst[i].pc \in Starting
  /\ Leaves(i, "ended")
  /\ UNCHANGED <<seeded, links>>

(* The end of a process: lifespan after its yield, or a crash.  What is    *)
(* started again is another instance.                                      *)
Stop(i) ==
  /\ inst[i].pc = "serving"
  /\ Leaves(i, "ended")
  /\ UNCHANGED <<seeded, links>>

Progress(i) == Checked(i) \/ Upsert(i) \/ Compare(i) \/ CommitSync(i)

StartupStep == \E i \in Instances : Progress(i) \/ FailStart(i) \/ Stop(i)

-----------------------------------------------------------------------------
(* Safety and liveness                                                     *)

(* The plain INSERT never meets a row that another instance has inserted   *)
(* since it was found missing (seed_sync.py:42-54): instances that start   *)
(* at the same time do not fail each other.                                *)
SyncNeverCollides == \A i \in Instances : ~ Collides(i)

(* An instance that synchronised serves on complete tables, whatever other *)
(* instances did meanwhile and whatever seed.py listed when the database   *)
(* was filled (main.py:54-58).                                             *)
ServesSeeded ==
  \A i \in Instances : inst[i].pc = "serving" /\ inst[i].synced => seeded /\ Defaults \subseteq links

(* Waiting for each other's rows ends: a start ends, and only a check, a   *)
(* statement or a COMMIT that failed makes it fail (main.py:52-58).        *)
StartsEnd ==
  \A i \in Instances :
    inst[i].pc \in Starting ~> inst[i].pc \notin Starting

=============================================================================
