------------------------------ MODULE KbAssets ------------------------------
(***************************************************************************)
(* Knowledge base assets (modules/kb/service.py) and their ingestion by    *)
(* Celery workers (modules/kb/ingestion/pipeline.py).                      *)
(*                                                                         *)
(* Every operation selects the asset, decides on what it read, and writes  *)
(* in "async with db.begin()" after that.  PostgreSQL runs at READ         *)
(* COMMITTED: what a transaction has updated is seen, and can be updated   *)
(* by others, from its COMMIT on, so that an update and its COMMIT are one *)
(* step.  SQLAlchemy updates only the columns whose new value differs from *)
(* the one that was read.                                                  *)
(*                                                                         *)
(* The select has begun the session's transaction.  strictBegin says that  *)
(* begin() then raises InvalidRequestError, as in the pinned version 2.0.45*)
(* (requirements.txt:25); without it begin() joins that transaction, which *)
(* is what the code is written for.  It is a property of the installation: *)
(* Init chooses it and nothing changes it.                                 *)
(***************************************************************************)
EXTENDS Naturals

CONSTANTS
  Assets,       \* rows of kb_assets
  Calls,        \* mark_uploaded, soft_delete_asset and tasks kb.ingest_asset
  NoAsset

ASSUME KbAssumption == NoAsset \notin Assets

VARIABLES
  strictBegin,   \* whether begin() refuses a transaction that has begun
  status,   \* kb_assets.status, "absent" before the row exists
  stored,   \* kb_assets.storage_key and sha256 are set
  job,      \* kb_index_jobs.status of the job that a task inserted
  call      \* the local variables of every call

vars == <<strictBegin, status, stored, job, call>>

-----------------------------------------------------------------------------
(* State                                                                   *)

AssetStatus == {"absent", "pending", "uploaded", "processing", "ready", "failed", "deleted"}

JobStatus == {"none", "running", "done", "failed"}

(* Steps that write, steps that select again, and ends.                    *)
Writing == {"upload", "delete", "begin", "finish", "record"}
Running == Writing \cup {"reload", "recover"}
Kinds   == {"none", "upload", "delete", "ingest"}
PCs     == {"idle", "ok", "not_found", "skipped", "error", "dead"} \cup Running

Call ==
  [pc      : PCs,
   kind    : Kinds,
   asset   : Assets \cup {NoAsset},
   loaded  : AssetStatus,   \* the status that its last select read
   faulted : BOOLEAN]       \* history: the database or the process failed it

Blank == [pc |-> "idle", kind |-> "none", asset |-> NoAsset, loaded |-> "absent",
          faulted |-> FALSE]

Init ==
  /\ strictBegin \in BOOLEAN
  /\ status = [a \in Assets |-> "absent"]
  /\ stored = [a \in Assets |-> FALSE]
  /\ job = [c \in Calls |-> "none"]
  /\ call = [c \in Calls |-> Blank]

(* Only what was uploaded has a job or is processed.                       *)
TypeOK ==
  /\ strictBegin \in BOOLEAN
  /\ status \in [Assets -> AssetStatus]
  /\ stored \in [Assets -> BOOLEAN]
  /\ job \in [Calls -> JobStatus]
  /\ call \in [Calls -> Call]
  /\ \A c \in Calls : call[c].pc # "idle" => call[c].asset \in Assets
  /\ \A c \in Calls : job[c] # "none" => stored[call[c].asset]
  /\ \A a \in Assets : status[a] \in {"processing", "ready", "failed"} => stored[a]

-----------------------------------------------------------------------------
(* Sessions                                                                *)

At(c, pc) == call[c].pc = pc

Asset(c) == call[c].asset

Live(s) == s \notin {"absent", "deleted"}

(* The first select of a call.                                             *)
Open(c, a, kind, pc) ==
  /\ call' = [call EXCEPT ![c] = [@ EXCEPT !.pc = pc, !.kind = kind, !.asset = a,
                                           !.loaded = status[a]]]
  /\ UNCHANGED <<status, stored, job>>

(* A later select, in a session of its own.                                *)
Reload(c, pc) ==
  /\ call' = [call EXCEPT ![c] = [@ EXCEPT !.pc = pc, !.loaded = status[Asset(c)]]]
  /\ UNCHANGED <<status, stored, job>>

Goto(c, pc) == call' = [call EXCEPT ![c].pc = pc]

Fault(c, pc) == call' = [call EXCEPT ![c].pc = pc, ![c].faulted = TRUE]

(* Where an exception leads: run_ingestion catches those of its second     *)
(* part.                                                                   *)
OnError(c) == IF call[c].pc \in {"reload", "finish"} THEN "recover" ELSE "error"

(* COMMIT took effect; its answer arrives or is lost.                      *)
Committed(c, pc) == Goto(c, pc) \/ Fault(c, OnError(c))

(* The UPDATE leaves out a status equal to the one that was read.          *)
SetStatus(c, s) ==
  status' = [status EXCEPT ![Asset(c)] = IF s = call[c].loaded THEN @ ELSE s]

(* begin() after the select.                                               *)
Begin(c, pc) == At(c, pc) /\ ~ strictBegin

Refuse(c) ==
  /\ strictBegin
  /\ call[c].pc \in Writing
  /\ Goto(c, OnError(c))
  /\ UNCHANGED <<status, stored, job>>

-----------------------------------------------------------------------------
(* modules/kb/service.py                                                   *)

(* create_asset: its transaction is the first of the session.              *)
Create(a) ==
  /\ status[a] = "absent"
  /\ status' = [status EXCEPT ![a] = "pending"]
  /\ UNCHANGED <<stored, job, call>>

(* Mutant: mark_uploaded does not look at the status.                      *)
UploadSelect_Any(c, a) ==
  /\ At(c, "idle")
  /\ status[a] # "absent"
  /\ Open(c, a, "upload", "upload")

UploadSelect(c, a) ==
  /\ At(c, "idle")
  /\ \/ Live(status[a]) /\ Open(c, a, "upload", "upload")
     \/ ~ Live(status[a]) /\ Open(c, a, "upload", "not_found")

Upload(c) ==
  /\ Begin(c, "upload")
  /\ SetStatus(c, "uploaded")
  /\ stored' = [stored EXCEPT ![Asset(c)] = TRUE]
  /\ Committed(c, "ok")
  /\ UNCHANGED job

DeleteSelect(c, a) ==
  /\ At(c, "idle")
  /\ \/ Live(status[a]) /\ Open(c, a, "delete", "delete")
     \/ ~ Live(status[a]) /\ Open(c, a, "delete", "ok")

Delete(c) ==
  /\ Begin(c, "delete")
  /\ SetStatus(c, "deleted")
  /\ Committed(c, "ok")
  /\ UNCHANGED <<stored, job>>

-----------------------------------------------------------------------------
(* modules/kb/ingestion/pipeline.py                                        *)

(* Mutant: no check of storage_key.                                        *)
IngestSelect_Early(c, a) ==
  /\ At(c, "idle")
  /\ \/ Live(status[a]) /\ Open(c, a, "ingest", "begin")
     \/ ~ Live(status[a]) /\ Open(c, a, "ingest", "skipped")

IngestSelect(c, a) ==
  LET Ingestible == Live(status[a]) /\ stored[a]
  IN /\ At(c, "idle")
     /\ \/ Ingestible /\ Open(c, a, "ingest", "begin")
        \/ ~ Ingestible /\ Open(c, a, "ingest", "skipped")

(* The job and the status "processing".                                    *)
IngestBegin(c) ==
  /\ Begin(c, "begin")
  /\ job' = [job EXCEPT ![c] = "running"]
  /\ SetStatus(c, "processing")
  /\ Committed(c, "reload")
  /\ UNCHANGED stored

(* Mutant: the asset selected at the start is used again.                  *)
IngestReload_Cached(c) ==
  /\ At(c, "reload")
  /\ \/ Live(status[Asset(c)]) /\ Goto(c, "finish")
     \/ ~ Live(status[Asset(c)]) /\ Goto(c, "skipped")
  /\ UNCHANGED <<status, stored, job>>

(* sniff() computes on what it has; then the asset is selected again.  An  *)
(* asset deleted by now ends the task, and its job stays as it is.         *)
IngestReload(c) ==
  /\ At(c, "reload")
  /\ \/ Live(status[Asset(c)]) /\ Reload(c, "finish")
     \/ ~ Live(status[Asset(c)]) /\ Reload(c, "skipped")

(* Mutant: the job is not updated.                                         *)
IngestFinish_NoJob(c) ==
  /\ Begin(c, "finish")
  /\ SetStatus(c, "ready")
  /\ Committed(c, "ok")
  /\ UNCHANGED <<stored, job>>

(* Mutant: the status is only set if nobody else has set it.               *)
IngestFinish_IfUploaded(c) ==
  /\ Begin(c, "finish")
  /\ \/ call[c].loaded = "uploaded" /\ SetStatus(c, "ready")
     \/ call[c].loaded # "uploaded" /\ UNCHANGED status
  /\ job' = [job EXCEPT ![c] = "done"]
  /\ Committed(c, "ok")
  /\ UNCHANGED stored

IngestFinish(c) ==
  /\ Begin(c, "finish")
  /\ SetStatus(c, "ready")
  /\ job' = [job EXCEPT ![c] = "done"]
  /\ Committed(c, "ok")
  /\ UNCHANGED stored

(* The except clause: a third select, then the failure is recorded.        *)
IngestRecover(c) ==
  /\ At(c, "recover")
  /\ Reload(c, "record")

IngestRecord(c) ==
  /\ Begin(c, "record")
  /\ \/ Live(call[c].loaded) /\ SetStatus(c, "failed")
     \/ ~ Live(call[c].loaded) /\ UNCHANGED status
  /\ job' = [job EXCEPT ![c] = "failed"]
  /\ Committed(c, "ok")
  /\ UNCHANGED stored

-----------------------------------------------------------------------------
(* What the calls do not control                                           *)

(* A statement fails, without effect.                                      *)
Fail(c) ==
  /\ call[c].pc \in Running
  /\ Fault(c, OnError(c))
  /\ UNCHANGED <<status, stored, job>>

(* The process dies.  The broker may deliver its task again: another call. *)
Die(c) ==
  /\ call[c].pc \in Running
  /\ Fault(c, "dead")
  /\ UNCHANGED <<status, stored, job>>

-----------------------------------------------------------------------------
Handler(c) ==
  /\ UNCHANGED strictBegin
  /\ \/ Refuse(c)
     \/ Upload(c)
     \/ Delete(c)
     \/ IngestBegin(c)
     \/ IngestReload(c)
     \/ IngestFinish(c)
     \/ IngestRecover(c)
     \/ IngestRecord(c)

Next ==
  /\ UNCHANGED strictBegin
  /\ \/ \E a \in Assets : Create(a)
     \/ \E c \in Calls, a \in Assets :
          UploadSelect(c, a) \/ DeleteSelect(c, a) \/ IngestSelect(c, a)
     \/ \E c \in Calls : Handler(c) \/ Fail(c) \/ Die(c)

Spec == Init /\ [][Next]_vars

(* Statements are answered.                                                *)
Fairness == \A c \in Calls : WF_vars(Handler(c))

FairSpec == Spec /\ Fairness

-----------------------------------------------------------------------------
(* Safety                                                                  *)

(* The status of an asset is backed by its jobs, whatever runs at once,    *)
(* fails, is lost or comes twice: a processing asset has a job that has    *)
(* not ended, a ready one a job that is done, a failed one a failed job    *)
(* (pipeline.py:51-54, 62-70, 74-83).                                      *)
StatusIsBacked ==
  \A a \in Assets :
    LET Has(s) == \E c \in Calls : Asset(c) = a /\ job[c] = s
    IN /\ status[a] = "processing" => Has("running")
       /\ status[a] = "ready" => Has("done")
       /\ status[a] = "failed" => Has("failed")

(* The asset is deleted, and nobody is about to write what was decided on  *)
(* an earlier status.                                                      *)
Settled(a) ==
  /\ status[a] = "deleted"
  /\ \A c \in Calls : Asset(c) = a /\ call[c].pc \in Writing =>
       call[c].pc \in {"delete", "record"} /\ ~ Live(call[c].loaded)

(* A deletion is final unless another call on the asset overlapped it:     *)
(* no upload, task or error path that starts afterwards brings the asset   *)
(* back (service.py:59, 73; pipeline.py:45, 60, 75).                       *)
DeletionIsFinal == [][\A a \in Assets : Settled(a) => Settled(a)']_vars

-----------------------------------------------------------------------------
(* Liveness                                                                *)

(* A job ends unless its task was hurt or found its asset deleted          *)
(* (pipeline.py:60-61 leaves the job running).                             *)
JobsEnd ==
  \A c \in Calls :
    job[c] = "running" ~>
      \/ job[c] \in {"done", "failed"}
      \/ call[c].faulted
      \/ call[c].loaded = "deleted"

(* No asset is processing for ever unless a task of it was hurt.           *)
ProcessingEnds ==
  \A a \in Assets :
    status[a] = "processing" ~>
      \/ status[a] # "processing"
      \/ \E c \in Calls : Asset(c) = a /\ call[c].kind = "ingest" /\ call[c].faulted

-----------------------------------------------------------------------------
(* What a comment says of an upload                                        *)

(* models.py:36: the checksum is there once the upload is complete.        *)
UploadIsRecorded ==
  \A c \in Calls :
    call[c].kind = "upload" /\ ~ call[c].faulted /\ call[c].pc \in {"ok", "error"} =>
      stored[Asset(c)]

=============================================================================
