--------------------------- MODULE KbAssetsProofs ---------------------------
(***************************************************************************)
(* TLAPS proofs about KbAssets, for any sets of assets and calls and       *)
(* whether or not begin() refuses a transaction that has begun.            *)
(*                                                                         *)
(* A status has a witness, the task that wrote it last or one like it: it  *)
(* will write again before its job changes, because the status it reads    *)
(* next is the one it is the witness of (Backed). A running job is tended: *)
(* its task goes on, or was hurt, or found its asset deleted (Tended).     *)
(***************************************************************************)
EXTENDS KbAssets, TLAPS

-----------------------------------------------------------------------------
(* The inductive invariant.                                                *)

(* A task past its first check works on what was uploaded, and has no job  *)
(* before its first transaction.                                           *)
Tasks ==
  \A c \in Calls :
    /\ call[c].pc \in {"begin", "reload", "finish", "recover", "record"} => stored[Asset(c)]
    /\ call[c].pc \in {"idle", "upload", "delete", "begin"} => job[c] = "none"

Processes(c) ==
  /\ job[c] = "running" /\ ~ At(c, "skipped")
  /\ call[c].pc \in {"finish", "record"} => call[c].loaded = "processing"

Completed(c) ==
  job[c] = "done" /\ (At(c, "record") => call[c].loaded = "ready")

Failed(c) == job[c] = "failed" /\ call[c].pc \in {"ok", "error"}

Backed(a) ==
  /\ status[a] = "processing" => \E c \in Calls : Asset(c) = a /\ Processes(c)
  /\ status[a] = "ready" => \E c \in Calls : Asset(c) = a /\ Completed(c)
  /\ status[a] = "failed" => \E c \in Calls : Asset(c) = a /\ Failed(c)

(* The steps of a task that has a job, none of which waits for another.    *)
Working == {"reload", "finish", "recover", "record"}

(* A running job is worked on, was hurt, or its asset was deleted.         *)
Tended(c) ==
  job[c] = "running" =>
    call[c].pc \in Working \/ call[c].faulted \/ (At(c, "skipped") /\ call[c].loaded = "deleted")

(* Calls work on assets that exist.                                        *)
Exist == \A c \in Calls : call[c].pc \in Running => status[Asset(c)] # "absent"

(* Where begin() is refused there are no jobs to tend.                     *)
Refused == strictBegin => \A c \in Calls : job[c] = "none"

IInv ==
  /\ TypeOK
  /\ Tasks
  /\ Exist
  /\ \A c \in Calls : Tended(c)
  /\ \A a \in Assets : Backed(a)
  /\ Refused

-----------------------------------------------------------------------------
LEMMA InitInvariant == Init => IInv
<1> SUFFICES ASSUME Init
             PROVE  IInv
  OBVIOUS
<1> USE KbAssumption DEF Init, Blank
<1>1. TypeOK
  BY DEF TypeOK, Call, PCs, Kinds, AssetStatus, JobStatus
<1>2. Tasks /\ (\A a \in Assets : Backed(a)) /\ Refused
  BY DEF Tasks, Backed, Refused
<1>3. Exist /\ \A c \in Calls : Tended(c)
  BY DEF Exist, Tended, Running, Writing
<1> QED
  BY <1>1, <1>2, <1>3 DEF IInv

(* The records that the actions build are calls.                           *)
LEMMA Records ==
  ASSUME NEW q \in Call, NEW pc \in PCs, NEW k \in Kinds, NEW a \in Assets, NEW s \in AssetStatus
  PROVE  /\ [q EXCEPT !.pc = pc] \in Call
         /\ [q EXCEPT !.pc = pc, !.faulted = TRUE] \in Call
         /\ [q EXCEPT !.pc = pc, !.loaded = s] \in Call
         /\ [q EXCEPT !.pc = pc, !.kind = k, !.asset = a, !.loaded = s] \in Call
<1>1. [q EXCEPT !.pc = pc] \in Call
  BY DEF Call
<1>2. [q EXCEPT !.pc = pc, !.faulted = TRUE] \in Call
  BY DEF Call
<1>3. [q EXCEPT !.pc = pc, !.loaded = s] \in Call
  BY DEF Call
<1>4. [q EXCEPT !.pc = pc, !.kind = k, !.asset = a, !.loaded = s] \in Call
  BY DEF Call
<1> QED
  BY <1>1, <1>2, <1>3, <1>4

(* What each action does to the calls, field by field.                     *)
Others(c) == \A d \in Calls \ {c} : call'[d] = call[d]

Typed == call' \in [Calls -> Call]

(* The call works on with what it has loaded.                              *)
Goes(c, pc) ==
  /\ Typed /\ Others(c)
  /\ call'[c].pc = pc
  /\ call'[c].asset = call[c].asset
  /\ call'[c].loaded = call[c].loaded
  /\ call[c].faulted => call'[c].faulted

(* The call has selected asset a.                                          *)
Loads(c, a, pc) ==
  /\ Typed /\ Others(c)
  /\ call'[c].pc = pc
  /\ call'[c].asset = a
  /\ call'[c].loaded = status[a]
  /\ call'[c].faulted = call[c].faulted
  /\ UNCHANGED <<status, stored, job>>

LEMMA GotoFields ==
  ASSUME TypeOK, NEW c \in Calls, NEW pc \in PCs, Goto(c, pc) \/ Fault(c, pc)
  PROVE  Goes(c, pc) /\ (Fault(c, pc) => call'[c].faulted)
<1> DEFINE new == [call[c] EXCEPT !.pc = pc]
           bad == [call[c] EXCEPT !.pc = pc, !.faulted = TRUE]
<1>1. call \in [Calls -> Call]
  BY DEF TypeOK
<1>3. new \in Call
  BY <1>1 DEF Call
<1>4. bad \in Call
  BY <1>1 DEF Call
<1>5. CASE Fault(c, pc)
  <2>1. call' = [call EXCEPT ![c] = bad]
    BY <1>1, <1>5 DEF Fault
  <2> QED
    BY <1>1, <1>4, <2>1 DEF Goes, Typed, Others, Call
<1>6. CASE Goto(c, pc) /\ ~ Fault(c, pc)
  <2>1. call' = [call EXCEPT ![c] = new]
    BY <1>1, <1>6 DEF Goto
  <2> QED
    BY <1>1, <1>3, <1>6, <2>1 DEF Goes, Typed, Others, Call
<1> QED
  BY <1>5, <1>6

LEMMA OpenFields ==
  ASSUME TypeOK, NEW c \in Calls, NEW a \in Assets, NEW k \in Kinds, NEW pc \in PCs,
         Open(c, a, k, pc)
  PROVE  Loads(c, a, pc)
<1> DEFINE new == [call[c] EXCEPT !.pc = pc, !.kind = k, !.asset = a, !.loaded = status[a]]
<1>1. call \in [Calls -> Call] /\ call' = [call EXCEPT ![c] = new] /\ status[a] \in AssetStatus
  BY DEF TypeOK, Open
<1>2. new \in Call
  BY <1>1, Records, Zenon
<1> QED
  BY <1>1, <1>2 DEF Loads, Typed, Others, Call, Open

LEMMA ReloadFields ==
  ASSUME TypeOK, NEW c \in Calls, NEW pc \in PCs, Asset(c) \in Assets, Reload(c, pc)
  PROVE  Loads(c, Asset(c), pc)
<1> DEFINE new == [call[c] EXCEPT !.pc = pc, !.loaded = status[Asset(c)]]
<1>1. /\ call \in [Calls -> Call] /\ call' = [call EXCEPT ![c] = new]
      /\ status[Asset(c)] \in AssetStatus
  BY DEF TypeOK, Reload
<1>2. new \in Call
  BY <1>1 DEF Call
<1> QED
  BY <1>1, <1>2 DEF Loads, Typed, Others, Call, Reload, Asset

-----------------------------------------------------------------------------
(* The steps of a call in these terms.                                     *)

Ends == {"ok", "not_found", "skipped"}

(* A select: a writing step follows only on a live asset, or in recovery.  *)
Selects(c, a) ==
  \E pc \in PCs \ {"idle"} :
    /\ Loads(c, a, pc)
    /\ \/ At(c, "idle") /\ pc \in Ends
       \/ At(c, "idle") /\ Live(status[a]) /\ pc \in {"upload", "delete"}
       \/ At(c, "idle") /\ Live(status[a]) /\ pc = "begin" /\ stored[a]
       \/ At(c, "reload") /\ a = Asset(c) /\ Live(status[a]) /\ pc = "finish"
       \/ At(c, "reload") /\ a = Asset(c) /\ ~ Live(status[a]) /\ pc = "skipped"
       \/ At(c, "recover") /\ a = Asset(c) /\ pc = "record"

(* An exception, a refusal or the end of the process.                      *)
Breaks(c) ==
  /\ call[c].pc \in Running
  /\ Goes(c, OnError(c)) \/ Goes(c, "dead")
  /\ strictBegin \/ call'[c].faulted
  /\ UNCHANGED <<status, stored, job>>

(* An update and its COMMIT.                                               *)
Ended(c, pc) == Goes(c, pc) \/ (Goes(c, OnError(c)) /\ call'[c].faulted)

Writes(c, s, pc) == SetStatus(c, s) /\ Ended(c, pc) /\ ~ strictBegin

SetJob(c, s) == job' = [job EXCEPT ![c] = s]

Updates(c) ==
  \/ /\ At(c, "upload") /\ Writes(c, "uploaded", "ok") /\ job' = job
     /\ stored' = [stored EXCEPT ![Asset(c)] = TRUE]
  \/ At(c, "delete") /\ Writes(c, "deleted", "ok") /\ UNCHANGED <<stored, job>>
  \/ At(c, "begin") /\ Writes(c, "processing", "reload") /\ SetJob(c, "running") /\ stored' = stored
  \/ At(c, "finish") /\ Writes(c, "ready", "ok") /\ SetJob(c, "done") /\ stored' = stored
  \/ /\ At(c, "record") /\ Live(call[c].loaded)
     /\ Writes(c, "failed", "ok") /\ SetJob(c, "failed") /\ stored' = stored
  \/ /\ At(c, "record") /\ ~ Live(call[c].loaded) /\ ~ strictBegin
     /\ Ended(c, "ok")
     /\ SetJob(c, "failed") /\ UNCHANGED <<status, stored>>

Steps ==
  \/ \E a \in Assets : Create(a)
  \/ \E c \in Calls, a \in Assets : Selects(c, a)
  \/ \E c \in Calls : Breaks(c) \/ Updates(c)
  \/ UNCHANGED vars

LEMMA StepFields == TypeOK /\ [Next]_vars => Steps /\ UNCHANGED strictBegin
<1> SUFFICES ASSUME TypeOK, [Next]_vars
             PROVE  Steps /\ UNCHANGED strictBegin
  OBVIOUS
<1>p. /\ {"ok", "not_found", "skipped", "error", "dead", "upload", "delete", "begin", "reload",
          "finish", "recover", "record"} \subseteq PCs \ {"idle"}
      /\ \A c \in Calls : OnError(c) \in PCs
      /\ {"upload", "delete", "ingest"} \subseteq Kinds
  BY DEF PCs, Running, Writing, OnError, Kinds
<1>c. ASSUME NEW c \in Calls, NEW pc \in PCs, Committed(c, pc)
      PROVE  Ended(c, pc)
  BY <1>c, <1>p, GotoFields DEF Committed, Ended
<1>1. ASSUME NEW c \in Calls, NEW a \in Assets, UploadSelect(c, a)
      PROVE  Selects(c, a)
  <2>1. CASE Live(status[a]) /\ Open(c, a, "upload", "upload")
    BY <1>1, <1>p, <2>1, OpenFields DEF UploadSelect, Selects
  <2>2. CASE Open(c, a, "upload", "not_found")
    BY <1>1, <1>p, <2>2, OpenFields DEF UploadSelect, Selects, Ends
  <2> QED
    BY <1>1, <2>1, <2>2 DEF UploadSelect
<1>2. ASSUME NEW c \in Calls, NEW a \in Assets, DeleteSelect(c, a)
      PROVE  Selects(c, a)
  <2>1. CASE Live(status[a]) /\ Open(c, a, "delete", "delete")
    BY <1>2, <1>p, <2>1, OpenFields DEF DeleteSelect, Selects
  <2>2. CASE Open(c, a, "delete", "ok")
    BY <1>2, <1>p, <2>2, OpenFields DEF DeleteSelect, Selects, Ends
  <2> QED
    BY <1>2, <2>1, <2>2 DEF DeleteSelect
<1>3. ASSUME NEW c \in Calls, NEW a \in Assets, IngestSelect(c, a)
      PROVE  Selects(c, a)
  <2>1. CASE Live(status[a]) /\ stored[a] /\ Open(c, a, "ingest", "begin")
    BY <1>3, <1>p, <2>1, OpenFields DEF IngestSelect, Selects
  <2>2. CASE Open(c, a, "ingest", "skipped")
    BY <1>3, <1>p, <2>2, OpenFields DEF IngestSelect, Selects, Ends
  <2> QED
    BY <1>3, <2>1, <2>2 DEF IngestSelect
<1>4. ASSUME NEW c \in Calls, IngestReload(c) \/ IngestRecover(c)
      PROVE  Asset(c) \in Assets /\ Selects(c, Asset(c))
  <2>1. Asset(c) \in Assets
    BY <1>4 DEF IngestReload, IngestRecover, TypeOK, At, Asset
  <2>2. \A pc \in PCs : Reload(c, pc) => Loads(c, Asset(c), pc)
    BY <2>1, ReloadFields
  <2> QED
    BY <1>4, <1>p, <2>1, <2>2 DEF IngestReload, IngestRecover, Selects
<1>5. ASSUME NEW c \in Calls, Refuse(c) \/ Fail(c) \/ Die(c)
      PROVE  Breaks(c)
  BY <1>5, <1>p, GotoFields DEF Refuse, Fail, Die, Breaks, Running
<1>6. ASSUME NEW c \in Calls,
             Upload(c) \/ Delete(c) \/ IngestBegin(c) \/ IngestFinish(c) \/ IngestRecord(c)
      PROVE  Updates(c)
  <2>1. CASE Upload(c)
    BY <1>c, <1>p, <2>1 DEF Upload, Begin, Updates, Writes
  <2>2. CASE Delete(c)
    BY <1>c, <1>p, <2>2 DEF Delete, Begin, Updates, Writes
  <2>3. CASE IngestBegin(c)
    BY <1>c, <1>p, <2>3 DEF IngestBegin, Begin, Updates, Writes, SetJob
  <2>4. CASE IngestFinish(c)
    BY <1>c, <1>p, <2>4 DEF IngestFinish, Begin, Updates, Writes, SetJob
  <2>5. CASE IngestRecord(c)
    <3>1. Ended(c, "ok")
      BY <1>c, <1>p, <2>5 DEF IngestRecord
    <3> QED
      BY <2>5, <3>1 DEF IngestRecord, Begin, Updates, Writes, SetJob
  <2> QED
    BY <1>6, <2>1, <2>2, <2>3, <2>4, <2>5
<1> QED
  BY <1>1, <1>2, <1>3, <1>4, <1>5, <1>6 DEF Next, Handler, Steps, vars

-----------------------------------------------------------------------------
(* Types, and what tasks rely on.                                          *)
LEMMA StepTypes == TypeOK /\ Tasks /\ Steps /\ UNCHANGED strictBegin => TypeOK' /\ Tasks'
<1> SUFFICES ASSUME TypeOK, Tasks, Steps, UNCHANGED strictBegin
             PROVE  TypeOK' /\ Tasks'
  OBVIOUS
<1>t. /\ strictBegin' \in BOOLEAN
      /\ status \in [Assets -> AssetStatus] /\ stored \in [Assets -> BOOLEAN]
      /\ job \in [Calls -> JobStatus] /\ call \in [Calls -> Call]
      /\ \A c \in Calls : call[c].pc # "idle" => Asset(c) \in Assets
      /\ \A c \in Calls : job[c] # "none" => stored[Asset(c)]
      /\ \A a \in Assets : status[a] \in {"processing", "ready", "failed"} => stored[a]
      /\ \A c \in Calls :
           /\ call[c].pc \in {"begin", "reload", "finish", "recover", "record"} => stored[Asset(c)]
           /\ call[c].pc \in {"idle", "upload", "delete", "begin"} => job[c] = "none"
  BY DEF TypeOK, Tasks, Asset
<1> USE DEF Asset, At
<1>1. ASSUME NEW a \in Assets, Create(a)
      PROVE  TypeOK' /\ Tasks'
  <2>1. /\ status' \in [Assets -> AssetStatus] /\ UNCHANGED <<stored, job, call>>
        /\ \A b \in Assets : status'[b] \in {"processing", "ready", "failed"} => status'[b] = status[b]
    BY <1>1, <1>t DEF Create, AssetStatus
  <2> QED
    BY <1>t, <2>1 DEF TypeOK, Tasks
<1>2. ASSUME NEW c \in Calls, NEW a \in Assets, Selects(c, a)
      PROVE  TypeOK' /\ Tasks'
  <2>1. PICK pc \in PCs \ {"idle"} :
          /\ Loads(c, a, pc)
          /\ pc \in {"begin", "reload", "finish", "recover", "record"} => stored[a]
          /\ \/ At(c, "idle")
             \/ a = Asset(c) /\ pc \notin {"idle", "upload", "delete", "begin"}
    BY <1>2, <1>t DEF Selects, Ends
  <2>2. job[c] # "none" => stored[a]
    BY <1>t, <2>1
  <2>3. TypeOK'
    BY <1>t, <2>1, <2>2 DEF Loads, Typed, Others, TypeOK
  <2>4. Tasks'
    BY <1>t, <2>1 DEF Loads, Others, Tasks
  <2> QED
    BY <2>3, <2>4
<1>3. ASSUME NEW c \in Calls, Breaks(c)
      PROVE  TypeOK' /\ Tasks'
  <2>1. /\ Typed /\ Others(c) /\ call'[c].asset = call[c].asset
        /\ UNCHANGED <<status, stored, job>> /\ call[c].pc # "idle"
        /\ call'[c].pc = "recover" => call[c].pc \in {"reload", "finish"}
        /\ call'[c].pc \in {"recover", "error", "dead"}
    BY <1>3 DEF Breaks, Goes, OnError, Running, Writing
  <2>2. TypeOK'
    BY <1>t, <2>1 DEF Typed, Others, TypeOK
  <2>3. Tasks'
    BY <1>t, <2>1 DEF Others, Tasks
  <2> QED
    BY <2>2, <2>3
<1>4. ASSUME NEW c \in Calls, Updates(c)
      PROVE  TypeOK' /\ Tasks'
  <2>1. /\ Typed /\ Others(c) /\ call'[c].asset = call[c].asset
        /\ Asset(c) \in Assets /\ call[c].pc # "idle"
        /\ call'[c].pc \in {"ok", "reload", "recover", "error"}
        /\ call'[c].pc \in {"reload", "recover"} => call[c].pc \in {"begin", "finish"}
    BY <1>4, <1>t DEF Updates, Writes, Ended, Goes, OnError
  <2>2. /\ status' \in [Assets -> AssetStatus]
        /\ \A a \in Assets : status'[a] \in {"processing", "ready", "failed"} =>
                               \/ status'[a] = status[a]
                               \/ a = Asset(c) /\ call[c].pc \in {"begin", "finish", "record"}
    BY <1>4, <1>t, <2>1 DEF Updates, Writes, SetStatus, AssetStatus
  <2>3. /\ stored' \in [Assets -> BOOLEAN]
        /\ \A a \in Assets : stored[a] => stored'[a]
    BY <1>4, <1>t DEF Updates
  <2>4. /\ job' \in [Calls -> JobStatus]
        /\ \A d \in Calls : \/ job'[d] = job[d]
                            \/ d = c /\ call[c].pc \in {"begin", "finish", "record"}
    BY <1>4, <1>t DEF Updates, SetJob, JobStatus
  <2>5. \A d \in Calls : job'[d] # "none" => stored'[call'[d].asset]
    <3> SUFFICES ASSUME NEW d \in Calls, job'[d] # "none"
                 PROVE  stored'[call'[d].asset]
      OBVIOUS
    <3>1. call'[d].asset = call[d].asset
      BY <2>1 DEF Others
    <3>2. stored[call[d].asset]
      BY <1>t, <2>4
    <3>3. call[d].asset \in Assets
      BY <1>t, <2>1, <2>4
    <3> QED
      BY <2>3, <3>1, <3>2, <3>3
  <2>6. \A d \in Calls : call'[d].pc # "idle" => call'[d].asset \in Assets
    BY <1>t, <2>1 DEF Others
  <2>7. \A a \in Assets : status'[a] \in {"processing", "ready", "failed"} => stored'[a]
    BY <1>t, <2>2, <2>3
  <2>8. TypeOK'
    BY <2>1, <2>2, <2>3, <2>4, <2>5, <2>6, <2>7 DEF TypeOK, Typed
  <2>9. Tasks'
    <3> SUFFICES ASSUME NEW d \in Calls
                 PROVE  Tasks!(d)'
      BY DEF Tasks
    <3>1. CASE d = c
      BY <1>t, <2>1, <2>3, <3>1
    <3>2. CASE d # c
      BY <1>t, <2>1, <2>3, <2>4, <3>2 DEF Others
    <3> QED
      BY <3>1, <3>2
  <2> QED
    BY <2>8, <2>9
<1>5. CASE UNCHANGED vars
  BY <1>5 DEF vars, TypeOK, Tasks
<1> QED
  BY <1>1, <1>2, <1>3, <1>4, <1>5 DEF Steps

-----------------------------------------------------------------------------
(* Every status keeps a witness.                                           *)
LEMMA StepBacked ==
  TypeOK /\ Tasks /\ (\A a \in Assets : Backed(a)) /\ Steps => \A a \in Assets : Backed(a)'
<1> SUFFICES ASSUME TypeOK, Tasks, \A b \in Assets : Backed(b), Steps, NEW a \in Assets
             PROVE  Backed(a)'
  OBVIOUS
<1>t. /\ status \in [Assets -> AssetStatus] /\ job \in [Calls -> JobStatus]
      /\ Backed(a)
      /\ \A c \in Calls : call[c].pc # "idle" => Asset(c) \in Assets
      /\ \A c \in Calls : call[c].pc \in {"idle", "upload", "delete", "begin"} => job[c] = "none"
  BY DEF TypeOK, Tasks, Asset
(* What remains to be shown of a step of c that may write a's status.      *)
<1>w. ASSUME NEW c \in Calls, Others(c), \A d \in Calls \ {c} : job'[d] = job[d],
             status'[a] = status[a] =>
               /\ status[a] = "processing" /\ Asset(c) = a /\ Processes(c) =>
                    Asset(c)' = a /\ Processes(c)'
               /\ status[a] = "ready" /\ Asset(c) = a /\ Completed(c) =>
                    Asset(c)' = a /\ Completed(c)'
               /\ status[a] = "failed" /\ Asset(c) = a /\ Failed(c) =>
                    Asset(c)' = a /\ Failed(c)',
             status'[a] # status[a] =>
               /\ status'[a] = "processing" => Asset(c)' = a /\ Processes(c)'
               /\ status'[a] = "ready" => Asset(c)' = a /\ Completed(c)'
               /\ status'[a] = "failed" => Asset(c)' = a /\ Failed(c)'
      PROVE  Backed(a)'
  <2>1. ASSUME NEW d \in Calls \ {c}
        PROVE  /\ Asset(d)' = Asset(d) /\ Processes(d)' = Processes(d)
               /\ Completed(d)' = Completed(d) /\ Failed(d)' = Failed(d)
    BY <1>w, <2>1 DEF Others, Asset, Processes, Completed, Failed, At
  <2>2. status'[a] = "processing" => \E d \in Calls : Asset(d)' = a /\ Processes(d)'
    BY <1>w, <1>t, <2>1 DEF Backed
  <2>3. status'[a] = "ready" => \E d \in Calls : Asset(d)' = a /\ Completed(d)'
    BY <1>w, <1>t, <2>1 DEF Backed
  <2>4. status'[a] = "failed" => \E d \in Calls : Asset(d)' = a /\ Failed(d)'
    BY <1>w, <1>t, <2>1 DEF Backed
  <2> QED
    BY <2>2, <2>3, <2>4 DEF Backed
<1>1. ASSUME NEW b \in Assets, Create(b)
      PROVE  Backed(a)'
  <2>1. status'[a] \in {"processing", "ready", "failed"} => status'[a] = status[a]
    BY <1>1, <1>t DEF Create
  <2> QED
    BY <1>1, <1>t, <2>1 DEF Create, Backed, Asset, Processes, Completed, Failed, At
<1>2. ASSUME NEW c \in Calls, NEW b \in Assets, Selects(c, b)
      PROVE  Backed(a)'
  <2>1. PICK pc \in PCs \ {"idle"} :
          /\ Loads(c, b, pc)
          /\ \/ At(c, "idle")
             \/ /\ call[c].pc \in {"reload", "recover"} /\ b = Asset(c)
                /\ pc = "skipped" => ~ Live(status[b])
    BY <1>2 DEF Selects, At
  <2>2. /\ call'[c].asset = b /\ call'[c].loaded = status[b] /\ job' = job /\ status' = status
        /\ Others(c) /\ call'[c].pc = pc
    BY <2>1 DEF Loads
  <2>3. Asset(c) = a /\ job[c] # "none" =>
          /\ b = a /\ call[c].pc \in {"reload", "recover"}
          /\ pc = "skipped" => status[a] # "processing"
    BY <1>t, <2>1 DEF At, Live
  <2> QED
    BY <1>w, <2>2, <2>3 DEF Asset, Processes, Completed, Failed, At
<1>3. ASSUME NEW c \in Calls, Breaks(c)
      PROVE  Backed(a)'
  <2>1. /\ Others(c) /\ UNCHANGED <<status, stored, job>>
        /\ call'[c].asset = call[c].asset /\ call'[c].loaded = call[c].loaded
        /\ call'[c].pc \in {"recover", "error", "dead"} /\ call[c].pc \notin {"ok", "error"}
    BY <1>3 DEF Breaks, Goes, OnError, Running, Writing
  <2> QED
    BY <1>w, <2>1 DEF Asset, Processes, Completed, Failed, At
<1>4. ASSUME NEW c \in Calls, Updates(c)
      PROVE  Backed(a)'
  <2>1. /\ Others(c) /\ call'[c].asset = call[c].asset /\ Asset(c) \in Assets
        /\ call'[c].loaded = call[c].loaded
        /\ \A d \in Calls \ {c} : job'[d] = job[d]
    BY <1>4, <1>t DEF Updates, Writes, Ended, Goes, SetJob, At
  <2>2. ASSUME NEW s \in AssetStatus, SetStatus(c, s)
        PROVE  \/ status'[a] = status[a]
               \/ Asset(c) = a /\ status'[a] = s
    BY <1>t, <2>1, <2>2 DEF SetStatus
  <2>3. ASSUME NEW s \in AssetStatus, SetStatus(c, s), Asset(c) = a
        PROVE  status'[a] = IF s = call[c].loaded THEN status[a] ELSE s
    BY <1>t, <2>3 DEF SetStatus
  <2>s. {"uploaded", "deleted", "processing", "ready", "failed"} \subseteq AssetStatus
    BY DEF AssetStatus
  <2>4. CASE /\ call[c].pc \in {"upload", "delete"} /\ job' = job
             /\ SetStatus(c, "uploaded") \/ SetStatus(c, "deleted")
    <3>1. job[c] = "none" /\ job'[c] = "none"
      BY <1>t, <2>4
    <3>2. status'[a] # status[a] => status'[a] \in {"uploaded", "deleted"}
      BY <2>2, <2>4, <2>s
    <3> QED
      BY <1>w, <2>1, <3>1, <3>2 DEF Processes, Completed, Failed
  <2>5. CASE /\ At(c, "begin") /\ SetStatus(c, "processing") /\ SetJob(c, "running")
             /\ call'[c].pc \in {"reload", "error"}
    <3>1. job[c] = "none" /\ job'[c] = "running"
      BY <1>t, <2>5 DEF SetJob, At
    <3>2. Processes(c)' /\ (status'[a] # status[a] => Asset(c) = a /\ status'[a] = "processing")
      BY <2>2, <2>5, <2>s, <3>1 DEF Processes, At
    <3> QED
      BY <1>w, <2>1, <3>1, <3>2 DEF Processes, Completed, Failed, Asset
  <2>6. CASE /\ At(c, "finish") /\ SetStatus(c, "ready") /\ SetJob(c, "done")
             /\ call'[c].pc \in {"ok", "recover"}
    <3>1. job'[c] = "done"
      BY <1>t, <2>6 DEF SetJob
    <3>2. Completed(c)' /\ (status'[a] # status[a] => Asset(c) = a /\ status'[a] = "ready")
      BY <2>2, <2>6, <2>s, <3>1 DEF Completed, At
    <3>3. Asset(c) = a /\ Processes(c) => status'[a] = "ready"
      BY <2>3, <2>6, <2>s DEF Processes, At
    <3>4. ~ Failed(c)
      BY <2>6 DEF Failed, At
    <3> QED
      BY <1>w, <2>1, <3>2, <3>3, <3>4 DEF Asset
  <2>7. CASE /\ At(c, "record") /\ SetJob(c, "failed") /\ call'[c].pc \in {"ok", "error"}
             /\ \/ Live(call[c].loaded) /\ SetStatus(c, "failed")
                \/ ~ Live(call[c].loaded) /\ status' = status
    <3>1. job'[c] = "failed"
      BY <1>t, <2>7 DEF SetJob
    <3>2. Failed(c)' /\ (status'[a] # status[a] => Asset(c) = a /\ status'[a] = "failed")
      BY <2>2, <2>7, <2>s, <3>1 DEF Failed
    <3>3. Asset(c) = a /\ (Processes(c) \/ Completed(c)) => status'[a] = "failed"
      BY <2>3, <2>7, <2>s DEF Processes, Completed, At, Live
    <3> QED
      BY <1>w, <2>1, <3>2, <3>3 DEF Asset
  <2> QED
    BY <1>4, <2>4, <2>5, <2>6, <2>7 DEF Updates, Writes, Ended, Goes, OnError, At
<1>5. CASE UNCHANGED vars
  BY <1>5, <1>t DEF vars, Backed, Asset, Processes, Completed, Failed, At
<1> QED
  BY <1>1, <1>2, <1>3, <1>4, <1>5 DEF Steps

(* Jobs are worked on.                                                     *)
LEMMA StepExist == TypeOK /\ Exist /\ Steps => Exist'
<1> SUFFICES ASSUME TypeOK, Exist, Steps, NEW d \in Calls, call'[d].pc \in Running
             PROVE  status'[call'[d].asset] # "absent"
  BY DEF Exist, Asset
<1>t. /\ status \in [Assets -> AssetStatus]
      /\ \A c \in Calls : call[c].pc # "idle" => call[c].asset \in Assets
      /\ \A c \in Calls : call[c].pc \in Running => status[call[c].asset] # "absent"
      /\ "idle" \notin Running
  BY DEF TypeOK, Exist, Asset, Running, Writing
(* Nothing becomes absent.                                                 *)
<1>a. \A a \in Assets : status[a] # "absent" => status'[a] # "absent"
  BY <1>t DEF Steps, Create, Selects, Loads, Breaks, Updates, Writes, SetStatus, vars
<1>1. CASE call'[d].pc = call[d].pc /\ call'[d].asset = call[d].asset
  BY <1>1, <1>a, <1>t
<1>2. ASSUME NEW a \in Assets, Create(a)
      PROVE  call'[d] = call[d]
  BY <1>2 DEF Create
<1>3. ASSUME NEW a \in Assets, Selects(d, a)
      PROVE  call'[d].asset \in Assets /\ status[call'[d].asset] # "absent"
  BY <1>3, <1>t DEF Selects, Loads, Ends, Live, Running, Writing, At, Asset
<1>4. ASSUME Breaks(d) \/ Updates(d)
      PROVE  call'[d].asset \in Assets /\ status[call'[d].asset] # "absent"
  <2>1. call'[d].asset = call[d].asset /\ call[d].pc \in Running
    BY <1>4 DEF Breaks, Updates, Writes, Ended, Goes, At, Running, Writing
  <2> QED
    BY <1>t, <2>1
<1>5. ASSUME NEW c \in Calls \ {d}, NEW a \in Assets, Selects(c, a)
      PROVE  call'[d] = call[d]
  BY <1>5 DEF Selects, Loads, Others
<1>6. ASSUME NEW c \in Calls \ {d}, Breaks(c) \/ Updates(c)
      PROVE  call'[d] = call[d]
  BY <1>6 DEF Breaks, Updates, Writes, Ended, Goes, Others
<1> QED
  BY <1>1, <1>2, <1>3, <1>4, <1>5, <1>6, <1>a DEF Steps, vars

LEMMA StepTended ==
  ASSUME TypeOK, Tasks, Exist, Refused, Steps, NEW d \in Calls, Tended(d)
  PROVE  Tended(d)'
<1>t. /\ job \in [Calls -> JobStatus]
      /\ call[d].pc \in {"idle", "upload", "delete", "begin"} => job[d] = "none"
      /\ status \in [Assets -> AssetStatus]
      /\ strictBegin => job[d] = "none"
      /\ call[d].pc \in Running => status[Asset(d)] # "absent"
  BY DEF TypeOK, Tasks, Refused, Exist
<1>o. CASE UNCHANGED <<job[d], call[d]>>
  BY <1>o DEF Tended, At
<1>1. ASSUME NEW a \in Assets, Create(a)
      PROVE  UNCHANGED <<job[d], call[d]>>
  BY <1>1 DEF Create
<1>2. ASSUME NEW c \in Calls, NEW a \in Assets, Selects(c, a)
      PROVE  Tended(d)'
  <2>1. CASE c # d
    BY <1>2, <1>o, <2>1 DEF Selects, Loads, Others
  <2>2. CASE c = d
    <3>1. job'[d] = job[d] /\ (job[d] # "none" => call[d].pc \in {"reload", "recover"})
      BY <1>2, <1>t, <2>2 DEF Selects, Loads, At
    <3>2. job[d] # "none" =>
            \/ call'[d].pc \in {"finish", "record"}
            \/ call'[d].pc = "skipped" /\ call'[d].loaded = "deleted"
      BY <1>2, <1>t, <2>2, <3>1 DEF Selects, Loads, At, Live, Running
    <3> QED
      BY <3>1, <3>2 DEF Tended, Working, At
  <2> QED
    BY <2>1, <2>2
<1>3. ASSUME NEW c \in Calls, Breaks(c)
      PROVE  Tended(d)'
  <2>1. CASE c # d
    BY <1>3, <1>o, <2>1 DEF Breaks, Goes, Others
  <2>2. CASE c = d
    BY <1>3, <1>t, <2>2 DEF Breaks, Tended
  <2> QED
    BY <2>1, <2>2
<1>4. ASSUME NEW c \in Calls, Updates(c)
      PROVE  Tended(d)'
  <2>1. CASE c # d
    BY <1>4, <1>o, <1>t, <2>1 DEF Updates, Writes, Ended, Goes, Others, SetJob
  <2>2. CASE c = d
    <3>1. job'[d] = "running" => At(d, "begin")
      BY <1>4, <1>t, <2>2 DEF Updates, SetJob, At
    <3>2. At(d, "begin") => call'[d].pc = "reload" \/ call'[d].faulted
      BY <1>4, <2>2 DEF Updates, Writes, Ended, Goes, At
    <3> QED
      BY <3>1, <3>2 DEF Tended, Working
  <2> QED
    BY <2>1, <2>2
<1>5. CASE UNCHANGED vars
  BY <1>5, <1>o DEF vars
<1> QED
  BY <1>1, <1>2, <1>3, <1>4, <1>5, <1>o DEF Steps

(* Where begin() is refused only Create writes.                            *)
LEMMA StepRefused == Refused /\ Steps /\ UNCHANGED strictBegin => Refused'
<1> SUFFICES ASSUME Refused, Steps, UNCHANGED strictBegin, strictBegin
             PROVE  Refused'
  BY DEF Refused
<1>1. \A c \in Calls : ~ Updates(c)
  BY DEF Updates, Writes
<1> QED
  BY <1>1 DEF Steps, Selects, Loads, Breaks, Create, vars, Refused

-----------------------------------------------------------------------------
THEOREM Invariance == Spec => []IInv
<1>1. IInv /\ [Next]_vars => IInv'
  BY StepFields, StepTypes, StepExist, StepTended, StepBacked, StepRefused DEF IInv
<1> QED
  BY InitInvariant, <1>1, PTL DEF Spec

(* Every reachable state is well typed, and only what was uploaded has     *)
(* jobs (pipeline.py:47).                                                  *)
THEOREM TypeCorrect == Spec => []TypeOK
<1>1. IInv => TypeOK
  BY DEF IInv
<1> QED
  BY Invariance, <1>1, PTL

(* The status of an asset is backed by a job, for any number of uploads,   *)
(* deletions, tasks and failures.                                          *)
THEOREM StatusesAreBacked == Spec => []StatusIsBacked
<1>1. IInv => StatusIsBacked
  BY DEF IInv, Backed, Processes, Completed, Failed, StatusIsBacked
<1> QED
  BY Invariance, <1>1, PTL

(* A deletion that no call overlapped is final.                            *)
THEOREM DeletionsAreFinal == Spec => DeletionIsFinal
<1>1. IInv /\ [Next]_vars => [\A a \in Assets : Settled(a) => Settled(a)']_vars
  <2> SUFFICES ASSUME IInv, Steps, NEW a \in Assets, Settled(a)
               PROVE  Settled(a)'
    BY StepFields DEF IInv
  <2>t. /\ status \in [Assets -> AssetStatus] /\ status[a] = "deleted"
        /\ \A c \in Calls : Asset(c) = a /\ call[c].pc \in Writing =>
             call[c].pc \in {"delete", "record"} /\ ~ Live(call[c].loaded)
        /\ \A c \in Calls : call[c].pc # "idle" => Asset(c) \in Assets
    BY DEF IInv, TypeOK, Settled, Asset
  <2>1. ASSUME NEW b \in Assets, Create(b)
        PROVE  Settled(a)'
    BY <2>1, <2>t DEF Create, Settled, Asset
  <2>2. ASSUME NEW c \in Calls, NEW b \in Assets, Selects(c, b)
        PROVE  Settled(a)'
    <3>1. PICK pc \in PCs \ {"idle"} :
            /\ Loads(c, b, pc)
            /\ pc \in Writing /\ b = a => pc = "record"
      BY <2>2, <2>t DEF Selects, Ends, Live, Writing
    <3> QED
      BY <2>t, <3>1 DEF Loads, Others, Settled, Asset, Live
  <2>3. ASSUME NEW c \in Calls, Breaks(c)
        PROVE  Settled(a)'
    <3>1. /\ Others(c) /\ UNCHANGED status /\ call'[c].pc \notin Writing
      BY <2>3 DEF Breaks, Goes, OnError, Writing
    <3> QED
      BY <2>t, <3>1 DEF Others, Settled, Asset
  <2>4. ASSUME NEW c \in Calls, Updates(c)
        PROVE  Settled(a)'
    <3>1. /\ Others(c) /\ call'[c].pc \notin Writing /\ call[c].pc \in Writing
          /\ Asset(c) \in Assets
      BY <2>4, <2>t DEF Updates, Writes, Ended, Goes, OnError, Writing, At
    <3>2. status'[a] = "deleted"
      BY <2>4, <2>t, <3>1 DEF Updates, Writes, SetStatus, At
    <3> QED
      BY <2>t, <3>1, <3>2 DEF Others, Settled, Asset
  <2>5. CASE UNCHANGED vars
    BY <2>5 DEF vars, Settled, Asset
  <2> QED
    BY <2>1, <2>2, <2>3, <2>4, <2>5 DEF Steps
<1> QED
  BY Invariance, <1>1, PTL DEF Spec, DeletionIsFinal

(* A job that runs is worked on by a task that waits for nobody, unless    *)
(* the task was hurt or found its asset deleted (pipeline.py:51-83).       *)
JobsAreTended ==
  \A c \in Calls : job[c] = "running" =>
    call[c].pc \in Working \/ call[c].faulted \/ call[c].loaded = "deleted"

THEOREM JobsHaveTasks == Spec => []JobsAreTended
<1>1. IInv => JobsAreTended
  BY DEF IInv, Tended, JobsAreTended
<1> QED
  BY Invariance, <1>1, PTL

(* While an asset is processing, one of its tasks works on it, or was hurt *)
(* with its job running: no status stays behind by itself.                 *)
ProcessingIsTended ==
  \A a \in Assets : status[a] = "processing" =>
    \E c \in Calls : /\ Asset(c) = a /\ job[c] = "running"
                     /\ call[c].pc \in Working \/ call[c].faulted

THEOREM ProcessingHasTasks == Spec => []ProcessingIsTended
<1>1. IInv => ProcessingIsTended
  BY DEF IInv, Tended, Backed, Processes, ProcessingIsTended
<1> QED
  BY Invariance, <1>1, PTL

=============================================================================
