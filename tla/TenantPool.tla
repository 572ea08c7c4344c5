----------------------------- MODULE TenantPool -----------------------------
(***************************************************************************)
(* Requests on the engine's pool of connections: the tenant that get_db    *)
(* sets on a connection (infra/db/deps.py), the exception handlers         *)
(* (api/exception_handlers.py), and the audit rows written after the       *)
(* answer (api/middleware/request_context.py, modules/audit).              *)
(*                                                                         *)
(* A session holds a connection from its first statement to the end of the *)
(* transaction.  get_db commits, so that the statements of the handler may *)
(* run on another connection than the one it has set.  set_config(.., ..,  *)
(* false) lasts for the session of PostgreSQL, which is the connection;    *)
(* what its transaction did is undone when that is rolled back.            *)
(***************************************************************************)
EXTENDS Naturals, Sequences, FiniteSets

CONSTANTS
  Requests,
  MaxConns,          \* bound: connections that an engine may have
  Workspaces,        \* what X-Workspace-Id, the query or the path name
  NoWorkspace,       \* no tenant, which get_db sets as "0"
  AppCodes,          \* HTTP statuses of AppErrors
  MaxTransactions,   \* bound: transactions of one handler
  Fresh,             \* the tenant of a new connection
  Closed             \* that of a connection that is not there

Conns   == 1 .. MaxConns
NoConn  == 0
Tenants == Workspaces \cup {NoWorkspace}

ASSUME PoolAssumption ==
  /\ MaxConns \in Nat \ {0} /\ MaxTransactions \in Nat
  /\ AppCodes \subseteq 400 .. 599
  /\ {Fresh, Closed} \cap Tenants = {} /\ Fresh # Closed

VARIABLES
  limit,    \* db_pool_size + db_max_overflow
  size,     \* db_pool_size
  idle,     \* the queue of the pool, first in first out
  tenant,   \* app.tenant_id of each connection
  latest,   \* history: the tenant that get_db has committed last
  req,      \* requests
  audit     \* the rows of audit_events

pool == <<limit, size, idle, tenant>>
vars == <<limit, size, idle, tenant, latest, req, audit>>

-----------------------------------------------------------------------------
(* State                                                                   *)

DenyCodes == {401, 403, 429}
Codes     == {0, 200, 405, 422, 500} \cup AppCodes

(* Of app_error_handler and http_exception_handler, by HTTP status.        *)
AppStatus(code) ==
  IF code >= 500 THEN "error" ELSE IF code \in DenyCodes THEN "deny" ELSE "error"
HttpStatus(code) == IF code \in DenyCodes THEN "deny" ELSE "error"

(* _classify *)
Classify(code) ==
  IF code \in DenyCodes THEN "deny" ELSE IF code >= 400 THEN "error" ELSE "ok"

Event ==
  [status : {"ok", "deny", "error"},
   http   : Codes,     \* 0: None
   user   : BOOLEAN]   \* actor_user_id is that of the request

Request ==
  [pc     : {"idle", "route", "open", "readyz", "probe", "set", "ready", "run", "exit", "done"},
   flush  : {"none", "wait", "write", "end"},
   tenant : Tenants,         \* request.state.workspace_id
   user   : BOOLEAN,         \* set_user_id has been called
   served : BOOLEAN,         \* history: get_db has yielded
   left   : 0 .. MaxTransactions,  \* that the handler has yet to begin
   conn   : Conns \cup {NoConn},
   out    : Conns \cup {NoConn},   \* the connection of flush_audit
   events : SUBSET Event,    \* the buffer of the audit context
   answer : Codes,           \* 0: not answered
   lost   : BOOLEAN]         \* history: flush_audit has failed

Blank == [pc |-> "idle", flush |-> "none", tenant |-> NoWorkspace, user |-> FALSE,
          served |-> FALSE, left |-> 0, conn |-> NoConn, out |-> NoConn, events |-> {},
          answer |-> 0, lost |-> FALSE]

Init ==
  /\ limit \in Conns
  /\ size \in 1 .. limit
  /\ idle = <<>>
  /\ tenant = [c \in Conns |-> Closed]
  /\ latest = NoWorkspace
  /\ req = [r \in Requests |-> Blank]
  /\ audit = [r \in Requests |-> {}]

(* A request holds connections where its steps need them, and only there.  *)
Holding(r) ==
  /\ {req[r].conn, req[r].out} \subseteq 0 .. limit
  /\ req[r].pc \in {"probe", "set", "run"} => req[r].conn # NoConn
  /\ req[r].pc \notin {"probe", "set", "run", "exit"} => req[r].conn = NoConn
  /\ req[r].flush = "write" <=> req[r].out # NoConn

(* Connections of the pool are held by the steps that need them.           *)
TypeOK ==
  /\ limit \in Conns /\ size \in 1 .. limit
  /\ idle \in Seq(1 .. limit)
  /\ tenant \in [Conns -> Tenants \cup {Fresh, Closed}]
  /\ latest \in Tenants
  /\ req \in [Requests -> Request]
  /\ audit \in [Requests -> SUBSET Event]
  /\ \A r \in Requests : Holding(r)

-----------------------------------------------------------------------------
(* The pool: SQLAlchemy's AsyncAdaptedQueuePool                            *)

(* A connection, with its tenant: the first idle one, unless pre_ping or   *)
(* recycle replaces it; or a new one, within the overflow.                 *)
Take(c, t) ==
  /\ \/ /\ idle # <<>> /\ c = Head(idle) /\ t \in {tenant[c], Fresh}
        /\ idle' = Tail(idle)
     \/ /\ idle = <<>> /\ c \in 1 .. limit /\ tenant[c] = Closed /\ t = Fresh
        /\ UNCHANGED idle
  /\ tenant' = [tenant EXCEPT ![c] = t]
  /\ UNCHANGED <<limit, size>>

(* The overflow is closed.                                                 *)
Return(c, t) ==
  /\ \/ /\ Len(idle) < size
        /\ idle' = Append(idle, c)
        /\ tenant' = [tenant EXCEPT ![c] = t]
     \/ /\ Len(idle) >= size
        /\ tenant' = [tenant EXCEPT ![c] = Closed]
        /\ UNCHANGED idle
  /\ UNCHANGED <<limit, size>>

(* A connection that is lost.                                              *)
Discard(c) ==
  /\ tenant' = [tenant EXCEPT ![c] = Closed]
  /\ UNCHANGED <<limit, size, idle>>

-----------------------------------------------------------------------------
(* Steps of a request                                                      *)

At(r, pc) == req[r].pc = pc

Update(r, state) == req' = [req EXCEPT ![r] = state] /\ UNCHANGED audit

(* TenantContextMiddleware, then RequestContextMiddleware up to call_next. *)
(* The route decides what comes first: a wait for the connection of get_db *)
(* or of readyz, or nothing on the database.                               *)
Arrive(r, w) ==
  /\ At(r, "idle")
  /\ \E pc \in {"route", "open", "readyz"} :
       Update(r, [req[r] EXCEPT !.pc = pc, !.tenant = w])
  /\ UNCHANGED <<pool, latest>>

(* The first statement of get_db, or that of readyz.                       *)
Open(r) ==
  /\ req[r].pc \in {"open", "readyz"}
  /\ \E c \in Conns, t \in Tenants \cup {Fresh} :
       /\ Take(c, t)
       /\ Update(r, [req[r] EXCEPT !.pc = IF At(r, "open") THEN "set" ELSE "probe", !.conn = c])
  /\ UNCHANGED latest

(* Mutant: a request that names no workspace sets nothing.                 *)
SetTenant_Named(r) ==
  /\ At(r, "set")
  /\ Return(req[r].conn,
            IF req[r].tenant = NoWorkspace THEN tenant[req[r].conn] ELSE req[r].tenant)
  /\ latest' = req[r].tenant
  /\ \E n \in 0 .. MaxTransactions :
       Update(r, [req[r] EXCEPT !.pc = "ready", !.conn = NoConn, !.served = TRUE, !.left = n])

(* Mutant: the session keeps its connection for as long as it is open, and *)
(* the handler's transactions ask for connections of their own.            *)
SetTenant_Hold(r) ==
  /\ At(r, "set")
  /\ tenant' = [tenant EXCEPT ![req[r].conn] = req[r].tenant]
  /\ UNCHANGED <<limit, size, idle>>
  /\ latest' = req[r].tenant
  /\ \E n \in 0 .. MaxTransactions :
       Update(r, [req[r] EXCEPT !.pc = "ready", !.served = TRUE, !.left = n])

(* get_db up to its yield.  What the handler goes on to do is settled      *)
(* here, so that nobody who needs a connection can choose to do without.   *)
SetTenant(r) ==
  /\ At(r, "set")
  /\ Return(req[r].conn, req[r].tenant)
  /\ latest' = req[r].tenant
  /\ \E n \in 0 .. MaxTransactions :
       Update(r, [req[r] EXCEPT !.pc = "ready", !.conn = NoConn, !.served = TRUE, !.left = n])

(* The handler's first statement of a transaction, on any connection.      *)
Statement(r) ==
  /\ At(r, "ready") /\ req[r].left > 0
  /\ \E c \in Conns, t \in Tenants \cup {Fresh} :
       Take(c, t) /\ Update(r, [req[r] EXCEPT !.pc = "run", !.conn = c, !.left = @ - 1])
  /\ UNCHANGED latest

(* get_current_user has found the user: set_user_id.                       *)
Authenticate(r) ==
  /\ At(r, "run") /\ ~ req[r].user
  /\ Update(r, [req[r] EXCEPT !.user = TRUE])
  /\ UNCHANGED <<pool, latest>>

EndTransaction(r) ==
  /\ At(r, "run")
  /\ Return(req[r].conn, tenant[req[r].conn])
  /\ Update(r, [req[r] EXCEPT !.pc = "ready", !.conn = NoConn])
  /\ UNCHANGED latest

(* record: an event of the request's own task.                             *)
NewEvent(r, status, http) == [status |-> status, http |-> http, user |-> req[r].user]

(* The handler's own event, or none; what it returns is answered, and the  *)
(* flush attached to the answer, while get_db waits for its finally.       *)
Succeed(r) ==
  /\ \/ At(r, "route")
     \/ req[r].pc \in {"ready", "run"} /\ req[r].left = 0
  /\ \E own \in {{}, {NewEvent(r, "ok", 0)}} :
       Update(r, [req[r] EXCEPT !.pc = "exit", !.flush = "wait",
                                !.events = own, !.answer = 200])
  /\ UNCHANGED <<pool, latest>>

(* The session is closed: its transaction is rolled back.                  *)
Release(r) ==
  \/ req[r].conn = NoConn /\ UNCHANGED pool
  \/ req[r].conn # NoConn /\ Return(req[r].conn, tenant[req[r].conn])

(* Mutant: the session is not closed.                                      *)
Exit_Open(r) ==
  /\ At(r, "exit")
  /\ Update(r, [req[r] EXCEPT !.pc = "done"])
  /\ UNCHANGED <<pool, latest>>

(* finally of get_db, which no longer delays the answer.                   *)
Exit(r) ==
  /\ At(r, "exit")
  /\ Release(r)
  /\ Update(r, [req[r] EXCEPT !.pc = "done", !.conn = NoConn])
  /\ UNCHANGED latest

(* readyz answers 200 whatever its statement does.                         *)
Probed(r) ==
  /\ At(r, "probe")
  /\ Return(req[r].conn, tenant[req[r].conn]) \/ Discard(req[r].conn)
  /\ Update(r, [req[r] EXCEPT !.pc = "exit", !.flush = "wait", !.conn = NoConn, !.answer = 200])
  /\ UNCHANGED latest

(* Nor does it matter whether the pool has a connection for it.            *)
Unprobed(r) ==
  /\ At(r, "readyz")
  /\ Update(r, [req[r] EXCEPT !.pc = "exit", !.flush = "wait", !.answer = 200])
  /\ UNCHANGED <<pool, latest>>

-----------------------------------------------------------------------------
(* Exceptions: get_db is left first, then a handler answers                *)

Caught(r, event, code) ==
  /\ Release(r)
  /\ Update(r, [req[r] EXCEPT !.pc = "done", !.flush = "wait", !.left = 0, !.conn = NoConn,
                              !.events = {event}, !.answer = code])
  /\ UNCHANGED latest

(* A dependency that is called before get_db may refuse, too (the rate     *)
(* limit).  A route that recorded its refusal before it raised             *)
(* (get_current_user) adds a row that tells the same.                      *)
AppErrorHandler(r) ==
  /\ req[r].pc \in {"open", "ready", "run"}
  /\ \E code \in AppCodes : Caught(r, NewEvent(r, AppStatus(code), code), code)

(* Mutant: nothing is recorded, and flush_audit has to make up for it.     *)
ValidationErrorHandler_Silent(r) ==
  /\ req[r].pc \in {"open", "ready", "run"}
  /\ Release(r)
  /\ Update(r, [req[r] EXCEPT !.pc = "done", !.flush = "wait", !.left = 0, !.conn = NoConn, !.answer = 422])
  /\ UNCHANGED latest

(* FastAPI decodes a body before it calls the dependencies, and validates  *)
(* what it decoded after.                                                  *)
ValidationErrorHandler(r) ==
  /\ req[r].pc \in {"open", "ready", "run"}
  /\ Caught(r, NewEvent(r, "deny", 422), 422)

(* Raised by the router only.                                              *)
HttpExceptionHandler(r) ==
  /\ At(r, "route")
  /\ Caught(r, NewEvent(r, HttpStatus(405), 405), 405)

(* Mutant: set_config lasts although its transaction is rolled back.       *)
UnhandledErrorHandler_Keep(r) ==
  /\ req[r].pc \in {"route", "open", "readyz", "set", "ready", "run"}
  /\ \/ Release(r)
     \/ At(r, "set") /\ Return(req[r].conn, req[r].tenant)
  /\ Update(r, [req[r] EXCEPT !.pc = "done", !.left = 0, !.conn = NoConn, !.answer = 500])
  /\ UNCHANGED latest

(* Mutant: the session is left open by what fails before the yield.        *)
UnhandledErrorHandler_Leak(r) ==
  /\ req[r].pc \in {"route", "open", "readyz", "set", "ready", "run"}
  /\ \/ Release(r)
     \/ At(r, "set") /\ UNCHANGED pool
  /\ Update(r, [req[r] EXCEPT !.pc = "done", !.left = 0, !.conn = NoConn, !.answer = 500])
  /\ UNCHANGED latest

(* Whatever else fails: the rate limit's Redis, a statement, a COMMIT, the *)
(* connection itself, the wait for one (pool_timeout).  It is answered     *)
(* outside of the middlewares: no flush, and record finds no buffer.       *)
UnhandledErrorHandler(r) ==
  /\ req[r].pc \in {"route", "open", "readyz", "set", "ready", "run"}
  /\ \/ Release(r)
     \/ req[r].conn # NoConn /\ Discard(req[r].conn)
  /\ Update(r, [req[r] EXCEPT !.pc = "done", !.left = 0, !.conn = NoConn, !.answer = 500])
  /\ UNCHANGED latest

-----------------------------------------------------------------------------
(* flush_audit, after the answer                                           *)

(* What is written: an error that left no event gets one, in whose context *)
(* the user is not known.                                                  *)
Rows(r) ==
  IF req[r].events = {} /\ req[r].answer >= 400
  THEN {[status |-> Classify(req[r].answer), http |-> req[r].answer, user |-> FALSE]}
  ELSE {[e EXCEPT !.http = IF @ = 0 THEN req[r].answer ELSE @] : e \in req[r].events}

FlushOpen(r) ==
  /\ req[r].flush = "wait" /\ Rows(r) # {}
  /\ \E c \in Conns, t \in Tenants \cup {Fresh} :
       Take(c, t) /\ Update(r, [req[r] EXCEPT !.flush = "write", !.out = c])
  /\ UNCHANGED latest

FlushNothing(r) ==
  /\ req[r].flush = "wait" /\ Rows(r) = {}
  /\ Update(r, [req[r] EXCEPT !.flush = "end", !.events = {}])
  /\ UNCHANGED <<pool, latest>>

FlushWrite(r) ==
  /\ req[r].flush = "write"
  /\ Return(req[r].out, tenant[req[r].out])
  /\ audit' = [audit EXCEPT ![r] = Rows(r)]
  /\ req' = [req EXCEPT ![r].flush = "end", ![r].out = NoConn, ![r].events = {}]
  /\ UNCHANGED latest

(* audit_flush_failed is logged, and the events are gone.                  *)
FlushFail(r) ==
  /\ \/ req[r].flush = "wait" /\ Rows(r) # {} /\ UNCHANGED pool
     \/ /\ req[r].flush = "write"
        /\ Return(req[r].out, tenant[req[r].out]) \/ Discard(req[r].out)
  /\ Update(r, [req[r] EXCEPT !.flush = "end", !.out = NoConn, !.events = {}, !.lost = TRUE])
  /\ UNCHANGED latest

-----------------------------------------------------------------------------
Handler(r) ==
  \/ Open(r)
  \/ SetTenant(r)
  \/ Statement(r)
  \/ Authenticate(r)
  \/ EndTransaction(r)
  \/ Succeed(r)
  \/ Exit(r)
  \/ Probed(r)

Raise(r) ==
  \/ AppErrorHandler(r)
  \/ ValidationErrorHandler(r)
  \/ HttpExceptionHandler(r)
  \/ UnhandledErrorHandler(r)

Flush(r) == FlushOpen(r) \/ FlushNothing(r) \/ FlushWrite(r)

Next ==
  \E r \in Requests :
    \/ \E w \in Tenants : Arrive(r, w)
    \/ Handler(r)
    \/ Unprobed(r)
    \/ Raise(r)
    \/ Flush(r)
    \/ FlushFail(r)

Spec == Init /\ [][Next]_vars

(* A task that has its connection goes on, and so does one that waits for  *)
(* a connection when there is one; one that waits has nothing else to do.  *)
(* Nothing is assumed of exceptions, of pool_timeout among them.           *)
Fairness == \A r \in Requests : WF_vars(Handler(r)) /\ WF_vars(Flush(r))

FairSpec == Spec /\ Fairness

-----------------------------------------------------------------------------
(* Safety and liveness                                                     *)

(* Tenants that get_db has set, on any connection.                         *)
Served == {req[r].tenant : r \in {q \in Requests : req[q].served}}

(* Whatever connection a statement gets, it never runs under the tenant of *)
(* a request that get_db did not let through: a set_config that failed     *)
(* leaves nothing behind on the connection (deps.py:21-26).                *)
TenantsAreServed ==
  \A c \in Conns : tenant[c] \in Served \cup {Fresh, Closed}

(* A pool of one connection: a statement runs under the tenant of whoever  *)
(* came through get_db last, or under none, and so under the request's own *)
(* unless another came in between (deps.py:21-26, engine.py:10-17).        *)
OneConnectionCarriesLatest ==
  limit = 1 => tenant[1] \in {latest, Fresh, Closed}

(* Whichever way a request and its flush end, their connections come back: *)
(* each one that is open is idle, or has one user, in one place; nobody    *)
(* holds one that is closed (deps.py:14-32, audit/middleware.py:56-66).    *)
ConnectionsAreKept ==
  \A c \in 1 .. limit :
    Cardinality({k \in DOMAIN idle : idle[k] = c})
      + Cardinality({r \in Requests : req[r].conn = c})
      + Cardinality({r \in Requests : req[r].out = c}) = IF tenant[c] = Closed THEN 0 ELSE 1

(* A refused or failed request leaves a row with the status that was       *)
(* answered and, if it was authenticated, its user, unless the flush       *)
(* failed; only an unhandled error has no flush (exception_handlers.py).   *)
ErrorsLeaveRows ==
  \A r \in Requests :
    req[r].flush = "end" /\ req[r].answer >= 400 /\ ~ req[r].lost =>
      \E row \in audit[r] : row.http = req[r].answer /\ row.user = req[r].user

(* Requests and their flushes never wait for each other's connections for  *)
(* ever, even if the pool has only one and without its timeout             *)
(* (deps.py:28-32, audit/middleware.py:56-62).                             *)
RequestsEnd ==
  \A r \in Requests :
    req[r].pc # "idle" ~> req[r].pc = "done" /\ req[r].flush \in {"none", "end"}

=============================================================================
