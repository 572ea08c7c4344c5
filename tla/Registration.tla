---------------------------- MODULE Registration ----------------------------
(***************************************************************************)
(* Registration of an account (modules/authn/routes.py) and its audit      *)
(* trail (modules/audit), from the first statement of the transaction to   *)
(* the flush of the buffered events after the response.                    *)
(*                                                                         *)
(* PostgreSQL runs the transactions at READ COMMITTED: the SELECT sees     *)
(* committed rows only, and an INSERT that meets an uncommitted row of the *)
(* same address waits for the end of that transaction.                     *)
(*                                                                         *)
(* An account is named after the request that created it.                  *)
(***************************************************************************)
EXTENDS Naturals

CONSTANTS
  Reqs,     \* POST /auth/register
  Emails,
  NoOne     \* no account, no transaction

ASSUME RegistrationAssumption == NoOne \notin Reqs \cup Emails

VARIABLES
  users,    \* users.email: the committed row of an address
  claim,    \* the open transaction that has inserted the address
  req,      \* the register call, its audit buffer, its answer
  audit     \* rows of audit_events

vars == <<users, claim, req, audit>>

-----------------------------------------------------------------------------
(* State                                                                   *)

Events == {"created", "taken", "app_error", "http_error"}

Row == [req : Reqs, event : Events]

InTx     == {"select", "insert", "refresh", "commit", "rollback"}
Running  == InTx \cup {"answer", "flush"}
PCs      == {"idle", "done", "dead"} \cup Running
Answers  == {0, 201, 409, 500}   \* what a client was told, 0 for nothing

Request ==
  [pc      : PCs,
   email   : Emails \cup {NoOne},
   taken   : BOOLEAN,            \* auth.email_taken is being raised
   buffer  : SUBSET Events,      \* events recorded so far
   answer  : Answers,
   faulted : BOOLEAN]            \* history: a remote call of it failed

Blank == [pc |-> "idle", email |-> NoOne, taken |-> FALSE, buffer |-> {},
          answer |-> 0, faulted |-> FALSE]

Init ==
  /\ users = [e \in Emails |-> NoOne]
  /\ claim = [e \in Emails |-> NoOne]
  /\ req = [r \in Reqs |-> Blank]
  /\ audit = {}

(* A claimed address has no account, and a request past its INSERT holds   *)
(* the claim of its address until it commits or rolls back.                *)
TypeOK ==
  /\ users \in [Emails -> Reqs \cup {NoOne}]
  /\ claim \in [Emails -> Reqs \cup {NoOne}]
  /\ req \in [Reqs -> Request]
  /\ audit \subseteq Row
  /\ \A r \in Reqs : req[r].pc \in Running => req[r].email \in Emails
  /\ \A r \in Reqs : req[r].pc \in {"refresh", "commit"} => claim[req[r].email] = r
  /\ \A e \in Emails : claim[e] # NoOne => /\ users[e] = NoOne
                                         /\ req[claim[e]].email = e
                                         /\ req[claim[e]].pc # "idle"

-----------------------------------------------------------------------------
(* The handler                                                             *)

At(r, pc) == req[r].pc = pc

Email(r) == req[r].email

Goto(r, pc) == req' = [req EXCEPT ![r].pc = pc]

Fault(r, pc) == req' = [req EXCEPT ![r].pc = pc, ![r].faulted = TRUE]

Release(r) == claim' = [claim EXCEPT ![Email(r)] = IF @ = r THEN NoOne ELSE @]

Start(r, e) ==
  /\ At(r, "idle")
  /\ req' = [req EXCEPT ![r].pc = "select", ![r].email = e]
  /\ UNCHANGED <<users, claim, audit>>

(* Mutant: the existence check sees uncommitted rows.                      *)
Exists_Dirty(e) == users[e] # NoOne \/ claim[e] # NoOne

Exists(e) == users[e] # NoOne

(* select(User).where(email): record and raise, or go on to the INSERT.    *)
Select(r) ==
  /\ At(r, "select")
  /\ req' = IF Exists(Email(r))
            THEN [req EXCEPT ![r].pc = "rollback", ![r].taken = TRUE,
                             ![r].buffer = @ \cup {"taken"}]
            ELSE [req EXCEPT ![r].pc = "insert"]
  /\ UNCHANGED <<users, claim, audit>>

(* Mutant: no unique constraint on users.email.                            *)
Insert_Unconstrained(r) ==
  /\ At(r, "insert")
  /\ claim' = [claim EXCEPT ![Email(r)] = r]
  /\ Goto(r, "refresh")
  /\ UNCHANGED <<users, audit>>

(* Mutant: a conflict is tried again until the address is free.            *)
Insert_Again(r) ==
  /\ At(r, "insert")
  /\ claim[Email(r)] = NoOne /\ users[Email(r)] = NoOne
  /\ claim' = [claim EXCEPT ![Email(r)] = r]
  /\ Goto(r, "refresh")
  /\ UNCHANGED <<users, audit>>

(* db.flush: the INSERT waits for the transaction that inserted the same   *)
(* address.  If that one committed, or an earlier one did, the constraint  *)
(* raises, and nothing up to the transaction's exit catches it.            *)
Insert(r) ==
  /\ At(r, "insert")
  /\ claim[Email(r)] = NoOne
  /\ \/ /\ users[Email(r)] # NoOne
        /\ Goto(r, "rollback")
        /\ UNCHANGED claim
     \/ /\ users[Email(r)] = NoOne
        /\ claim' = [claim EXCEPT ![Email(r)] = r]
        /\ Goto(r, "refresh")
  /\ UNCHANGED <<users, audit>>

(* db.refresh: the row is the transaction's own.                           *)
Refresh(r) ==
  /\ At(r, "refresh")
  /\ Goto(r, "commit")
  /\ UNCHANGED <<users, claim, audit>>

(* Mutant: the answer is recorded and given before the commit.             *)
Commit_Late(r) ==
  /\ At(r, "commit")
  /\ \/ users' = [users EXCEPT ![Email(r)] = r]
     \/ UNCHANGED users
  /\ Release(r)
  /\ req' = [req EXCEPT ![r].pc = "answer", ![r].buffer = @ \cup {"created"}]
  /\ UNCHANGED audit

(* COMMIT at the end of the with block, then the ok event.  The answer of  *)
(* a COMMIT that took effect may be lost: the handler sees an error.       *)
Commit(r) ==
  /\ At(r, "commit")
  /\ users' = [users EXCEPT ![Email(r)] = r]
  /\ Release(r)
  /\ \/ req' = [req EXCEPT ![r].pc = "answer", ![r].buffer = @ \cup {"created"}]
     \/ Fault(r, "rollback")
  /\ UNCHANGED audit

(* The exit of the with block on an exception.  email_taken goes on to the *)
(* AppError handler, which answers inside the middlewares.  Anything else, *)
(* and a ROLLBACK that fails, leaves RequestContextMiddleware before it    *)
(* attaches the flush: unhandled_error_handler answers 500 outside of it,  *)
(* records into no buffer, and what was buffered is dropped.               *)
Unhandled(r) ==
  req' = [req EXCEPT ![r] = [@ EXCEPT !.pc = "done", !.buffer = {}, !.answer = 500]]

UnhandledFault(r) ==
  req' = [req EXCEPT ![r] = [@ EXCEPT !.pc = "done", !.buffer = {}, !.answer = 500,
                                      !.faulted = TRUE]]

Rollback(r) ==
  /\ At(r, "rollback")
  /\ \/ /\ req[r].taken
        /\ Release(r)
        /\ req' = [req EXCEPT ![r].pc = "answer", ![r].buffer = @ \cup {"app_error"}]
     \/ /\ ~ req[r].taken
        /\ Release(r)
        /\ Unhandled(r)
     \/ /\ UNCHANGED claim
        /\ UnhandledFault(r)
  /\ UNCHANGED <<users, audit>>

(* The response is sent; dispatch has attached the flush to it.            *)
Answer(r) ==
  /\ At(r, "answer")
  /\ req' = [req EXCEPT ![r].pc = "flush",
                        ![r].answer = IF req[r].taken THEN 409 ELSE 201]
  /\ UNCHANGED <<users, claim, audit>>

(* Mutant: an error response gets its http.error row in any case.          *)
Pending_Override(r) ==
  IF req[r].answer >= 400 THEN {"http_error"} ELSE req[r].buffer

(* What flush_audit writes: the buffered events, or one http.error row if  *)
(* nothing was recorded for an error (no answer of this handler gets here).*)
Pending(r) ==
  IF req[r].buffer = {} /\ req[r].answer >= 400 THEN {"http_error"} ELSE req[r].buffer

(* One transaction after the response.  Its failure is logged and ignored. *)
Flush(r) ==
  /\ At(r, "flush")
  /\ \/ /\ audit' = audit \cup {[req |-> r, event |-> v] : v \in Pending(r)}
        /\ req' = [req EXCEPT ![r].pc = "done", ![r].buffer = {}]
     \/ /\ req' = [req EXCEPT ![r].pc = "done", ![r].buffer = {}, ![r].faulted = TRUE]
        /\ UNCHANGED audit
  /\ UNCHANGED <<users, claim>>

-----------------------------------------------------------------------------
(* What the handler does not control                                       *)

(* A statement fails; the with block exits with the error.                 *)
Fail(r) ==
  /\ req[r].pc \in InTx \ {"rollback"}
  /\ Fault(r, "rollback")
  /\ UNCHANGED <<users, claim, audit>>

(* The process dies, or the task is cancelled and the session dropped.     *)
Die(r) ==
  /\ req[r].pc \in Running
  /\ Fault(r, "dead")
  /\ UNCHANGED <<users, claim, audit>>

(* PostgreSQL notices that a connection is gone and aborts its transaction.*)
Reap(e) ==
  /\ claim[e] # NoOne
  /\ ~ req[claim[e]].pc \in InTx
  /\ claim' = [claim EXCEPT ![e] = NoOne]
  /\ UNCHANGED <<users, req, audit>>

-----------------------------------------------------------------------------
Handler(r) ==
  \/ Select(r)
  \/ Insert(r)
  \/ Refresh(r)
  \/ Commit(r)
  \/ Rollback(r)
  \/ Answer(r)
  \/ Flush(r)

Next ==
  \/ \E r \in Reqs, e \in Emails : Start(r, e)
  \/ \E r \in Reqs : Handler(r) \/ Fail(r) \/ Die(r)
  \/ \E e \in Emails : Reap(e)

Spec == Init /\ [][Next]_vars

(* Remote calls end, and PostgreSQL aborts abandoned transactions.         *)
Fairness ==
  /\ \A r \in Reqs : WF_vars(Handler(r))
  /\ \A e \in Emails : WF_vars(Reap(e))

FairSpec == Spec /\ Fairness

-----------------------------------------------------------------------------
(* Safety                                                                  *)

(* What a client is told stays true whatever else is in flight: 201 means  *)
(* that the account of the address is the one this request created, 409    *)
(* that it is a committed account of another request (routes.py:65, 92).   *)
AnswersAreTrue ==
  \A r \in Reqs :
    /\ req[r].answer = 201 => users[Email(r)] = r
    /\ req[r].answer = 409 => users[Email(r)] \notin {r, NoOne}

(* The audit trail never reports what did not happen: a row "ok" belongs   *)
(* to the account of the address, a row "email_taken" to a request that    *)
(* met another committed account, also when the transaction of either was  *)
(* rolled back or its process died.                                        *)
AuditIsTrue ==
  \A w \in audit :
    /\ w.event = "created" => users[Email(w.req)] = w.req
    /\ w.event = "taken" => users[Email(w.req)] \notin {w.req, NoOne}

(* A request that was answered by the handler and whose calls all          *)
(* succeeded leaves exactly the events of its outcome in the trail.        *)
OutcomeIsAudited ==
  \A r \in Reqs : At(r, "done") /\ ~ req[r].faulted /\ req[r].answer # 500 =>
    {w.event : w \in {w \in audit : w.req = r}} =
      IF req[r].answer = 201 THEN {"created"} ELSE {"taken", "app_error"}

(* Liveness: no registration waits for ever, neither for the transaction   *)
(* of another one nor for one whose process died.                          *)
EveryRegistrationEnds ==
  \A r \in Reqs : req[r].pc \in Running ~> req[r].pc \in {"done", "dead"}

-----------------------------------------------------------------------------
(* What the comments of the code say, and the code does not do             *)

(* error_codes.py:86-87: a conflict of addresses is answered with 409.     *)
(* Of two registrations at once the later INSERT raises, and that request  *)
(* is answered with 500 although nothing failed.                           *)
ConflictIs409 ==
  \A r \in Reqs : At(r, "done") /\ ~ req[r].faulted /\ users[Email(r)] # r =>
    req[r].answer = 409

(* audit/middleware.py:33: an error response without explicit events gets  *)
(* an http.error row.  An unhandled exception gets none.                   *)
ErrorsAreAudited ==
  \A r \in Reqs : At(r, "done") /\ ~ req[r].faulted /\ req[r].answer >= 400 =>
    \E w \in audit : w.req = r

=============================================================================
