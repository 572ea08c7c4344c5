----------------------------- MODULE RateLimit -----------------------------
(***************************************************************************)
(* The fixed-window limit of the login, refresh and register endpoints     *)
(* (api/middleware/rate_limit.py), for one endpoint and one client address.*)
(*                                                                         *)
(* Each window has a Redis counter of its own.  A request computes the key *)
(* from the clock, then sends INCR; the one that reads 1 sends EXPIRE, and *)
(* DEL if EXPIRE fails.  Between two commands anything may happen: other   *)
(* requests count, the window ends, the key expires.  As in AuthSessions a *)
(* command whose answer timed out took effect and is sent again.           *)
(***************************************************************************)
EXTENDS Naturals, FiniteSets

CONSTANTS
  Reqs,        \* requests to the endpoint from the address
  Limit,       \* spec.limit
  MaxRetries,  \* how often the Redis client sends a timed-out command again
  LastWindow   \* bound: the last window that begins

ASSUME RateAssumption ==
  /\ Limit \in Nat
  /\ MaxRetries \in Nat
  /\ LastWindow \in Nat

Windows == 0 .. LastWindow

VARIABLES
  window,  \* now // window_seconds
  count,   \* Redis rl:<name>:<ip>:<bucket>, 0 when there is no such key
  ttl,     \* whether that key has a TTL
  life,    \* history: how often the key disappeared
  req      \* the local variables of every rate_limit_ip call

vars == <<window, count, ttl, life, req>>

-----------------------------------------------------------------------------
(* State                                                                   *)

Waiting == {"incr", "expire", "delete"}
PCs     == {"idle", "admitted", "refused", "failed"} \cup Waiting

Request ==
  [pc      : PCs,
   bucket  : Windows,
   n       : Nat,       \* what INCR answered
   tries   : Nat,       \* timed-out attempts of the current command
   life    : Nat,       \* history: the life of the key that answered
   hits    : Nat,       \* history: INCRs executed for this request
   faulted : BOOLEAN]   \* history: its EXPIRE raised a RedisError

Blank == [pc |-> "idle", bucket |-> 0, n |-> 0, tries |-> 0, life |-> 0,
          hits |-> 0, faulted |-> FALSE]

Init ==
  /\ window = 0
  /\ count = [b \in Windows |-> 0]
  /\ ttl = [b \in Windows |-> FALSE]
  /\ life = [b \in Windows |-> 0]
  /\ req = [r \in Reqs |-> Blank]

(* A TTL is only ever on an existing key, and a request in a window that   *)
(* has begun.                                                              *)
TypeOK ==
  /\ window \in Windows
  /\ count \in [Windows -> Nat]
  /\ ttl \in [Windows -> BOOLEAN]
  /\ life \in [Windows -> Nat]
  /\ req \in [Reqs -> Request]
  /\ \A b \in Windows : ttl[b] => count[b] > 0
  /\ \A r \in Reqs : req[r].bucket <= window

-----------------------------------------------------------------------------
(* The dependency                                                          *)

At(r, pc) == req[r].pc = pc

Bucket(r) == req[r].bucket

Goto(r, pc) == req' = [req EXCEPT ![r].pc = pc, ![r].tries = 0]

SendAgain(r) ==
  /\ req[r].tries < MaxRetries
  /\ req' = [req EXCEPT ![r].tries = @ + 1]

(* Mutant: the request that fills the window is already refused.           *)
Verdict_Early(n) == IF n >= Limit THEN "refused" ELSE "admitted"

Verdict(n) == IF n > Limit THEN "refused" ELSE "admitted"

(* Mutant: the bucket is rounded up.                                       *)
Arrive_RoundUp(r) ==
  /\ At(r, "idle")
  /\ req' = [req EXCEPT ![r].pc = "incr", ![r].bucket = window + 1]
  /\ UNCHANGED <<window, count, ttl, life>>

(* The key is computed from the clock before the first command is sent.    *)
Arrive(r) ==
  /\ At(r, "idle")
  /\ req' = [req EXCEPT ![r].pc = "incr", ![r].bucket = window]
  /\ UNCHANGED <<window, count, ttl, life>>

(* Mutant: the request that reads 0 should set the TTL; none does.         *)
Counted_FromZero(r, n) ==
  req' = [req EXCEPT ![r].pc = IF n = 0 THEN "expire" ELSE Verdict(n),
                     ![r].n = n, ![r].tries = 0, ![r].hits = @ + 1,
                     ![r].life = life[Bucket(r)]]

(* INCR answered n.                                                        *)
Counted(r, n) ==
  req' = [req EXCEPT ![r].pc = IF n = 1 THEN "expire" ELSE Verdict(n),
                     ![r].n = n, ![r].tries = 0, ![r].hits = @ + 1,
                     ![r].life = life[Bucket(r)]]

(* INCR took effect and its answer was lost: the client sends it again, or *)
(* gives up with an error.                                                 *)
Uncounted(r) ==
  \/ /\ req[r].tries < MaxRetries
     /\ req' = [req EXCEPT ![r].tries = @ + 1, ![r].hits = @ + 1]
  \/ req' = [req EXCEPT ![r].pc = "failed", ![r].tries = 0, ![r].hits = @ + 1]

(* Mutant: GET and SET instead of INCR, with another request in between.   *)
Incr_Lost(r) ==
  /\ At(r, "incr")
  /\ \E n \in {count[Bucket(r)], count[Bucket(r)] + 1} :
       /\ n > 0
       /\ count' = [count EXCEPT ![Bucket(r)] = n]
       /\ Counted(r, n)
  /\ UNCHANGED <<window, ttl, life>>

Incr(r) ==
  /\ At(r, "incr")
  /\ count' = [count EXCEPT ![Bucket(r)] = @ + 1]
  /\ Counted(r, count[Bucket(r)] + 1) \/ Uncounted(r)
  /\ UNCHANGED <<window, ttl, life>>

(* EXPIRE by the request that read 1; it does nothing if the key is gone.  *)
(* A RedisError, whether or not the command took effect, leads to the DEL. *)
Expire(r) ==
  LET Set == ttl' = [ttl EXCEPT ![Bucket(r)] = count[Bucket(r)] > 0]
      Raised == req' = [req EXCEPT ![r].pc = "delete", ![r].tries = 0,
                                   ![r].faulted = TRUE]
  IN /\ At(r, "expire")
     /\ \/ Set /\ Goto(r, Verdict(req[r].n))
        \/ Set /\ SendAgain(r)
        \/ Set /\ Raised
        \/ UNCHANGED ttl /\ Raised
     /\ UNCHANGED <<window, count, life>>

(* The key is gone, and with it everything counted so far.                 *)
Gone(b) ==
  /\ count' = [count EXCEPT ![b] = 0]
  /\ ttl' = [ttl EXCEPT ![b] = FALSE]
  /\ life' = [life EXCEPT ![b] = @ + 1]

(* Mutant: the failure of EXPIRE is swallowed.                             *)
Delete_Skip(r) ==
  /\ At(r, "delete")
  /\ Goto(r, Verdict(req[r].n))
  /\ UNCHANGED <<window, count, ttl, life>>

(* The fallback DEL.  Its requester is judged by the value it read before. *)
Delete(r) ==
  /\ At(r, "delete")
  /\ Gone(Bucket(r))
  /\ \/ Goto(r, Verdict(req[r].n))
     \/ SendAgain(r)
     \/ Goto(r, "failed")
  /\ UNCHANGED window

(* A command that fails without effect, a crash or a gone client.  EXPIRE  *)
(* has its own error path.                                                 *)
Fail(r) ==
  /\ req[r].pc \in Waiting
  /\ Goto(r, "failed")
  /\ UNCHANGED <<window, count, ttl, life>>

-----------------------------------------------------------------------------
(* Time                                                                    *)

Tick ==
  /\ window < LastWindow
  /\ window' = window + 1
  /\ UNCHANGED <<count, ttl, life, req>>

(* Mutant: the TTL is shorter than the window.                             *)
ExpireKey_Short(b) ==
  /\ ttl[b]
  /\ Gone(b)
  /\ UNCHANGED <<window, req>>

(* EXPIRE was sent no earlier than the start of window b, with a TTL as    *)
(* long as the window.                                                     *)
ExpireKey(b) ==
  /\ ttl[b]
  /\ window > b
  /\ Gone(b)
  /\ UNCHANGED <<window, req>>

-----------------------------------------------------------------------------
Handler(r) == Incr(r) \/ Expire(r) \/ Delete(r)

Next ==
  \/ \E r \in Reqs : Arrive(r) \/ Handler(r) \/ Fail(r)
  \/ \E b \in Windows : ExpireKey(b)
  \/ Tick

Spec == Init /\ [][Next]_vars

(* Remote calls end, Redis removes keys whose TTL ran out, time goes on.   *)
Fairness ==
  /\ \A r \in Reqs : WF_vars(Handler(r))
  /\ \A b \in Windows : WF_vars(ExpireKey(b))
  /\ WF_vars(Tick)

FairSpec == Spec /\ Fairness

-----------------------------------------------------------------------------
(* Safety                                                                  *)

Admitted(b) == {r \in Reqs : At(r, "admitted") /\ Bucket(r) = b}

(* At most Limit requests are admitted by each life of a counter, however  *)
(* INCR, EXPIRE, the fallback DEL, expiry and resent commands interleave.  *)
LimitPerLife ==
  \A b \in Windows : \A l \in 0 .. life[b] :
    Cardinality({r \in Admitted(b) : req[r].life = l}) <= Limit

(* While a window lasts and no EXPIRE of it failed, at most Limit of its   *)
(* requests have been admitted: only the fallback DEL (rate_limit.py:63)   *)
(* lets a window start over, and neither stragglers of an earlier window   *)
(* nor crashes and resent commands do.                                     *)
LimitPerWindow ==
  \A b \in Windows :
    window = b /\ (\A r \in Reqs : Bucket(r) = b => ~ req[r].faulted) =>
      Cardinality(Admitted(b)) <= Limit

(* The INCRs executed for window b, each one <<request, how many-th>>.     *)
Hits(b) ==
  UNION {{<<r, k>> : k \in 1 .. req[r].hits} : r \in {q \in Reqs : Bucket(q) = b}}

(* A request is refused only after more than Limit INCRs for its own       *)
(* window: those of other requests of that window and those its Redis      *)
(* client sent again, never what another window left behind.               *)
NoEarlyRefusal ==
  \A r \in Reqs : At(r, "refused") => Limit < Cardinality(Hits(Bucket(r)))

(* The request read no value of its INCR, or gave up afterwards: what it   *)
(* counted may be the 1 that somebody should have answered with EXPIRE.    *)
Lost(r) ==
  \/ req[r].hits > 1
  \/ req[r].hits = 1 /\ req[r].pc \in {"incr", "failed"}

(* A counter without TTL has a request on its way to set one or to delete  *)
(* the counter, unless a request of that window crashed, failed or counted *)
(* twice: no other order of commands leaves a counter in Redis for ever.   *)
CounterHasTTL ==
  \A b \in Windows : count[b] > 0 /\ ~ ttl[b] =>
    \E r \in Reqs :
      /\ Bucket(r) = b
      /\ \/ req[r].pc \in {"expire", "delete"} /\ req[r].life = life[b]
         \/ Lost(r)

(* Liveness: the counter of a window that ends is removed, unless a        *)
(* request of the window was lost between its INCR and its EXPIRE.         *)
CountersVanish ==
  \A b \in Windows \ {LastWindow} :
    count[b] > 0 ~> \/ count[b] = 0
                    \/ \E r \in Reqs : Bucket(r) = b /\ Lost(r)

=============================================================================
