---------------------------- MODULE AuthSessions ----------------------------
(***************************************************************************)
(* Login, refresh, logout and bearer authentication of the API             *)
(* (modules/authn/service.py, routes.py, deps.py).                         *)
(*                                                                         *)
(* Any number of requests run at once, each an asyncio task in one of the  *)
(* API processes.  Between two awaits a handler runs undisturbed, and      *)
(* Redis executes one command or one Lua script at a time, so every action *)
(* below is one remote call of one request with the code up to the next    *)
(* await.                                                                  *)
(*                                                                         *)
(* The Redis client retries a command that timed out (main.py:39-47), so a *)
(* command may take effect and be sent again: INCR counts twice, a second  *)
(* SET writes the same value, a second run of the Lua script finds nothing.*)
(*                                                                         *)
(* A request mints at most one refresh pair (rid, secret), so the rid that *)
(* request r mints is named r: uuid4 never collides.                       *)
(***************************************************************************)
EXTENDS Naturals

CONSTANTS
  Users,       \* rows of the users table
  Reqs,        \* one handler invocation each
  NoUser,      \* a request that has not learned its user yet
  NoRid,       \* a request that presents no refresh token
  MaxRetries   \* how often the Redis client sends a timed-out command again

ASSUME AuthAssumption ==
  /\ NoUser \notin Users
  /\ NoRid \notin Reqs
  /\ MaxRetries \in Nat

VARIABLES
  tokenver,    \* Redis tokenver:<user>, a missing key read as 0
  refresh,     \* Redis refresh:<rid>, what is left to spend of each pair
  active,      \* users.is_active
  req          \* the local variables of every handler invocation

vars == <<tokenver, refresh, active, req>>

-----------------------------------------------------------------------------
(* State                                                                   *)

Kinds == {"login", "refresh", "logout", "me"}

Minting   == {"check_ver", "check_user", "store"}  \* carries a session on
Guarding  == {"auth_ver", "auth_user", "revoke", "close"}
InFlight  == {"bump", "consume"} \cup Minting \cup Guarding
Answers   == {"ok", "denied", "failed"}
PCs       == {"idle"} \cup InFlight \cup Answers

NoEntry == [user |-> NoUser, ver |-> 0]

Entry == [user : Users, ver : Nat]

Request ==
  [kind    : Kinds \cup {"none"},
   pc      : PCs,
   user    : Users \cup {NoUser},
   ver     : Nat,                   \* token version found in the credential
   rid     : Reqs \cup {NoRid},     \* refresh token in the request body
   genuine : BOOLEAN,               \* its secret is the one that was minted
   tries   : Nat,                   \* timed-out attempts of the current call
   since   : Nat,                   \* history: tokenver when it arrived
   closed  : Nat]                   \* history: version a logout's INCR wrote

(* Requests whose TokenResp was sent: a client holds their access token    *)
(* (user, ver) and the refresh token with their rid.                       *)
Delivered == {x \in Reqs : req[x].pc = "ok" /\ req[x].kind \in {"login", "refresh"}}

(* Every handler past its first lookup knows whose credential it holds.    *)
TypeOK ==
  /\ tokenver \in [Users -> Nat]
  /\ refresh \in [Reqs -> Entry \cup {NoEntry}]
  /\ active \in [Users -> BOOLEAN]
  /\ req \in [Reqs -> Request]
  /\ \A r \in Reqs : /\ req[r].pc \in InFlight \ {"consume"} => req[r].user \in Users
                     /\ req[r].pc = "consume" => req[r].rid \in Reqs
                     /\ r \in Delivered => req[r].user \in Users

Blank == [kind |-> "none", pc |-> "idle", user |-> NoUser, ver |-> 0,
          rid |-> NoRid, genuine |-> FALSE, tries |-> 0, since |-> 0,
          closed |-> 0]

Init ==
  /\ tokenver = [u \in Users |-> 0]
  /\ refresh = [x \in Reqs |-> NoEntry]
  /\ active \in [Users -> BOOLEAN]
  /\ req = [r \in Reqs |-> Blank]

-----------------------------------------------------------------------------
(* Handler steps                                                           *)

At(r, pc) == req[r].pc = pc

Goto(r, pc) == req' = [req EXCEPT ![r].pc = pc, ![r].tries = 0]

(* Mutant: attempts are not counted.                                       *)
TimedOut_Forever(r) == UNCHANGED req

(* The command took effect and its answer never came: the client sends it  *)
(* again, and gives up with an error after MaxRetries times.               *)
TimedOut(r) ==
  \/ /\ req[r].tries < MaxRetries
     /\ req' = [req EXCEPT ![r].tries = @ + 1]
  \/ /\ req[r].tries >= MaxRetries
     /\ Goto(r, "failed")

(* login: the account is looked up and the password verified before any    *)
(* Redis call.                                                             *)
LoginStart(r, u) ==
  /\ At(r, "idle")
  /\ active[u]
  /\ req' = [req EXCEPT ![r].kind = "login", ![r].pc = "bump", ![r].user = u,
                        ![r].since = tokenver[u]]
  /\ UNCHANGED <<tokenver, refresh, active>>

(* Unknown address, disabled account, wrong password; a bearer token that  *)
(* is missing, malformed or expired; a refresh token that does not parse.  *)
Reject(r, kind) ==
  /\ At(r, "idle")
  /\ req' = [req EXCEPT ![r].kind = kind, ![r].pc = "denied"]
  /\ UNCHANGED <<tokenver, refresh, active>>

Incr(u) == tokenver' = [tokenver EXCEPT ![u] = @ + 1]

(* Mutant: the version is read and written back by two commands, and only  *)
(* the read reaches Redis.                                                 *)
LoginBump_ReadOnly(r) ==
  /\ At(r, "bump")
  /\ req' = [req EXCEPT ![r].pc = "store", ![r].ver = tokenver[req[r].user] + 1]
  /\ UNCHANGED <<tokenver, refresh, active>>

(* bump_tokenver on login; create_access_token and mint_refresh_token      *)
(* follow without an await.                                                *)
LoginBump(r) ==
  /\ At(r, "bump")
  /\ Incr(req[r].user)
  /\ \/ req' = [req EXCEPT ![r].pc = "store", ![r].tries = 0,
                           ![r].ver = tokenver[req[r].user] + 1]
     \/ TimedOut(r)
  /\ UNCHANGED <<refresh, active>>

(* store_refresh, then the answer: the last await of login and of refresh. *)
Store(r) ==
  /\ At(r, "store")
  /\ refresh' = [refresh EXCEPT ![r] = [user |-> req[r].user, ver |-> req[r].ver]]
  /\ \/ Goto(r, "ok")
     \/ TimedOut(r)
  /\ UNCHANGED <<tokenver, active>>

(* A client presents the rid of a token it was given, with its secret or   *)
(* with a wrong one.                                                       *)
RefreshStart(r, x, genuine) ==
  /\ At(r, "idle")
  /\ x \in Delivered
  /\ req' = [req EXCEPT ![r].kind = "refresh", ![r].pc = "consume", ![r].rid = x,
                        ![r].genuine = genuine,
                        ![r].since = tokenver[req[x].user]]
  /\ UNCHANGED <<tokenver, refresh, active>>

(* Mutant: GET and compare without DEL.                                    *)
RefreshConsume_Keep(r) ==
  /\ At(r, "consume")
  /\ refresh[req[r].rid] # NoEntry
  /\ req' = [req EXCEPT ![r].pc = "check_ver", ![r].user = refresh[req[r].rid].user,
                        ![r].ver = refresh[req[r].rid].ver]
  /\ UNCHANGED <<tokenver, refresh, active>>

(* Mutant: the script does not test for a missing key.                     *)
RefreshConsume_NoNil(r) ==
  /\ At(r, "consume")
  /\ refresh' = [refresh EXCEPT ![req[r].rid] = NoEntry]
  /\ req' = [req EXCEPT ![r].pc = "check_ver", ![r].user = refresh[req[r].rid].user,
                        ![r].ver = refresh[req[r].rid].ver]
  /\ UNCHANGED <<tokenver, active>>

(* The Lua script: GET, compare the hash, DEL.  nil means not found or     *)
(* mismatch, and also an entry that a timed-out attempt already deleted.   *)
Spendable(r) == refresh[req[r].rid] # NoEntry /\ req[r].genuine

RefreshConsume(r) ==
  /\ At(r, "consume")
  /\ \/ /\ Spendable(r)
        /\ refresh' = [refresh EXCEPT ![req[r].rid] = NoEntry]
        /\ \/ req' = [req EXCEPT ![r].pc = "check_ver", ![r].tries = 0,
                                 ![r].user = refresh[req[r].rid].user,
                                 ![r].ver = refresh[req[r].rid].ver]
           \/ TimedOut(r)
     \/ /\ ~ Spendable(r)
        /\ Goto(r, "denied")
        /\ UNCHANGED refresh
  /\ UNCHANGED <<tokenver, active>>

VersionCurrent(r) == req[r].ver = tokenver[req[r].user]

(* Mutant: the version comparison is left out.                             *)
RefreshCheckVer_Skip(r) ==
  /\ At(r, "check_ver")
  /\ Goto(r, "check_user")
  /\ UNCHANGED <<tokenver, refresh, active>>

(* Mutant: the new pair gets the version in force instead of its own.      *)
RefreshCheckVer_Adopt(r) ==
  /\ At(r, "check_ver")
  /\ req' = [req EXCEPT ![r].pc = "check_user", ![r].ver = tokenver[req[r].user]]
  /\ UNCHANGED <<tokenver, refresh, active>>

RefreshCheckVer(r) ==
  /\ At(r, "check_ver")
  /\ Goto(r, IF VersionCurrent(r) THEN "check_user" ELSE "denied")
  /\ UNCHANGED <<tokenver, refresh, active>>

(* The user row is read; the new pair is minted without an await.          *)
RefreshCheckUser(r) ==
  /\ At(r, "check_user")
  /\ Goto(r, IF active[req[r].user] THEN "store" ELSE "denied")
  /\ UNCHANGED <<tokenver, refresh, active>>

(* logout and me: get_current_user has decoded the access token of x.  The *)
(* refresh token in a logout's body need not belong to that session.       *)
GuardedStart(r, kind, x, rid) ==
  /\ At(r, "idle")
  /\ x \in Delivered
  /\ req' = [req EXCEPT ![r].kind = kind, ![r].pc = "auth_ver",
                        ![r].user = req[x].user, ![r].ver = req[x].ver,
                        ![r].rid = rid, ![r].since = tokenver[req[x].user]]
  /\ UNCHANGED <<tokenver, refresh, active>>

LogoutStart(r, x, rid) ==
  rid \in Delivered \cup {NoRid} /\ GuardedStart(r, "logout", x, rid)

MeStart(r, x) == GuardedStart(r, "me", x, NoRid)

AuthVer(r) ==
  /\ At(r, "auth_ver")
  /\ Goto(r, IF VersionCurrent(r) THEN "auth_user" ELSE "denied")
  /\ UNCHANGED <<tokenver, refresh, active>>

AuthUser(r) ==
  /\ At(r, "auth_user")
  /\ Goto(r, IF ~ active[req[r].user] THEN "denied"
             ELSE IF req[r].kind = "logout" THEN "revoke" ELSE "ok")
  /\ UNCHANGED <<tokenver, refresh, active>>

(* revoke_refresh; a body that does not parse and a Redis error are both   *)
(* swallowed, whether or not the DEL was executed.                         *)
Revoke(r) ==
  /\ At(r, "revoke")
  /\ Goto(r, "close")
  /\ \/ /\ req[r].rid # NoRid
        /\ refresh' = [refresh EXCEPT ![req[r].rid] = NoEntry]
     \/ UNCHANGED refresh
  /\ UNCHANGED <<tokenver, active>>

(* Mutant: a logout reads the version and does not raise it.               *)
LogoutBump_ReadOnly(r) ==
  /\ At(r, "close")
  /\ req' = [req EXCEPT ![r].pc = "ok", ![r].closed = tokenver[req[r].user]]
  /\ UNCHANGED <<tokenver, refresh, active>>

LogoutBump(r) ==
  /\ At(r, "close")
  /\ Incr(req[r].user)
  /\ \/ req' = [req EXCEPT ![r].pc = "ok", ![r].tries = 0,
                           ![r].closed = tokenver[req[r].user] + 1]
     \/ TimedOut(r)
  /\ UNCHANGED <<refresh, active>>

-----------------------------------------------------------------------------
(* What the handlers do not control                                        *)

(* A Redis or database error ends the request with a 500, a crash of the   *)
(* process or a gone client ends it with nothing.                          *)
Fail(r) ==
  /\ req[r].pc \in InFlight
  /\ Goto(r, "failed")
  /\ UNCHANGED <<tokenver, refresh, active>>

(* Mutant: store_refresh sets no TTL.                                      *)
Expire_Never(x) == FALSE /\ UNCHANGED vars /\ x \in Reqs

(* The TTL of a refresh key runs out.                                      *)
Expire(x) ==
  /\ refresh[x] # NoEntry
  /\ refresh' = [refresh EXCEPT ![x] = NoEntry]
  /\ UNCHANGED <<tokenver, active, req>>

(* Nothing in the application writes is_active: an operator does.          *)
SetActive(u) ==
  /\ active' = [active EXCEPT ![u] = ~ @]
  /\ UNCHANGED <<tokenver, refresh, req>>

-----------------------------------------------------------------------------
Handler(r) ==
  \/ LoginBump(r)
  \/ Store(r)
  \/ RefreshConsume(r)
  \/ RefreshCheckVer(r)
  \/ RefreshCheckUser(r)
  \/ AuthVer(r)
  \/ AuthUser(r)
  \/ Revoke(r)
  \/ LogoutBump(r)

Next ==
  \/ \E r \in Reqs, u \in Users : LoginStart(r, u)
  \/ \E r \in Reqs, kind \in Kinds : Reject(r, kind)
  \/ \E r \in Reqs, x \in Reqs, genuine \in BOOLEAN : RefreshStart(r, x, genuine)
  \/ \E r \in Reqs, x \in Reqs, rid \in Reqs \cup {NoRid} : LogoutStart(r, x, rid)
  \/ \E r \in Reqs, x \in Reqs : MeStart(r, x)
  \/ \E r \in Reqs : Handler(r)
  \/ \E r \in Reqs : Fail(r)
  \/ \E x \in Reqs : Expire(x)
  \/ \E u \in Users : SetActive(u)

Spec == Init /\ [][Next]_vars

(* A handler that can go on does, and a refresh key has a TTL: clients     *)
(* need not send anything and nothing need fail.                           *)
Fairness ==
  /\ \A r \in Reqs : WF_vars(Handler(r))
  /\ \A x \in Reqs : WF_vars(Expire(x))

FairSpec == Spec /\ Fairness

-----------------------------------------------------------------------------
(* Safety                                                                  *)

HasEntry(x) == refresh[x] # NoEntry

CarriesSession(r) == req[r].pc \in Minting

SameSession(a, b) == a.user = b.user /\ a.ver = b.ver

(* A login starts one chain of refresh tokens: of everything stored in     *)
(* Redis and everything a handler carries between consuming a pair and     *)
(* storing its successor, only one item belongs to a given login, save the *)
(* pair a handler is still storing.  Retried commands, concurrent logins   *)
(* and abandoned requests must not fork a session.                         *)
SingleChain ==
  \A x, y \in Reqs :
    /\ HasEntry(x) /\ HasEntry(y) /\ refresh[x] = refresh[y] => x = y
    /\ CarriesSession(x) /\ CarriesSession(y) /\ SameSession(req[x], req[y]) => x = y
    /\ HasEntry(x) /\ CarriesSession(y) /\ SameSession(refresh[x], req[y]) =>
         x = y /\ At(y, "store")

(* verify_and_consume_refresh: "one-time use" (routes.py:163).  No two     *)
(* refresh requests ever spend the same rid, also when the second one      *)
(* arrives while the first is still checking versions, or much later.      *)
Spent(r) == req[r].kind = "refresh" /\ req[r].user # NoUser

NoReplay ==
  \A r, s \in Reqs : Spent(r) /\ Spent(s) /\ req[r].rid = req[s].rid => r = s

(* A refresh, logout or me request that got past its version check bears a *)
(* version at least as new as the one in force when it arrived: a token    *)
(* that a completed login or logout put out of force is never accepted     *)
(* afterwards, whatever runs in between (routes.py:114, 170-178, 233).     *)
PastCheck(r) ==
  \/ req[r].pc \in {"check_user", "auth_user", "revoke", "close"}
  \/ req[r].pc \in {"store", "ok"} /\ req[r].kind # "login"

StaleNeverAccepted == \A r \in Reqs : PastCheck(r) => req[r].ver >= req[r].since

(* The version a logout's INCR wrote is nobody's: no stored pair and no    *)
(* request, whatever it was doing when the user logged out, carries it, so *)
(* until the next login nothing the user holds is accepted.                *)
LogoutEndsSession ==
  \A s \in Reqs : req[s].closed > 0 =>
    /\ \A r \in Reqs : ~ (req[r].user = req[s].user /\ req[r].ver = req[s].closed)
    /\ \A x \in Reqs : ~ (/\ refresh[x].user = req[s].user
                           /\ refresh[x].ver = req[s].closed)

-----------------------------------------------------------------------------
(* What the handlers implement: one credential per user and login.         *)

Current(u) == [user |-> u, ver |-> tokenver[u]]

Credential(u) ==
  IF \E x \in Reqs : HasEntry(x) /\ refresh[x] = Current(u) THEN "stored"
  ELSE IF \E r \in Reqs : CarriesSession(r) /\ SameSession(req[r], Current(u))
       THEN "minting"
       ELSE "gone"

Abstract == INSTANCE SingleSession WITH
  epoch <- tokenver,
  cred <- [u \in Users |-> Credential(u)]

(* Every step of every handler moves the credential of at most one user as *)
(* SingleSession allows: once gone it does not come back before a login.   *)
ImplementsSingleSession == Abstract!Spec

-----------------------------------------------------------------------------
(* Liveness                                                                *)

(* Every request that entered a handler is answered: timed-out commands    *)
(* are not retried for ever and no handler waits for another.              *)
EveryRequestAnswered ==
  \A r \in Reqs : req[r].pc \in InFlight ~> req[r].pc \in Answers

(* After a logout, pairs of the closed session that a refresh in flight    *)
(* stored behind its back disappear for good: nothing else deletes them,   *)
(* only the TTL of service.py:111.                                         *)
OutdatedPairs(s) ==
  {x \in Reqs : refresh[x].user = req[s].user /\ refresh[x].ver < req[s].closed}

ClosedSessionsVanish ==
  \A s \in Reqs : req[s].closed > 0 ~> [](OutdatedPairs(s) = {})

=============================================================================
