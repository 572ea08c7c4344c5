------------------------- MODULE AuthSessionsProofs -------------------------
(***************************************************************************)
(* TLAPS proofs about AuthSessions: its safety properties hold for any     *)
(* number of users, concurrent requests and Redis retries.                 *)
(*                                                                         *)
(* The inductive invariant has three layers, each proved from the ones     *)
(* below: TypeOK with the control flow of the handlers (Shape), where the  *)
(* data of a request comes from (Provenance), and the properties proper.   *)
(***************************************************************************)
EXTENDS AuthSessions, TLAPS

-----------------------------------------------------------------------------
(* Layer 1: which kind of request is at which step.                        *)

Shape ==
  \A r \in Reqs :
    /\ At(r, "idle") => req[r] = Blank
    /\ At(r, "bump") => req[r].kind = "login"
    /\ req[r].pc \in {"consume", "check_ver", "check_user"} => req[r].kind = "refresh"
    /\ At(r, "store") => req[r].kind \in {"login", "refresh"}
    /\ req[r].pc \in {"auth_ver", "auth_user"} => req[r].kind \in {"logout", "me"}
    /\ req[r].pc \in {"revoke", "close"} => req[r].kind = "logout"
    /\ req[r].kind = "refresh" /\ req[r].user # NoUser => req[r].rid \in Reqs
    /\ req[r].closed > 0 => req[r].user \in Users /\ req[r].kind = "logout"

Inv1 == TypeOK /\ Shape

(* Layer 2: versions never exceed the counter they were read from, a       *)
(* stored pair describes the request that minted it, and a refresh works   *)
(* on a delivered pair of its own user, which is gone once it was spent.   *)
Versions ==
  \A r \in Reqs : req[r].user # NoUser =>
    /\ req[r].ver <= tokenver[req[r].user]
    /\ req[r].closed <= tokenver[req[r].user]
    /\ req[r].kind \in {"logout", "me"} => req[r].since <= tokenver[req[r].user]

EntriesOfMinter ==
  \A x \in Reqs : HasEntry(x) =>
    /\ req[x].pc \in {"store", "ok", "failed"}
    /\ refresh[x].user = req[x].user
    /\ refresh[x].ver = req[x].ver

Presented ==
  \A r \in Reqs : req[r].kind = "refresh" /\ req[r].rid \in Reqs =>
    /\ req[r].rid \in Delivered
    /\ req[r].since <= tokenver[req[req[r].rid].user]
    /\ Spent(r) => /\ refresh[req[r].rid] = NoEntry
                   /\ req[r].user = req[req[r].rid].user

Inv2 == Versions /\ EntriesOfMinter /\ Presented

Inv3 == SingleChain /\ NoReplay /\ StaleNeverAccepted /\ LogoutEndsSession

IInv == Inv1 /\ Inv2 /\ Inv3

-----------------------------------------------------------------------------
(* Layer 1 is inductive.                                                   *)

LEMMA InitInv1 == Init => Inv1
  BY AuthAssumption DEF Init, Inv1, TypeOK, Shape, Blank, NoEntry, Entry, Request, Kinds,
     PCs, InFlight, Minting, Guarding, Answers, Delivered, At

(* A handler that only moves on: every field of its record but pc and      *)
(* tries stays, and so does every other request.                           *)
LEMMA GotoMoves ==
  ASSUME req \in [Reqs -> Request], NEW r \in Reqs, NEW pc \in PCs, Goto(r, pc)
  PROVE  /\ req' \in [Reqs -> Request]
         /\ \A x \in Reqs : /\ x # r => req'[x] = req[x]
                            /\ req'[x].kind = req[x].kind
                            /\ req'[x].user = req[x].user
                            /\ req'[x].ver = req[x].ver
                            /\ req'[x].rid = req[x].rid
                            /\ req'[x].since = req[x].since
                            /\ req'[x].closed = req[x].closed
         /\ req'[r].pc = pc
  BY DEF Goto, Request

(* A refresh that spent a pair takes over its user and version.            *)
LEMMA ConsumeFills ==
  ASSUME req \in [Reqs -> Request], NEW r \in Reqs, NEW u \in Users, NEW v \in Nat,
         req' = [req EXCEPT ![r].pc = "check_ver", ![r].tries = 0,
                            ![r].user = u, ![r].ver = v]
  PROVE  /\ req' \in [Reqs -> Request]
         /\ \A y \in Reqs \ {r} : req'[y] = req[y]
         /\ req'[r].pc = "check_ver" /\ req'[r].user = u /\ req'[r].ver = v
         /\ req'[r].kind = req[r].kind /\ req'[r].rid = req[r].rid
         /\ req'[r].since = req[r].since /\ req'[r].closed = req[r].closed
<1>1. [req[r] EXCEPT !.pc = "check_ver", !.tries = 0, !.user = u, !.ver = v] \in Request
  BY DEF Request, PCs, InFlight, Minting
<1>2. req' = [req EXCEPT ![r] = [req[r] EXCEPT !.pc = "check_ver", !.tries = 0,
                                              !.user = u, !.ver = v]]
  BY DEF Request
<1> QED
  BY <1>1, <1>2

LEMMA StepInv1 == Inv1 /\ [Next]_vars => Inv1'
<1> SUFFICES ASSUME Inv1, [Next]_vars
             PROVE  Inv1'
  OBVIOUS
<1> USE AuthAssumption DEF Inv1, TypeOK, Shape, At, Delivered
<1> USE DEF Request, Kinds, PCs, InFlight, Minting, Guarding, Answers
<1>1. ASSUME NEW r \in Reqs, NEW u \in Users, LoginStart(r, u)
      PROVE  Inv1'
  BY <1>1 DEF LoginStart, Blank
<1>2. ASSUME NEW r \in Reqs, NEW kind \in Kinds, Reject(r, kind)
      PROVE  Inv1'
  BY <1>2 DEF Reject, Blank
<1>3. ASSUME NEW r \in Reqs, NEW x \in Reqs, NEW genuine \in BOOLEAN,
             RefreshStart(r, x, genuine)
      PROVE  Inv1'
  BY <1>3 DEF RefreshStart, Blank
<1>4. ASSUME NEW r \in Reqs, NEW x \in Reqs, NEW rid \in Reqs \cup {NoRid},
             NEW kind \in {"logout", "me"}, GuardedStart(r, kind, x, rid)
      PROVE  Inv1'
  <2>1. req[x].user \in Users
    BY <1>4 DEF GuardedStart
  <2>2. req' \in [Reqs -> Request]
    BY <1>4, <2>1 DEF GuardedStart
  <2>3. /\ req'[r].kind = kind /\ req'[r].pc = "auth_ver" /\ req'[r].user = req[x].user
        /\ req'[r].closed = 0
        /\ \A y \in Reqs \ {r} : req'[y] = req[y]
    BY <1>4 DEF GuardedStart, Blank
  <2>4. UNCHANGED <<tokenver, refresh, active>>
    BY <1>4 DEF GuardedStart
  <2>5. TypeOK'
    BY <2>1, <2>2, <2>3, <2>4
  <2>6. Shape'
    BY <2>1, <2>2, <2>3
  <2> QED
    BY <2>5, <2>6
<1>5. ASSUME NEW r \in Reqs, LoginBump(r)
      PROVE  Inv1'
  <2>1. TypeOK'
    BY <1>5, GotoMoves DEF LoginBump, Incr, TimedOut
  <2>2. Shape'
    BY <1>5, GotoMoves DEF LoginBump, Incr, TimedOut
  <2> QED
    BY <2>1, <2>2
<1>6. ASSUME NEW r \in Reqs, Store(r)
      PROVE  Inv1'
  <2>1. refresh' \in [Reqs -> Entry \cup {NoEntry}] /\ At(r, "store")
    BY <1>6 DEF Store, Entry
  <2>2. CASE Goto(r, "ok") \/ Goto(r, "failed")
    BY <1>6, <2>1, <2>2, GotoMoves DEF Store
  <2>3. CASE req' = [req EXCEPT ![r].tries = @ + 1]
    BY <1>6, <2>1, <2>3 DEF Store
  <2> QED
    BY <1>6, <2>2, <2>3 DEF Store, TimedOut
<1>7. ASSUME NEW r \in Reqs, RefreshConsume(r)
      PROVE  Inv1'
  <2>1. /\ refresh' \in [Reqs -> Entry \cup {NoEntry}]
        /\ At(r, "consume")
        /\ UNCHANGED <<tokenver, active>>
    BY <1>7 DEF RefreshConsume
  <2>2. CASE Goto(r, "denied") \/ Goto(r, "failed")
    <3>1. TypeOK'
      BY <2>1, <2>2, GotoMoves
    <3>2. Shape'
      BY <2>1, <2>2, GotoMoves
    <3> QED
      BY <3>1, <3>2
  <2>3. CASE req' = [req EXCEPT ![r].tries = @ + 1]
    BY <2>1, <2>3
  <2>4. CASE /\ Spendable(r)
             /\ req' = [req EXCEPT ![r].pc = "check_ver", ![r].tries = 0,
                                   ![r].user = refresh[req[r].rid].user,
                                   ![r].ver = refresh[req[r].rid].ver]
    <3>1. refresh[req[r].rid] \in Entry /\ req[r].rid \in Reqs
      BY <2>1, <2>4 DEF Spendable
    <3>2. refresh[req[r].rid].user \in Users /\ refresh[req[r].rid].ver \in Nat
      BY <3>1 DEF Entry
    <3>3. /\ req' \in [Reqs -> Request]
          /\ \A y \in Reqs \ {r} : req'[y] = req[y]
          /\ req'[r].pc = "check_ver" /\ req'[r].user \in Users
          /\ req'[r].kind = req[r].kind /\ req'[r].rid = req[r].rid
          /\ req'[r].closed = req[r].closed
      <4> HIDE DEF Request, PCs, Inv1, Shape, Delivered, Kinds, InFlight
      <4>1. req \in [Reqs -> Request]
        BY DEF Inv1
      <4>2. PICK u \in Users, v \in Nat :
              req' = [req EXCEPT ![r].pc = "check_ver", ![r].tries = 0,
                                 ![r].user = u, ![r].ver = v]
        BY <2>4, <3>2
      <4> HIDE DEF TypeOK, At, Minting, Guarding, Answers
      <4> QED
        BY <4>1, <4>2, ConsumeFills
    <3>4. TypeOK'
      BY <2>1, <3>1, <3>3
    <3>5. Shape'
      BY <2>1, <3>1, <3>3
    <3> QED
      BY <3>4, <3>5
  <2> QED
    BY <1>7, <2>2, <2>3, <2>4 DEF RefreshConsume, TimedOut
<1>8. ASSUME NEW r \in Reqs, RefreshCheckVer(r)
      PROVE  Inv1'
  <2>1. Goto(r, "check_user") \/ Goto(r, "denied")
    BY <1>8 DEF RefreshCheckVer
  <2> QED
    BY <1>8, <2>1, GotoMoves DEF RefreshCheckVer
<1>9. ASSUME NEW r \in Reqs, RefreshCheckUser(r)
      PROVE  Inv1'
  <2>1. TypeOK'
    BY <1>9, GotoMoves DEF RefreshCheckUser
  <2>2. Shape'
    BY <1>9, GotoMoves DEF RefreshCheckUser
  <2> QED
    BY <2>1, <2>2
<1>10. ASSUME NEW r \in Reqs, AuthVer(r)
       PROVE  Inv1'
  BY <1>10, GotoMoves DEF AuthVer
<1>11. ASSUME NEW r \in Reqs, AuthUser(r)
       PROVE  Inv1'
  BY <1>11, GotoMoves DEF AuthUser
<1>12. ASSUME NEW r \in Reqs, Revoke(r)
       PROVE  Inv1'
  <2>1. refresh' \in [Reqs -> Entry \cup {NoEntry}]
    BY <1>12 DEF Revoke
  <2>2. Goto(r, "close") /\ At(r, "revoke") /\ UNCHANGED <<tokenver, active>>
    BY <1>12 DEF Revoke
  <2> QED
    BY <2>1, <2>2, GotoMoves
<1>13. ASSUME NEW r \in Reqs, LogoutBump(r)
       PROVE  Inv1'
  <2>1. TypeOK'
    BY <1>13, GotoMoves DEF LogoutBump, Incr, TimedOut
  <2>2. Shape'
    BY <1>13, GotoMoves DEF LogoutBump, Incr, TimedOut
  <2> QED
    BY <2>1, <2>2
<1>14. ASSUME NEW r \in Reqs, Fail(r)
       PROVE  Inv1'
  <2>1. Goto(r, "failed") /\ UNCHANGED <<tokenver, refresh, active>>
    BY <1>14 DEF Fail
  <2>2. TypeOK'
    BY <2>1, GotoMoves
  <2>3. Shape'
    BY <2>1, GotoMoves
  <2> QED
    BY <2>2, <2>3
<1>15. ASSUME NEW x \in Reqs, Expire(x)
       PROVE  Inv1'
  BY <1>15 DEF Expire
<1>16. ASSUME NEW u \in Users, SetActive(u)
       PROVE  Inv1'
  BY <1>16 DEF SetActive
<1>17. CASE UNCHANGED vars
  BY <1>17 DEF vars
<1> HIDE DEF Inv1, TypeOK, Shape, At, Delivered
<1> HIDE DEF Request, Kinds, PCs, InFlight, Minting, Guarding, Answers
<1> QED
  BY <1>1, <1>2, <1>3, <1>4, <1>5, <1>6, <1>7, <1>8, <1>9, <1>10, <1>11, <1>12, <1>13,
     <1>14, <1>15, <1>16, <1>17
  DEF Next, Handler, LogoutStart, MeStart

-----------------------------------------------------------------------------
(* What each step does to the requests, field by field, so that the proofs *)
(* of the next layers need not look into records again.                    *)

(* Request x is the same but for its program counter and its attempts.     *)
Keeps(x) ==
  /\ req'[x].kind = req[x].kind
  /\ req'[x].user = req[x].user
  /\ req'[x].ver = req[x].ver
  /\ req'[x].rid = req[x].rid
  /\ req'[x].since = req[x].since
  /\ req'[x].closed = req[x].closed

Fields ==
  \A x \in Reqs :
    /\ req[x].user \in Users \cup {NoUser}
    /\ req[x].rid \in Reqs \cup {NoRid}
    /\ req[x].ver \in Nat
    /\ req[x].since \in Nat
    /\ req[x].closed \in Nat

Quiet(r) == \A x \in Reqs : Keeps(x) /\ (x # r => req'[x].pc = req[x].pc)

Others(r) == \A x \in Reqs \ {r} : Keeps(x) /\ req'[x].pc = req[x].pc

LEMMA FieldTypes == Inv1 => Fields /\ tokenver \in [Users -> Nat]
  BY DEF Inv1, TypeOK, Fields, Request

LEMMA GotoQuiet ==
  ASSUME Inv1, NEW r \in Reqs, NEW pc \in PCs, Goto(r, pc)
  PROVE  Quiet(r) /\ req'[r].pc = pc
  BY GotoMoves DEF Inv1, TypeOK, Quiet, Keeps

LEMMA TimedOutQuiet ==
  ASSUME Inv1, NEW r \in Reqs, TimedOut(r)
  PROVE  Quiet(r) /\ req'[r].pc \in {req[r].pc, "failed"}
<1>1. CASE req' = [req EXCEPT ![r].tries = @ + 1]
  BY <1>1 DEF Inv1, TypeOK, Request, Quiet, Keeps
<1>2. CASE Goto(r, "failed")
  BY <1>2, GotoQuiet DEF PCs, Answers
<1> QED
  BY <1>1, <1>2 DEF TimedOut

LEMMA LoginStartFields ==
  ASSUME Inv1, NEW r \in Reqs, NEW u \in Users, LoginStart(r, u)
  PROVE  /\ Others(r) /\ At(r, "idle") /\ req[r].user = NoUser
         /\ req'[r].kind = "login" /\ req'[r].pc = "bump" /\ req'[r].user = u
         /\ req'[r].ver = 0 /\ req'[r].rid = NoRid /\ req'[r].closed = 0
  BY DEF Inv1, TypeOK, Shape, At, Blank, Request, LoginStart, Others, Keeps

LEMMA RejectFields ==
  ASSUME Inv1, NEW r \in Reqs, NEW kind \in Kinds, Reject(r, kind)
  PROVE  /\ Others(r) /\ At(r, "idle") /\ req[r].user = NoUser
         /\ req'[r].pc = "denied" /\ req'[r].user = NoUser
         /\ req'[r].ver = 0 /\ req'[r].rid = NoRid /\ req'[r].closed = 0
  BY DEF Inv1, TypeOK, Shape, At, Blank, Request, Reject, Others, Keeps

LEMMA RefreshStartFields ==
  ASSUME Inv1, NEW r \in Reqs, NEW x \in Reqs, NEW genuine \in BOOLEAN,
         RefreshStart(r, x, genuine)
  PROVE  /\ Others(r) /\ At(r, "idle") /\ req[r].user = NoUser /\ x \in Delivered
         /\ req'[r].kind = "refresh" /\ req'[r].pc = "consume"
         /\ req'[r].user = NoUser /\ req'[r].ver = 0 /\ req'[r].rid = x
         /\ req'[r].since = tokenver[req[x].user] /\ req'[r].closed = 0
  BY DEF Inv1, TypeOK, Shape, At, Blank, Request, RefreshStart, Others, Keeps

LEMMA GuardedStartFields ==
  ASSUME Inv1, NEW r \in Reqs, NEW kind, NEW x \in Reqs, NEW rid,
         GuardedStart(r, kind, x, rid)
  PROVE  /\ Others(r) /\ At(r, "idle") /\ req[r].user = NoUser /\ x \in Delivered /\ x # r
         /\ req'[r].kind = kind /\ req'[r].pc = "auth_ver"
         /\ req'[r].user = req[x].user /\ req'[r].ver = req[x].ver
         /\ req'[r].since = tokenver[req[x].user] /\ req'[r].closed = 0
  BY DEF Inv1, TypeOK, Shape, At, Blank, Request, GuardedStart, Others, Keeps, Delivered

LEMMA LoginBumpFields ==
  ASSUME Inv1, NEW r \in Reqs, LoginBump(r)
  PROVE  LET u == req[r].user IN
         /\ At(r, "bump") /\ u \in Users /\ req[r].kind = "login"
         /\ tokenver' = [tokenver EXCEPT ![u] = @ + 1]
         /\ UNCHANGED <<refresh, active>>
         /\ \/ Quiet(r) /\ req'[r].pc \in {"bump", "failed"}
            \/ /\ Others(r) /\ req'[r].pc = "store" /\ req'[r].ver = tokenver[u] + 1
               /\ req'[r].kind = "login" /\ req'[r].user = u /\ req'[r].rid = req[r].rid
               /\ req'[r].since = req[r].since /\ req'[r].closed = req[r].closed
<1>1. CASE TimedOut(r)
  BY <1>1, TimedOutQuiet
  DEF LoginBump, Incr, Inv1, TypeOK, Shape, At, InFlight
<1>2. CASE req' = [req EXCEPT ![r].pc = "store", ![r].tries = 0,
                              ![r].ver = tokenver[req[r].user] + 1]
  BY <1>2
  DEF LoginBump, Incr, Inv1, TypeOK, Shape, At, InFlight, Request, Others, Keeps
<1> QED
  BY <1>1, <1>2 DEF LoginBump

LEMMA LogoutBumpFields ==
  ASSUME Inv1, NEW r \in Reqs, LogoutBump(r)
  PROVE  LET u == req[r].user IN
         /\ At(r, "close") /\ u \in Users /\ req[r].kind = "logout"
         /\ tokenver' = [tokenver EXCEPT ![u] = @ + 1]
         /\ UNCHANGED <<refresh, active>>
         /\ \/ Quiet(r) /\ req'[r].pc \in {"close", "failed"}
            \/ /\ Others(r) /\ req'[r].pc = "ok" /\ req'[r].closed = tokenver[u] + 1
               /\ req'[r].kind = "logout" /\ req'[r].user = u
               /\ req'[r].ver = req[r].ver /\ req'[r].rid = req[r].rid
               /\ req'[r].since = req[r].since
<1>1. CASE TimedOut(r)
  BY <1>1, TimedOutQuiet
  DEF LogoutBump, Incr, Inv1, TypeOK, Shape, At, InFlight, Guarding
<1>2. CASE req' = [req EXCEPT ![r].pc = "ok", ![r].tries = 0,
                              ![r].closed = tokenver[req[r].user] + 1]
  BY <1>2
  DEF LogoutBump, Incr, Inv1, TypeOK, Shape, At, InFlight, Guarding, Request, Others, Keeps
<1> QED
  BY <1>1, <1>2 DEF LogoutBump

LEMMA StoreFields ==
  ASSUME Inv1, NEW r \in Reqs, Store(r)
  PROVE  /\ At(r, "store") /\ req[r].user \in Users /\ req[r].ver \in Nat
         /\ req[r].kind \in {"login", "refresh"}
         /\ refresh' = [refresh EXCEPT ![r] = [user |-> req[r].user, ver |-> req[r].ver]]
         /\ UNCHANGED <<tokenver, active>>
         /\ Quiet(r) /\ req'[r].pc \in {"store", "ok", "failed"}
<1>1. CASE TimedOut(r)
  BY <1>1, TimedOutQuiet, FieldTypes
  DEF Store, Inv1, TypeOK, Shape, At, InFlight, Minting, Fields
<1>2. CASE Goto(r, "ok")
  BY <1>2, GotoQuiet, FieldTypes
  DEF Store, Inv1, TypeOK, Shape, At, InFlight, Minting, Fields, PCs, Answers
<1> QED
  BY <1>1, <1>2 DEF Store

(* Spends(r) is RefreshConsume with the answer received.                   *)
LEMMA ConsumeFields ==
  ASSUME Inv1, NEW r \in Reqs, RefreshConsume(r)
  PROVE  LET x == req[r].rid IN
         /\ At(r, "consume") /\ x \in Reqs /\ req[r].kind = "refresh"
         /\ UNCHANGED <<tokenver, active>>
         /\ \/ /\ refresh' \in {refresh, [refresh EXCEPT ![x] = NoEntry]}
               /\ Quiet(r) /\ req'[r].pc \in {"consume", "denied", "failed"}
            \/ /\ HasEntry(x)
               /\ refresh' = [refresh EXCEPT ![x] = NoEntry]
               /\ Others(r) /\ req'[r].pc = "check_ver"
               /\ req'[r].user = refresh[x].user /\ req'[r].ver = refresh[x].ver
               /\ req'[r].kind = "refresh" /\ req'[r].rid = x
               /\ req'[r].since = req[r].since /\ req'[r].closed = req[r].closed
<1>1. At(r, "consume") /\ req[r].rid \in Reqs /\ req[r].kind = "refresh"
  BY DEF Inv1, TypeOK, Shape, RefreshConsume, At
<1>2. CASE TimedOut(r)
  BY <1>1, <1>2, TimedOutQuiet DEF RefreshConsume, At
<1>3. CASE Goto(r, "denied")
  BY <1>1, <1>3, GotoQuiet DEF RefreshConsume, PCs, Answers
<1>4. CASE /\ Spendable(r)
           /\ req' = [req EXCEPT ![r].pc = "check_ver", ![r].tries = 0,
                                 ![r].user = refresh[req[r].rid].user,
                                 ![r].ver = refresh[req[r].rid].ver]
           /\ refresh' = [refresh EXCEPT ![req[r].rid] = NoEntry]
  <2>1. refresh[req[r].rid] \in Entry
    BY <1>1, <1>4 DEF Spendable, Inv1, TypeOK
  <2>2. refresh[req[r].rid].user \in Users /\ refresh[req[r].rid].ver \in Nat
    BY <2>1 DEF Entry
  <2>3. req \in [Reqs -> Request]
    BY DEF Inv1, TypeOK
  <2>4. PICK u \in Users, v \in Nat :
          /\ u = refresh[req[r].rid].user /\ v = refresh[req[r].rid].ver
          /\ req' = [req EXCEPT ![r].pc = "check_ver", ![r].tries = 0,
                                ![r].user = u, ![r].ver = v]
    BY <1>4, <2>2
  <2>5. /\ \A y \in Reqs \ {r} : req'[y] = req[y]
        /\ req'[r].pc = "check_ver"
        /\ req'[r].user = u /\ req'[r].ver = v
        /\ req'[r].kind = req[r].kind /\ req'[r].rid = req[r].rid
        /\ req'[r].since = req[r].since /\ req'[r].closed = req[r].closed
    BY <2>3, <2>4 DEF Request
  <2> QED
    BY <1>1, <1>4, <2>4, <2>5 DEF RefreshConsume, Spendable, HasEntry, Others, Keeps
<1> QED
  BY <1>2, <1>3, <1>4 DEF RefreshConsume

(* The remaining handler steps move on and touch no counter; Revoke may    *)
(* delete one pair.                                                        *)
Moves(r) ==
  /\ Quiet(r)
  /\ UNCHANGED tokenver
  /\ \/ UNCHANGED refresh
     \/ At(r, "revoke") /\ \E x \in Reqs : refresh' = [refresh EXCEPT ![x] = NoEntry]
  /\ \/ At(r, "check_ver") /\ VersionCurrent(r) /\ req'[r].pc = "check_user"
     \/ At(r, "check_user") /\ req'[r].pc = "store"
     \/ At(r, "auth_ver") /\ VersionCurrent(r) /\ req'[r].pc = "auth_user"
     \/ At(r, "auth_user") /\ req[r].kind = "logout" /\ req'[r].pc = "revoke"
     \/ At(r, "auth_user") /\ req[r].kind = "me" /\ req'[r].pc = "ok"
     \/ At(r, "revoke") /\ req'[r].pc = "close"
     \/ /\ req[r].pc \in {"check_ver", "check_user", "auth_ver", "auth_user"}
        /\ req'[r].pc = "denied"
     \/ req[r].pc \in InFlight /\ req'[r].pc = "failed"

LEMMA MovingSteps ==
  ASSUME Inv1, NEW r \in Reqs,
         \/ RefreshCheckVer(r) \/ RefreshCheckUser(r) \/ AuthVer(r) \/ AuthUser(r)
         \/ Revoke(r) \/ Fail(r)
  PROVE  Moves(r)
<1> USE DEF Moves, PCs, InFlight, Minting, Guarding, Answers, At
<1>1. CASE RefreshCheckVer(r)
  <2>1. CASE VersionCurrent(r)
    BY <1>1, <2>1, GotoQuiet DEF RefreshCheckVer
  <2>2. CASE ~ VersionCurrent(r)
    BY <1>1, <2>2, GotoQuiet DEF RefreshCheckVer
  <2> QED
    BY <2>1, <2>2
<1>2. CASE RefreshCheckUser(r)
  BY <1>2, GotoQuiet DEF RefreshCheckUser
<1>3. CASE AuthVer(r)
  <2>1. CASE VersionCurrent(r)
    BY <1>3, <2>1, GotoQuiet DEF AuthVer
  <2>2. CASE ~ VersionCurrent(r)
    BY <1>3, <2>2, GotoQuiet DEF AuthVer
  <2> QED
    BY <2>1, <2>2
<1>4. CASE AuthUser(r)
  BY <1>4, GotoQuiet DEF AuthUser, Inv1, Shape
<1>5. CASE Revoke(r)
  <2>1. req[r].rid \in Reqs \cup {NoRid}
    BY FieldTypes DEF Fields
  <2> QED
    BY <1>5, <2>1, GotoQuiet DEF Revoke
<1>6. CASE Fail(r)
  BY <1>6, GotoQuiet DEF Fail
<1> QED
  BY <1>1, <1>2, <1>3, <1>4, <1>5, <1>6

-----------------------------------------------------------------------------
(* Layer 2 is inductive.                                                   *)

LEMMA InitInv2 == Init => Inv2
  BY AuthAssumption
  DEF Init, Inv2, Versions, EntriesOfMinter, Presented, HasEntry, Blank, NoEntry, Spent

LEMMA StepInv2 == Inv1 /\ Inv2 /\ [Next]_vars => Inv2'
<1> SUFFICES ASSUME Inv1, Inv2, [Next]_vars
             PROVE  Inv2'
  OBVIOUS
<1>f. Fields /\ tokenver \in [Users -> Nat]
  BY FieldTypes
<1>r. refresh \in [Reqs -> Entry \cup {NoEntry}]
  BY DEF Inv1, TypeOK
<1>d. \A x \in Delivered : req[x].user \in Users
  BY DEF Inv1, TypeOK, Delivered
<1> USE AuthAssumption, <1>f, <1>r, <1>d
<1> USE DEF Inv2, Versions, EntriesOfMinter, Presented, HasEntry, Delivered, Spent, Fields,
        Keeps, Quiet, Others, At
<1>1. ASSUME NEW r \in Reqs, NEW u \in Users, LoginStart(r, u)
      PROVE  Inv2'
  <2>u. UNCHANGED <<tokenver, refresh>>
    BY <1>1 DEF LoginStart
  <2>1. Versions'
    BY <1>1, <2>u, LoginStartFields
  <2>2. EntriesOfMinter'
    BY <1>1, <2>u, LoginStartFields
  <2>3. Presented'
    BY <1>1, <2>u, LoginStartFields
  <2> QED
    BY <2>1, <2>2, <2>3
<1>2. ASSUME NEW r \in Reqs, NEW kind \in Kinds, Reject(r, kind)
      PROVE  Inv2'
  <2>u. UNCHANGED <<tokenver, refresh>>
    BY <1>2 DEF Reject
  <2>1. Versions'
    BY <1>2, <2>u, RejectFields
  <2>2. EntriesOfMinter'
    BY <1>2, <2>u, RejectFields
  <2>3. Presented'
    BY <1>2, <2>u, RejectFields
  <2> QED
    BY <2>1, <2>2, <2>3
<1>3. ASSUME NEW r \in Reqs, NEW x \in Reqs, NEW genuine \in BOOLEAN,
             RefreshStart(r, x, genuine)
      PROVE  Inv2'
  <2>u. UNCHANGED <<tokenver, refresh>>
    BY <1>3 DEF RefreshStart
  <2>1. Versions'
    BY <1>3, <2>u, RefreshStartFields
  <2>2. EntriesOfMinter'
    BY <1>3, <2>u, RefreshStartFields
  <2>3. Presented'
    BY <1>3, <2>u, RefreshStartFields
  <2> QED
    BY <2>1, <2>2, <2>3
<1>4. ASSUME NEW r \in Reqs, NEW x \in Reqs, NEW rid \in Reqs \cup {NoRid},
             NEW kind \in {"logout", "me"}, GuardedStart(r, kind, x, rid)
      PROVE  Inv2'
  <2>u. UNCHANGED <<tokenver, refresh>>
    BY <1>4 DEF GuardedStart
  <2>1. Versions'
    BY <1>4, <2>u, GuardedStartFields
  <2>2. EntriesOfMinter'
    BY <1>4, <2>u, GuardedStartFields
  <2>3. Presented'
    BY <1>4, <2>u, GuardedStartFields
  <2> QED
    BY <2>1, <2>2, <2>3
<1>5. ASSUME NEW r \in Reqs, LoginBump(r)
      PROVE  Inv2'
  <2>1. Versions'
    BY <1>5, LoginBumpFields
  <2>2. EntriesOfMinter'
    BY <1>5, LoginBumpFields
  <2>3. Presented'
    BY <1>5, LoginBumpFields
  <2> QED
    BY <2>1, <2>2, <2>3
<1>6. ASSUME NEW r \in Reqs, Store(r)
      PROVE  Inv2'
  BY <1>6, StoreFields
<1>7. ASSUME NEW r \in Reqs, RefreshConsume(r)
      PROVE  Inv2'
  <2>1. Versions'
    <3>1. \A x \in Reqs : HasEntry(x) => /\ refresh[x].user \in Users
                                        /\ refresh[x].ver <= tokenver[refresh[x].user]
      BY DEF Entry
    <3>2. CASE Quiet(r)
      BY <1>7, <3>2, ConsumeFields
    <3>3. CASE ~ Quiet(r)
      BY <1>7, <3>1, <3>3, ConsumeFields DEF Inv1, Shape
    <3> QED
      BY <3>2, <3>3
  <2>2. EntriesOfMinter'
    BY <1>7, ConsumeFields DEF Entry
  <2>3. \A x \in Delivered : x \in Delivered' /\ req'[x].user = req[x].user /\ x # r
    BY <1>7, ConsumeFields
  <2>4. \A x \in Reqs : refresh'[x] \in {refresh[x], NoEntry}
    BY <1>7, ConsumeFields
  <2>5. ASSUME NEW y \in Reqs, y # r
        PROVE  Presented!(y)'
    BY <1>7, <2>3, <2>4, <2>5, ConsumeFields
  <2>6. Presented!(r)'
    <3>1. CASE Quiet(r)
      BY <1>7, <2>3, <2>4, <3>1, ConsumeFields
    <3>2. CASE ~ Quiet(r)
      BY <1>7, <2>3, <3>2, ConsumeFields
    <3> QED
      BY <3>1, <3>2
  <2>7. Presented'
    BY <2>5, <2>6
  <2> QED
    BY <2>1, <2>2, <2>7
<1>8. ASSUME NEW r \in Reqs, Moves(r)
      PROVE  Inv2'
  <2>1. Versions'
    <3>1. \A x \in Reqs : Keeps(x)
      BY <1>8 DEF Moves
    <3>2. tokenver' = tokenver
      BY <1>8 DEF Moves
    <3> QED
      BY <3>1, <3>2
  <2>2. EntriesOfMinter'
    BY <1>8 DEF Moves, InFlight, Minting, Guarding
  <2>3. \A x \in Delivered : x \in Delivered' /\ req'[x].user = req[x].user /\ x # r
    BY <1>8 DEF Moves, InFlight, Minting, Guarding
  <2>4. \A x \in Reqs : refresh'[x] \in {refresh[x], NoEntry}
    BY <1>8 DEF Moves
  <2>5. Presented'
    BY <1>8, <2>3, <2>4 DEF Moves
  <2> QED
    BY <2>1, <2>2, <2>5
<1>9. ASSUME NEW r \in Reqs, LogoutBump(r)
      PROVE  Inv2'
  <2>1. Versions'
    BY <1>9, LogoutBumpFields
  <2>2. EntriesOfMinter'
    BY <1>9, LogoutBumpFields
  <2>3. Presented'
    BY <1>9, LogoutBumpFields
  <2> QED
    BY <2>1, <2>2, <2>3
<1>10. ASSUME NEW x \in Reqs, Expire(x)
       PROVE  Inv2'
  BY <1>10 DEF Expire
<1>11. ASSUME NEW u \in Users, SetActive(u)
       PROVE  Inv2'
  BY <1>11 DEF SetActive
<1>12. CASE UNCHANGED vars
  BY <1>12 DEF vars
<1> HIDE AuthAssumption, <1>f, <1>r, <1>d
<1> HIDE DEF Inv2, Versions, EntriesOfMinter, Presented, HasEntry, Delivered, Spent, Fields,
        Keeps, Quiet, Others, At
<1> QED
  BY <1>1, <1>2, <1>3, <1>4, <1>5, <1>6, <1>7, <1>8, <1>9, <1>10, <1>11, <1>12, MovingSteps
  DEF Next, Handler, LogoutStart, MeStart

-----------------------------------------------------------------------------
(* Layer 3 is inductive relative to the other two.                         *)

LEMMA InitInv3 == Init => Inv3
  BY AuthAssumption
  DEF Init, Inv3, SingleChain, NoReplay, StaleNeverAccepted, LogoutEndsSession, HasEntry,
      CarriesSession, Minting, PastCheck, Spent, Blank, NoEntry

LEMMA StepInv3 == Inv1 /\ Inv2 /\ Inv3 /\ [Next]_vars => Inv3'
<1> SUFFICES ASSUME Inv1, Inv2, Inv3, [Next]_vars
             PROVE  Inv3'
  OBVIOUS
<1>f. Fields /\ tokenver \in [Users -> Nat]
  BY FieldTypes
<1>r. refresh \in [Reqs -> Entry \cup {NoEntry}]
  BY DEF Inv1, TypeOK
<1>n. NoEntry.user \notin Users
  BY AuthAssumption DEF NoEntry
<1>e. \A x \in Reqs : HasEntry(x) => /\ refresh[x].user \in Users
                                    /\ refresh[x].ver \in Nat
                                    /\ refresh[x].ver <= tokenver[refresh[x].user]
  BY <1>r, AuthAssumption DEF Inv2, Versions, EntriesOfMinter, HasEntry, Entry
<1>c. \A x \in Reqs : CarriesSession(x) => /\ req[x].user \in Users
                                          /\ req[x].ver <= tokenver[req[x].user]
  BY AuthAssumption DEF Inv1, TypeOK, CarriesSession, InFlight, Minting, Inv2, Versions
<1>s. \A s \in Reqs : req[s].closed > 0 => /\ req[s].user \in Users
                                          /\ req[s].closed <= tokenver[req[s].user]
  BY AuthAssumption DEF Inv1, Shape, Inv2, Versions
<1> USE AuthAssumption, <1>f, <1>r, <1>n, <1>e, <1>c, <1>s
<1> USE DEF Inv3, SingleChain, NoReplay, StaleNeverAccepted, LogoutEndsSession, HasEntry,
        CarriesSession, SameSession, Minting, PastCheck, Spent, Fields, Keeps, Quiet,
        Others, At
<1>1. ASSUME NEW r \in Reqs, NEW u \in Users, LoginStart(r, u)
      PROVE  Inv3'
  <2>u. UNCHANGED refresh
    BY <1>1 DEF LoginStart
  <2>1. SingleChain'
    BY <1>1, <2>u, LoginStartFields
  <2>2. NoReplay'
    BY <1>1, <2>u, LoginStartFields
  <2>3. StaleNeverAccepted'
    BY <1>1, <2>u, LoginStartFields
  <2>4. LogoutEndsSession'
    BY <1>1, <2>u, LoginStartFields
  <2> QED
    BY <2>1, <2>2, <2>3, <2>4
<1>2. ASSUME NEW r \in Reqs, NEW kind \in Kinds, Reject(r, kind)
      PROVE  Inv3'
  <2>u. UNCHANGED refresh
    BY <1>2 DEF Reject
  <2>1. SingleChain'
    BY <1>2, <2>u, RejectFields
  <2>2. NoReplay'
    BY <1>2, <2>u, RejectFields
  <2>3. StaleNeverAccepted'
    BY <1>2, <2>u, RejectFields
  <2>4. LogoutEndsSession'
    BY <1>2, <2>u, RejectFields
  <2> QED
    BY <2>1, <2>2, <2>3, <2>4
<1>3. ASSUME NEW r \in Reqs, NEW x \in Reqs, NEW genuine \in BOOLEAN,
             RefreshStart(r, x, genuine)
      PROVE  Inv3'
  <2>u. UNCHANGED refresh
    BY <1>3 DEF RefreshStart
  <2>1. SingleChain'
    BY <1>3, <2>u, RefreshStartFields
  <2>2. NoReplay'
    BY <1>3, <2>u, RefreshStartFields
  <2>3. StaleNeverAccepted'
    BY <1>3, <2>u, RefreshStartFields
  <2>4. LogoutEndsSession'
    BY <1>3, <2>u, RefreshStartFields
  <2> QED
    BY <2>1, <2>2, <2>3, <2>4
<1>4. ASSUME NEW r \in Reqs, NEW x \in Reqs, NEW rid \in Reqs \cup {NoRid},
             NEW kind \in {"logout", "me"}, GuardedStart(r, kind, x, rid)
      PROVE  Inv3'
  <2>u. UNCHANGED refresh
    BY <1>4 DEF GuardedStart
  <2>1. SingleChain'
    BY <1>4, <2>u, GuardedStartFields
  <2>2. NoReplay'
    BY <1>4, <2>u, GuardedStartFields
  <2>3. StaleNeverAccepted'
    BY <1>4, <2>u, GuardedStartFields
  <2>4. LogoutEndsSession'
    BY <1>4, <2>u, GuardedStartFields
  <2> QED
    BY <2>1, <2>2, <2>3, <2>4
<1>5. ASSUME NEW r \in Reqs, LoginBump(r)
      PROVE  Inv3'
  <2>1. SingleChain'
    BY <1>5, LoginBumpFields
  <2>2. NoReplay'
    BY <1>5, LoginBumpFields
  <2>3. StaleNeverAccepted'
    BY <1>5, LoginBumpFields
  <2>4. LogoutEndsSession'
    BY <1>5, LoginBumpFields
  <2> QED
    BY <2>1, <2>2, <2>3, <2>4
<1>6. ASSUME NEW r \in Reqs, Store(r)
      PROVE  Inv3'
  <2>1. SingleChain'
    BY <1>6, StoreFields
  <2>2. NoReplay'
    BY <1>6, StoreFields
  <2>3. StaleNeverAccepted'
    BY <1>6, StoreFields
  <2>4. LogoutEndsSession'
    BY <1>6, StoreFields
  <2> QED
    BY <2>1, <2>2, <2>3, <2>4
<1>7. ASSUME NEW r \in Reqs, RefreshConsume(r)
      PROVE  Inv3'
  <2> DEFINE x == req[r].rid
  <2>1. At(r, "consume") /\ x \in Reqs /\ x \in Delivered
    BY <1>7, ConsumeFields DEF Inv2, Presented
  <2>2. /\ tokenver' = tokenver
        /\ \A y \in Reqs : refresh'[y] \in {refresh[y], NoEntry}
    BY <1>7, ConsumeFields
  <2>3. CASE Quiet(r) /\ req'[r].pc \in {"consume", "denied", "failed"}
    <3>1. SingleChain'
      BY <2>1, <2>2, <2>3
    <3>2. NoReplay'
      BY <2>3
    <3>3. StaleNeverAccepted'
      BY <2>3
    <3>4. LogoutEndsSession'
      BY <2>2, <2>3
    <3> QED
      BY <3>1, <3>2, <3>3, <3>4
  <2>4. CASE /\ HasEntry(x)
             /\ refresh' = [refresh EXCEPT ![x] = NoEntry]
             /\ Others(r) /\ req'[r].pc = "check_ver"
             /\ req'[r].user = refresh[x].user /\ req'[r].ver = refresh[x].ver
             /\ req'[r].kind = "refresh" /\ req'[r].rid = x
             /\ req'[r].since = req[r].since /\ req'[r].closed = req[r].closed
    <3>1. \A y \in Reqs : ~ (CarriesSession(y) /\ SameSession(refresh[x], req[y]))
      BY <2>1, <2>4 DEF Delivered
    <3>2. \A y \in Reqs : HasEntry(y) /\ SameSession(refresh[y], refresh[x]) => y = x
      <4>1. \A y \in Reqs : HasEntry(y) /\ SameSession(refresh[y], refresh[x])
                             => refresh[y] = refresh[x]
        BY <2>1, <2>4 DEF Entry
      <4> QED
        BY <2>1, <2>4, <4>1
    <3>3. SingleChain'
      BY <2>1, <2>2, <2>4, <3>1, <3>2
    <3>4. \A s \in Reqs : Spent(s) => req[s].rid # x
      BY <2>4 DEF Inv1, Shape, Inv2, Presented
    <3>5. NoReplay'
      BY <2>1, <2>4, <3>4
    <3>6. StaleNeverAccepted'
      BY <2>4
    <3>7. LogoutEndsSession'
      <4>1. req[r].closed = 0
        BY <1>7, ConsumeFields DEF Inv1, Shape
      <4> QED
        BY <2>1, <2>2, <2>4, <4>1
    <3> QED
      BY <3>3, <3>5, <3>6, <3>7
  <2> QED
    BY <1>7, <2>3, <2>4, ConsumeFields
<1>8. ASSUME NEW r \in Reqs, Moves(r)
      PROVE  Inv3'
  <2>1. SingleChain'
    BY <1>8 DEF Moves
  <2>2. NoReplay'
    BY <1>8 DEF Moves
  <2>3. StaleNeverAccepted'
    <3>1. At(r, "check_ver") /\ VersionCurrent(r) => req[r].ver >= req[r].since
      <4> SUFFICES ASSUME At(r, "check_ver"), VersionCurrent(r)
                   PROVE  req[r].ver >= req[r].since
        OBVIOUS
      <4>1. req[r].kind = "refresh" /\ req[r].user \in Users /\ req[r].rid \in Reqs
        BY DEF Inv1, Shape
      <4>2. req[r].since <= tokenver[req[r].user]
        BY <4>1 DEF Inv2, Presented
      <4> QED
        BY <4>1, <4>2 DEF VersionCurrent
    <3>2. At(r, "auth_ver") /\ VersionCurrent(r) => req[r].ver >= req[r].since
      <4> SUFFICES ASSUME At(r, "auth_ver"), VersionCurrent(r)
                   PROVE  req[r].ver >= req[r].since
        OBVIOUS
      <4>1. req[r].kind \in {"logout", "me"} /\ req[r].user \in Users
        BY DEF Inv1, TypeOK, Shape, InFlight, Guarding
      <4> QED
        BY <4>1 DEF VersionCurrent, Inv2, Versions
    <3>3. Quiet(r)
      BY <1>8 DEF Moves
    <3>4. \A y \in Reqs \ {r} : PastCheck(y)' => PastCheck(y)
      BY <3>3
    <3>5. PastCheck(r)' => \/ PastCheck(r)
                           \/ req[r].pc \in {"check_ver", "auth_ver"} /\ VersionCurrent(r)
      BY <1>8, <3>3 DEF Moves
    <3> QED
      BY <3>1, <3>2, <3>3, <3>4, <3>5
  <2>4. LogoutEndsSession'
    BY <1>8 DEF Moves
  <2> QED
    BY <2>1, <2>2, <2>3, <2>4
<1>9. ASSUME NEW r \in Reqs, LogoutBump(r)
      PROVE  Inv3'
  <2>1. SingleChain'
    BY <1>9, LogoutBumpFields
  <2>2. NoReplay'
    BY <1>9, LogoutBumpFields
  <2>3. StaleNeverAccepted'
    BY <1>9, LogoutBumpFields
  <2>4. LogoutEndsSession'
    <3>1. CASE Quiet(r)
      BY <1>9, <3>1, LogoutBumpFields
    <3>2. CASE ~ Quiet(r)
      <4> DEFINE u == req[r].user
      <4>1. /\ u \in Users /\ refresh' = refresh /\ req'[r].closed = tokenver[u] + 1
            /\ Others(r) /\ req'[r].user = u /\ req'[r].ver = req[r].ver
        BY <1>9, <3>2, LogoutBumpFields
      <4>2. \A y \in Reqs : req[y].user = u => req[y].ver < tokenver[u] + 1
        BY <4>1 DEF Inv2, Versions
      <4>3. \A y \in Reqs : refresh[y].user = u => refresh[y].ver < tokenver[u] + 1
        BY <4>1
      <4> QED
        BY <4>1, <4>2, <4>3
    <3> QED
      BY <3>1, <3>2
  <2> QED
    BY <2>1, <2>2, <2>3, <2>4
<1>10. ASSUME NEW x \in Reqs, Expire(x)
       PROVE  Inv3'
  BY <1>10 DEF Expire
<1>11. ASSUME NEW u \in Users, SetActive(u)
       PROVE  Inv3'
  BY <1>11 DEF SetActive
<1>12. CASE UNCHANGED vars
  BY <1>12 DEF vars
<1> HIDE AuthAssumption, <1>f, <1>r, <1>n, <1>e, <1>c, <1>s
<1> HIDE DEF Inv3, SingleChain, NoReplay, StaleNeverAccepted, LogoutEndsSession, HasEntry,
        CarriesSession, SameSession, Minting, PastCheck, Spent, Fields, Keeps, Quiet,
        Others, At
<1> QED
  BY <1>1, <1>2, <1>3, <1>4, <1>5, <1>6, <1>7, <1>8, <1>9, <1>10, <1>11, <1>12, MovingSteps
  DEF Next, Handler, LogoutStart, MeStart

-----------------------------------------------------------------------------
(* The theorems.                                                           *)

(* IInv holds in every reachable state.                                    *)
THEOREM Invariance == Spec => []IInv
<1>1. Init => IInv
  BY InitInv1, InitInv2, InitInv3 DEF IInv
<1>2. IInv /\ [Next]_vars => IInv'
  BY StepInv1, StepInv2, StepInv3 DEF IInv
<1> QED
  BY <1>1, <1>2, PTL DEF Spec

(* Type correctness: every reachable state is well typed, and a handler    *)
(* past its first lookup knows the user whose credential it holds.         *)
THEOREM TypeCorrect == Spec => []TypeOK
<1>1. IInv => TypeOK
  BY DEF IInv, Inv1
<1> QED
  BY <1>1, Invariance, PTL

(* A session never forks: however many logins, refreshes and retried       *)
(* commands overlap, at most one stored pair or one handler carries it on. *)
THEOREM SessionsNeverFork == Spec => []SingleChain
<1>1. IInv => SingleChain
  BY DEF IInv, Inv3
<1> QED
  BY <1>1, Invariance, PTL

(* A refresh token is spent at most once.                                  *)
THEOREM RefreshTokensAreOneTime == Spec => []NoReplay
<1>1. IInv => NoReplay
  BY DEF IInv, Inv3
<1> QED
  BY <1>1, Invariance, PTL

(* No request is let through with a version that was out of force when it  *)
(* arrived.                                                                *)
THEOREM OutdatedTokensAreRefused == Spec => []StaleNeverAccepted
<1>1. IInv => StaleNeverAccepted
  BY DEF IInv, Inv3
<1> QED
  BY <1>1, Invariance, PTL

(* After a logout nothing of the user is in force until the next login.    *)
THEOREM LogoutIsFinal == Spec => []LogoutEndsSession
<1>1. IInv => LogoutEndsSession
  BY DEF IInv, Inv3
<1> QED
  BY <1>1, Invariance, PTL

=============================================================================
