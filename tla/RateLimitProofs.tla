-------------------------- MODULE RateLimitProofs --------------------------
(***************************************************************************)
(* TLAPS proofs about RateLimit: the limits hold for any number of         *)
(* requests, any limit and any number of resent commands.                  *)
(*                                                                         *)
(* Counting is done by the values INCR answered: within one life of a key  *)
(* they are all different (Numbers), and an admitted request read a value  *)
(* of 1 .. Limit, so the admitted requests inject into 1 .. Limit.         *)
(***************************************************************************)
EXTENDS RateLimit, FiniteSetTheorems, TLAPS

-----------------------------------------------------------------------------
(* The inductive invariant.                                                *)

(* What a request has in hand at each step.                                *)
Shape ==
  \A r \in Reqs :
    /\ At(r, "idle") => ~ req[r].faulted /\ req[r].hits = 0
    /\ req[r].pc \in {"idle", "incr"} => req[r].n = 0
    /\ req[r].pc \in {"expire", "delete"} => req[r].n = 1 /\ req[r].hits > 0
    /\ At(r, "delete") => req[r].faulted
    /\ At(r, "admitted") => req[r].n \in 1 .. Limit
    /\ At(r, "refused") => Limit < req[r].n

(* Numbers are not handed out twice in one life of a key.                  *)
Numbers ==
  /\ \A r \in Reqs : req[r].n > 0 =>
       /\ req[r].life <= life[Bucket(r)]
       /\ req[r].life = life[Bucket(r)] => req[r].n <= count[Bucket(r)]
  /\ \A r, q \in Reqs :
       /\ req[r].n > 0 /\ req[q].n > 0
       /\ Bucket(r) = Bucket(q) /\ req[r].life = req[q].life
       /\ req[r].n = req[q].n
       => r = q

(* A key that disappeared before its window ended was deleted after a      *)
(* failed EXPIRE.                                                          *)
Restarts ==
  \A b \in Windows : b >= window /\ life[b] > 0 =>
    \E r \in Reqs : Bucket(r) = b /\ req[r].faulted

(* A counter holds no more than was counted, and nobody read more.         *)
Executed ==
  /\ \A b \in Windows : IsFiniteSet(Hits(b)) /\ count[b] <= Cardinality(Hits(b))
  /\ \A r \in Reqs : req[r].n <= Cardinality(Hits(Bucket(r)))

IInv == TypeOK /\ Shape /\ Numbers /\ Restarts /\ Executed /\ CounterHasTTL

-----------------------------------------------------------------------------
LEMMA InitInvariant == Init => IInv
<1> SUFFICES ASSUME Init
             PROVE  IInv
  OBVIOUS
<1> USE RateAssumption DEF Init, Blank, Windows, At, Bucket
<1>1. TypeOK
  BY DEF TypeOK, Request, PCs
<1>2. Shape
  BY DEF Shape
<1>3. Numbers
  BY DEF Numbers
<1>4. Restarts
  BY DEF Restarts
<1>5. CounterHasTTL
  BY DEF CounterHasTTL
<1>6. Executed
  <2>1. ASSUME NEW b \in Windows
        PROVE  Hits(b) = {}
    BY DEF Hits
  <2>2. IsFiniteSet({}) /\ Cardinality({}) = 0
    BY FS_EmptySet
  <2>3. \A r \in Reqs : req[r].n = 0 /\ Bucket(r) \in Windows
    OBVIOUS
  <2>4. \A b \in Windows : count[b] = 0
    OBVIOUS
  <2> HIDE DEF Init, Blank, Windows, At, Bucket
  <2>5. ASSUME NEW b \in Windows
        PROVE  IsFiniteSet(Hits(b)) /\ Cardinality(Hits(b)) = 0
    BY <2>1, <2>2
  <2>6. \A b \in Windows : count[b] <= Cardinality(Hits(b))
    BY <2>4, <2>5
  <2>7. \A r \in Reqs : req[r].n <= Cardinality(Hits(Bucket(r)))
    BY <2>3, <2>5
  <2> QED
    BY <2>5, <2>6, <2>7 DEF Executed
<1> QED
  BY <1>1, <1>2, <1>3, <1>4, <1>5, <1>6 DEF IInv

(* What each action does to the requests, field by field.                  *)
Others(r) == \A q \in Reqs \ {r} : req'[q] = req[q]

Keeps(r) == /\ req'[r].bucket = req[r].bucket
            /\ req'[r].life = req[r].life
            /\ req'[r].n = req[r].n
            /\ req'[r].hits = req[r].hits

Typed == req' \in [Reqs -> Request]

LEMMA ArriveFields ==
  ASSUME TypeOK, NEW r \in Reqs, Arrive(r)
  PROVE  /\ Typed /\ Others(r) /\ At(r, "idle")
         /\ req'[r].pc = "incr" /\ req'[r].bucket = window
         /\ req'[r].life = req[r].life /\ req'[r].n = req[r].n
         /\ req'[r].hits = req[r].hits /\ req'[r].faulted = req[r].faulted
<1>1. /\ req \in [Reqs -> Request] /\ window \in Windows
      /\ req' = [req EXCEPT ![r] = [req[r] EXCEPT !.pc = "incr", !.bucket = window]]
  BY DEF Arrive, TypeOK
<1>2. [req[r] EXCEPT !.pc = "incr", !.bucket = window] \in Request
  BY <1>1 DEF Request, PCs, Waiting
<1> QED
  BY <1>1, <1>2 DEF Arrive, Typed, Others, At, Request

LEMMA IncrFields ==
  ASSUME TypeOK, NEW r \in Reqs, Incr(r)
  PROVE  /\ Typed /\ Others(r) /\ At(r, "incr")
         /\ req'[r].bucket = req[r].bucket /\ req'[r].faulted = req[r].faulted
         /\ req'[r].hits = req[r].hits + 1
         /\ \/ /\ req'[r].n = count[Bucket(r)] + 1
               /\ req'[r].life = life[Bucket(r)]
               /\ req'[r].pc = IF req'[r].n = 1 THEN "expire" ELSE Verdict(req'[r].n)
            \/ /\ req'[r].n = req[r].n /\ req'[r].life = req[r].life
               /\ req'[r].pc \in {"incr", "failed"}
<1>1. /\ req \in [Reqs -> Request] /\ Bucket(r) \in Windows /\ req[r].hits \in Nat
      /\ count[Bucket(r)] \in Nat /\ life[Bucket(r)] \in Nat /\ req[r].tries \in Nat
  BY DEF TypeOK, Request, Bucket
<1>2. CASE Counted(r, count[Bucket(r)] + 1)
  <2> DEFINE n == count[Bucket(r)] + 1
             pc == IF n = 1 THEN "expire" ELSE Verdict(n)
             new == [req[r] EXCEPT !.pc = pc,
                                   !.n = n, !.tries = 0, !.hits = @ + 1,
                                   !.life = life[Bucket(r)]]
  <2>1. req' = [req EXCEPT ![r] = new]
    BY <1>1, <1>2 DEF Counted
  <2>2. new \in Request
    <3>1. n \in Nat /\ pc \in PCs
      BY <1>1 DEF PCs, Waiting, Verdict
    <3>2. ASSUME NEW q \in Request, NEW p \in PCs, NEW m \in Nat, NEW h \in Nat, NEW l \in Nat
          PROVE  [q EXCEPT !.pc = p, !.n = m, !.tries = 0, !.hits = h, !.life = l] \in Request
      BY DEF Request
    <3>3. req[r] \in Request /\ req[r].hits + 1 \in Nat /\ life[Bucket(r)] \in Nat
      BY <1>1
    <3> QED
      BY <3>1, <3>2, <3>3, Zenon
  <2> QED
    BY <1>1, <2>1, <2>2 DEF Incr, Typed, Others, At, Request
<1>3. CASE req' = [req EXCEPT ![r].tries = @ + 1, ![r].hits = @ + 1]
  <2> DEFINE new == [req[r] EXCEPT !.tries = @ + 1, !.hits = @ + 1]
  <2>1. req' = [req EXCEPT ![r] = new] /\ new \in Request
    BY <1>1, <1>3 DEF Request
  <2> QED
    BY <1>1, <2>1 DEF Incr, Typed, Others, At, Request
<1>4. CASE req' = [req EXCEPT ![r].pc = "failed", ![r].tries = 0, ![r].hits = @ + 1]
  <2> DEFINE new == [req[r] EXCEPT !.pc = "failed", !.tries = 0, !.hits = @ + 1]
  <2>1. req' = [req EXCEPT ![r] = new] /\ new \in Request
    BY <1>1, <1>4 DEF Request, PCs
  <2> QED
    BY <1>1, <2>1 DEF Incr, Typed, Others, At, Request
<1> QED
  BY <1>2, <1>3, <1>4 DEF Incr, Uncounted

LEMMA GotoFields ==
  ASSUME TypeOK, NEW r \in Reqs, NEW pc \in PCs, Goto(r, pc)
  PROVE  /\ Typed /\ Others(r) /\ Keeps(r)
         /\ req'[r].pc = pc /\ req'[r].faulted = req[r].faulted
<1> DEFINE new == [req[r] EXCEPT !.pc = pc, !.tries = 0]
<1>1. req \in [Reqs -> Request] /\ req' = [req EXCEPT ![r] = new]
  BY DEF Goto, TypeOK
<1>2. new \in Request
  BY <1>1 DEF Request
<1> QED
  BY <1>1, <1>2 DEF Typed, Others, Keeps, Request

LEMMA SendAgainFields ==
  ASSUME TypeOK, NEW r \in Reqs, SendAgain(r)
  PROVE  /\ Typed /\ Others(r) /\ Keeps(r)
         /\ req'[r].pc = req[r].pc /\ req'[r].faulted = req[r].faulted
<1> DEFINE new == [req[r] EXCEPT !.tries = @ + 1]
<1>1. req \in [Reqs -> Request] /\ req' = [req EXCEPT ![r] = new]
  BY DEF SendAgain, TypeOK
<1>2. new \in Request
  BY <1>1 DEF Request
<1> QED
  BY <1>1, <1>2 DEF Typed, Others, Keeps, Request

(* EXPIRE, DEL and Fail: the request goes on, or it ends.                  *)
Moves(r) ==
  /\ Typed /\ Others(r) /\ Keeps(r)
  /\ \/ /\ At(r, "expire")
        /\ \/ req'[r].pc \in {"expire", Verdict(req[r].n)} /\ req'[r].faulted = req[r].faulted
           \/ req'[r].pc = "delete" /\ req'[r].faulted
     \/ /\ At(r, "delete")
        /\ req'[r].pc \in {"delete", Verdict(req[r].n), "failed"}
        /\ req'[r].faulted = req[r].faulted
     \/ /\ req[r].pc \in Waiting
        /\ req'[r].pc = "failed" /\ req'[r].faulted = req[r].faulted

LEMMA ExpireFields ==
  ASSUME TypeOK, NEW r \in Reqs, Expire(r)
  PROVE  /\ Moves(r) /\ At(r, "expire") /\ UNCHANGED <<window, count, life>>
         /\ \/ ttl' = [ttl EXCEPT ![Bucket(r)] = count[Bucket(r)] > 0]
            \/ ttl' = ttl /\ req'[r].pc = "delete"
<1> DEFINE Set == ttl' = [ttl EXCEPT ![Bucket(r)] = count[Bucket(r)] > 0]
           new == [req[r] EXCEPT !.pc = "delete", !.tries = 0, !.faulted = TRUE]
<1>1. At(r, "expire") /\ Verdict(req[r].n) \in PCs /\ UNCHANGED <<window, count, life>>
  BY DEF Expire, Verdict, PCs
<1>2. CASE Set /\ Goto(r, Verdict(req[r].n))
  <2>1. Moves(r)
    BY <1>1, <1>2, GotoFields DEF Moves
  <2> QED
    BY <1>1, <1>2, <2>1
<1>3. CASE Set /\ SendAgain(r)
  <2>1. Moves(r)
    BY <1>1, <1>3, SendAgainFields DEF Moves, At
  <2> QED
    BY <1>1, <1>3, <2>1
<1>4. CASE req' = [req EXCEPT ![r] = new] /\ (Set \/ ttl' = ttl)
  <2>1. req \in [Reqs -> Request]
    BY DEF TypeOK
  <2>2. new \in Request
    BY <2>1 DEF Request, PCs, Waiting
  <2>3. Moves(r) /\ req'[r].pc = "delete"
    BY <1>1, <1>4, <2>1, <2>2 DEF Moves, Typed, Others, Keeps, Request
  <2> QED
    BY <1>1, <1>4, <2>3
<1>5. \/ Set /\ Goto(r, Verdict(req[r].n))
      \/ Set /\ SendAgain(r)
      \/ req' = [req EXCEPT ![r] = new] /\ (Set \/ ttl' = ttl)
  BY DEF Expire, TypeOK
<1> QED
  BY <1>2, <1>3, <1>4, <1>5

LEMMA DeleteFields ==
  ASSUME TypeOK, NEW r \in Reqs, Delete(r)
  PROVE  Moves(r) /\ At(r, "delete") /\ Gone(Bucket(r)) /\ UNCHANGED window
<1>1. {Verdict(req[r].n), "failed"} \subseteq PCs
  BY DEF Verdict, PCs
<1> QED
  BY <1>1, GotoFields, SendAgainFields DEF Delete, Moves, At

LEMMA FailFields ==
  ASSUME TypeOK, NEW r \in Reqs, Fail(r)
  PROVE  Moves(r) /\ req'[r].pc = "failed" /\ UNCHANGED <<window, count, ttl, life>>
<1>1. "failed" \in PCs
  BY DEF PCs
<1> QED
  BY <1>1, GotoFields DEF Fail, Moves

-----------------------------------------------------------------------------
(* Types.                                                                  *)
LEMMA StepTypes == TypeOK /\ [Next]_vars => TypeOK'
<1> SUFFICES ASSUME TypeOK, [Next]_vars
             PROVE  TypeOK'
  OBVIOUS
<1>w. /\ \A r \in Reqs : Bucket(r) \in Windows /\ Bucket(r) <= window
      /\ window \in Windows /\ LastWindow \in Nat
  BY RateAssumption DEF TypeOK, Request, Bucket
<1>t. /\ count \in [Windows -> Nat] /\ ttl \in [Windows -> BOOLEAN]
      /\ life \in [Windows -> Nat]
      /\ \A b \in Windows : ttl[b] => count[b] > 0
  BY DEF TypeOK
<1>1. ASSUME NEW r \in Reqs, Arrive(r)
      PROVE  TypeOK'
  <2>1. UNCHANGED <<window, count, ttl, life>>
    BY <1>1 DEF Arrive
  <2>2. \A q \in Reqs : req'[q].bucket <= window
    BY <1>1, <1>w, ArriveFields DEF Others, Bucket, Windows
  <2> QED
    BY <1>1, <1>w, <1>t, <2>1, <2>2, ArriveFields DEF TypeOK, Typed
<1>2. ASSUME NEW r \in Reqs, Incr(r)
      PROVE  TypeOK'
  <2>1. /\ UNCHANGED <<window, ttl, life>>
        /\ count' = [count EXCEPT ![Bucket(r)] = @ + 1]
    BY <1>2 DEF Incr
  <2>2. \A q \in Reqs : req'[q].bucket <= window
    BY <1>2, <1>w, IncrFields DEF Others, Bucket
  <2>3. count' \in [Windows -> Nat] /\ \A b \in Windows : ttl[b] => count'[b] > 0
    BY <1>w, <1>t, <2>1
  <2> QED
    BY <1>2, <1>w, <1>t, <2>1, <2>2, <2>3, IncrFields DEF TypeOK, Typed
<1>a. ASSUME NEW r \in Reqs, Moves(r), window' = window
      PROVE  req' \in [Reqs -> Request] /\ \A q \in Reqs : req'[q].bucket <= window'
  BY <1>a, <1>w DEF Moves, Typed, Keeps, Others, Bucket
<1>3. ASSUME NEW r \in Reqs, Expire(r)
      PROVE  TypeOK'
  <2>1. Moves(r) /\ UNCHANGED <<window, count, life>>
    BY <1>3, ExpireFields
  <2>2. \/ ttl' = [ttl EXCEPT ![Bucket(r)] = count[Bucket(r)] > 0]
        \/ ttl' = ttl
    BY <1>3, ExpireFields
  <2>3. ttl' \in [Windows -> BOOLEAN] /\ \A b \in Windows : ttl'[b] => count[b] > 0
    <3>1. (count[Bucket(r)] > 0) \in BOOLEAN
      OBVIOUS
    <3> QED
      BY <1>w, <1>t, <2>2, <3>1, Zenon
  <2> QED
    BY <1>w, <1>t, <1>a, <2>1, <2>3 DEF TypeOK
<1>4. ASSUME NEW r \in Reqs, Delete(r)
      PROVE  TypeOK'
  <2>1. Moves(r) /\ UNCHANGED window /\ Gone(Bucket(r))
    BY <1>4, DeleteFields
  <2>2. /\ count' \in [Windows -> Nat] /\ ttl' \in [Windows -> BOOLEAN]
        /\ life' \in [Windows -> Nat]
        /\ \A b \in Windows : ttl'[b] => count'[b] > 0
    BY <1>w, <1>t, <2>1 DEF Gone
  <2> QED
    BY <1>w, <1>a, <2>1, <2>2 DEF TypeOK
<1>5. ASSUME NEW r \in Reqs, Fail(r)
      PROVE  TypeOK'
  BY <1>5, <1>w, <1>t, <1>a, FailFields DEF TypeOK
<1>6. ASSUME NEW b \in Windows, ExpireKey(b)
      PROVE  TypeOK'
  BY <1>6 DEF ExpireKey, Gone, TypeOK
<1>7. CASE Tick
  BY <1>7, <1>w DEF Tick, TypeOK, Windows, Bucket
<1>8. CASE UNCHANGED vars
  BY <1>8 DEF vars, TypeOK
<1> QED
  BY <1>1, <1>2, <1>3, <1>4, <1>5, <1>6, <1>7, <1>8 DEF Next, Handler

-----------------------------------------------------------------------------
(* What a request has in hand.                                             *)
LEMMA StepShape == TypeOK /\ Shape /\ [Next]_vars => Shape'
<1> SUFFICES ASSUME TypeOK, Shape, [Next]_vars
             PROVE  Shape'
  OBVIOUS
<1>t. \A r \in Reqs : /\ req[r].n \in Nat /\ req[r].hits \in Nat
                      /\ count[Bucket(r)] \in Nat
  BY DEF TypeOK, Request, Bucket
<1>l. Limit \in Nat
  BY RateAssumption
<1> USE DEF Shape, At
<1>1. ASSUME NEW r \in Reqs, Arrive(r)
      PROVE  Shape'
  BY <1>1, ArriveFields DEF Others
<1>2. ASSUME NEW r \in Reqs, Incr(r)
      PROVE  Shape'
  BY <1>2, <1>t, <1>l, IncrFields DEF Others, Verdict
<1>3. ASSUME NEW r \in Reqs, Moves(r)
      PROVE  Shape'
  <2>1. \A q \in Reqs \ {r} : req'[q] = req[q]
    BY <1>3 DEF Moves, Others
  <2>2. Shape!(r)'
    BY <1>3, <1>t, <1>l DEF Moves, Keeps, Verdict, Waiting
  <2> QED
    BY <2>1, <2>2
<1>4. CASE UNCHANGED req
  BY <1>4
<1> QED
  BY <1>1, <1>2, <1>3, <1>4, ExpireFields, DeleteFields, FailFields
  DEF Next, Handler, ExpireKey, Tick, vars

(* Numbers are distinct within a life.                                     *)
LEMMA StepNumbers == TypeOK /\ Shape /\ Numbers /\ [Next]_vars => Numbers'
<1> SUFFICES ASSUME TypeOK, Shape, Numbers, [Next]_vars
             PROVE  Numbers'
  OBVIOUS
<1>t. /\ \A r \in Reqs : /\ req[r].n \in Nat /\ req[r].life \in Nat
                         /\ Bucket(r) \in Windows
      /\ \A b \in Windows : count[b] \in Nat /\ life[b] \in Nat
      /\ count \in [Windows -> Nat] /\ life \in [Windows -> Nat]
  BY DEF TypeOK, Request, Bucket
<1> USE DEF Numbers, Bucket
<1>1. ASSUME NEW r \in Reqs, Arrive(r)
      PROVE  Numbers'
  <2>1. UNCHANGED <<count, life>> /\ req'[r].n = 0
    BY <1>1, ArriveFields DEF Arrive, Shape, At
  <2> QED
    BY <1>1, <2>1, ArriveFields DEF Others
<1>2. ASSUME NEW r \in Reqs, Incr(r)
      PROVE  Numbers'
  <2>1. /\ life' = life /\ count' = [count EXCEPT ![Bucket(r)] = @ + 1]
        /\ req[r].n = 0
    BY <1>2, IncrFields DEF Incr, Shape, At
  <2>2. CASE req'[r].n = 0
    BY <1>2, <1>t, <2>1, <2>2, IncrFields DEF Others
  <2>3. CASE req'[r].n = count[Bucket(r)] + 1 /\ req'[r].life = life[Bucket(r)]
    <3>1. /\ Bucket(r)' = Bucket(r) /\ \A q \in Reqs \ {r} : req'[q] = req[q]
      BY <1>2, IncrFields DEF Others
    <3>2. \A q \in Reqs : /\ req'[q].n > 0 => req'[q].life <= life'[Bucket(q)']
                          /\ req'[q].n > 0 /\ req'[q].life = life'[Bucket(q)']
                             => req'[q].n <= count'[Bucket(q)']
      BY <1>t, <2>1, <2>3, <3>1
    <3>3. \A q \in Reqs \ {r} :
            req[q].n > 0 /\ Bucket(q) = Bucket(r) /\ req[q].life = req'[r].life
              => req[q].n < req'[r].n
      BY <1>t, <2>3
    <3> QED
      BY <1>t, <3>1, <3>2, <3>3
  <2> QED
    BY <1>2, <2>1, <2>2, <2>3, IncrFields
<1>3. ASSUME NEW r \in Reqs, Moves(r), UNCHANGED <<count, life>>
      PROVE  Numbers'
  BY <1>3 DEF Moves, Keeps, Others
<1>4. ASSUME NEW b \in Windows, Gone(b),
             \A r \in Reqs : /\ req'[r].n = req[r].n /\ req'[r].life = req[r].life
                             /\ req'[r].bucket = req[r].bucket
      PROVE  Numbers'
  <2>1. \A r \in Reqs : req[r].n > 0 /\ Bucket(r) = b => req[r].life < life'[b]
    BY <1>t, <1>4 DEF Gone
  <2> QED
    BY <1>t, <1>4, <2>1 DEF Gone
<1>5. ASSUME NEW r \in Reqs, Delete(r)
      PROVE  Numbers'
  <2>1. \A q \in Reqs : /\ req'[q].n = req[q].n /\ req'[q].life = req[q].life
                        /\ req'[q].bucket = req[q].bucket
    BY <1>5, DeleteFields DEF Moves, Keeps, Others
  <2> QED
    BY <1>5, <1>t, <1>4, <2>1, DeleteFields
<1>6. ASSUME NEW b \in Windows, ExpireKey(b)
      PROVE  Numbers'
  BY <1>6, <1>4 DEF ExpireKey
<1>7. CASE UNCHANGED <<req, count, life>>
  BY <1>7
<1> QED
  BY <1>1, <1>2, <1>3, <1>5, <1>6, <1>7, ExpireFields, FailFields
  DEF Next, Handler, Tick, vars

(* A key that restarts in its own window had a failed EXPIRE.              *)
LEMMA StepRestarts == TypeOK /\ Shape /\ Restarts /\ [Next]_vars => Restarts'
<1> SUFFICES ASSUME TypeOK, Shape, Restarts, [Next]_vars
             PROVE  Restarts'
  OBVIOUS
<1>t. /\ \A r \in Reqs : Bucket(r) \in Windows
      /\ \A b \in Windows : life[b] \in Nat
      /\ life \in [Windows -> Nat] /\ window \in Nat /\ Windows \subseteq Nat
  BY RateAssumption DEF TypeOK, Request, Bucket, Windows
<1> USE DEF Restarts, Bucket
(* Who had a failed EXPIRE keeps it, in its bucket.                        *)
<1>m. ASSUME \A q \in Reqs : req[q].faulted =>
               req'[q].faulted /\ req'[q].bucket = req[q].bucket,
             window' >= window, window' \in Nat, life' = life
      PROVE  Restarts'
  <2> SUFFICES ASSUME NEW b \in Windows, b >= window', life'[b] > 0
               PROVE  \E q \in Reqs : req'[q].bucket = b /\ req'[q].faulted
    OBVIOUS
  <2>1. b >= window /\ life[b] > 0
    BY <1>m, <1>t
  <2> QED
    BY <1>m, <2>1
<1>1. ASSUME NEW r \in Reqs, Arrive(r)
      PROVE  Restarts'
  <2>1. \A q \in Reqs : req[q].faulted =>
          req'[q].faulted /\ req'[q].bucket = req[q].bucket
    BY <1>1, ArriveFields DEF Others, Shape
  <2> QED
    BY <1>1, <1>m, <1>t, <2>1 DEF Arrive
<1>2. ASSUME NEW r \in Reqs, Incr(r)
      PROVE  Restarts'
  <2>1. \A q \in Reqs : req[q].faulted =>
          req'[q].faulted /\ req'[q].bucket = req[q].bucket
    BY <1>2, IncrFields DEF Others
  <2> QED
    BY <1>2, <1>m, <1>t, <2>1 DEF Incr
<1>a. ASSUME NEW r \in Reqs, Moves(r)
      PROVE  \A q \in Reqs : req[q].faulted =>
               req'[q].faulted /\ req'[q].bucket = req[q].bucket
  BY <1>a DEF Moves, Keeps, Others
<1>3. ASSUME NEW r \in Reqs, Moves(r), UNCHANGED <<window, life>>
      PROVE  Restarts'
  BY <1>3, <1>a, <1>m, <1>t
<1>5. ASSUME NEW r \in Reqs, Delete(r)
      PROVE  Restarts'
  <2>1. Moves(r) /\ Gone(Bucket(r)) /\ window' = window /\ req[r].faulted
    BY <1>5, DeleteFields DEF Shape
  <2>2. req'[r].faulted /\ req'[r].bucket = Bucket(r)
    BY <1>a, <2>1
  <2>3. \A b \in Windows \ {Bucket(r)} : life'[b] = life[b]
    BY <1>t, <2>1 DEF Gone
  <2> QED
    BY <1>a, <1>t, <2>1, <2>2, <2>3
<1>6. ASSUME NEW b \in Windows, ExpireKey(b)
      PROVE  Restarts'
  <2>1. window' = window /\ req' = req /\ window > b
        /\ \A c \in Windows \ {b} : life'[c] = life[c]
    BY <1>6, <1>t DEF ExpireKey, Gone
  <2> QED
    BY <1>t, <2>1
<1>7. CASE Tick
  BY <1>7, <1>m, <1>t DEF Tick
<1>8. CASE UNCHANGED vars
  BY <1>8, <1>m, <1>t DEF vars
<1> QED
  BY <1>1, <1>2, <1>3, <1>5, <1>6, <1>7, <1>8, ExpireFields, FailFields DEF Next, Handler

(* A step that keeps what its requests counted keeps the INCRs executed.   *)
LEMMA SameHits ==
  ASSUME \A q \in Reqs : /\ req'[q].hits = req[q].hits
                         /\ req[q].hits = 0 \/ req'[q].bucket = req[q].bucket,
         NEW b
  PROVE  Hits(b)' = Hits(b)
<1>1. \A q \in Reqs : req[q].hits = 0 => 1 .. req[q].hits = {}
  OBVIOUS
<1>2. ASSUME NEW e \in Hits(b)
      PROVE  e \in Hits(b)'
  <2>1. PICK q \in Reqs : Bucket(q) = b /\ e \in {<<q, k>> : k \in 1 .. req[q].hits}
    BY <1>2 DEF Hits
  <2> QED
    BY <1>1, <2>1 DEF Hits, Bucket
<1>3. ASSUME NEW e \in Hits(b)'
      PROVE  e \in Hits(b)
  <2>1. PICK q \in Reqs : /\ req'[q].bucket = b
                          /\ e \in {<<q, k>> : k \in 1 .. req'[q].hits}
    BY <1>3 DEF Hits, Bucket
  <2> QED
    BY <1>1, <2>1 DEF Hits, Bucket
<1> QED
  BY <1>2, <1>3

(* An INCR adds itself to those executed for its window.                   *)
LEMMA OneMoreHit ==
  ASSUME TypeOK, NEW r \in Reqs, Incr(r), NEW b,
         IsFiniteSet(Hits(b))
  PROVE  /\ IsFiniteSet(Hits(b)') /\ Cardinality(Hits(b)) <= Cardinality(Hits(b)')
         /\ b = Bucket(r) => Cardinality(Hits(b)') = Cardinality(Hits(b)) + 1
<1> DEFINE h == <<r, req[r].hits + 1>>
           new == IF b = Bucket(r) THEN {h} ELSE {}
<1>1. /\ \A q \in Reqs \ {r} : req'[q] = req[q]
      /\ req'[r].bucket = req[r].bucket /\ req'[r].hits = req[r].hits + 1
      /\ req[r].hits \in Nat
  BY IncrFields DEF Others, TypeOK, Request
<1>2. Hits(b)' = Hits(b) \cup new
  <2>1. 1 .. (req[r].hits + 1) = (1 .. req[r].hits) \cup {req[r].hits + 1}
    BY <1>1
  <2>2. \A q \in Reqs : Bucket(q)' = Bucket(q)
    BY <1>1 DEF Bucket
  <2>3. ASSUME NEW e
        PROVE  e \in Hits(b)' <=> e \in Hits(b) \cup new
    <3>1. e \in Hits(b)' <=>
            \E q \in Reqs : Bucket(q) = b /\ \E k \in 1 .. req'[q].hits : e = <<q, k>>
      BY <2>2 DEF Hits
    <3>2. e \in Hits(b) <=>
            \E q \in Reqs : Bucket(q) = b /\ \E k \in 1 .. req[q].hits : e = <<q, k>>
      BY DEF Hits
    <3>3. \A q \in Reqs \ {r} : 1 .. req'[q].hits = 1 .. req[q].hits
      BY <1>1
    <3>4. (\E k \in 1 .. req'[r].hits : e = <<r, k>>) <=>
            e = h \/ \E k \in 1 .. req[r].hits : e = <<r, k>>
      BY <1>1, <2>1
    <3> QED
      BY <3>1, <3>2, <3>3, <3>4
  <2> QED
    BY <2>3
<1>3. h \notin Hits(b)
  <2> SUFFICES ASSUME h \in Hits(b)
               PROVE  FALSE
    OBVIOUS
  <2>1. PICK q \in Reqs : \E k \in 1 .. req[q].hits : h = <<q, k>>
    BY DEF Hits
  <2> QED
    BY <1>1, <2>1
<1>4. Cardinality(Hits(b)) \in Nat
  BY FS_CardinalityType
<1>5. IsFiniteSet(Hits(b) \cup {h}) /\ Cardinality(Hits(b) \cup {h}) = Cardinality(Hits(b)) + 1
  BY <1>3, FS_AddElement
<1>6. CASE b = Bucket(r)
  BY <1>2, <1>4, <1>5, <1>6
<1>7. CASE b # Bucket(r)
  <2>1. Hits(b)' = Hits(b)
    BY <1>2, <1>7
  <2> QED
    BY <1>4, <1>7, <2>1
<1> QED
  BY <1>6, <1>7

LEMMA StepExecuted == TypeOK /\ Shape /\ Executed /\ [Next]_vars => Executed'
<1> SUFFICES ASSUME TypeOK, Shape, Executed, [Next]_vars
             PROVE  Executed'
  OBVIOUS
<1>t. /\ count \in [Windows -> Nat]
      /\ \A r \in Reqs : /\ Bucket(r) \in Windows /\ Bucket(r)' \in Windows
                         /\ req[r].n \in Nat /\ req[r].hits \in Nat
  BY StepTypes DEF TypeOK, Request, Bucket
<1>c. \A b \in Windows : Cardinality(Hits(b)) \in Nat
  BY FS_CardinalityType DEF Executed
(* Counters that did not grow, over the same INCRs.                        *)
<1>m. ASSUME \A b \in Windows : count'[b] \in {0, count[b]},
             \A q \in Reqs : /\ req'[q].hits = req[q].hits
                             /\ req[q].hits = 0 \/ req'[q].bucket = req[q].bucket
                             /\ req'[q].n = 0 \/ (/\ req'[q].n = req[q].n
                                                  /\ req'[q].bucket = req[q].bucket)
      PROVE  Executed'
  <2>1. \A b \in Windows : Hits(b)' = Hits(b)
    BY <1>m, SameHits
  <2>2. ASSUME NEW q \in Reqs
        PROVE  req'[q].n <= Cardinality(Hits(Bucket(q)'))
    <3>1. CASE req'[q].n = 0
      BY <1>c, <1>t, <3>1
    <3>2. CASE req'[q].n = req[q].n /\ req'[q].bucket = req[q].bucket
      BY <3>2 DEF Executed, Bucket
    <3> QED
      BY <1>m, <3>1, <3>2
  <2>3. \A b \in Windows : IsFiniteSet(Hits(b)') /\ count'[b] <= Cardinality(Hits(b)')
    BY <1>c, <1>m, <2>1 DEF Executed
  <2> QED
    BY <1>t, <2>1, <2>2, <2>3 DEF Executed
<1>1. ASSUME NEW r \in Reqs, Arrive(r)
      PROVE  Executed'
  <2>1. count' = count
    BY <1>1 DEF Arrive
  <2> QED
    BY <1>1, <1>m, <2>1, ArriveFields DEF Others, Shape, At
<1>2. ASSUME NEW r \in Reqs, Incr(r)
      PROVE  Executed'
  <2>1. /\ count' = [count EXCEPT ![Bucket(r)] = @ + 1] /\ req[r].n = 0
        /\ \A q \in Reqs : Bucket(q)' = Bucket(q)
        /\ \A q \in Reqs \ {r} : req'[q] = req[q]
        /\ req'[r].n \in {0, count[Bucket(r)] + 1}
    BY <1>2, IncrFields DEF Incr, Shape, At, Others, Bucket
  <2>2. \A b \in Windows :
          /\ IsFiniteSet(Hits(b)') /\ Cardinality(Hits(b)') \in Nat
          /\ Cardinality(Hits(b)) <= Cardinality(Hits(b)')
          /\ b = Bucket(r) => Cardinality(Hits(b)') = Cardinality(Hits(b)) + 1
    BY <1>2, OneMoreHit, FS_CardinalityType DEF Executed
  <2>3. \A b \in Windows : count'[b] <= Cardinality(Hits(b)')
    BY <1>c, <1>t, <2>1, <2>2 DEF Executed
  <2>4. \A q \in Reqs : req'[q].n <= Cardinality(Hits(Bucket(q))')
    BY <1>c, <1>t, <2>1, <2>2 DEF Executed
  <2> QED
    BY <2>1, <2>2, <2>3, <2>4 DEF Executed
<1>3. ASSUME NEW r \in Reqs, Moves(r), \A b \in Windows : count'[b] \in {0, count[b]}
      PROVE  Executed'
  BY <1>3, <1>m DEF Moves, Keeps, Others
<1>4. ASSUME NEW b \in Windows, Gone(b)
      PROVE  \A c \in Windows : count'[c] \in {0, count[c]}
  BY <1>4, <1>t DEF Gone
<1>5. ASSUME NEW r \in Reqs, Delete(r)
      PROVE  Executed'
  BY <1>3, <1>4, <1>5, <1>t, DeleteFields
<1>6. ASSUME NEW b \in Windows, ExpireKey(b)
      PROVE  Executed'
  BY <1>4, <1>6, <1>m DEF ExpireKey
<1>7. CASE UNCHANGED <<req, count>>
  BY <1>7, <1>m
<1> QED
  BY <1>1, <1>2, <1>3, <1>5, <1>6, <1>7, ExpireFields, FailFields
  DEF Next, Handler, Tick, vars

(* A counter without TTL has somebody to answer for it.                    *)
Answerable(r, b) ==
  /\ Bucket(r) = b
  /\ \/ req[r].pc \in {"expire", "delete"} /\ req[r].life = life[b]
     \/ Lost(r)

LEMMA StepHasTTL == TypeOK /\ Shape /\ CounterHasTTL /\ [Next]_vars => CounterHasTTL'
<1> SUFFICES ASSUME TypeOK, Shape, CounterHasTTL, [Next]_vars,
                    NEW b \in Windows, count'[b] > 0, ~ ttl'[b]
             PROVE  \E r \in Reqs : Answerable(r, b)'
  BY DEF CounterHasTTL, Answerable, Bucket, Lost
<1>t. /\ \A r \in Reqs : Bucket(r) \in Windows /\ req[r].hits \in Nat
      /\ \A c \in Windows : count[c] \in Nat
      /\ count \in [Windows -> Nat] /\ life \in [Windows -> Nat]
      /\ ttl \in [Windows -> BOOLEAN]
  BY DEF TypeOK, Request, Bucket
<1>h. count[b] > 0 /\ ~ ttl[b] => \E r \in Reqs : Answerable(r, b)
  BY DEF CounterHasTTL, Answerable
<1> USE DEF Answerable, Bucket, Lost
<1>1. ASSUME NEW r \in Reqs, Arrive(r)
      PROVE  \E q \in Reqs : Answerable(q, b)'
  <2>1. PICK q \in Reqs : Answerable(q, b)
    BY <1>1, <1>h DEF Arrive
  <2>2. q # r
    BY <1>1, <2>1, ArriveFields DEF Shape, At
  <2>3. req'[q] = req[q] /\ life' = life
    BY <1>1, <2>2, ArriveFields DEF Arrive, Others
  <2> QED
    BY <2>1, <2>3
<1>2. ASSUME NEW r \in Reqs, Incr(r)
      PROVE  \E q \in Reqs : Answerable(q, b)'
  <2>1. /\ count' = [count EXCEPT ![Bucket(r)] = @ + 1] /\ UNCHANGED <<ttl, life>>
        /\ At(r, "incr")
    BY <1>2, IncrFields DEF Incr
  <2>2. CASE Bucket(r) = b /\ count[b] = 0
    <3>1. Answerable(r, b)'
      BY <1>2, <1>t, <2>1, <2>2, IncrFields
    <3> QED
      BY <3>1
  <2>3. CASE count[b] > 0
    <3>1. PICK q \in Reqs : Answerable(q, b)
      BY <1>h, <2>1, <2>3
    <3>2. CASE q = r
      <4>1. req'[r].hits > 1
        BY <1>2, <1>t, <2>1, <3>1, <3>2, IncrFields DEF At
      <4> QED
        BY <1>2, <3>1, <3>2, <4>1, IncrFields
    <3>3. CASE q # r
      BY <1>2, <2>1, <3>1, <3>3, IncrFields DEF Others
    <3> QED
      BY <3>2, <3>3
  <2> QED
    BY <1>t, <2>1, <2>2, <2>3
<1>a. ASSUME NEW r \in Reqs, Moves(r), UNCHANGED life, NEW q \in Reqs, Answerable(q, b),
             q = r => req'[r].pc \in {"delete", "failed"}
      PROVE  Answerable(q, b)'
  <2>1. CASE q # r
    BY <1>a, <2>1 DEF Moves, Others
  <2>2. CASE q = r
    BY <1>a, <1>t, <2>2 DEF Moves, Keeps, Shape, At, Waiting, Verdict
  <2> QED
    BY <2>1, <2>2
<1>3. ASSUME NEW r \in Reqs, Expire(r)
      PROVE  \E q \in Reqs : Answerable(q, b)'
  <2>1. Moves(r) /\ UNCHANGED <<count, life>>
    BY <1>3, ExpireFields
  <2>2. ~ ttl[b] /\ (req'[r].pc = "delete" \/ Bucket(r) # b)
    BY <1>3, <1>t, <2>1, ExpireFields
  <2>3. PICK q \in Reqs : Answerable(q, b)
    BY <1>h, <2>1, <2>2
  <2> QED
    BY <1>a, <2>1, <2>2, <2>3 DEF Verdict
<1>4. ASSUME NEW c \in Windows, Gone(c)
      PROVE  c # b /\ count[b] > 0 /\ ~ ttl[b] /\ life'[b] = life[b]
  BY <1>4, <1>t DEF Gone
<1>5. ASSUME NEW r \in Reqs, Delete(r)
      PROVE  \E q \in Reqs : Answerable(q, b)'
  <2>1. Moves(r) /\ Gone(Bucket(r))
    BY <1>5, DeleteFields
  <2>2. Bucket(r) # b /\ count[b] > 0 /\ ~ ttl[b] /\ life'[b] = life[b]
    BY <1>4, <1>t, <2>1
  <2>3. PICK q \in Reqs : Answerable(q, b)
    BY <1>h, <2>2
  <2>4. q # r
    BY <2>2, <2>3
  <2> QED
    BY <2>1, <2>2, <2>3, <2>4 DEF Moves, Others
<1>6. ASSUME NEW r \in Reqs, Fail(r)
      PROVE  \E q \in Reqs : Answerable(q, b)'
  <2>1. PICK q \in Reqs : Answerable(q, b)
    BY <1>6, <1>h, FailFields
  <2> QED
    BY <1>6, <1>a, <2>1, FailFields DEF Verdict
<1>7. ASSUME NEW c \in Windows, ExpireKey(c)
      PROVE  \E q \in Reqs : Answerable(q, b)'
  BY <1>7, <1>4, <1>h DEF ExpireKey
<1>8. CASE UNCHANGED <<req, count, ttl, life>>
  BY <1>8, <1>h
<1> QED
  BY <1>1, <1>2, <1>3, <1>5, <1>6, <1>7, <1>8 DEF Next, Handler, Tick, vars

-----------------------------------------------------------------------------
THEOREM Invariance == Spec => []IInv
<1>1. IInv /\ [Next]_vars => IInv'
  BY StepTypes, StepShape, StepNumbers, StepRestarts, StepExecuted, StepHasTTL DEF IInv
<1> QED
  BY <1>1, InitInvariant, PTL DEF Spec

(* Requests that read different values of 1 .. Limit are at most Limit.    *)
LEMMA Counting ==
  ASSUME NEW S \in SUBSET Reqs, TypeOK, Shape,
         \A r \in S : At(r, "admitted"),
         \A r, q \in S : req[r].n = req[q].n => r = q
  PROVE  Cardinality(S) <= Limit
<1> DEFINE number == [r \in S |-> req[r].n]
<1>1. number \in Injection(S, 1 .. Limit)
  BY DEF Injection, IsInjective, Shape
<1>2. IsFiniteSet(1 .. Limit) /\ Cardinality(1 .. Limit) = Limit
  BY FS_Interval, RateAssumption
<1> QED
  BY <1>1, <1>2, FS_Injection

LEMMA Admissions == IInv => LimitPerLife /\ LimitPerWindow
<1> SUFFICES ASSUME IInv
             PROVE  LimitPerLife /\ LimitPerWindow
  OBVIOUS
<1>1. TypeOK /\ Shape /\ Numbers /\ Restarts
  BY DEF IInv
<1>2. \A r \in Reqs : At(r, "admitted") => req[r].n > 0
  BY <1>1, RateAssumption DEF Shape
<1>3. LimitPerLife
  <2> SUFFICES ASSUME NEW b \in Windows, NEW l \in 0 .. life[b]
               PROVE  Cardinality({r \in Admitted(b) : req[r].life = l}) <= Limit
    BY DEF LimitPerLife
  <2> DEFINE S == {r \in Admitted(b) : req[r].life = l}
  <2>1. /\ S \in SUBSET Reqs /\ \A r \in S : At(r, "admitted")
        /\ \A r, q \in S : req[r].n = req[q].n => r = q
    BY <1>1, <1>2 DEF Admitted, Numbers
  <2> HIDE DEF S
  <2> QED
    BY <1>1, <2>1, Counting DEF S
<1>4. LimitPerWindow
  <2> SUFFICES ASSUME NEW b \in Windows, window = b,
                      \A r \in Reqs : Bucket(r) = b => ~ req[r].faulted
               PROVE  Cardinality(Admitted(b)) <= Limit
    BY DEF LimitPerWindow
  <2>1. b \in Nat /\ life[b] \in Nat /\ \A r \in Reqs : req[r].life \in Nat
    BY <1>1 DEF TypeOK, Request, Windows
  <2>2. life[b] = 0
    BY <1>1, <2>1 DEF Restarts
  <2>3. \A r \in Admitted(b) : req[r].life = 0
    BY <1>1, <1>2, <2>1, <2>2 DEF Numbers, Admitted
  <2>4. /\ Admitted(b) \in SUBSET Reqs /\ \A r \in Admitted(b) : At(r, "admitted")
        /\ \A r, q \in Admitted(b) : req[r].n = req[q].n => r = q
    BY <1>1, <1>2, <2>3 DEF Admitted, Numbers
  <2> QED
    BY <1>1, <2>4, Counting
<1> QED
  BY <1>3, <1>4

(* Every reachable state is well typed; a TTL is only on an existing key.  *)
THEOREM TypeCorrect == Spec => []TypeOK
  BY Invariance, PTL DEF IInv

(* No life of a counter admits more than Limit requests, in whatever order *)
(* INCR, EXPIRE, DEL and expiry take effect.                               *)
THEOREM LivesAreLimited == Spec => []LimitPerLife
  BY Invariance, Admissions, PTL

(* A window without a failed EXPIRE admits at most Limit requests.         *)
THEOREM WindowsAreLimited == Spec => []LimitPerWindow
  BY Invariance, Admissions, PTL

(* Whoever is refused came after more than Limit INCRs for its own window. *)
THEOREM RefusalsAreEarned == Spec => []NoEarlyRefusal
<1>1. IInv => NoEarlyRefusal
  <2> SUFFICES ASSUME IInv, NEW r \in Reqs, At(r, "refused")
               PROVE  Limit < Cardinality(Hits(Bucket(r)))
    BY DEF NoEarlyRefusal
  <2>1. Limit < req[r].n /\ req[r].n <= Cardinality(Hits(Bucket(r)))
    BY DEF IInv, Shape, Executed
  <2>2. /\ Limit \in Nat /\ req[r].n \in Nat
        /\ Cardinality(Hits(Bucket(r))) \in Nat
    BY RateAssumption, FS_CardinalityType DEF IInv, TypeOK, Request, Executed, Bucket
  <2> QED
    BY <2>1, <2>2
<1> QED
  BY <1>1, Invariance, PTL

(* A counter is left without TTL only by a request that failed, crashed or *)
(* counted twice.                                                          *)
THEOREM CountersHaveTTL == Spec => []CounterHasTTL
  BY Invariance, PTL DEF IInv

=============================================================================
