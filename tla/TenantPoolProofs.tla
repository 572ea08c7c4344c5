-------------------------- MODULE TenantPoolProofs --------------------------
(***************************************************************************)
(* TLAPS proofs about TenantPool, for any requests, tenants, statuses of   *)
(* AppErrors, and sizes of the pool.                                       *)
(*                                                                         *)
(* The pool and the requests are looked at apart: what a step may do to    *)
(* the tenants of connections (Pools), and what it leaves of its request   *)
(* (Becomes, where Told says what the trail of a request must tell).       *)
(***************************************************************************)
EXTENDS TenantPool, SequenceTheorems, FiniteSetTheorems, TLAPS

-----------------------------------------------------------------------------
(* The inductive invariant.                                                *)

(* Before it is answered a request has nothing to flush; then its events   *)
(* tell the answer, if it is an error, and finally its rows do.            *)
Told(r) ==
  /\ req[r].pc = "idle" => ~ req[r].served
  /\ req[r].pc \notin {"exit", "done"} => req[r].flush = "none"
  /\ req[r].flush \in {"wait", "write"} /\ req[r].answer >= 400 =>
       \E e \in Event : req[r].events = {e} /\ e.http = req[r].answer /\ e.user = req[r].user
  /\ req[r].flush = "end" /\ req[r].answer >= 400 /\ ~ req[r].lost =>
       \E row \in audit[r] : row.http = req[r].answer /\ row.user = req[r].user

(* Where the connections are, without counting.                            *)
Queued == {idle[k] : k \in DOMAIN idle}

Distinct == \A k, l \in DOMAIN idle : idle[k] = idle[l] => k = l

Holds(r, c) == c \in {req[r].conn, req[r].out}

Kept ==
  /\ Distinct
  /\ \A c \in Queued : tenant[c] # Closed
  /\ \A c \in 1 .. limit :
       tenant[c] # Closed => c \in Queued \/ \E r \in Requests : Holds(r, c)
  /\ \A r \in Requests, c \in 1 .. limit :
       Holds(r, c) => c \notin Queued /\ tenant[c] # Closed
  /\ \A r, q \in Requests, c \in 1 .. limit : Holds(r, c) /\ Holds(q, c) => r = q
  /\ \A r \in Requests : req[r].conn = req[r].out => req[r].conn = NoConn

IInv ==
  /\ TypeOK
  /\ Kept
  /\ \A r \in Requests : Told(r)
  /\ TenantsAreServed
  /\ OneConnectionCarriesLatest

(* The three places that class a status agree on errors.                   *)
LEMMA ClassifiersAgree ==
  ASSUME NEW code \in 400 .. 599
  PROVE  AppStatus(code) = Classify(code) /\ HttpStatus(code) = Classify(code)
BY DEF AppStatus, HttpStatus, Classify, DenyCodes

-----------------------------------------------------------------------------
LEMMA InitInvariant == Init => IInv
<1> SUFFICES ASSUME Init
             PROVE  IInv
  OBVIOUS
<1> USE PoolAssumption DEF Init, Conns, NoConn, Tenants
<1>1. Blank \in Request
  BY DEF Blank, Request, Codes
<1>2. ASSUME NEW r \in Requests
      PROVE  Holding(r) /\ Told(r)
  <2>1. /\ req[r].pc = "idle" /\ req[r].flush = "none" /\ ~ req[r].served
        /\ req[r].conn = 0 /\ req[r].out = 0
    BY DEF Blank
  <2>2. 0 \in 0 .. limit
    OBVIOUS
  <2> QED
    BY <2>1, <2>2 DEF Holding, Told
<1>3. TypeOK
  BY <1>1, <1>2 DEF TypeOK
<1>4. TenantsAreServed /\ OneConnectionCarriesLatest
  BY DEF TenantsAreServed, OneConnectionCarriesLatest
<1>5. Kept
  <2>1. Queued = {} /\ \A r \in Requests, c \in 1 .. limit : ~ Holds(r, c)
    BY DEF Queued, Holds, Blank
  <2> QED
    BY <2>1 DEF Kept, Distinct, Blank
<1> QED
  BY <1>2, <1>3, <1>4, <1>5 DEF IInv

-----------------------------------------------------------------------------
(* The pool.                                                               *)

Settings == Tenants \cup {Fresh, Closed}

(* A step leaves the pool well typed, and puts only t on a connection.     *)
Pools(t) ==
  /\ UNCHANGED <<limit, size>>
  /\ idle' \in Seq(1 .. limit)
  /\ tenant' \in [Conns -> Settings]
  /\ \A c \in Conns : tenant'[c] \in {tenant[c], t, Fresh, Closed}

LEMMA Limits == TypeOK => 1 .. limit \subseteq Conns /\ NoConn \notin Conns /\ NoConn \notin 1 .. limit
BY PoolAssumption DEF TypeOK, Conns, NoConn

LEMMA TakeFields ==
  ASSUME TypeOK, NEW c, NEW t, Take(c, t)
  PROVE  c \in 1 .. limit /\ Pools(Fresh)
<1>1. /\ idle \in Seq(1 .. limit) /\ tenant \in [Conns -> Settings]
      /\ 1 .. limit \subseteq Conns
  BY Limits DEF TypeOK, Settings
<1>2. c \in 1 .. limit /\ t \in {tenant[c], Fresh} /\ idle' \in Seq(1 .. limit)
  BY <1>1, HeadTailProperties DEF Take
<1>3. tenant' = [tenant EXCEPT ![c] = t] /\ UNCHANGED <<limit, size>>
  BY DEF Take
<1>4. t \in Settings
  BY <1>1, <1>2 DEF Settings
<1> QED
  BY <1>1, <1>2, <1>3, <1>4 DEF Pools

LEMMA ReturnFields ==
  ASSUME TypeOK, NEW c \in 1 .. limit, NEW t \in Settings, Return(c, t)
  PROVE  /\ Pools(t)
         /\ tenant'[c] \in {t, Closed}
         /\ \A b \in Conns \ {c} : tenant'[b] = tenant[b]
<1>1. /\ idle \in Seq(1 .. limit) /\ tenant \in [Conns -> Settings]
      /\ c \in Conns /\ Closed \in Settings
  BY Limits DEF TypeOK, Settings
<1>2. idle' \in Seq(1 .. limit) /\ UNCHANGED <<limit, size>>
  <2>1. Append(idle, c) \in Seq(1 .. limit)
    BY <1>1, AppendProperties
  <2> QED
    BY <1>1, <2>1 DEF Return
<1>3. \E s \in {t, Closed} : tenant' = [tenant EXCEPT ![c] = s]
  BY DEF Return
<1> QED
  BY <1>1, <1>2, <1>3 DEF Pools

LEMMA KeepFields ==
  ASSUME TypeOK, NEW c,
         \/ UNCHANGED pool
         \/ c \in 1 .. limit /\ (Return(c, tenant[c]) \/ Discard(c))
  PROVE  Pools(Fresh)
<1>1. /\ idle \in Seq(1 .. limit) /\ tenant \in [Conns -> Settings]
      /\ 1 .. limit \subseteq Conns /\ Closed \in Settings
  BY Limits DEF TypeOK, Settings
<1>2. CASE UNCHANGED pool
  BY <1>1, <1>2 DEF pool, Pools
<1>3. CASE c \in 1 .. limit /\ Return(c, tenant[c])
  <2>1. tenant[c] \in Settings
    BY <1>1, <1>3
  <2>2. Pools(tenant[c]) /\ tenant'[c] \in {tenant[c], Closed}
        /\ \A b \in Conns \ {c} : tenant'[b] = tenant[b]
    BY <1>3, <2>1, ReturnFields
  <2> QED
    BY <2>2 DEF Pools
<1>4. CASE c \in 1 .. limit /\ Discard(c)
  BY <1>1, <1>4 DEF Discard, Pools
<1> QED
  BY <1>2, <1>3, <1>4

-----------------------------------------------------------------------------
(* Connections change hands.                                               *)

Besides(c) == \A b \in (1 .. limit) \ {c} : tenant'[b] = tenant[b]

Takes(c) ==
  /\ c \in 1 .. limit /\ (c \in Queued \/ tenant[c] = Closed)
  /\ tenant'[c] # Closed /\ Queued' = Queued \ {c}
  /\ Besides(c) /\ Distinct'

Gives(c) ==
  /\ \/ tenant'[c] # Closed /\ Queued' = Queued \cup {c}
     \/ tenant'[c] = Closed /\ Queued' = Queued
  /\ Besides(c) /\ Distinct'

LEMMA QueuedInside == TypeOK => Queued \subseteq 1 .. limit
<1>1. TypeOK => DOMAIN idle = 1 .. Len(idle)
  BY DEF TypeOK
<1>2. TypeOK => \A k \in 1 .. Len(idle) : idle[k] \in 1 .. limit
  BY ElementOfSeq DEF TypeOK
<1> QED
  BY <1>1, <1>2 DEF Queued

LEMMA TakeHands ==
  ASSUME TypeOK, Kept, NEW c, NEW t \in Tenants \cup {Fresh}, Take(c, t)
  PROVE  Takes(c)
<1>1. /\ idle \in Seq(1 .. limit) /\ c \in 1 .. limit /\ 1 .. limit \subseteq Conns
      /\ tenant \in [Conns -> Settings] /\ tenant' = [tenant EXCEPT ![c] = t]
      /\ t # Closed /\ Distinct
  <2>1. c \in 1 .. limit /\ idle \in Seq(1 .. limit)
    BY TakeFields DEF TypeOK
  <2>2. 1 .. limit \subseteq Conns
    BY Limits
  <2>3. tenant \in [Conns -> Settings]
    BY DEF TypeOK, Settings
  <2>4. tenant' = [tenant EXCEPT ![c] = t]
    BY DEF Take
  <2>5. t # Closed /\ Distinct
    BY PoolAssumption DEF Kept
  <2> QED
    BY <2>1, <2>2, <2>3, <2>4, <2>5
<1>2. tenant'[c] # Closed /\ Besides(c)
  BY <1>1 DEF Besides
<1>3. CASE idle # <<>> /\ c = Head(idle) /\ idle' = Tail(idle)
  <2>1. /\ DOMAIN idle = 1 .. Len(idle) /\ Len(idle) \in Nat \ {0} /\ idle[1] = c
        /\ DOMAIN idle' = 1 .. Len(idle) - 1
        /\ \A k \in 1 .. Len(idle) - 1 : idle'[k] = idle[k + 1]
    BY <1>1, <1>3, HeadTailProperties
  <2>2. Distinct'
    <3>1. ASSUME NEW k \in 1 .. Len(idle) - 1, NEW l \in 1 .. Len(idle) - 1, idle'[k] = idle'[l]
          PROVE  k = l
      <4>1. k + 1 \in DOMAIN idle /\ l + 1 \in DOMAIN idle /\ idle[k + 1] = idle[l + 1]
        BY <2>1, <3>1
      <4>2. k + 1 = l + 1
        BY <1>1, <4>1 DEF Distinct
      <4> QED
        BY <4>2
    <3> QED
      BY <2>1, <3>1 DEF Distinct
  <2>3. Queued' = Queued \ {c}
    <3>1. ASSUME NEW b \in Queued \ {c}
          PROVE  b \in Queued'
      <4>1. PICK k \in 1 .. Len(idle) : idle[k] = b
        BY <2>1 DEF Queued
      <4>2. k - 1 \in 1 .. Len(idle) - 1 /\ idle'[k - 1] = b
        BY <2>1, <4>1
      <4> QED
        BY <2>1, <4>2 DEF Queued
    <3>2. ASSUME NEW b \in Queued'
          PROVE  b \in Queued \ {c}
      <4>1. PICK k \in 1 .. Len(idle) - 1 : idle'[k] = b
        BY <2>1 DEF Queued
      <4>2. k + 1 \in 1 .. Len(idle) /\ k + 1 # 1 /\ idle[k + 1] = b
        BY <2>1, <4>1
      <4> QED
        BY <1>1, <2>1, <4>2 DEF Queued, Distinct
    <3> QED
      BY <3>1, <3>2
  <2>4. c \in Queued
    BY <2>1 DEF Queued
  <2> QED
    BY <1>1, <1>2, <2>2, <2>3, <2>4 DEF Takes
<1>4. CASE tenant[c] = Closed /\ idle' = idle
  <2>1. c \notin Queued
    BY <1>4 DEF Kept
  <2>2. Queued' = Queued \ {c} /\ Distinct'
    BY <1>1, <1>4, <2>1 DEF Queued, Distinct
  <2> QED
    BY <1>1, <1>2, <1>4, <2>2 DEF Takes
<1> QED
  BY <1>3, <1>4 DEF Take

LEMMA GiveHands ==
  ASSUME TypeOK, Kept, NEW r \in Requests, NEW c \in 1 .. limit, Holds(r, c), NEW t,
         t # Closed, Return(c, t) \/ Discard(c)
  PROVE  Gives(c)
<1>1. /\ idle \in Seq(1 .. limit) /\ c \in Conns /\ 1 .. limit \subseteq Conns
      /\ tenant \in [Conns -> Settings] /\ Distinct /\ c \notin Queued
  BY Limits DEF TypeOK, Settings, Kept
<1>2. CASE idle' = Append(idle, c) /\ tenant' = [tenant EXCEPT ![c] = t]
  <2>1. /\ DOMAIN idle = 1 .. Len(idle) /\ Len(idle) \in Nat
        /\ DOMAIN idle' = 1 .. Len(idle) + 1 /\ idle'[Len(idle) + 1] = c
        /\ \A k \in 1 .. Len(idle) : idle'[k] = idle[k]
    BY <1>1, <1>2, AppendProperties
  <2>2. \A k \in 1 .. Len(idle) : idle[k] # c
    BY <1>1, <2>1 DEF Queued
  <2>3. Distinct'
    BY <1>1, <2>1, <2>2 DEF Distinct
  <2>4. Queued' = Queued \cup {c}
    BY <2>1 DEF Queued
  <2> QED
    BY <1>1, <1>2, <2>3, <2>4 DEF Gives, Besides
<1>3. CASE idle' = idle /\ tenant' = [tenant EXCEPT ![c] = Closed]
  BY <1>1, <1>3 DEF Gives, Besides, Queued, Distinct
<1> QED
  BY <1>2, <1>3 DEF Return, Discard

(* A request keeps its two connections, takes one or gives one.            *)
Swaps(r) ==
  \/ UNCHANGED pool /\ req'[r].conn = req[r].conn /\ req'[r].out = req[r].out
  \/ Takes(req'[r].conn) /\ req[r].conn = NoConn /\ req'[r].out = req[r].out
  \/ Takes(req'[r].out) /\ req[r].out = NoConn /\ req'[r].conn = req[r].conn
  \/ /\ req[r].conn # NoConn /\ Gives(req[r].conn)
     /\ req'[r].conn = NoConn /\ req'[r].out = req[r].out
  \/ /\ req[r].out # NoConn /\ Gives(req[r].out)
     /\ req'[r].out = NoConn /\ req'[r].conn = req[r].conn

LEMMA GiveSwaps ==
  ASSUME TypeOK, Kept, NEW r \in Requests, NEW t,
         \/ /\ req[r].conn # NoConn /\ (Return(req[r].conn, t) \/ Discard(req[r].conn))
            /\ t = tenant[req[r].conn] \/ t # Closed
            /\ req'[r].conn = NoConn /\ req'[r].out = req[r].out
         \/ /\ req[r].out # NoConn /\ (Return(req[r].out, t) \/ Discard(req[r].out))
            /\ t = tenant[req[r].out] \/ t # Closed
            /\ req'[r].out = NoConn /\ req'[r].conn = req[r].conn
  PROVE  Swaps(r)
<1>1. /\ req[r].conn # NoConn => req[r].conn \in 1 .. limit
      /\ req[r].out # NoConn => req[r].out \in 1 .. limit
  BY DEF TypeOK, Holding, NoConn
<1>2. ASSUME NEW c \in 1 .. limit, Holds(r, c), t = tenant[c] \/ t # Closed,
             Return(c, t) \/ Discard(c)
      PROVE  Gives(c)
  BY <1>2, GiveHands DEF Kept
<1> QED
  BY <1>1, <1>2 DEF Swaps, Holds

LEMMA ReleaseSwaps ==
  ASSUME TypeOK, Kept, NEW r \in Requests, Release(r),
         req'[r].conn = NoConn, req'[r].out = req[r].out
  PROVE  Swaps(r)
<1>1. CASE req[r].conn = NoConn /\ UNCHANGED pool
  BY <1>1 DEF Swaps
<1>2. CASE req[r].conn # NoConn /\ Return(req[r].conn, tenant[req[r].conn])
  BY <1>2, GiveSwaps
<1> QED
  BY <1>1, <1>2 DEF Release

-----------------------------------------------------------------------------
(* The requests.                                                           *)

Others(r) == \A q \in Requests \ {r} : req'[q] = req[q] /\ audit'[q] = audit[q]

(* What a step leaves of its request, and of all others.                   *)
Leaves(r) ==
  /\ req' \in [Requests -> Request] /\ audit' \in [Requests -> SUBSET Event]
  /\ Others(r)
  /\ Holding(r)' /\ Told(r)'
  /\ req[r].served => req'[r].served /\ req'[r].tenant = req[r].tenant

Becomes(r, new) ==
  /\ req' \in [Requests -> Request] /\ audit' \in [Requests -> SUBSET Event]
  /\ Others(r) /\ req'[r] = new /\ audit'[r] = audit[r]

LEMMA UpdateFields ==
  ASSUME TypeOK, NEW r \in Requests, NEW new \in Request, Update(r, new)
  PROVE  Becomes(r, new)
BY DEF TypeOK, Update, Others, Becomes

(* A step of the specification, seen apart.                                *)
Quiet(r) == Leaves(r) /\ Swaps(r) /\ Pools(Fresh) /\ latest' = latest
Setting(r) ==
  /\ Leaves(r) /\ Swaps(r) /\ Pools(req[r].tenant) /\ latest' = req[r].tenant
  /\ req'[r].served /\ req'[r].tenant = req[r].tenant
  /\ \E c \in 1 .. limit : tenant'[c] \in {req[r].tenant, Closed}

(* One request's step keeps all connections accounted for.                 *)
LEMMA SwapKeeps ==
  ASSUME TypeOK, Kept, NEW r \in Requests, Others(r), limit' = limit, Swaps(r)
  PROVE  Kept'
<1>0. NoConn \notin 1 .. limit
  BY Limits
<1>1. ASSUME NEW q \in Requests \ {r}
      PROVE  req'[q] = req[q]
  BY DEF Others
<1>2. CASE UNCHANGED pool /\ req'[r].conn = req[r].conn /\ req'[r].out = req[r].out
  <2>1. \A q \in Requests : req'[q].conn = req[q].conn /\ req'[q].out = req[q].out
    BY <1>1, <1>2
  <2>2. Queued' = Queued /\ Distinct' = Distinct
    BY <1>2 DEF Queued, Distinct, pool
  <2> QED
    BY <1>2, <2>1, <2>2 DEF Kept, Holds, pool
<1>3. ASSUME NEW c, Takes(c), req'[r].conn = c \/ req'[r].out = c,
             \/ req[r].conn = NoConn /\ req'[r].conn = c /\ req'[r].out = req[r].out
             \/ req[r].out = NoConn /\ req'[r].out = c /\ req'[r].conn = req[r].conn
      PROVE  Kept'
  <2>1. \A q \in Requests : ~ Holds(q, c)
    BY <1>3 DEF Kept, Takes
  <2>2. ASSUME NEW q \in Requests, NEW b \in 1 .. limit
        PROVE  Holds(q, b)' <=> Holds(q, b) \/ (q = r /\ b = c)
    BY <1>0, <1>1, <1>3 DEF Holds
  <2>3. req'[r].conn = req'[r].out => FALSE
    BY <1>0, <1>3, <2>1 DEF Holds, Takes
  <2>4. \A q \in Requests : req'[q].conn = req'[q].out => req'[q].conn = NoConn
    BY <1>1, <2>3 DEF Kept
  <2>5. /\ c \in 1 .. limit /\ Queued' = Queued \ {c} /\ Distinct' /\ tenant'[c] # Closed
        /\ \A b \in (1 .. limit) \ {c} : tenant'[b] = tenant[b]
    BY <1>3 DEF Takes, Besides
  <2>6. \A b \in Queued' : tenant'[b] # Closed
    BY <2>5, QueuedInside DEF Kept
  <2>7. ASSUME NEW b \in 1 .. limit, tenant'[b] # Closed
        PROVE  b \in Queued' \/ \E q \in Requests : Holds(q, b)'
    BY <2>2, <2>5, <2>7 DEF Kept
  <2>8. ASSUME NEW q \in Requests, NEW b \in 1 .. limit, Holds(q, b)'
        PROVE  b \notin Queued' /\ tenant'[b] # Closed
    BY <2>2, <2>5, <2>8 DEF Kept
  <2>9. ASSUME NEW p \in Requests, NEW q \in Requests, NEW b \in 1 .. limit,
               Holds(p, b)', Holds(q, b)'
        PROVE  p = q
    BY <2>1, <2>2, <2>9 DEF Kept
  <2> QED
    BY <2>4, <2>5, <2>6, <2>7, <2>8, <2>9 DEF Kept
<1>4. ASSUME NEW c \in 1 .. limit, Holds(r, c), Gives(c),
             \/ req[r].conn = c /\ req'[r].conn = NoConn /\ req'[r].out = req[r].out
             \/ req[r].out = c /\ req'[r].out = NoConn /\ req'[r].conn = req[r].conn
      PROVE  Kept'
  <2>1. \A q \in Requests : Holds(q, c) => q = r
    BY <1>4 DEF Kept
  <2>2. req[r].conn # req[r].out
    BY <1>0, <1>4 DEF Kept, Holds
  <2>3. ASSUME NEW q \in Requests, NEW b \in 1 .. limit
        PROVE  Holds(q, b)' <=> Holds(q, b) /\ b # c
    BY <1>0, <1>1, <1>4, <2>1, <2>2 DEF Holds
  <2>4. \A q \in Requests : req'[q].conn = req'[q].out => req'[q].conn = NoConn
    BY <1>1, <1>4 DEF Kept
  <2>5. /\ \/ tenant'[c] # Closed /\ Queued' = Queued \cup {c}
           \/ tenant'[c] = Closed /\ Queued' = Queued
        /\ Distinct' /\ c \notin Queued
        /\ \A b \in (1 .. limit) \ {c} : tenant'[b] = tenant[b]
    BY <1>4 DEF Gives, Besides, Kept
  <2>6. \A b \in Queued' : tenant'[b] # Closed
    BY <2>5, QueuedInside DEF Kept
  <2>7. ASSUME NEW b \in 1 .. limit, tenant'[b] # Closed
        PROVE  b \in Queued' \/ \E q \in Requests : Holds(q, b)'
    BY <2>3, <2>5, <2>7 DEF Kept
  <2>8. ASSUME NEW q \in Requests, NEW b \in 1 .. limit, Holds(q, b)'
        PROVE  b \notin Queued' /\ tenant'[b] # Closed
    BY <2>3, <2>5, <2>8 DEF Kept
  <2>9. ASSUME NEW p \in Requests, NEW q \in Requests, NEW b \in 1 .. limit,
               Holds(p, b)', Holds(q, b)'
        PROVE  p = q
    BY <2>3, <2>9 DEF Kept
  <2> QED
    BY <2>4, <2>5, <2>6, <2>7, <2>8, <2>9 DEF Kept
<1>5. /\ req[r].conn # NoConn => req[r].conn \in 1 .. limit
      /\ req[r].out # NoConn => req[r].out \in 1 .. limit
  BY DEF TypeOK, Holding, NoConn
<1> QED
  BY <1>2, <1>3, <1>4, <1>5 DEF Swaps, Holds

LEMMA StepInvariant ==
  ASSUME IInv, NEW r \in Requests, Quiet(r) \/ Setting(r)
  PROVE  IInv'
<1>t. TypeOK /\ req[r] \in Request /\ 1 .. limit \subseteq Conns
  BY Limits DEF IInv, TypeOK
<1>1. Leaves(r) /\ UNCHANGED <<limit, size>> /\ latest' \in Tenants
  BY <1>t DEF Quiet, Setting, Pools, Request, TypeOK
<1>2. \A q \in Requests : Holding(q)' /\ Told(q)'
  <2>1. ASSUME NEW q \in Requests \ {r}
        PROVE  Holding(q)' /\ Told(q)'
    <3>1. req'[q] = req[q] /\ audit'[q] = audit[q] /\ limit' = limit
      BY <1>1 DEF Leaves, Others
    <3>2. Holding(q) /\ Told(q)
      BY <1>t DEF IInv, TypeOK
    <3> QED
      BY <3>1, <3>2 DEF Holding, Told
  <2> QED
    BY <1>1, <2>1 DEF Leaves
<1>3. TypeOK'
  BY <1>t, <1>1, <1>2 DEF TypeOK, Leaves, Quiet, Setting, Pools, Settings
<1>4. Served \subseteq Served'
  BY <1>1 DEF Served, Leaves, Others
<1>5. TenantsAreServed'
  <2>1. CASE Quiet(r)
    BY <1>4, <2>1 DEF IInv, TenantsAreServed, Quiet, Pools
  <2>2. CASE Setting(r)
    <3>1. req[r].tenant \in Served'
      BY <2>2 DEF Setting, Served
    <3> QED
      BY <1>4, <2>2, <3>1 DEF IInv, TenantsAreServed, Setting, Pools
  <2> QED
    BY <2>1, <2>2
<1>6. OneConnectionCarriesLatest'
  <2>1. limit = 1 => 1 \in Conns /\ \A c \in 1 .. limit : c = 1
    BY <1>t
  <2> QED
    BY <1>1, <2>1 DEF IInv, OneConnectionCarriesLatest, Quiet, Setting, Pools
<1>7. Kept'
  BY <1>t, <1>1, SwapKeeps DEF IInv, Quiet, Setting, Leaves
<1> QED
  BY <1>2, <1>3, <1>5, <1>6, <1>7 DEF IInv

-----------------------------------------------------------------------------
(* Every action is such a step.                                            *)

(* A request that is answered, or not yet: its connection is returned.     *)
LEMMA ReleaseFields ==
  ASSUME TypeOK, NEW r \in Requests, Release(r)
  PROVE  Pools(Fresh)
<1>1. req[r].conn = NoConn \/ req[r].conn \in 1 .. limit
  BY DEF TypeOK, Holding, NoConn
<1> QED
  BY <1>1, KeepFields DEF Release

LEMMA HandlerSteps ==
  ASSUME IInv, NEW r \in Requests, Handler(r) \/ Unprobed(r) \/ \E w \in Tenants : Arrive(r, w)
  PROVE  Quiet(r) \/ Setting(r)
<1>t. /\ TypeOK /\ Kept /\ req[r] \in Request /\ Holding(r) /\ Told(r)
      /\ tenant \in [Conns -> Settings]
      /\ 1 .. limit \subseteq Conns /\ NoConn \notin 1 .. limit /\ NoConn \in 0 .. limit
      /\ 1 .. limit \subseteq 0 .. limit
  BY Limits DEF IInv, TypeOK, Settings, NoConn, Conns
<1>z. 0 \in 0 .. MaxTransactions /\ 200 \in Codes
  BY PoolAssumption DEF Codes
<1>c. /\ req[r].conn = NoConn \/ req[r].conn \in 1 .. limit
      /\ req[r].out = NoConn \/ req[r].out \in 1 .. limit
  BY <1>t DEF Holding, NoConn
<1>1. ASSUME NEW w \in Tenants, Arrive(r, w)
      PROVE  Quiet(r)
  <2>p. PICK pc \in {"route", "open", "readyz"} :
          Update(r, [req[r] EXCEPT !.pc = pc, !.tenant = w])
    BY <1>1 DEF Arrive
  <2> DEFINE new == [req[r] EXCEPT !.pc = pc, !.tenant = w]
  <2>1. new \in Request
    BY <1>t DEF Request
  <2>2. /\ new.pc = pc /\ new.flush = req[r].flush /\ new.served = req[r].served
        /\ new.conn = req[r].conn /\ new.out = req[r].out
    BY <1>t DEF Request
  <2>3. Becomes(r, new)
    BY <1>t, <2>1, <2>p, UpdateFields
  <2>a. req[r].pc = "idle" /\ limit' = limit
    BY <1>1 DEF Arrive, At, pool
  <2>4. Holding(r)' /\ Told(r)'
    <3>1. Holding(r)'
      BY <1>t, <2>2, <2>3, <2>a DEF Becomes, Holding
    <3>2. Told(r)'
      BY <1>t, <2>2, <2>3, <2>a DEF Becomes, Told
    <3> QED
      BY <3>1, <3>2
  <2>5. Pools(Fresh)
    BY <1>1, <1>t, KeepFields DEF Arrive
  <2>s. Swaps(r)
    BY <1>1, <2>2, <2>3 DEF Arrive, Becomes, Swaps
  <2> QED
    BY <1>1, <1>t, <2>2, <2>3, <2>4, <2>5, <2>s DEF Becomes, Quiet, Leaves, Arrive, At, Told
<1>2. CASE Open(r)
  <2> DEFINE pc == IF At(r, "open") THEN "set" ELSE "probe"
  <2>p. pc \in {"set", "probe"}
    OBVIOUS
  <2>1. PICK c \in Conns, t \in Tenants \cup {Fresh} :
          Take(c, t) /\ Update(r, [req[r] EXCEPT !.pc = pc, !.conn = c])
    BY <1>2 DEF Open
  <2> HIDE DEF pc
  <2> DEFINE new == [req[r] EXCEPT !.pc = pc, !.conn = c]
  <2>2. new \in Request
    BY <1>t, <2>p DEF Request
  <2>3. /\ new.pc = pc /\ new.flush = req[r].flush /\ new.served = req[r].served
        /\ new.conn = c /\ new.out = req[r].out /\ new.tenant = req[r].tenant
    BY <1>t DEF Request
  <2>4. c \in 1 .. limit /\ Pools(Fresh)
    BY <1>t, <2>1, TakeFields
  <2>5. Becomes(r, new)
    BY <1>t, <2>1, <2>2, UpdateFields
  <2>6. Holding(r)' /\ Told(r)'
    BY <1>2, <1>t, <2>p, <2>3, <2>4, <2>5 DEF Open, At, Becomes, Holding, Told, Pools
  <2>s. Swaps(r)
    <3>1. Takes(c) /\ req[r].conn = NoConn
      BY <1>2, <1>t, <2>1, TakeHands DEF Open, At, Holding
    <3> QED
      BY <2>3, <2>5, <3>1 DEF Becomes, Swaps
  <2> QED
    BY <1>2, <2>3, <2>4, <2>5, <2>6, <2>s DEF Becomes, Quiet, Leaves, Open
<1>3. CASE SetTenant(r)
  <2>n. PICK n \in 0 .. MaxTransactions :
          Update(r, [req[r] EXCEPT !.pc = "ready", !.conn = NoConn, !.served = TRUE, !.left = n])
    BY <1>3 DEF SetTenant
  <2> DEFINE new == [req[r] EXCEPT !.pc = "ready", !.conn = NoConn, !.served = TRUE, !.left = n]
             c == req[r].conn
             t == req[r].tenant
  <2>1. new \in Request
    BY <1>t DEF Request
  <2>2. /\ new.pc = "ready" /\ new.flush = req[r].flush /\ new.served
        /\ new.conn = NoConn /\ new.out = req[r].out /\ new.tenant = t
    BY <1>t DEF Request
  <2>3. c \in 1 .. limit /\ t \in Tenants
    BY <1>3, <1>c, <1>t DEF SetTenant, At, Holding, Request
  <2>4. Pools(t) /\ tenant'[c] \in {t, Closed}
    BY <1>3, <1>t, <2>3, ReturnFields DEF SetTenant, Settings
  <2>5. Becomes(r, new)
    BY <1>t, <2>1, <2>n, UpdateFields
  <2>6. Holding(r)' /\ Told(r)'
    BY <1>3, <1>t, <2>2, <2>4, <2>5 DEF SetTenant, At, Becomes, Holding, Told, Pools
  <2>s. Swaps(r)
    <3>1. t # Closed /\ c # NoConn /\ Return(c, t)
      BY <1>3, <1>t, <2>3, PoolAssumption DEF SetTenant
    <3> QED
      BY <1>t, <2>2, <2>5, <3>1, GiveSwaps DEF Becomes
  <2>7. Setting(r)
    BY <1>3, <2>2, <2>3, <2>4, <2>5, <2>6, <2>s DEF Becomes, Setting, Leaves, SetTenant
  <2> QED
    BY <2>7
<1>4. CASE Statement(r)
  <2>1. PICK c \in Conns, t \in Tenants \cup {Fresh} :
          Take(c, t) /\ Update(r, [req[r] EXCEPT !.pc = "run", !.conn = c, !.left = @ - 1])
    BY <1>4 DEF Statement
  <2> DEFINE new == [req[r] EXCEPT !.pc = "run", !.conn = c, !.left = @ - 1]
  <2>2. req[r].left - 1 \in 0 .. MaxTransactions
    BY <1>4, <1>t, PoolAssumption DEF Statement, Request
  <2>3. new \in Request
    BY <1>t, <2>2 DEF Request
  <2>4. /\ new.pc = "run" /\ new.flush = req[r].flush /\ new.served = req[r].served
        /\ new.conn = c /\ new.out = req[r].out /\ new.tenant = req[r].tenant
    BY <1>t DEF Request
  <2>5. c \in 1 .. limit /\ Pools(Fresh)
    BY <1>t, <2>1, TakeFields
  <2>6. Becomes(r, new)
    BY <1>t, <2>1, <2>3, UpdateFields
  <2>7. Holding(r)' /\ Told(r)'
    BY <1>4, <1>t, <2>4, <2>5, <2>6 DEF Statement, At, Becomes, Holding, Told, Pools
  <2>s. Swaps(r)
    <3>1. Takes(c) /\ req[r].conn = NoConn
      BY <1>4, <1>t, <2>1, TakeHands DEF Statement, At, Holding
    <3> QED
      BY <2>4, <2>6, <3>1 DEF Becomes, Swaps
  <2> QED
    BY <1>4, <2>4, <2>5, <2>6, <2>7, <2>s DEF Becomes, Quiet, Leaves, Statement
<1>5. CASE Authenticate(r)
  <2> DEFINE new == [req[r] EXCEPT !.user = TRUE]
  <2>1. new \in Request
    BY <1>t DEF Request
  <2>2. /\ new.pc = req[r].pc /\ new.flush = req[r].flush /\ new.served = req[r].served
        /\ new.conn = req[r].conn /\ new.out = req[r].out /\ new.tenant = req[r].tenant
    BY <1>t DEF Request
  <2>3. Becomes(r, new)
    BY <1>5, <1>t, <2>1, UpdateFields DEF Authenticate
  <2>4. Holding(r)' /\ Told(r)'
    <3>1. /\ req'[r].pc = "run" /\ req'[r].conn = req[r].conn /\ req'[r].out = req[r].out
          /\ req'[r].flush = req[r].flush /\ req'[r].served = req[r].served
          /\ req'[r].tenant = req[r].tenant /\ req[r].pc = "run" /\ limit' = limit
      BY <1>5, <2>2, <2>3 DEF Authenticate, At, Becomes, pool
    <3>2. Holding(r)'
      BY <1>t, <3>1 DEF Holding
    <3>3. Told(r)'
      BY <1>t, <3>1 DEF Told
    <3> QED
      BY <3>2, <3>3
  <2>5. Pools(Fresh)
    BY <1>5, <1>t, KeepFields DEF Authenticate
  <2>s. Swaps(r)
    BY <1>5, <2>2, <2>3 DEF Authenticate, Becomes, Swaps
  <2> QED
    BY <1>5, <2>2, <2>3, <2>4, <2>5, <2>s DEF Becomes, Quiet, Leaves, Authenticate
<1>6. CASE EndTransaction(r)
  <2> DEFINE new == [req[r] EXCEPT !.pc = "ready", !.conn = NoConn]
  <2>1. new \in Request
    BY <1>t DEF Request
  <2>2. /\ new.pc = "ready" /\ new.flush = req[r].flush /\ new.served = req[r].served
        /\ new.conn = NoConn /\ new.out = req[r].out /\ new.tenant = req[r].tenant
    BY <1>t DEF Request
  <2>3. Pools(Fresh)
    BY <1>6, <1>c, <1>t, KeepFields DEF EndTransaction, At, Holding
  <2>4. Becomes(r, new)
    BY <1>6, <1>t, <2>1, UpdateFields DEF EndTransaction
  <2>5. Holding(r)' /\ Told(r)'
    BY <1>6, <1>t, <2>2, <2>3, <2>4 DEF EndTransaction, At, Becomes, Holding, Told, Pools
  <2>s. Swaps(r)
    <3>1. req[r].conn # NoConn /\ Return(req[r].conn, tenant[req[r].conn])
      BY <1>6, <1>t DEF EndTransaction, At, Holding
    <3> QED
      BY <1>t, <2>2, <2>4, <3>1, GiveSwaps DEF Becomes
  <2> QED
    BY <1>6, <2>2, <2>3, <2>4, <2>5, <2>s DEF Becomes, Quiet, Leaves, EndTransaction
<1>7. CASE Succeed(r)
  <2>1. PICK own \in {{}, {NewEvent(r, "ok", 0)}} :
          Update(r, [req[r] EXCEPT !.pc = "exit", !.flush = "wait",
                                   !.events = own, !.answer = 200])
    BY <1>7 DEF Succeed
  <2> DEFINE new == [req[r] EXCEPT !.pc = "exit", !.flush = "wait",
                                   !.events = own, !.answer = 200]
  <2>2. NewEvent(r, "ok", 0) \in Event
    BY <1>t DEF NewEvent, Event, Request, Codes
  <2>3. new \in Request
    <3>1. own \in SUBSET Event
      BY <2>2
    <3> QED
      BY <1>t, <1>z, <3>1 DEF Request
  <2>4. /\ new.pc = "exit" /\ new.flush = "wait" /\ new.served = req[r].served /\ new.answer = 200
        /\ new.conn = req[r].conn /\ new.out = req[r].out /\ new.tenant = req[r].tenant
    BY <1>t DEF Request
  <2>5. Becomes(r, new)
    BY <1>t, <2>1, <2>3, UpdateFields
  <2>6. Holding(r)' /\ Told(r)'
    BY <1>7, <1>t, <2>4, <2>5 DEF Succeed, At, Becomes, Holding, Told, pool
  <2>7. Pools(Fresh)
    BY <1>7, <1>t, KeepFields DEF Succeed
  <2>s. Swaps(r)
    BY <1>7, <2>4, <2>5 DEF Succeed, Becomes, Swaps
  <2> QED
    BY <1>7, <2>4, <2>5, <2>6, <2>7, <2>s DEF Becomes, Quiet, Leaves, Succeed
<1>8. CASE Exit(r)
  <2> DEFINE new == [req[r] EXCEPT !.pc = "done", !.conn = NoConn]
  <2>1. new \in Request
    BY <1>t DEF Request
  <2>2. /\ new.pc = "done" /\ new.flush = req[r].flush /\ new.served = req[r].served
        /\ new.conn = NoConn /\ new.out = req[r].out /\ new.tenant = req[r].tenant
        /\ new.answer = req[r].answer /\ new.events = req[r].events /\ new.user = req[r].user
        /\ new.lost = req[r].lost
    BY <1>t DEF Request
  <2>3. Pools(Fresh)
    BY <1>8, <1>t, ReleaseFields DEF Exit
  <2>4. Becomes(r, new)
    BY <1>8, <1>t, <2>1, UpdateFields DEF Exit
  <2>5. Holding(r)' /\ Told(r)'
    BY <1>8, <1>t, <2>2, <2>3, <2>4 DEF Exit, At, Becomes, Holding, Told, Pools
  <2>s. Swaps(r)
    BY <1>8, <1>t, <2>2, <2>4, ReleaseSwaps DEF Exit, Becomes
  <2> QED
    BY <1>8, <2>2, <2>3, <2>4, <2>5, <2>s DEF Becomes, Quiet, Leaves, Exit
<1>9. CASE Probed(r)
  <2> DEFINE new == [req[r] EXCEPT !.pc = "exit", !.flush = "wait",
                                   !.conn = NoConn, !.answer = 200]
  <2>1. new \in Request
    BY <1>t, <1>z DEF Request
  <2>2. /\ new.pc = "exit" /\ new.flush = "wait" /\ new.served = req[r].served
        /\ new.conn = NoConn /\ new.out = req[r].out /\ new.tenant = req[r].tenant
        /\ new.answer = 200
    BY <1>t DEF Request
  <2>3. Pools(Fresh)
    BY <1>9, <1>c, <1>t, KeepFields DEF Probed, At, Holding
  <2>4. Becomes(r, new)
    BY <1>9, <1>t, <2>1, UpdateFields DEF Probed
  <2>5. Holding(r)' /\ Told(r)'
    BY <1>9, <1>t, <2>2, <2>3, <2>4 DEF Probed, At, Becomes, Holding, Told, Pools
  <2>s. Swaps(r)
    <3>1. /\ req[r].conn # NoConn
          /\ Return(req[r].conn, tenant[req[r].conn]) \/ Discard(req[r].conn)
      BY <1>9, <1>t DEF Probed, At, Holding
    <3>2. req'[r].conn = NoConn /\ req'[r].out = req[r].out
      BY <2>2, <2>4 DEF Becomes
    <3> QED
      BY <1>t, <3>1, <3>2, GiveSwaps
  <2> QED
    BY <1>9, <2>2, <2>3, <2>4, <2>5, <2>s DEF Becomes, Quiet, Leaves, Probed
<1>10. CASE Unprobed(r)
  <2> DEFINE new == [req[r] EXCEPT !.pc = "exit", !.flush = "wait", !.answer = 200]
  <2>1. new \in Request
    BY <1>t, <1>z DEF Request
  <2>2. /\ new.pc = "exit" /\ new.flush = "wait" /\ new.served = req[r].served
        /\ new.conn = req[r].conn /\ new.out = req[r].out /\ new.tenant = req[r].tenant
        /\ new.answer = 200
    BY <1>t DEF Request
  <2>3. Pools(Fresh)
    BY <1>10, <1>t, KeepFields DEF Unprobed
  <2>4. Becomes(r, new)
    BY <1>10, <1>t, <2>1, UpdateFields DEF Unprobed
  <2>5. Holding(r)' /\ Told(r)'
    BY <1>10, <1>t, <2>2, <2>3, <2>4 DEF Unprobed, At, Becomes, Holding, Told, Pools
  <2>s. Swaps(r)
    BY <1>10, <2>2, <2>4 DEF Unprobed, Becomes, Swaps
  <2> QED
    BY <1>10, <2>2, <2>3, <2>4, <2>5, <2>s DEF Becomes, Quiet, Leaves, Unprobed
<1> QED
  BY <1>1, <1>2, <1>3, <1>4, <1>5, <1>6, <1>7, <1>8, <1>9, <1>10 DEF Handler

(* An answered exception: its event tells the status and the user.         *)
LEMMA CaughtStep ==
  ASSUME IInv, NEW r \in Requests, req[r].pc \in {"route", "open", "ready", "run"},
         NEW status \in {"ok", "deny", "error"}, NEW code \in Codes,
         Caught(r, NewEvent(r, status, code), code)
  PROVE  Quiet(r)
<1> DEFINE event == NewEvent(r, status, code)
           new == [req[r] EXCEPT !.pc = "done", !.flush = "wait", !.left = 0,
                                 !.conn = NoConn, !.events = {event}, !.answer = code]
<1>t. /\ TypeOK /\ Kept /\ req[r] \in Request /\ Holding(r) /\ Told(r)
      /\ 0 \in 0 .. MaxTransactions /\ NoConn \in 0 .. limit
  BY PoolAssumption DEF IInv, TypeOK, NoConn, Conns
<1>1. event \in Event /\ event.http = code /\ event.user = req[r].user
  BY <1>t DEF NewEvent, Event, Request
<1>2. new \in Request
  <2>1. {event} \in SUBSET Event
    BY <1>1
  <2> QED
    BY <1>t, <2>1 DEF Request
<1>3. /\ new.pc = "done" /\ new.flush = "wait" /\ new.served = req[r].served
      /\ new.conn = NoConn /\ new.out = req[r].out /\ new.tenant = req[r].tenant
      /\ new.answer = code /\ new.events = {event} /\ new.user = req[r].user
  BY <1>t DEF Request
<1> HIDE DEF new, event
<1>4. Becomes(r, new) /\ latest' = latest
  BY <1>t, <1>2, UpdateFields DEF Caught, new, event
<1>5. Pools(Fresh)
  BY <1>t, ReleaseFields DEF Caught
<1>6. Holding(r)'
  BY <1>t, <1>3, <1>4, <1>5 DEF Becomes, Holding, Told, Pools
<1>7. Told(r)'
  BY <1>t, <1>1, <1>3, <1>4 DEF Becomes, Told
<1>8. Swaps(r)
  BY <1>t, <1>3, <1>4, ReleaseSwaps DEF Caught, Becomes
<1> QED
  BY <1>3, <1>4, <1>5, <1>6, <1>7, <1>8 DEF Becomes, Quiet, Leaves

LEMMA RaiseSteps ==
  ASSUME IInv, NEW r \in Requests, Raise(r)
  PROVE  Quiet(r)
<1>1. CASE AppErrorHandler(r)
  <2>1. PICK code \in AppCodes : Caught(r, NewEvent(r, AppStatus(code), code), code)
    BY <1>1 DEF AppErrorHandler
  <2>2. AppStatus(code) \in {"ok", "deny", "error"} /\ code \in Codes
    BY DEF AppStatus, Codes
  <2> QED
    BY <1>1, <2>1, <2>2, CaughtStep DEF AppErrorHandler
<1>2. CASE ValidationErrorHandler(r)
  BY <1>2, CaughtStep DEF ValidationErrorHandler, Codes
<1>3. CASE HttpExceptionHandler(r)
  <2>1. HttpStatus(405) \in {"ok", "deny", "error"} /\ 405 \in Codes
    BY DEF HttpStatus, Codes
  <2> QED
    BY <1>3, <2>1, CaughtStep DEF HttpExceptionHandler, At
<1>4. CASE UnhandledErrorHandler(r)
  <2> DEFINE new == [req[r] EXCEPT !.pc = "done", !.left = 0, !.conn = NoConn, !.answer = 500]
  <2>t. /\ TypeOK /\ Kept /\ req[r] \in Request /\ Holding(r) /\ Told(r)
        /\ 0 \in 0 .. MaxTransactions /\ NoConn \in 0 .. limit /\ 500 \in Codes
        /\ req[r].conn = NoConn \/ req[r].conn \in 1 .. limit
    BY PoolAssumption DEF IInv, TypeOK, NoConn, Conns, Codes, Holding
  <2>1. new \in Request
    <3> DEFINE left == [req[r] EXCEPT !.pc = "done", !.left = 0, !.conn = NoConn]
    <3>1. left \in Request
      BY <2>t DEF Request
    <3>2. new = [left EXCEPT !.answer = 500]
      BY <2>t DEF Request
    <3> HIDE DEF left, new
    <3>3. [left EXCEPT !.answer = 500] \in Request
      BY <2>t, <3>1 DEF Request
    <3> QED
      BY <3>2, <3>3
  <2>2. /\ new.pc = "done" /\ new.flush = req[r].flush /\ new.served = req[r].served
        /\ new.conn = NoConn /\ new.out = req[r].out /\ new.tenant = req[r].tenant
    BY <2>t DEF Request
  <2>3. Becomes(r, new) /\ latest' = latest
    BY <1>4, <2>t, <2>1, UpdateFields DEF UnhandledErrorHandler
  <2>4. Pools(Fresh)
    BY <1>4, <2>t, ReleaseFields, KeepFields DEF UnhandledErrorHandler
  <2>5. req[r].flush = "none" /\ req[r].out = NoConn /\ limit' = limit
    BY <1>4, <2>t, <2>4 DEF UnhandledErrorHandler, Told, Holding, Pools
  <2> HIDE DEF new
  <2>6. Holding(r)'
    BY <2>t, <2>2, <2>3, <2>5 DEF Becomes, Holding
  <2>7. Told(r)'
    BY <2>2, <2>3, <2>5 DEF Becomes, Told
  <2>s. Swaps(r)
    <3>1. CASE Release(r)
      BY <2>t, <2>2, <2>3, <3>1, ReleaseSwaps DEF Becomes
    <3>2. CASE req[r].conn # NoConn /\ Discard(req[r].conn)
      BY <2>t, <2>2, <2>3, <3>2, GiveSwaps DEF Becomes
    <3> QED
      BY <1>4, <3>1, <3>2 DEF UnhandledErrorHandler
  <2> QED
    BY <2>2, <2>3, <2>4, <2>6, <2>7, <2>s DEF Becomes, Quiet, Leaves
<1> QED
  BY <1>1, <1>2, <1>3, <1>4 DEF Raise

(* The rows of an error tell what its event told.                          *)
LEMMA RowsTell ==
  ASSUME IInv, NEW r \in Requests, req[r].flush \in {"wait", "write"}
  PROVE  /\ Rows(r) \subseteq Event
         /\ req[r].answer >= 400 =>
              \E row \in Rows(r) : row.http = req[r].answer /\ row.user = req[r].user
<1>t. req[r] \in Request /\ Told(r)
  BY DEF IInv, TypeOK
<1>1. req[r].answer \in Codes /\ req[r].events \subseteq Event
  BY <1>t DEF Request
<1>2. ASSUME NEW e \in Event
      PROVE  [e EXCEPT !.http = IF @ = 0 THEN req[r].answer ELSE @] \in Event
  BY <1>1 DEF Event
<1>3. Classify(req[r].answer) \in {"ok", "deny", "error"}
  BY DEF Classify
<1>4. [status |-> Classify(req[r].answer), http |-> req[r].answer, user |-> FALSE] \in Event
  BY <1>1, <1>3 DEF Event
<1>5. Rows(r) \subseteq Event
  BY <1>1, <1>2, <1>4 DEF Rows
<1>6. ASSUME req[r].answer >= 400
      PROVE  \E row \in Rows(r) : row.http = req[r].answer /\ row.user = req[r].user
  <2>1. PICK e \in Event :
          req[r].events = {e} /\ e.http = req[r].answer /\ e.user = req[r].user
    BY <1>t, <1>6 DEF Told
  <2>2. e.http # 0
    BY <1>6, <2>1
  <2> DEFINE row == [e EXCEPT !.http = IF @ = 0 THEN req[r].answer ELSE @]
  <2>3. row.http = req[r].answer /\ row.user = req[r].user
    BY <2>1, <2>2 DEF Event
  <2>4. row \in Rows(r)
    BY <2>1 DEF Rows
  <2> QED
    BY <2>3, <2>4
<1> QED
  BY <1>5, <1>6

LEMMA FlushSteps ==
  ASSUME IInv, NEW r \in Requests, Flush(r) \/ FlushFail(r)
  PROVE  Quiet(r)
<1>t. /\ TypeOK /\ Kept /\ req[r] \in Request /\ Holding(r) /\ Told(r)
      /\ 1 .. limit \subseteq Conns /\ NoConn \notin 1 .. limit /\ NoConn \in 0 .. limit
      /\ 1 .. limit \subseteq 0 .. limit
      /\ req[r].out = NoConn \/ req[r].out \in 1 .. limit
      /\ {} \in SUBSET Event
  BY Limits DEF IInv, TypeOK, NoConn, Conns, Holding
<1>1. CASE FlushOpen(r)
  <2>1. PICK c \in Conns, t \in Tenants \cup {Fresh} :
          Take(c, t) /\ Update(r, [req[r] EXCEPT !.flush = "write", !.out = c])
    BY <1>1 DEF FlushOpen
  <2> DEFINE new == [req[r] EXCEPT !.flush = "write", !.out = c]
  <2>2. new \in Request
    BY <1>t DEF Request
  <2>3. /\ new.pc = req[r].pc /\ new.flush = "write" /\ new.served = req[r].served
        /\ new.conn = req[r].conn /\ new.out = c /\ new.tenant = req[r].tenant
        /\ new.answer = req[r].answer /\ new.events = req[r].events /\ new.user = req[r].user
    BY <1>t DEF Request
  <2>4. Becomes(r, new) /\ latest' = latest
    BY <1>1, <1>t, <2>1, <2>2, UpdateFields DEF FlushOpen
  <2>5. c \in 1 .. limit /\ Pools(Fresh)
    BY <1>t, <2>1, TakeFields
  <2>6. Holding(r)'
    BY <1>1, <1>t, <2>3, <2>4, <2>5 DEF FlushOpen, Becomes, Holding, Pools
  <2>7. Told(r)'
    BY <1>1, <1>t, <2>3, <2>4 DEF FlushOpen, Becomes, Told
  <2>s. Swaps(r)
    <3>1. Takes(c) /\ req[r].out = NoConn
      BY <1>1, <1>t, <2>1, TakeHands DEF FlushOpen, Holding
    <3> QED
      BY <2>3, <2>4, <3>1 DEF Becomes, Swaps
  <2> QED
    BY <2>3, <2>4, <2>5, <2>6, <2>7, <2>s DEF Becomes, Quiet, Leaves
<1>2. CASE FlushNothing(r)
  <2> DEFINE new == [req[r] EXCEPT !.flush = "end", !.events = {}]
  <2>1. new \in Request
    BY <1>t DEF Request
  <2>2. /\ new.pc = req[r].pc /\ new.flush = "end" /\ new.served = req[r].served
        /\ new.conn = req[r].conn /\ new.out = req[r].out /\ new.tenant = req[r].tenant
        /\ new.answer = req[r].answer
    BY <1>t DEF Request
  <2>3. Becomes(r, new) /\ latest' = latest
    BY <1>2, <1>t, <2>1, UpdateFields DEF FlushNothing
  <2>4. Pools(Fresh)
    BY <1>2, <1>t, KeepFields DEF FlushNothing
  <2>5. ~ req[r].answer >= 400
    BY <1>2, RowsTell DEF FlushNothing
  <2>6. Holding(r)'
    BY <1>2, <1>t, <2>2, <2>3, <2>4 DEF FlushNothing, Becomes, Holding, Pools
  <2>7. Told(r)'
    BY <1>2, <1>t, <2>2, <2>3, <2>5 DEF FlushNothing, Becomes, Told
  <2>s. Swaps(r)
    BY <1>2, <2>2, <2>3 DEF FlushNothing, Becomes, Swaps
  <2> QED
    BY <2>2, <2>3, <2>4, <2>6, <2>7, <2>s DEF Becomes, Quiet, Leaves
<1>3. CASE FlushWrite(r)
  <2> DEFINE new == [req[r] EXCEPT !.flush = "end", !.out = NoConn, !.events = {}]
  <2>1. new \in Request
    BY <1>t DEF Request
  <2>2. /\ new.pc = req[r].pc /\ new.flush = "end" /\ new.served = req[r].served
        /\ new.conn = req[r].conn /\ new.out = NoConn /\ new.tenant = req[r].tenant
        /\ new.answer = req[r].answer /\ new.user = req[r].user
    BY <1>t DEF Request
  <2>3. req' = [req EXCEPT ![r] = new]
    BY <1>3 DEF FlushWrite
  <2>4. /\ Rows(r) \subseteq Event
        /\ req[r].answer >= 400 =>
             \E row \in Rows(r) : row.http = req[r].answer /\ row.user = req[r].user
    BY <1>3, RowsTell DEF FlushWrite
  <2>5. /\ req' \in [Requests -> Request] /\ audit' \in [Requests -> SUBSET Event]
        /\ Others(r) /\ req'[r] = new /\ audit'[r] = Rows(r)
    BY <1>3, <1>t, <2>1, <2>3, <2>4 DEF FlushWrite, TypeOK, Others
  <2>6. Pools(Fresh) /\ latest' = latest
    BY <1>3, <1>t, KeepFields DEF FlushWrite, Holding
  <2>7. Holding(r)'
    BY <1>3, <1>t, <2>2, <2>5, <2>6 DEF FlushWrite, Holding, Pools
  <2>8. Told(r)'
    BY <1>3, <1>t, <2>2, <2>4, <2>5 DEF FlushWrite, Told
  <2>s. Swaps(r)
    <3>1. req[r].out # NoConn /\ Return(req[r].out, tenant[req[r].out])
      BY <1>3, <1>t DEF FlushWrite, Holding
    <3> QED
      BY <1>t, <2>2, <2>5, <3>1, GiveSwaps
  <2> QED
    BY <2>2, <2>5, <2>6, <2>7, <2>8, <2>s DEF Quiet, Leaves
<1>4. CASE FlushFail(r)
  <2> DEFINE new == [req[r] EXCEPT !.flush = "end", !.out = NoConn, !.events = {}, !.lost = TRUE]
  <2>1. new \in Request
    BY <1>t DEF Request
  <2>2. /\ new.pc = req[r].pc /\ new.flush = "end" /\ new.served = req[r].served
        /\ new.conn = req[r].conn /\ new.out = NoConn /\ new.tenant = req[r].tenant
        /\ new.lost
    BY <1>t DEF Request
  <2>3. Becomes(r, new) /\ latest' = latest
    BY <1>4, <1>t, <2>1, UpdateFields DEF FlushFail
  <2>4. Pools(Fresh)
    BY <1>4, <1>t, KeepFields DEF FlushFail, Holding
  <2>5. Holding(r)' /\ Told(r)'
    BY <1>4, <1>t, <2>2, <2>3, <2>4 DEF FlushFail, Becomes, Holding, Told, Pools
  <2>s. Swaps(r)
    <3>1. CASE req[r].flush = "wait" /\ UNCHANGED pool
      <4>1. req[r].out = NoConn
        BY <1>t, <3>1 DEF Holding
      <4> QED
        BY <2>2, <2>3, <3>1, <4>1 DEF Becomes, Swaps
    <3>2. CASE req[r].flush = "write"
      <4>1. /\ req[r].out # NoConn
            /\ Return(req[r].out, tenant[req[r].out]) \/ Discard(req[r].out)
        BY <1>4, <1>t, <3>2 DEF FlushFail, Holding
      <4> QED
        BY <1>t, <2>2, <2>3, <4>1, GiveSwaps DEF Becomes
    <3> QED
      BY <1>4, <3>1, <3>2 DEF FlushFail
  <2> QED
    BY <2>2, <2>3, <2>4, <2>5, <2>s DEF Becomes, Quiet, Leaves
<1> QED
  BY <1>1, <1>2, <1>3, <1>4 DEF Flush

LEMMA NextInvariant == IInv /\ [Next]_vars => IInv'
<1> SUFFICES ASSUME IInv, [Next]_vars
             PROVE  IInv'
  OBVIOUS
<1>1. CASE UNCHANGED vars
  <2>1. Kept'
    BY <1>1 DEF vars, IInv, Kept, Queued, Distinct, Holds
  <2> QED
    BY <1>1, <2>1 DEF vars, IInv, TypeOK, Holding, Told, TenantsAreServed, Served,
                      OneConnectionCarriesLatest
<1>2. ASSUME NEW r \in Requests,
             \/ Handler(r) \/ Unprobed(r) \/ Raise(r) \/ Flush(r) \/ FlushFail(r)
             \/ \E w \in Tenants : Arrive(r, w)
      PROVE  IInv'
  BY <1>2, HandlerSteps, RaiseSteps, FlushSteps, StepInvariant
<1> QED
  BY <1>1, <1>2 DEF Next

-----------------------------------------------------------------------------
(* Where every connection is, counted.                                     *)

LEMMA CountOne ==
  ASSUME NEW S, NEW x \in S, \A y \in S : y = x
  PROVE  Cardinality(S) = 1
<1>1. S = {x}
  OBVIOUS
<1> QED
  BY <1>1, FS_Singleton

LEMMA KeptCounts ==
  ASSUME TypeOK, Kept
  PROVE  ConnectionsAreKept
<1> SUFFICES ASSUME NEW c \in 1 .. limit
             PROVE  ConnectionsAreKept!(c)
  BY DEF ConnectionsAreKept
<1> DEFINE places == {k \in DOMAIN idle : idle[k] = c}
           conns  == {r \in Requests : req[r].conn = c}
           outs   == {r \in Requests : req[r].out = c}
<1>e. Cardinality({}) = 0
  BY FS_EmptySet
<1>n. c # NoConn
  BY Limits
<1>1. /\ places # {} <=> c \in Queued
      /\ \A r \in Requests : Holds(r, c) <=> r \in conns \/ r \in outs
  BY DEF Queued, Holds
<1>2. CASE c \in Queued
  <2>1. conns = {} /\ outs = {} /\ tenant[c] # Closed
    BY <1>1, <1>2 DEF Kept
  <2>2. PICK k \in places : TRUE
    BY <1>1, <1>2
  <2>3. Cardinality(places) = 1
    BY <2>2, CountOne DEF Kept, Distinct
  <2>4. Cardinality(conns) = 0 /\ Cardinality(outs) = 0
    BY <1>e, <2>1
  <2> QED
    BY <2>1, <2>3, <2>4
<1>3. ASSUME NEW r \in Requests, Holds(r, c)
      PROVE  ConnectionsAreKept!(c)
  <2>1. places = {} /\ tenant[c] # Closed
    BY <1>1, <1>3 DEF Kept
  <2>2. \A q \in conns \cup outs : q = r
    BY <1>3 DEF Kept, Holds
  <2>3. CASE req[r].conn = c
    <3>1. r \in conns /\ outs = {}
      BY <1>n, <2>2, <2>3 DEF Kept
    <3>2. Cardinality(conns) = 1
      BY <2>2, <3>1, CountOne
    <3>3. Cardinality(places) = 0 /\ Cardinality(outs) = 0
      BY <1>e, <2>1, <3>1
    <3> QED
      BY <2>1, <3>2, <3>3
  <2>4. CASE req[r].out = c
    <3>1. r \in outs /\ conns = {}
      BY <1>n, <2>2, <2>4 DEF Kept
    <3>2. Cardinality(outs) = 1
      BY <2>2, <3>1, CountOne
    <3>3. Cardinality(places) = 0 /\ Cardinality(conns) = 0
      BY <1>e, <2>1, <3>1
    <3> QED
      BY <2>1, <3>2, <3>3
  <2> QED
    BY <1>3, <2>3, <2>4 DEF Holds
<1>4. CASE c \notin Queued /\ \A r \in Requests : ~ Holds(r, c)
  <2>1. places = {} /\ conns = {} /\ outs = {} /\ tenant[c] = Closed
    BY <1>1, <1>4 DEF Kept
  <2>2. Cardinality(places) = 0 /\ Cardinality(conns) = 0 /\ Cardinality(outs) = 0
    BY <1>e, <2>1
  <2> QED
    BY <2>1, <2>2
<1> QED
  BY <1>2, <1>3, <1>4

(* A connection can be taken, or somebody has one whose next step needs no *)
(* other: only those who have none ever wait.                              *)
SomebodyGoesOn ==
  \/ idle # <<>>
  \/ \E c \in 1 .. limit : tenant[c] = Closed
  \/ \E r \in Requests :
       \/ req[r].pc \in {"set", "probe", "run"}
       \/ req[r].pc = "exit" /\ req[r].conn # NoConn
       \/ req[r].flush = "write"

LEMMA HoldersGoOn ==
  ASSUME TypeOK, Kept
  PROVE  SomebodyGoesOn
<1> SUFFICES ASSUME idle = <<>>, \A c \in 1 .. limit : tenant[c] # Closed
             PROVE  SomebodyGoesOn
  BY DEF SomebodyGoesOn
<1>1. 1 \in 1 .. limit /\ Queued = {}
  BY DEF TypeOK, Conns, Queued
<1>2. PICK r \in Requests : Holds(r, 1)
  BY <1>1 DEF Kept
<1>3. req[r].conn # NoConn \/ req[r].out # NoConn
  BY <1>2 DEF Holds, NoConn
<1>4. req[r].pc \in {"set", "probe", "run", "exit"} \/ req[r].flush = "write"
  BY <1>3 DEF TypeOK, Holding
<1> QED
  BY <1>3, <1>4 DEF SomebodyGoesOn, TypeOK, Holding

-----------------------------------------------------------------------------
(* The theorems.                                                           *)

THEOREM Invariance == Spec => []IInv
BY InitInvariant, NextInvariant, PTL DEF Spec

(* Type correctness: a request holds connections of the pool only where    *)
(* its steps need them.                                                    *)
THEOREM TypeCorrect == Spec => []TypeOK
<1>1. IInv => TypeOK
  BY DEF IInv
<1> QED
  BY <1>1, Invariance, PTL

(* No statement runs under a tenant that get_db did not let through.       *)
THEOREM TenantsComeFromGetDb == Spec => []TenantsAreServed
<1>1. IInv => TenantsAreServed
  BY DEF IInv
<1> QED
  BY <1>1, Invariance, PTL

(* With one connection statements run under the latest tenant, or none.    *)
THEOREM LatestTenantStays == Spec => []OneConnectionCarriesLatest
<1>1. IInv => OneConnectionCarriesLatest
  BY DEF IInv
<1> QED
  BY <1>1, Invariance, PTL

(* An error that is answered inside the middlewares leaves its row.        *)
THEOREM AnsweredErrorsLeaveRows == Spec => []ErrorsLeaveRows
<1>1. IInv => ErrorsLeaveRows
  BY DEF IInv, Told, ErrorsLeaveRows
<1> QED
  BY <1>1, Invariance, PTL

(* Every way out of a request and of its flush gives the connection back,  *)
(* and no connection is handed out twice.                                  *)
THEOREM ConnectionsComeBack == Spec => []ConnectionsAreKept
<1>1. IInv => ConnectionsAreKept
  BY KeptCounts DEF IInv
<1> QED
  BY <1>1, Invariance, PTL

(* The pool never stands still: a connection is free, or a request or a    *)
(* flush has one and goes on without another.                              *)
THEOREM PoolGoesOn == Spec => []SomebodyGoesOn
<1>1. IInv => SomebodyGoesOn
  BY HoldersGoOn DEF IInv
<1> QED
  BY <1>1, Invariance, PTL

=============================================================================
