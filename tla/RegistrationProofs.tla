------------------------ MODULE RegistrationProofs -------------------------
(***************************************************************************)
(* TLAPS proofs about Registration: answers and audit rows are true for    *)
(* any number of requests and addresses.                                   *)
(*                                                                         *)
(* Both follow from three facts that every step keeps: an account belongs  *)
(* to a request that has committed (Owner), whoever reported a conflict    *)
(* met somebody else's account (Conflict), and whoever reported success    *)
(* owns the account of its address (Success).                              *)
(***************************************************************************)
EXTENDS Registration, TLAPS

-----------------------------------------------------------------------------
(* The inductive invariant.                                                *)

Mine(r) == Email(r) \in Emails /\ users[Email(r)] = r

Owner(r) ==
  \A e \in Emails : users[e] = r =>
    /\ Email(r) = e
    /\ req[r].pc \in {"rollback", "answer", "flush", "done", "dead"}
    /\ ~ req[r].taken

Conflict(r) == req[r].taken => Email(r) \in Emails /\ users[Email(r)] \notin {r, NoOne}

Success(r) ==
  /\ "created" \in req[r].buffer => Mine(r)
  /\ req[r].answer = 201 => Mine(r)
  /\ At(r, "answer") /\ ~ req[r].taken => Mine(r)

Report(r) ==
  /\ At(r, "idle") => req[r] = Blank
  /\ "taken" \in req[r].buffer => req[r].taken
  /\ req[r].answer = 409 => req[r].taken
  /\ [req |-> r, event |-> "taken"] \in audit => req[r].taken
  /\ [req |-> r, event |-> "created"] \in audit => Mine(r)

Claim(r) == Owner(r) /\ Conflict(r) /\ Success(r) /\ Report(r)

Written(r) == {w.event : w \in {w \in audit : w.req = r}}

Outcome(r) == IF req[r].taken THEN {"taken", "app_error"} ELSE {"created"}

(* What a request has recorded at each step, as long as its calls succeed, *)
(* and that it writes only when it is done.                                *)
Trail(r) ==
  /\ ~ At(r, "done") => Written(r) = {}
  /\ ~ req[r].faulted =>
       /\ req[r].pc \in {"idle", "select", "insert", "refresh", "commit"} =>
            ~ req[r].taken /\ req[r].buffer = {}
       /\ At(r, "rollback") => req[r].buffer = IF req[r].taken THEN {"taken"} ELSE {}
       /\ req[r].pc \in {"answer", "flush"} => req[r].buffer = Outcome(r)
       /\ At(r, "flush") => req[r].answer = IF req[r].taken THEN 409 ELSE 201
       /\ At(r, "done") =>
            \/ req[r].answer = 500
            \/ /\ req[r].answer = IF req[r].taken THEN 409 ELSE 201
               /\ Written(r) = Outcome(r)

(* Whoever has inserted an address waits for nobody else's.                *)
Inserted(r) == req[r].pc \notin {"idle", "select", "insert"}

Holders == \A e \in Emails : claim[e] # NoOne => Inserted(claim[e])

IInv == TypeOK /\ Holders /\ \A r \in Reqs : Claim(r) /\ Trail(r)

-----------------------------------------------------------------------------
LEMMA InitInvariant == Init => IInv
<1> SUFFICES ASSUME Init
             PROVE  IInv
  OBVIOUS
<1> USE RegistrationAssumption DEF Init, Blank
<1>1. TypeOK
  BY DEF TypeOK, Request, PCs, Running, InTx, Events, Row, Answers
<1>2. ASSUME NEW r \in Reqs PROVE Claim(r) /\ Trail(r)
  <2>1. Owner(r)
    BY DEF Owner
  <2>2. Conflict(r) /\ Success(r) /\ Report(r)
    BY DEF Conflict, Success, Report, At
  <2>3. Trail(r)
    BY DEF Trail, Written, At
  <2> QED
    BY <2>1, <2>2, <2>3 DEF Claim
<1>3. Holders
  BY DEF Holders
<1> QED
  BY <1>1, <1>2, <1>3 DEF IInv

(* What each action does to the requests, field by field.                  *)
Others(r) == \A q \in Reqs \ {r} : req'[q] = req[q]

Typed == req' \in [Reqs -> Request]

LEMMA UpdateFields ==
  ASSUME TypeOK, NEW r \in Reqs, NEW new \in Request, req' = [req EXCEPT ![r] = new]
  PROVE  Typed /\ Others(r) /\ req'[r] = new
<1>1. req \in [Reqs -> Request]
  BY DEF TypeOK
<1> QED
  BY <1>1 DEF Typed, Others

(* The request goes on, and its report stays as it is.                     *)
Moves(r, pc) ==
  /\ Typed /\ Others(r)
  /\ req'[r].pc = pc
  /\ req'[r].email = req[r].email
  /\ req'[r].taken = req[r].taken
  /\ req'[r].buffer = req[r].buffer
  /\ req'[r].answer = req[r].answer
  /\ req[r].faulted => req'[r].faulted

LEMMA GotoFields ==
  ASSUME TypeOK, NEW r \in Reqs, NEW pc \in PCs, Goto(r, pc) \/ Fault(r, pc)
  PROVE  Moves(r, pc) /\ (Fault(r, pc) => req'[r].faulted)
<1> DEFINE new == [req[r] EXCEPT !.pc = pc]
           bad == [req[r] EXCEPT !.pc = pc, !.faulted = TRUE]
<1>1. req[r] \in Request /\ req \in [Reqs -> Request]
  BY DEF TypeOK
<1>2. /\ Goto(r, pc) => req' = [req EXCEPT ![r] = new]
      /\ Fault(r, pc) => req' = [req EXCEPT ![r] = bad]
  BY <1>1 DEF Goto, Fault
<1>3. new \in Request /\ bad \in Request
  BY <1>1, Zenon DEF Request
<1>4. CASE Fault(r, pc)
  <2>1. Typed /\ Others(r) /\ req'[r] = bad
    BY <1>2, <1>3, <1>4, UpdateFields
  <2>2. bad.pc = pc /\ bad.email = req[r].email /\ bad.taken = req[r].taken
        /\ bad.buffer = req[r].buffer /\ bad.answer = req[r].answer /\ bad.faulted
    BY <1>1, Zenon DEF Request
  <2> HIDE DEF bad
  <2> QED
    BY <2>1, <2>2 DEF Moves
<1>5. CASE Goto(r, pc) /\ ~ Fault(r, pc)
  <2>1. Typed /\ Others(r) /\ req'[r] = new
    BY <1>2, <1>3, <1>5, UpdateFields
  <2>2. new.pc = pc /\ new.email = req[r].email /\ new.taken = req[r].taken
        /\ new.buffer = req[r].buffer /\ new.answer = req[r].answer
        /\ new.faulted = req[r].faulted
    BY <1>1, Zenon DEF Request
  <2> HIDE DEF new
  <2> QED
    BY <1>5, <2>1, <2>2 DEF Moves
<1> QED
  BY <1>4, <1>5

LEMMA StartFields ==
  ASSUME TypeOK, NEW r \in Reqs, NEW e \in Emails, Start(r, e)
  PROVE  /\ Typed /\ Others(r) /\ At(r, "idle")
         /\ req'[r].pc = "select" /\ req'[r].email = e
         /\ req'[r].taken = req[r].taken /\ req'[r].buffer = req[r].buffer
         /\ req'[r].answer = req[r].answer /\ req'[r].faulted = req[r].faulted
<1> DEFINE new == [req[r] EXCEPT !.pc = "select", !.email = e]
<1>1. /\ req[r] \in Request /\ req' = [req EXCEPT ![r] = new] /\ At(r, "idle")
  BY DEF TypeOK, Start
<1>2. "select" \in PCs
  BY DEF PCs, Running, InTx
<1>3. new \in Request
  BY <1>1, <1>2, Zenon DEF Request
<1>4. Typed /\ Others(r) /\ req'[r] = new
  BY <1>1, <1>3, UpdateFields
<1>5. new.pc = "select" /\ new.email = e /\ new.taken = req[r].taken
      /\ new.buffer = req[r].buffer /\ new.answer = req[r].answer
      /\ new.faulted = req[r].faulted
  BY <1>1, Zenon DEF Request
<1> QED
  BY <1>1, <1>4, <1>5

(* An event is recorded: Select, Commit and Rollback.                      *)
Records1(r, pc, t, v) ==
  /\ Typed /\ Others(r) /\ req'[r].pc = pc /\ req'[r].taken = t
  /\ req'[r].buffer = req[r].buffer \cup {v}
  /\ req'[r].email = req[r].email /\ req'[r].answer = req[r].answer
  /\ req'[r].faulted = req[r].faulted

LEMMA RecordFields ==
  ASSUME TypeOK, NEW r \in Reqs, NEW pc \in PCs, NEW t \in BOOLEAN, NEW v \in Events,
         \/ req' = [req EXCEPT ![r].pc = pc, ![r].taken = t, ![r].buffer = @ \cup {v}]
         \/ /\ req' = [req EXCEPT ![r].pc = pc, ![r].buffer = @ \cup {v}]
            /\ t = req[r].taken
  PROVE  Records1(r, pc, t, v)
<1> DEFINE b == req[r].buffer \cup {v}
           new == [req[r] EXCEPT !.pc = pc, !.taken = t, !.buffer = b]
           add == [req[r] EXCEPT !.pc = pc, !.buffer = b]
<1>1. req \in [Reqs -> Request] /\ req[r] \in Request
  BY DEF TypeOK
<1>2. b \in SUBSET Events
  BY <1>1 DEF Request
<1>3. new \in Request /\ add \in Request
  <2> HIDE DEF b
  <2> QED
    BY <1>1, <1>2, Zenon DEF Request
<1>4. CASE req' = [req EXCEPT ![r] = new]
  <2>1. Typed /\ Others(r) /\ req'[r] = new
    BY <1>3, <1>4, UpdateFields
  <2>2. new.pc = pc /\ new.email = req[r].email /\ new.taken = t
        /\ new.buffer = b /\ new.answer = req[r].answer /\ new.faulted = req[r].faulted
    BY <1>1, Zenon DEF Request
  <2> HIDE DEF new
  <2> QED
    BY <2>1, <2>2 DEF Records1
<1>5. CASE req' = [req EXCEPT ![r] = add] /\ t = req[r].taken
  <2>1. Typed /\ Others(r) /\ req'[r] = add
    BY <1>3, <1>5, UpdateFields
  <2>2. add.pc = pc /\ add.email = req[r].email /\ add.taken = req[r].taken
        /\ add.buffer = b /\ add.answer = req[r].answer /\ add.faulted = req[r].faulted
    BY <1>1, Zenon DEF Request
  <2> HIDE DEF add
  <2> QED
    BY <1>5, <2>1, <2>2 DEF Records1
<1>6. req' = [req EXCEPT ![r] = new] \/ (req' = [req EXCEPT ![r] = add] /\ t = req[r].taken)
  BY <1>1
<1> QED
  BY <1>4, <1>5, <1>6

(* The call is over: Rollback with an unhandled exception, and Flush.      *)
Ends(r, a) ==
  /\ Typed /\ Others(r) /\ req'[r].pc = "done" /\ req'[r].buffer = {}
  /\ req'[r].taken = req[r].taken /\ req'[r].email = req[r].email
  /\ req'[r].answer = a
  /\ req[r].faulted => req'[r].faulted

LEMMA UnhandledFields ==
  ASSUME TypeOK, NEW r \in Reqs, Unhandled(r) \/ UnhandledFault(r)
  PROVE  Ends(r, 500)
<1> DEFINE pc  == "done"
           a   == 500
           new == [req[r] EXCEPT !.pc = pc, !.buffer = {}, !.answer = a]
           bad == [req[r] EXCEPT !.pc = pc, !.buffer = {}, !.answer = a, !.faulted = TRUE]
<1>1. req[r] \in Request
  BY DEF TypeOK
<1>2. req' = [req EXCEPT ![r] = new] \/ req' = [req EXCEPT ![r] = bad]
  BY DEF Unhandled, UnhandledFault
<1>e. pc = "done" /\ a = 500
  OBVIOUS
<1>t. pc \in PCs /\ {} \in SUBSET Events /\ a \in Answers
  BY DEF PCs, Answers
<1> HIDE DEF pc, a
<1>3. new \in Request
  BY <1>1, <1>t, Zenon DEF Request
<1>4. bad \in Request
  BY <1>1, <1>t, Zenon DEF Request
<1>5. CASE req' = [req EXCEPT ![r] = new]
  <2>1. Typed /\ Others(r) /\ req'[r] = new
    BY <1>3, <1>5, UpdateFields
  <2>2. /\ new.pc = pc /\ new.buffer = {} /\ new.taken = req[r].taken
        /\ new.email = req[r].email
    BY <1>1, Zenon DEF Request
  <2>3. new.answer = a /\ new.faulted = req[r].faulted
    BY <1>1, Zenon DEF Request
  <2> HIDE DEF new
  <2> QED
    BY <1>e, <2>1, <2>2, <2>3 DEF Ends
<1>6. CASE req' = [req EXCEPT ![r] = bad]
  <2>1. Typed /\ Others(r) /\ req'[r] = bad
    BY <1>4, <1>6, UpdateFields
  <2>2. /\ bad.pc = pc /\ bad.buffer = {} /\ bad.taken = req[r].taken
        /\ bad.email = req[r].email
    BY <1>1, Zenon DEF Request
  <2>3. bad.answer = a /\ bad.faulted
    BY <1>1, Zenon DEF Request
  <2> HIDE DEF bad
  <2> QED
    BY <1>e, <2>1, <2>2, <2>3 DEF Ends
<1> QED
  BY <1>2, <1>5, <1>6

LEMMA FlushFields ==
  ASSUME TypeOK, NEW r \in Reqs, Flush(r)
  PROVE  /\ Ends(r, req[r].answer) /\ At(r, "flush") /\ UNCHANGED <<users, claim>>
         /\ \/ audit' = audit \cup {[req |-> r, event |-> v] : v \in Pending(r)}
            \/ audit' = audit /\ req'[r].faulted
<1> DEFINE new == [req[r] EXCEPT !.pc = "done", !.buffer = {}]
           bad == [req[r] EXCEPT !.pc = "done", !.buffer = {}, !.faulted = TRUE]
<1>1. req \in [Reqs -> Request] /\ req[r] \in Request
  BY DEF TypeOK
<1>2. /\ At(r, "flush") /\ UNCHANGED <<users, claim>>
      /\ \/ /\ audit' = audit \cup {[req |-> r, event |-> v] : v \in Pending(r)}
            /\ req' = [req EXCEPT ![r] = new]
         \/ audit' = audit /\ req' = [req EXCEPT ![r] = bad]
  BY <1>1 DEF Flush
<1>3. "done" \in PCs /\ {} \in SUBSET Events
  BY DEF PCs
<1>a. new \in Request
  BY <1>1, <1>3, Zenon DEF Request
<1>b. bad \in Request
  BY <1>1, <1>3, Zenon DEF Request
<1>5. ASSUME req' = [req EXCEPT ![r] = new]
      PROVE  Ends(r, req[r].answer)
  <2>1. Typed /\ Others(r) /\ req'[r] = new
    BY <1>a, <1>5, UpdateFields
  <2>2. /\ new.pc = "done" /\ new.buffer = {} /\ new.taken = req[r].taken
        /\ new.email = req[r].email
    BY <1>1, Zenon DEF Request
  <2>3. new.answer = req[r].answer /\ new.faulted = req[r].faulted
    BY <1>1, Zenon DEF Request
  <2> HIDE DEF new
  <2> QED
    BY <2>1, <2>2, <2>3 DEF Ends
<1>6. ASSUME req' = [req EXCEPT ![r] = bad]
      PROVE  Ends(r, req[r].answer) /\ req'[r].faulted
  <2>1. Typed /\ Others(r) /\ req'[r] = bad
    BY <1>b, <1>6, UpdateFields
  <2>2. /\ bad.pc = "done" /\ bad.buffer = {} /\ bad.taken = req[r].taken
        /\ bad.email = req[r].email
    BY <1>1, Zenon DEF Request
  <2>3. bad.answer = req[r].answer /\ bad.faulted
    BY <1>1, Zenon DEF Request
  <2> HIDE DEF bad
  <2> QED
    BY <2>1, <2>2, <2>3 DEF Ends
<1> QED
  BY <1>2, <1>5, <1>6

LEMMA AnswerFields ==
  ASSUME TypeOK, NEW r \in Reqs, Answer(r)
  PROVE  /\ Typed /\ Others(r) /\ At(r, "answer") /\ req'[r].pc = "flush"
         /\ req'[r].email = req[r].email /\ req'[r].taken = req[r].taken
         /\ req'[r].buffer = req[r].buffer /\ req'[r].faulted = req[r].faulted
         /\ req'[r].answer = IF req[r].taken THEN 409 ELSE 201
<1> DEFINE a == IF req[r].taken THEN 409 ELSE 201
           new == [req[r] EXCEPT !.pc = "flush", !.answer = a]
<1>1. /\ req \in [Reqs -> Request] /\ req[r] \in Request /\ "flush" \in PCs
      /\ At(r, "answer") /\ a \in Answers
  BY DEF TypeOK, PCs, Running, Answer, Answers
<1>2. req' = [req EXCEPT ![r] = new]
  <2>1. req' = [req EXCEPT ![r].pc = "flush", ![r].answer = a]
    BY DEF Answer
  <2> HIDE DEF a
  <2> QED
    BY <1>1, <2>1
<1> HIDE DEF a
<1>3. new \in Request
  BY <1>1, Zenon DEF Request
<1>4. Typed /\ Others(r) /\ req'[r] = new
  BY <1>2, <1>3, UpdateFields
<1>5. new.pc = "flush" /\ new.email = req[r].email /\ new.taken = req[r].taken
      /\ new.buffer = req[r].buffer /\ new.faulted = req[r].faulted /\ new.answer = a
  BY <1>1, Zenon DEF Request
<1> QED
  BY <1>1, <1>4, <1>5 DEF a

-----------------------------------------------------------------------------
(* The steps of a handler in these terms.                                  *)
Stays == UNCHANGED <<users, claim, audit>>

Steps(r) ==
  \/ Moves(r, "insert") /\ Stays /\ At(r, "select")
  \/ Records1(r, "rollback", TRUE, "taken") /\ Stays /\ At(r, "select") /\ Exists(Email(r))
  \/ /\ Moves(r, "rollback") /\ Stays /\ req[r].pc \in InTx
     /\ At(r, "insert") \/ req'[r].faulted
  \/ /\ Moves(r, "refresh") /\ At(r, "insert") /\ UNCHANGED <<users, audit>>
     /\ claim[Email(r)] = NoOne /\ users[Email(r)] = NoOne
     /\ claim' = [claim EXCEPT ![Email(r)] = r]
  \/ Moves(r, "commit") /\ Stays /\ At(r, "refresh")
  \/ /\ At(r, "commit") /\ Release(r) /\ audit' = audit
     /\ users' = [users EXCEPT ![Email(r)] = r]
     /\ \/ Records1(r, "answer", req[r].taken, "created")
        \/ Moves(r, "rollback") /\ req'[r].faulted
  \/ /\ At(r, "rollback") /\ (Release(r) \/ UNCHANGED claim)
     /\ UNCHANGED <<users, audit>>
     /\ \/ Records1(r, "answer", req[r].taken, "app_error") /\ req[r].taken
        \/ Ends(r, 500)
  \/ Moves(r, "dead") /\ Stays /\ req[r].pc \in Running /\ req'[r].faulted

LEMMA StepFields ==
  ASSUME TypeOK, NEW r \in Reqs,
         \/ Select(r) \/ Insert(r) \/ Refresh(r) \/ Commit(r) \/ Rollback(r)
         \/ Fail(r) \/ Die(r)
  PROVE  Steps(r)
<1>1. {"insert", "rollback", "refresh", "commit", "answer", "dead"} \subseteq PCs
  BY DEF PCs, Running, InTx
<1>2. {"taken", "created", "app_error"} \subseteq Events /\ req[r].taken \in BOOLEAN
  BY DEF Events, TypeOK, Request
<1> USE <1>1, <1>2 DEF At
<1>3. CASE Select(r)
  <2>1. CASE Exists(Email(r))
    <3>1. req' = [req EXCEPT ![r].pc = "rollback", ![r].taken = TRUE,
                             ![r].buffer = @ \cup {"taken"}]
      BY <1>3, <2>1 DEF Select
    <3>2. Records1(r, "rollback", TRUE, "taken")
      BY <3>1, RecordFields
    <3> QED
      BY <1>3, <2>1, <3>2 DEF Select, Steps, Stays
  <2>2. CASE ~ Exists(Email(r))
    <3>1. Goto(r, "insert")
      BY <1>3, <2>2 DEF Select, Goto
    <3> QED
      BY <1>3, <3>1, GotoFields DEF Select, Steps, Stays
  <2> QED
    BY <2>1, <2>2
<1>4. CASE Insert(r)
  <2>1. CASE Goto(r, "rollback") /\ UNCHANGED claim
    BY <1>4, <2>1, GotoFields DEF Insert, Steps, Stays, InTx
  <2>2. CASE /\ users[Email(r)] = NoOne /\ claim' = [claim EXCEPT ![Email(r)] = r]
             /\ Goto(r, "refresh")
    BY <1>4, <2>2, GotoFields DEF Insert, Steps
  <2> QED
    BY <1>4, <2>1, <2>2 DEF Insert
<1>5. CASE Refresh(r)
  BY <1>5, GotoFields DEF Refresh, Steps, Stays
<1>6. CASE Commit(r)
  <2>1. \/ Records1(r, "answer", req[r].taken, "created")
        \/ Moves(r, "rollback") /\ req'[r].faulted
    BY <1>6, GotoFields, RecordFields DEF Commit
  <2> QED
    BY <1>6, <2>1 DEF Commit, Steps
<1>7. CASE Rollback(r)
  <2>1. \/ Records1(r, "answer", req[r].taken, "app_error") /\ req[r].taken
        \/ Ends(r, 500)
    BY <1>7, UnhandledFields, RecordFields DEF Rollback
  <2> QED
    BY <1>7, <2>1 DEF Rollback, Steps
<1>8. CASE Fail(r)
  BY <1>8, GotoFields DEF Fail, Steps, Stays
<1>9. CASE Die(r)
  BY <1>9, GotoFields DEF Die, Steps, Stays
<1> QED
  BY <1>3, <1>4, <1>5, <1>6, <1>7, <1>8, <1>9

LEMMA StepTypes == TypeOK /\ [Next]_vars => TypeOK'
<1> SUFFICES ASSUME TypeOK, [Next]_vars
             PROVE  TypeOK'
  OBVIOUS
<1>t. /\ users \in [Emails -> Reqs \cup {NoOne}]
      /\ claim \in [Emails -> Reqs \cup {NoOne}]
      /\ audit \subseteq Row /\ NoOne \notin Reqs
      /\ \A r \in Reqs : req[r].pc \in Running => Email(r) \in Emails
      /\ \A r \in Reqs : req[r].pc \in {"refresh", "commit"} => claim[Email(r)] = r
      /\ \A e \in Emails : claim[e] # NoOne => /\ users[e] = NoOne
                                               /\ Email(claim[e]) = e
                                               /\ ~ At(claim[e], "idle")
  BY RegistrationAssumption DEF TypeOK, Email, At
<1> USE <1>t DEF Email, At
(* A step of r that leaves the database alone.                             *)
<1>q. ASSUME NEW r \in Reqs, Typed, Others(r), UNCHANGED <<users, claim>>,
             audit' \subseteq Row, req'[r].email = req[r].email,
             req[r].pc \in Running, req'[r].pc # "idle",
             req'[r].pc \in {"refresh", "commit"} => req[r].pc \in {"refresh", "commit"}
      PROVE  TypeOK'
  <2>1. \A q \in Reqs : req'[q].pc \in Running => req'[q].email \in Emails
    BY <1>q DEF Others
  <2>2. \A q \in Reqs : req'[q].pc \in {"refresh", "commit"} => claim'[req'[q].email] = q
    BY <1>q DEF Others
  <2>3. \A e \in Emails : claim'[e] # NoOne => /\ users'[e] = NoOne
                                               /\ req'[claim'[e]].email = e
                                               /\ req'[claim'[e]].pc # "idle"
    BY <1>q DEF Others
  <2> QED
    BY <1>q, <2>1, <2>2, <2>3 DEF TypeOK, Typed
<1>1. ASSUME NEW r \in Reqs, NEW d \in Emails, Start(r, d)
      PROVE  TypeOK'
  <2>1. UNCHANGED <<users, claim, audit>>
    BY <1>1 DEF Start
  <2>2. \A e \in Emails : claim[e] # r
    BY <1>1, StartFields
  <2>3. \A e \in Emails : claim'[e] # NoOne => /\ users'[e] = NoOne
                                               /\ req'[claim'[e]].email = e
                                               /\ req'[claim'[e]].pc # "idle"
    BY <1>1, <2>1, <2>2, StartFields DEF Others
  <2> QED
    BY <1>1, <2>1, <2>3, StartFields DEF TypeOK, Typed, Others
(* A step of r that may write the database: what remains to be shown.      *)
<1>w. ASSUME NEW r \in Reqs, Typed, Others(r), req[r].pc \in Running,
             req'[r].email = req[r].email, req'[r].pc # "idle",
             users' \in [Emails -> Reqs \cup {NoOne}],
             claim' \in [Emails -> Reqs \cup {NoOne}],
             audit' = audit,
             \A e \in Emails \ {Email(r)} : users'[e] = users[e] /\ claim'[e] = claim[e],
             claim'[Email(r)] \in {claim[Email(r)], r, NoOne},
             claim'[Email(r)] = NoOne => claim[Email(r)] \in {r, NoOne},
             claim'[Email(r)] # NoOne => users'[Email(r)] = NoOne,
             req'[r].pc \in {"refresh", "commit"} => claim'[Email(r)] = r,
             claim'[Email(r)] = r => claim[Email(r)] \in {r, NoOne}
      PROVE  TypeOK'
  <2>1. \A q \in Reqs : req'[q].pc \in Running => req'[q].email \in Emails
    BY <1>w DEF Others
  <2>2. \A q \in Reqs : req'[q].pc \in {"refresh", "commit"} => claim'[req'[q].email] = q
    <3> SUFFICES ASSUME NEW q \in Reqs \ {r}, req[q].pc \in {"refresh", "commit"}
                 PROVE  claim'[req[q].email] = q
      BY <1>w DEF Others
    <3>1. req[q].email \in Emails /\ claim[req[q].email] = q
      BY DEF Running, InTx
    <3> QED
      BY <1>w, <3>1
  <2>3. \A e \in Emails : claim'[e] # NoOne => /\ users'[e] = NoOne
                                               /\ req'[claim'[e]].email = e
                                               /\ req'[claim'[e]].pc # "idle"
    BY <1>w DEF Others
  <2> QED
    BY <1>w, <2>1, <2>2, <2>3 DEF TypeOK, Typed
<1>2. ASSUME NEW r \in Reqs, Steps(r)
      PROVE  TypeOK'
  <2>1. CASE \/ Moves(r, "insert") /\ Stays /\ At(r, "select")
             \/ Moves(r, "rollback") /\ Stays /\ req[r].pc \in InTx
             \/ Moves(r, "commit") /\ Stays /\ At(r, "refresh")
             \/ Moves(r, "dead") /\ Stays /\ req[r].pc \in Running
    BY <2>1, <1>q DEF Moves, Stays, Running, InTx
  <2>2. CASE Records1(r, "rollback", TRUE, "taken") /\ Stays /\ At(r, "select")
    BY <2>2, <1>q DEF Records1, Stays, Running, InTx
  <2>3. CASE /\ Moves(r, "refresh") /\ At(r, "insert") /\ UNCHANGED <<users, audit>>
             /\ claim[Email(r)] = NoOne /\ users[Email(r)] = NoOne
             /\ claim' = [claim EXCEPT ![Email(r)] = r]
    BY <2>3, <1>w DEF Moves, Running, InTx
  <2>4. CASE /\ At(r, "commit") /\ Release(r) /\ audit' = audit
             /\ users' = [users EXCEPT ![Email(r)] = r]
             /\ Records1(r, "answer", req[r].taken, "created") \/ Moves(r, "rollback")
    BY <2>4, <1>w DEF Moves, Records1, Release, Running, InTx
  <2>5. CASE /\ At(r, "rollback") /\ (Release(r) \/ UNCHANGED claim)
             /\ UNCHANGED <<users, audit>>
             /\ \/ Records1(r, "answer", req[r].taken, "app_error")
                \/ Ends(r, 500)
    <3>1. /\ Typed /\ Others(r) /\ req'[r].email = req[r].email
          /\ req'[r].pc \in {"answer", "done"} /\ req[r].pc \in Running
      <4>0. At(r, "rollback")
        BY <2>5, Zenon
      <4>1. req[r].pc \in Running
        BY <4>0 DEF Running, InTx
      <4>2. \/ Records1(r, "answer", req[r].taken, "app_error")
            \/ Ends(r, 500)
        BY <2>5
      <4> QED
        BY <4>1, <4>2 DEF Records1, Ends
    <3> QED
      BY <2>5, <3>1, <1>w DEF Release
  <2> QED
    BY <1>2, <2>1, <2>2, <2>3, <2>4, <2>5 DEF Steps
<1>3. ASSUME NEW r \in Reqs, Answer(r)
      PROVE  TypeOK'
  BY <1>3, <1>q, AnswerFields DEF Answer, Running, InTx
<1>4. ASSUME NEW r \in Reqs, Flush(r)
      PROVE  TypeOK'
  <2>1. audit' \subseteq Row
    <3>1. Pending(r) \subseteq Events
      BY DEF Pending, TypeOK, Request, Events
    <3> QED
      BY <1>4, <3>1 DEF Flush, Row
  <2> QED
    BY <1>4, <1>q, <2>1, FlushFields DEF Ends, Running, InTx
<1>5. ASSUME NEW e \in Emails, Reap(e)
      PROVE  TypeOK'
  <2>1. /\ UNCHANGED <<users, req, audit>> /\ claim' = [claim EXCEPT ![e] = NoOne]
        /\ \A r \in Reqs : req[r].pc \in {"refresh", "commit"} => Email(r) # e
    BY <1>5 DEF Reap, InTx, Running
  <2> QED
    BY <2>1 DEF TypeOK, Running, InTx
<1>6. CASE UNCHANGED vars
  BY <1>6 DEF vars, TypeOK
<1> QED
  BY <1>1, <1>2, <1>3, <1>4, <1>5, <1>6, StepFields DEF Next, Handler

-----------------------------------------------------------------------------
(* An account stays with its request.                                      *)
LEMMA AccountsStay == TypeOK /\ [Next]_vars => \A e \in Emails : users[e] # NoOne => users'[e] = users[e]
<1> SUFFICES ASSUME TypeOK, [Next]_vars, NEW e \in Emails, users[e] # NoOne
             PROVE  users'[e] = users[e]
  OBVIOUS
<1>1. \A r \in Reqs : Commit(r) => Email(r) # e
  BY RegistrationAssumption DEF TypeOK, Commit, At, Email, Running, InTx
<1>2. users \in [Emails -> Reqs \cup {NoOne}]
  BY DEF TypeOK
<1> QED
  BY <1>1, <1>2 DEF Next, Handler, Start, Select, Insert, Refresh, Commit, Rollback, Answer,
                    Flush, Fail, Die, Reap, vars

LEMMA StepHolders == TypeOK /\ Holders /\ [Next]_vars => Holders'
<1> SUFFICES ASSUME TypeOK, Holders, [Next]_vars
             PROVE  Holders'
  OBVIOUS
<1>t. claim \in [Emails -> Reqs \cup {NoOne}]
  BY DEF TypeOK
<1>h. ASSUME NEW r \in Reqs, Others(r), Inserted(r) => Inserted(r)',
             \A e \in Emails : \/ claim'[e] \in {claim[e], NoOne}
                               \/ claim'[e] = r /\ Inserted(r)'
      PROVE  Holders'
  <2> SUFFICES ASSUME NEW e \in Emails, claim'[e] # NoOne
               PROVE  Inserted(claim[e])'
    BY DEF Holders
  <2>1. CASE claim'[e] = r
    BY <1>h, <2>1 DEF Holders
  <2>2. CASE claim'[e] # r
    <3>1. claim'[e] = claim[e] /\ claim[e] \in Reqs \ {r}
      BY <1>h, <1>t, <2>2
    <3>2. req'[claim[e]] = req[claim[e]] /\ Inserted(claim[e])
      BY <1>h, <3>1 DEF Others, Holders
    <3> QED
      BY <3>1, <3>2 DEF Inserted
  <2> QED
    BY <2>1, <2>2
<1>s. ASSUME NEW r \in Reqs, UNCHANGED claim, Others(r), Inserted(r) => Inserted(r)'
      PROVE  Holders'
  BY <1>h, <1>s
<1>1. ASSUME NEW r \in Reqs, NEW e \in Emails, Start(r, e)
      PROVE  Holders'
  BY <1>1, <1>s, StartFields DEF Start, Inserted, At
<1>2. ASSUME NEW r \in Reqs, Steps(r)
      PROVE  Holders'
  <2>1. Others(r) /\ (Inserted(r) => Inserted(r)')
    BY <1>2 DEF Steps, Moves, Records1, Ends, Inserted, At
  <2>2. \A e \in Emails : \/ claim'[e] \in {claim[e], NoOne}
                          \/ claim'[e] = r /\ Inserted(r)'
    BY <1>2, <1>t DEF Steps, Stays, Release, Moves, Inserted
  <2> QED
    BY <1>h, <2>1, <2>2
<1>3. ASSUME NEW r \in Reqs, Answer(r)
      PROVE  Holders'
  BY <1>3, <1>s, AnswerFields DEF Answer, Inserted
<1>4. ASSUME NEW r \in Reqs, Flush(r)
      PROVE  Holders'
  BY <1>4, <1>s, FlushFields DEF Flush, Ends, Inserted
<1>5. ASSUME NEW e \in Emails, Reap(e)
      PROVE  Holders'
  BY <1>5, <1>t DEF Reap, Holders, Inserted
<1>6. CASE UNCHANGED vars
  BY <1>6 DEF vars, Holders, Inserted
<1> QED
  BY <1>1, <1>2, <1>3, <1>4, <1>5, <1>6, StepFields DEF Next, Handler

LEMMA StepClaims ==
  TypeOK /\ (\A r \in Reqs : Claim(r)) /\ [Next]_vars => \A r \in Reqs : Claim(r)'
<1> SUFFICES ASSUME TypeOK, \A r \in Reqs : Claim(r), [Next]_vars
             PROVE  \A r \in Reqs : Claim(r)'
  OBVIOUS
<1>t. /\ users \in [Emails -> Reqs \cup {NoOne}] /\ NoOne \notin Reqs \cup Emails
      /\ \A r \in Reqs : req[r].pc \in Running => Email(r) \in Emails
      /\ \A e \in Emails : users[e] # NoOne => users'[e] = users[e]
  BY AccountsStay, RegistrationAssumption DEF TypeOK, Email
<1>i. \A r \in Reqs : Owner(r) /\ Conflict(r) /\ Success(r) /\ Report(r)
  BY DEF Claim
(* A step of r leaves what the others claim as it is.                      *)
<1>o. ASSUME NEW r \in Reqs, NEW q \in Reqs \ {r}, Others(r),
             \A e \in Emails : users'[e] \in {users[e], r},
             \A v \in Events : [req |-> q, event |-> v] \in audit' =>
                                 [req |-> q, event |-> v] \in audit
      PROVE  Claim(q)'
  <2>1. req'[q] = req[q] /\ Email(q)' = Email(q)
    BY <1>o DEF Others, Email
  <2>2. Mine(q) => Mine(q)'
    BY <1>t, <2>1 DEF Mine
  <2>3. Owner(q)'
    BY <1>o, <1>i, <2>1 DEF Owner
  <2>4. Conflict(q)'
    BY <1>t, <1>i, <2>1 DEF Conflict
  <2>5. Success(q)'
    BY <1>i, <2>1, <2>2 DEF Success, At
  <2>6. Report(q)'
    <3>1. {"taken", "created"} \subseteq Events
      BY DEF Events
    <3> QED
      BY <1>o, <1>i, <2>1, <2>2, <3>1 DEF Report, At
  <2> QED
    BY <2>3, <2>4, <2>5, <2>6 DEF Claim
<1>1. ASSUME NEW r \in Reqs, NEW d \in Emails, Start(r, d), NEW q \in Reqs
      PROVE  Claim(q)'
  <2>1. UNCHANGED <<users, claim, audit>> /\ req[r] = Blank
    BY <1>1, <1>i, StartFields DEF Start, Report
  <2>2. CASE q = r
    <3>1. Owner(r)'
      BY <1>1, <1>i, <2>1 DEF Owner, Start, At
    <3>2. Conflict(r)' /\ Success(r)'
      BY <1>1, <2>1, StartFields DEF Conflict, Success, At, Blank
    <3>3. Report(r)'
      <4>1. req'[r].pc # "idle" /\ Report(r) /\ req[r].taken = FALSE /\ req[r].answer = 0
            /\ req[r].buffer = {}
        BY <1>1, <1>i, <2>1, StartFields DEF Blank
      <4>2. ~ Mine(r)
        BY <1>1, <1>i, <2>1 DEF Mine, Owner, Start, At
      <4> QED
        BY <1>1, <2>1, <4>1, <4>2, StartFields DEF Report, At
    <3> QED
      BY <2>2, <3>1, <3>2, <3>3 DEF Claim
  <2> QED
    BY <1>1, <1>o, <2>1, <2>2, StartFields
(* A step of r with its own claims shown one by one.                       *)
<1>m. ASSUME NEW r \in Reqs, Others(r), UNCHANGED audit, req'[r].pc # "idle",
             \A e \in Emails : users'[e] \in {users[e], r},
             Owner(r)', Conflict(r)', Success(r)',
             "taken" \in req'[r].buffer => req'[r].taken,
             req'[r].answer = 409 => req'[r].taken,
             req[r].taken => req'[r].taken,
             req'[r].email = req[r].email,
             NEW q \in Reqs
      PROVE  Claim(q)'
  <2>1. Mine(r) => Mine(r)'
    BY <1>m, <1>t DEF Mine, Email
  <2>2. Report(r)'
    BY <1>m, <1>i, <2>1 DEF Report, At
  <2> QED
    BY <1>m, <1>o, <2>2 DEF Claim
<1>2. ASSUME NEW r \in Reqs, Steps(r), NEW q \in Reqs
      PROVE  Claim(q)'
  <2>t. /\ Owner(r) /\ Conflict(r) /\ Success(r)
        /\ "taken" \in req[r].buffer => req[r].taken
        /\ req[r].answer = 409 => req[r].taken
    BY <1>i DEF Report
  <2> USE DEF Email, At
  (* No commit yet: the address, its owner and the reports stay.           *)
  <2>m. ASSUME NEW pc \in PCs, Moves(r, pc), Stays, pc # "idle", pc # "answer",
               req[r].pc \in {"select", "insert", "refresh", "commit"} \/ pc \in {"rollback", "dead"}
        PROVE  Claim(q)'
    <3>1. Owner(r)' /\ Conflict(r)' /\ Success(r)'
      BY <2>m, <2>t DEF Owner, Conflict, Success, Mine, Moves, Stays
    <3> QED
      BY <2>m, <2>t, <3>1, <1>m DEF Moves, Stays
  <2>1. CASE \/ Moves(r, "insert") /\ Stays /\ At(r, "select")
             \/ Moves(r, "rollback") /\ Stays /\ req[r].pc \in InTx
             \/ Moves(r, "commit") /\ Stays /\ At(r, "refresh")
             \/ Moves(r, "dead") /\ Stays /\ req[r].pc \in Running
    <3>1. {"insert", "rollback", "commit", "dead"} \subseteq PCs
      BY DEF PCs, Running, InTx
    <3> QED
      BY <2>1, <2>m, <3>1
  <2>2. CASE /\ Records1(r, "rollback", TRUE, "taken") /\ Stays /\ At(r, "select")
             /\ Exists(Email(r))
    <3>1. Email(r) \in Emails /\ users[Email(r)] \notin {r, NoOne}
      BY <2>2, <1>t, <2>t DEF Running, InTx, Owner, Exists
    <3>2. Owner(r)' /\ Conflict(r)' /\ Success(r)'
      BY <2>2, <2>t, <3>1 DEF Owner, Conflict, Success, Mine, Records1, Stays
    <3> QED
      BY <2>2, <2>t, <3>2, <1>m DEF Records1, Stays
  <2>3. CASE /\ Moves(r, "refresh") /\ At(r, "insert") /\ UNCHANGED <<users, audit>>
    <3>1. Owner(r)' /\ Conflict(r)' /\ Success(r)'
      BY <2>3, <2>t DEF Owner, Conflict, Success, Mine, Moves
    <3> QED
      BY <2>3, <2>t, <3>1, <1>m DEF Moves
  <2>4. CASE /\ At(r, "commit") /\ audit' = audit
             /\ users' = [users EXCEPT ![Email(r)] = r]
             /\ Records1(r, "answer", req[r].taken, "created") \/ Moves(r, "rollback")
    <3>1. Email(r) \in Emails /\ users[Email(r)] = NoOne
      BY <2>4, <1>t DEF TypeOK, Running, InTx
    <3>2. ~ req[r].taken
      BY <2>t, <3>1 DEF Conflict
    <3>3. users'[Email(r)] = r /\ \A e \in Emails \ {Email(r)} : users'[e] = users[e] /\ users[e] # r
      BY <2>4, <2>t, <1>t, <3>1 DEF Owner
    <3>4. /\ Others(r) /\ req'[r].email = req[r].email /\ req'[r].pc \in {"answer", "rollback"}
          /\ ~ req'[r].taken /\ req'[r].answer = req[r].answer
          /\ "taken" \in req'[r].buffer => "taken" \in req[r].buffer
      BY <2>4, <3>2 DEF Moves, Records1
    <3>5. Owner(r)' /\ Conflict(r)' /\ Success(r)'
      BY <3>1, <3>3, <3>4 DEF Owner, Conflict, Success, Mine
    <3>6. \A e \in Emails : users'[e] \in {users[e], r}
      BY <3>3
    <3>7. /\ "taken" \in req'[r].buffer => req'[r].taken
          /\ req'[r].answer = 409 => req'[r].taken
          /\ req[r].taken => req'[r].taken
          /\ req'[r].pc # "idle"
      BY <2>t, <3>2, <3>4
    <3> QED
      BY <2>4, <3>4, <3>5, <3>6, <3>7, <1>m
  <2>5. CASE /\ At(r, "rollback") /\ UNCHANGED <<users, audit>>
             /\ \/ Records1(r, "answer", req[r].taken, "app_error") /\ req[r].taken
                \/ Ends(r, 500)
    <3>1. Owner(r)' /\ Conflict(r)' /\ Success(r)'
      BY <2>5, <2>t DEF Owner, Conflict, Success, Mine, Records1, Ends
    <3> QED
      BY <2>5, <2>t, <3>1, <1>m DEF Records1, Ends
  <2> QED
    BY <1>2, <2>1, <2>2, <2>3, <2>4, <2>5 DEF Steps
<1>3. ASSUME NEW r \in Reqs, Answer(r), NEW q \in Reqs
      PROVE  Claim(q)'
  <2>0. UNCHANGED <<users, claim, audit>> /\ Owner(r) /\ Conflict(r) /\ Success(r) /\ Report(r)
    BY <1>3, <1>i DEF Answer
  <2>1. Owner(r)' /\ Conflict(r)' /\ Success(r)'
    BY <1>3, <2>0, AnswerFields DEF Owner, Conflict, Success, Mine, Email, At
  <2> QED
    BY <1>3, <1>m, <2>0, <2>1, AnswerFields DEF Report
<1>4. ASSUME NEW r \in Reqs, Flush(r), NEW q \in Reqs
      PROVE  Claim(q)'
  <2>1. Ends(r, req[r].answer) /\ At(r, "flush") /\ UNCHANGED <<users, claim>>
    BY <1>4, FlushFields
  <2>2. \A w \in audit' : w \in audit \/ (\E v \in req[r].buffer \cup {"http_error"} :
                                            w = [req |-> r, event |-> v])
    BY <1>4 DEF Flush, Pending
  <2>3. Owner(r)' /\ Conflict(r)' /\ Success(r)'
    BY <2>1, <1>i DEF Ends, Owner, Conflict, Success, Mine, Email, At
  <2>4. Report(r)'
    BY <2>1, <2>2, <1>i DEF Ends, Report, Success, Mine, Email, At
  <2>5. CASE q # r
    BY <2>1, <2>2, <2>5, <1>o DEF Ends
  <2> QED
    BY <2>3, <2>4, <2>5 DEF Claim
<1>5. ASSUME UNCHANGED <<users, req, audit>>, NEW q \in Reqs
      PROVE  Claim(q)'
  <2>1. Owner(q)' /\ Conflict(q)' /\ Success(q)'
    BY <1>5, <1>i DEF Owner, Conflict, Success, Mine, Email, At
  <2>2. Report(q)'
    BY <1>5, <1>i DEF Report, Mine, Email, At
  <2> QED
    BY <2>1, <2>2 DEF Claim
<1> QED
  BY <1>1, <1>2, <1>3, <1>4, <1>5, StepFields DEF Next, Handler, Reap, vars

-----------------------------------------------------------------------------
(* What a request has recorded so far, and what it wrote.                  *)
LEMMA StepTrails ==
  TypeOK /\ (\A r \in Reqs : Trail(r)) /\ [Next]_vars => \A r \in Reqs : Trail(r)'
<1> SUFFICES ASSUME TypeOK, \A r \in Reqs : Trail(r), [Next]_vars
             PROVE  \A r \in Reqs : Trail(r)'
  OBVIOUS
(* A step of r that writes no row of another request.                      *)
<1>o. ASSUME NEW r \in Reqs, NEW q \in Reqs \ {r}, Others(r), Written(q)' = Written(q)
      PROVE  Trail(q)'
  <2>1. Trail(q) /\ req'[q] = req[q]
    BY <1>o DEF Others
  <2> QED
    BY <1>o, <2>1 DEF Trail, Outcome, At
<1>w. ASSUME audit' = audit, NEW q \in Reqs
      PROVE  Written(q)' = Written(q)
  BY <1>w DEF Written
<1>1. ASSUME NEW r \in Reqs, NEW d \in Emails, Start(r, d), NEW q \in Reqs
      PROVE  Trail(q)'
  <2>1. audit' = audit
    BY <1>1 DEF Start
  <2>2. CASE q = r
    <3>1. Trail(r) /\ Written(r)' = Written(r)
      BY <1>w, <2>1
    <3> QED
      BY <1>1, <2>2, <3>1, StartFields DEF Trail, At
  <2> QED
    BY <1>1, <1>o, <1>w, <2>1, <2>2, StartFields
<1>2. ASSUME NEW r \in Reqs, Steps(r), NEW q \in Reqs
      PROVE  Trail(q)'
  <2>0. audit' = audit
    BY <1>2 DEF Steps, Stays
  <2>t. Trail(r) /\ Written(r)' = Written(r) /\ ~ At(r, "done")
    <3>1. ~ At(r, "done")
      BY <1>2 DEF Steps, At, InTx, Running
    <3> QED
      BY <1>w, <2>0, <3>1
  <2>w. Written(r)' = {}
    BY <2>t DEF Trail
  <2>o. Others(r)
    BY <1>2 DEF Steps, Moves, Records1, Ends
  <2>8. Trail(r)'
    <3>1. CASE \/ Moves(r, "insert") /\ At(r, "select")
               \/ Moves(r, "refresh") /\ At(r, "insert")
               \/ Moves(r, "commit") /\ At(r, "refresh")
      BY <3>1, <2>t, <2>w DEF Trail, Moves, At
    <3>2. CASE Records1(r, "rollback", TRUE, "taken") /\ At(r, "select")
      BY <3>2, <2>t, <2>w DEF Trail, Records1, At
    <3>3. CASE Moves(r, "rollback") /\ (At(r, "insert") \/ req'[r].faulted)
      BY <3>3, <2>t, <2>w DEF Trail, Moves, At
    <3>4. CASE Records1(r, "answer", req[r].taken, "created") /\ At(r, "commit")
      BY <3>4, <2>t, <2>w DEF Trail, Outcome, Records1, At
    <3>5. CASE Records1(r, "answer", req[r].taken, "app_error") /\ At(r, "rollback") /\ req[r].taken
      BY <3>5, <2>t, <2>w DEF Trail, Outcome, Records1, At
    <3>6. CASE Ends(r, 500)
      BY <3>6 DEF Trail, Ends, At
    <3>7. CASE Moves(r, "dead") /\ req'[r].faulted
      BY <3>7, <2>w DEF Trail, Moves, At
    <3> QED
      BY <1>2, <3>1, <3>2, <3>3, <3>4, <3>5, <3>6, <3>7 DEF Steps
  <2> QED
    BY <1>o, <1>w, <2>0, <2>8, <2>o
<1>3. ASSUME NEW r \in Reqs, Answer(r), NEW q \in Reqs
      PROVE  Trail(q)'
  <2>1. audit' = audit /\ Trail(r) /\ Written(r)' = Written(r)
    BY <1>3, <1>w DEF Answer
  <2>2. Trail(r)'
    BY <1>3, <2>1, AnswerFields DEF Trail, Outcome, At
  <2> QED
    BY <1>3, <1>o, <1>w, <2>1, <2>2, AnswerFields
<1>4. ASSUME NEW r \in Reqs, Flush(r), NEW q \in Reqs
      PROVE  Trail(q)'
  <2>1. /\ Ends(r, req[r].answer) /\ At(r, "flush") /\ Trail(r)
        /\ \/ audit' = audit \cup {[req |-> r, event |-> v] : v \in Pending(r)}
           \/ audit' = audit /\ req'[r].faulted
    BY <1>4, FlushFields
  <2>2. CASE q # r
    <3>1. Written(q)' = Written(q)
      BY <2>1, <2>2 DEF Written
    <3> QED
      BY <1>o, <2>1, <2>2, <3>1 DEF Ends
  <2>3. CASE q = r /\ req'[r].faulted
    BY <2>1, <2>3 DEF Trail, Ends, At
  <2>4. CASE q = r /\ ~ req'[r].faulted
    <3>1. /\ ~ req[r].faulted
          /\ audit' = audit \cup {[req |-> r, event |-> v] : v \in Pending(r)}
      BY <2>1, <2>4 DEF Ends
    <3>2. req[r].buffer = Outcome(r) /\ Written(r) = {} /\ Outcome(r) # {}
          /\ req[r].answer = IF req[r].taken THEN 409 ELSE 201
      BY <2>1, <3>1 DEF Trail, Outcome, At
    <3>3. Pending(r) = Outcome(r)
      BY <3>2 DEF Pending
    <3>4. Written(r)' = Outcome(r)
      <4>1. \A w \in audit : w.req # r
        BY <3>2 DEF Written
      <4>2. \A w \in audit' : w.req = r => w.event \in Outcome(r)
        BY <3>1, <3>3, <4>1
      <4>3. \A v \in Outcome(r) : [req |-> r, event |-> v] \in audit'
        BY <3>1, <3>3
      <4>4. \A v \in Outcome(r) : v \in Written(r)'
        <5> SUFFICES ASSUME NEW v \in Outcome(r)
                     PROVE  v \in Written(r)'
          OBVIOUS
        <5> DEFINE w == [req |-> r, event |-> v]
        <5>1. w \in audit' /\ w.req = r /\ w.event = v
          BY <4>3
        <5> HIDE DEF w
        <5> QED
          BY <5>1 DEF Written
      <4> QED
        BY <4>2, <4>4 DEF Written
    <3>5. /\ req'[r].pc = "done" /\ req'[r].taken = req[r].taken
          /\ req'[r].answer = req[r].answer
      BY <2>1 DEF Ends
    <3>6. Outcome(r)' = Outcome(r)
      BY <3>5 DEF Outcome
    <3> QED
      BY <2>4, <3>2, <3>4, <3>5, <3>6 DEF Trail, At
  <2> QED
    BY <2>2, <2>3, <2>4
<1>5. ASSUME UNCHANGED <<req, audit>>, NEW q \in Reqs
      PROVE  Trail(q)'
  <2>1. Written(q)' = Written(q) /\ Trail(q)
    BY <1>5, <1>w
  <2> QED
    BY <1>5, <2>1 DEF Trail, Outcome, At
<1> QED
  BY <1>1, <1>2, <1>3, <1>4, <1>5, StepFields DEF Next, Handler, Reap, vars

-----------------------------------------------------------------------------
THEOREM Invariance == Spec => []IInv
<1>1. IInv /\ [Next]_vars => IInv'
  BY StepTypes, StepHolders, StepClaims, StepTrails DEF IInv
<1> QED
  BY InitInvariant, <1>1, PTL DEF Spec

(* Every reachable state has the types and claims of TypeOK.               *)
THEOREM TypeCorrect == Spec => []TypeOK
<1>1. IInv => TypeOK
  BY DEF IInv
<1> QED
  BY Invariance, <1>1, PTL

(* What register answered stays true (routes.py:65, 92), for any number of *)
(* requests, whatever fails or dies.                                       *)
THEOREM AnswersStayTrue == Spec => []AnswersAreTrue
<1>1. IInv => AnswersAreTrue
  <2> SUFFICES ASSUME IInv, NEW r \in Reqs
               PROVE  /\ req[r].answer = 201 => users[Email(r)] = r
                      /\ req[r].answer = 409 => users[Email(r)] \notin {r, NoOne}
    BY DEF AnswersAreTrue
  <2>1. Conflict(r) /\ Success(r) /\ Report(r)
    BY DEF IInv, Claim
  <2> QED
    BY <2>1 DEF Conflict, Success, Report, Mine
<1> QED
  BY Invariance, <1>1, PTL

(* The rows that flush_audit writes (audit/middleware.py) are true.        *)
THEOREM AuditStaysTrue == Spec => []AuditIsTrue
<1>1. IInv => AuditIsTrue
  <2> SUFFICES ASSUME IInv, NEW w \in audit
               PROVE  /\ w.event = "created" => users[Email(w.req)] = w.req
                      /\ w.event = "taken" => users[Email(w.req)] \notin {w.req, NoOne}
    BY DEF AuditIsTrue
  <2>1. w.req \in Reqs /\ w = [req |-> w.req, event |-> w.event]
    BY DEF IInv, TypeOK, Row
  <2>2. Conflict(w.req) /\ Report(w.req)
    BY <2>1 DEF IInv, Claim
  <2> QED
    BY <2>1, <2>2 DEF Conflict, Report, Mine
<1> QED
  BY Invariance, <1>1, PTL

(* A request that was answered by the handler, and none of whose calls     *)
(* failed, leaves exactly the rows of its outcome (audit/middleware.py).   *)
THEOREM OutcomesAreAudited == Spec => []OutcomeIsAudited
<1>1. IInv => OutcomeIsAudited
  <2> SUFFICES ASSUME IInv, NEW r \in Reqs, At(r, "done"), ~ req[r].faulted,
                      req[r].answer # 500
               PROVE  Written(r) = IF req[r].answer = 201 THEN {"created"}
                                   ELSE {"taken", "app_error"}
    BY DEF OutcomeIsAudited, Written
  <2>1. /\ req[r].answer = IF req[r].taken THEN 409 ELSE 201
        /\ Written(r) = Outcome(r)
    BY DEF IInv, Trail
  <2> QED
    BY <2>1 DEF Outcome
<1> QED
  BY Invariance, <1>1, PTL

(* An INSERT waits only for a request whose next statement waits for none, *)
(* or whose transaction is over and aborted by the server (routes.py:76).  *)
WaitsForRunner ==
  \A r \in Reqs : At(r, "insert") /\ claim[Email(r)] # NoOne =>
    LET holder == claim[Email(r)]
    IN  holder # r /\ (req[holder].pc \in {"refresh", "commit", "rollback"}
                        \/ req[holder].pc \notin InTx)

THEOREM InsertsWaitForRunners == Spec => []WaitsForRunner
<1>1. IInv => WaitsForRunner
  <2> SUFFICES ASSUME IInv, NEW r \in Reqs, At(r, "insert"), claim[Email(r)] # NoOne
               PROVE  /\ claim[Email(r)] # r
                      /\ \/ req[claim[Email(r)]].pc \in {"refresh", "commit", "rollback"}
                         \/ req[claim[Email(r)]].pc \notin InTx
    BY DEF WaitsForRunner
  <2>1. Email(r) \in Emails
    BY DEF IInv, TypeOK, At, Running, InTx, Email
  <2>2. Inserted(claim[Email(r)])
    BY <2>1 DEF IInv, Holders
  <2> QED
    BY <2>2 DEF Inserted, InTx, At
<1> QED
  BY Invariance, <1>1, PTL

=============================================================================
