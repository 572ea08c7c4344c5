------------------------ MODULE AuthRefinementProofs ------------------------
(***************************************************************************)
(* TLAPS proof that AuthSessions implements SingleSession under the        *)
(* refinement mapping Credential.                                          *)
(*                                                                         *)
(* Within an epoch SingleSession allows every change of a credential but   *)
(* one: what is gone stays gone.  So a step that changes no version must   *)
(* not create a carrier of a session that has none, and a step that raises *)
(* a version must leave nothing stored under the new one.  Both follow     *)
(* from IInv.                                                              *)
(***************************************************************************)
EXTENDS AuthSessionsProofs

Mapped == [u \in Users |-> Credential(u)]

(* x is the pair, or r the handler, that carries the current session of u. *)
StoredAs(x, u) == HasEntry(x) /\ refresh[x].user = u /\ refresh[x].ver = tokenver[u]

HeldBy(r, u) == CarriesSession(r) /\ req[r].user = u /\ req[r].ver = tokenver[u]

Alive(u) == (\E x \in Reqs : StoredAs(x, u)) \/ (\E r \in Reqs : HeldBy(r, u))

(* The refinement mapping in these terms.                                  *)
Meaning ==
  \A u \in Users :
    Credential(u) = IF \E x \in Reqs : StoredAs(x, u) THEN "stored"
                    ELSE IF \E r \in Reqs : HeldBy(r, u) THEN "minting" ELSE "gone"

LEMMA MappingMeans == Inv1 => Meaning
<1> SUFFICES ASSUME Inv1, NEW u \in Users
             PROVE  Meaning!(u)
  BY DEF Meaning
<1>1. \A x \in Reqs : HasEntry(x) => (refresh[x] = Current(u) <=> StoredAs(x, u))
  BY DEF Inv1, TypeOK, HasEntry, StoredAs, Current, Entry
<1>2. \A r \in Reqs : SameSession(req[r], Current(u))
                        <=> req[r].user = u /\ req[r].ver = tokenver[u]
  BY DEF SameSession, Current
<1> QED
  BY <1>1, <1>2 DEF Credential, HeldBy, StoredAs

LEMMA MappingMeansNext == Inv1' => Meaning'
  BY MappingMeans, PTL

(* Nothing about the session of u changes.                                 *)
Untouched(u) ==
  /\ \A x \in Reqs : StoredAs(x, u)' <=> StoredAs(x, u)
  /\ \A r \in Reqs : HeldBy(r, u)' <=> HeldBy(r, u)

LEMMA UntouchedCredential ==
  ASSUME Inv1, Inv1', NEW u \in Users, Untouched(u)
  PROVE  Credential(u)' = Credential(u)
  BY MappingMeans, MappingMeansNext DEF Meaning, Untouched

(* A step that keeps the versions and touches the session of at most one   *)
(* user, without reviving it, is a step of SingleSession or a stutter.     *)
LEMMA SameEpoch ==
  ASSUME Inv1, Inv1', tokenver' = tokenver,
         NEW u \in Users, \A w \in Users \ {u} : Untouched(w),
         Alive(u)' => Alive(u)
  PROVE  [Abstract!Next]_<<tokenver, Mapped>>
<1>1. \A w \in Users \ {u} : Credential(w)' = Credential(w)
  BY UntouchedCredential
<1>2. /\ Credential(u) \in {"gone", "minting", "stored"}
      /\ Credential(u)' \in {"gone", "minting", "stored"}
      /\ Credential(u) = "gone" => Credential(u)' = "gone"
  BY MappingMeans, MappingMeansNext DEF Meaning, Alive
<1>3. Mapped' = [Mapped EXCEPT ![u] = Credential(u)'] /\ Mapped[u] = Credential(u)
  BY <1>1 DEF Mapped
<1>4. CASE Credential(u)' = Credential(u)
  BY <1>1, <1>4 DEF Mapped
<1>5. CASE Credential(u) = "minting" /\ Credential(u)' = "stored"
  BY <1>3, <1>5 DEF Abstract!Next, Abstract!Deposit, Abstract!Move, Mapped
<1>6. CASE Credential(u) = "stored" /\ Credential(u)' = "minting"
  BY <1>3, <1>6 DEF Abstract!Next, Abstract!Take, Abstract!Move, Mapped
<1>7. CASE Credential(u) \in {"minting", "stored"} /\ Credential(u)' = "gone"
  BY <1>3, <1>7 DEF Abstract!Next, Abstract!Drop, Abstract!Move, Mapped
<1> QED
  BY <1>2, <1>4, <1>5, <1>6, <1>7

(* A step that raises the version of one user and stores nothing under the *)
(* new one starts an epoch.                                                *)
LEMMA NextEpoch ==
  ASSUME Inv1, Inv1', NEW u \in Users, tokenver' = [tokenver EXCEPT ![u] = @ + 1],
         \A w \in Users \ {u} : Untouched(w),
         \A x \in Reqs : ~ StoredAs(x, u)'
  PROVE  [Abstract!Next]_<<tokenver, Mapped>>
<1>1. \A w \in Users \ {u} : Credential(w)' = Credential(w)
  BY UntouchedCredential
<1>2. Credential(u)' \in {"gone", "minting"}
  BY MappingMeansNext DEF Meaning
<1>3. Mapped' = [Mapped EXCEPT ![u] = Credential(u)']
  BY <1>1 DEF Mapped
<1> QED
  BY <1>2, <1>3 DEF Abstract!Next, Abstract!NewEpoch, Abstract!States, Mapped

(* A step that touches no session is a stutter.                            *)
LEMMA Stutter ==
  ASSUME Inv1, Inv1', tokenver' = tokenver, \A w \in Users : Untouched(w)
  PROVE  [Abstract!Next]_<<tokenver, Mapped>>
<1>1. \A w \in Users : Credential(w)' = Credential(w)
  BY UntouchedCredential
<1> QED
  BY <1>1 DEF Mapped

-----------------------------------------------------------------------------
LEMMA InitRefines == Init => Abstract!Init
<1> SUFFICES ASSUME Init
             PROVE  Abstract!Init
  OBVIOUS
<1>1. \A u \in Users : Credential(u) = "gone"
  BY DEF Init, Credential, HasEntry, CarriesSession, Minting, Blank
<1> QED
  BY <1>1 DEF Init, Abstract!Init

LEMMA StepRefines == IInv /\ IInv' /\ [Next]_vars => [Abstract!Next]_<<tokenver, Mapped>>
<1> SUFFICES ASSUME IInv, IInv', [Next]_vars
             PROVE  [Abstract!Next]_<<tokenver, Mapped>>
  OBVIOUS
<1>i. Inv1 /\ Inv1' /\ Inv2 /\ Inv2'
  BY DEF IInv
<1>f. Fields /\ tokenver \in [Users -> Nat]
  BY <1>i, FieldTypes
<1>r. refresh \in [Reqs -> Entry \cup {NoEntry}]
  BY <1>i DEF Inv1, TypeOK
<1>e. \A x \in Reqs : HasEntry(x) => refresh[x].user \in Users /\ refresh[x].ver \in Nat
  BY <1>r DEF HasEntry, Entry
<1>b. \A x \in Reqs : HasEntry(x) => refresh[x].ver <= tokenver[refresh[x].user]
  BY <1>i, <1>e, AuthAssumption DEF Inv2, Versions, EntriesOfMinter
<1> USE <1>i, <1>f, <1>r
<1> USE DEF Untouched, StoredAs, HeldBy, HasEntry, CarriesSession, Minting, Keeps, Quiet,
        Others, At, Fields
<1>1. ASSUME NEW r \in Reqs, NEW u \in Users, LoginStart(r, u)
      PROVE  [Abstract!Next]_<<tokenver, Mapped>>
  <2>1. UNCHANGED <<tokenver, refresh>>
    BY <1>1 DEF LoginStart
  <2>2. \A w \in Users : Untouched(w)
    BY <1>1, <2>1, LoginStartFields
  <2> QED
    BY <2>1, <2>2, Stutter
<1>2. ASSUME NEW r \in Reqs, NEW kind \in Kinds, Reject(r, kind)
      PROVE  [Abstract!Next]_<<tokenver, Mapped>>
  <2>1. UNCHANGED <<tokenver, refresh>>
    BY <1>2 DEF Reject
  <2>2. \A w \in Users : Untouched(w)
    BY <1>2, <2>1, RejectFields
  <2> QED
    BY <2>1, <2>2, Stutter
<1>3. ASSUME NEW r \in Reqs, NEW x \in Reqs, NEW genuine \in BOOLEAN,
             RefreshStart(r, x, genuine)
      PROVE  [Abstract!Next]_<<tokenver, Mapped>>
  <2>1. UNCHANGED <<tokenver, refresh>>
    BY <1>3 DEF RefreshStart
  <2>2. \A w \in Users : Untouched(w)
    BY <1>3, <2>1, RefreshStartFields
  <2> QED
    BY <2>1, <2>2, Stutter
<1>4. ASSUME NEW r \in Reqs, NEW x \in Reqs, NEW rid \in Reqs \cup {NoRid},
             NEW kind \in {"logout", "me"}, GuardedStart(r, kind, x, rid)
      PROVE  [Abstract!Next]_<<tokenver, Mapped>>
  <2>1. UNCHANGED <<tokenver, refresh>>
    BY <1>4 DEF GuardedStart
  <2>2. \A w \in Users : Untouched(w)
    BY <1>4, <2>1, GuardedStartFields
  <2> QED
    BY <2>1, <2>2, Stutter
<1>5. ASSUME NEW r \in Reqs, LoginBump(r)
      PROVE  [Abstract!Next]_<<tokenver, Mapped>>
  <2>1. PICK u \in Users : /\ u = req[r].user /\ refresh' = refresh
                           /\ tokenver' = [tokenver EXCEPT ![u] = @ + 1]
    BY <1>5, LoginBumpFields
  <2>2. \A w \in Users \ {u} : Untouched(w)
    BY <1>5, <2>1, LoginBumpFields
  <2>3. \A x \in Reqs : ~ StoredAs(x, u)'
    BY <2>1, <1>b, <1>e
  <2> QED
    BY <2>1, <2>2, <2>3, NextEpoch
<1>6. ASSUME NEW r \in Reqs, LogoutBump(r)
      PROVE  [Abstract!Next]_<<tokenver, Mapped>>
  <2>1. PICK u \in Users : /\ u = req[r].user /\ refresh' = refresh
                           /\ tokenver' = [tokenver EXCEPT ![u] = @ + 1]
    BY <1>6, LogoutBumpFields
  <2>2. \A w \in Users \ {u} : Untouched(w)
    BY <1>6, <2>1, LogoutBumpFields
  <2>3. \A x \in Reqs : ~ StoredAs(x, u)'
    BY <2>1, <1>b, <1>e
  <2> QED
    BY <2>1, <2>2, <2>3, NextEpoch
<1>7. ASSUME NEW r \in Reqs, Store(r)
      PROVE  [Abstract!Next]_<<tokenver, Mapped>>
  <2>1. PICK u \in Users :
          /\ u = req[r].user /\ tokenver' = tokenver /\ Quiet(r)
          /\ refresh' = [refresh EXCEPT ![r] = [user |-> u, ver |-> req[r].ver]]
          /\ At(r, "store") /\ req'[r].pc \in {"store", "ok", "failed"}
    BY <1>7, StoreFields
  <2>2. HasEntry(r) => refresh[r].user = u
    BY <1>i, <2>1 DEF Inv2, EntriesOfMinter
  <2>3. \A w \in Users \ {u} : Untouched(w)
    BY <2>1, <2>2
  <2>4. Alive(u)' => Alive(u)
    BY <2>1 DEF Alive
  <2> QED
    BY <2>1, <2>3, <2>4, SameEpoch
<1>8. ASSUME NEW r \in Reqs, RefreshConsume(r)
      PROVE  [Abstract!Next]_<<tokenver, Mapped>>
  <2> DEFINE x == req[r].rid
  <2>1. At(r, "consume") /\ x \in Reqs /\ tokenver' = tokenver
    BY <1>8, ConsumeFields
  <2>2. CASE /\ \A y \in Reqs : refresh'[y] = refresh[y]
             /\ Quiet(r) /\ req'[r].pc \in {"consume", "denied", "failed"}
    <3>1. \A w \in Users : Untouched(w)
      BY <2>1, <2>2
    <3> QED
      BY <2>1, <3>1, Stutter
  <2>3. CASE /\ HasEntry(x)
             /\ refresh' = [refresh EXCEPT ![x] = NoEntry]
             /\ Quiet(r) /\ req'[r].pc \in {"consume", "denied", "failed"}
    <3>1. PICK u \in Users : u = refresh[x].user
      BY <1>e, <2>1, <2>3
    <3>2. \A w \in Users \ {u} : Untouched(w)
      BY <2>1, <2>3, <3>1
    <3>3. Alive(u)' => Alive(u)
      BY <2>1, <2>3, <3>1 DEF Alive
    <3> QED
      BY <2>1, <3>1, <3>2, <3>3, SameEpoch
  <2>4. CASE /\ HasEntry(x)
             /\ refresh' = [refresh EXCEPT ![x] = NoEntry]
             /\ Others(r) /\ req'[r].pc = "check_ver"
             /\ req'[r].user = refresh[x].user /\ req'[r].ver = refresh[x].ver
    <3>1. PICK u \in Users : u = refresh[x].user
      BY <1>e, <2>1, <2>4
    <3>2. \A w \in Users \ {u} : Untouched(w)
      BY <2>1, <2>4, <3>1
    <3>3. Alive(u)' => Alive(u)
      <4>1. \A y \in Reqs : StoredAs(y, u)' => StoredAs(y, u)
        BY <2>1, <2>4, <3>1
      <4>2. \A y \in Reqs \ {r} : HeldBy(y, u)' => HeldBy(y, u)
        BY <2>1, <2>4
      <4>3. HeldBy(r, u)' => StoredAs(x, u)
        BY <2>1, <2>4, <3>1
      <4> HIDE DEF StoredAs, HeldBy, HasEntry, CarriesSession, Others
      <4> QED
        BY <2>1, <4>1, <4>2, <4>3 DEF Alive
    <3> QED
      BY <2>1, <3>1, <3>2, <3>3, SameEpoch
  <2> QED
    BY <1>8, <2>1, <2>2, <2>3, <2>4, ConsumeFields
<1>9. ASSUME NEW r \in Reqs, Moves(r)
      PROVE  [Abstract!Next]_<<tokenver, Mapped>>
  <2>1. tokenver' = tokenver /\ Quiet(r)
    BY <1>9 DEF Moves
  <2>2. CASE refresh' = refresh
    <3>1. ASSUME NEW u \in Users, u = req[r].user
          PROVE  [Abstract!Next]_<<tokenver, Mapped>>
      <4>1. \A w \in Users \ {u} : Untouched(w)
        BY <2>1, <2>2, <3>1
      <4>2. CarriesSession(r)' => CarriesSession(r)
        BY <1>9 DEF Moves
      <4>3. Alive(u)' => Alive(u)
        BY <2>1, <2>2, <3>1, <4>2 DEF Alive
      <4> QED
        BY <2>1, <4>1, <4>3, SameEpoch
    <3>2. CASE req[r].user \notin Users
      <4>1. \A w \in Users : Untouched(w)
        BY <2>1, <2>2, <3>2
      <4> QED
        BY <2>1, <4>1, Stutter
    <3> QED
      BY <3>1, <3>2
  <2>3. ASSUME NEW x \in Reqs, refresh' = [refresh EXCEPT ![x] = NoEntry], At(r, "revoke")
        PROVE  [Abstract!Next]_<<tokenver, Mapped>>
    <3>1. \A y \in Reqs : CarriesSession(y)' <=> CarriesSession(y)
      BY <1>9, <2>1, <2>3 DEF Moves
    <3>2. CASE HasEntry(x)
      <4>1. PICK u \in Users : u = refresh[x].user
        BY <1>e, <3>2
      <4>2. \A w \in Users \ {u} : Untouched(w)
        BY <2>1, <2>3, <3>1, <4>1
      <4>3. Alive(u)' => Alive(u)
        BY <2>1, <2>3, <3>1, <4>1 DEF Alive
      <4> QED
        BY <2>1, <4>1, <4>2, <4>3, SameEpoch
    <3>3. CASE ~ HasEntry(x)
      <4>1. \A w \in Users : Untouched(w)
        BY <2>1, <2>3, <3>1, <3>3
      <4> QED
        BY <2>1, <4>1, Stutter
    <3> QED
      BY <3>2, <3>3
  <2> QED
    BY <1>9, <2>2, <2>3 DEF Moves
<1>10. ASSUME NEW x \in Reqs, Expire(x)
       PROVE  [Abstract!Next]_<<tokenver, Mapped>>
  <2>1. PICK u \in Users : /\ u = refresh[x].user /\ tokenver' = tokenver /\ req' = req
                           /\ refresh' = [refresh EXCEPT ![x] = NoEntry]
    BY <1>10, <1>e DEF Expire
  <2>2. \A w \in Users \ {u} : Untouched(w)
    BY <2>1
  <2>3. Alive(u)' => Alive(u)
    BY <2>1 DEF Alive
  <2> QED
    BY <2>1, <2>2, <2>3, SameEpoch
<1>11. CASE UNCHANGED <<tokenver, refresh, req>>
  <2>1. \A w \in Users : Untouched(w)
    BY <1>11
  <2> QED
    BY <1>11, <2>1, Stutter
<1> QED
  BY <1>1, <1>2, <1>3, <1>4, <1>5, <1>6, <1>7, <1>8, <1>9, <1>10, <1>11, MovingSteps
  DEF Next, Handler, LogoutStart, MeStart, SetActive, vars

(* The handlers implement SingleSession: whatever overlaps, fails or is    *)
(* sent again, the credential of a user that is gone returns only with a   *)
(* new epoch.                                                              *)
THEOREM HandlersImplementSingleSession == Spec => ImplementsSingleSession
<1>1. Init => Abstract!Init
  BY InitRefines
<1>2. IInv /\ IInv' /\ [Next]_vars => [Abstract!Next]_<<tokenver, Mapped>>
  BY StepRefines
<1> QED
  BY <1>1, <1>2, Invariance, PTL DEF Spec, ImplementsSingleSession, Abstract!Spec, Mapped

=============================================================================
