------------------------ MODULE ResponseCacheProofs ------------------------
(***************************************************************************)
(* Theorems of ResponseCache for any requests, customers and servers and   *)
(* any lives of decisions and answers: what is replayed is the tenant's    *)
(* own paid answer, what was purged is gone, and no consent is assumed for *)
(* longer than a decision lives.                                           *)
(***************************************************************************)
EXTENDS ResponseCache, FiniteSetTheorems, TLAPS

-----------------------------------------------------------------------------
(* Types. *)

Phases == {"new", "deciding", "decided", "looking", "calling", "storing",
           "ended", "replayed"}
Anchors == Requests \cup {None}
RowType == [tenant : Tenants, answer : Requests, origin : Anchors, age : 0 .. EntryTTL - 1]
DecisionType == [on : BOOLEAN, left : 0 .. PolicyTTL]
RequestType == [phase : Phases, on : BOOLEAN, age : 0 .. ReadTime + LookTime + CallTime,
                answer : Anchors, origin : Anchors]
PutType == [step : {"idle", "written", "purging", "answered"}, tenant : Tenants,
            on : BOOLEAN, todo : SUBSET Tenants, old : SUBSET Requests]

\* The shape of the state; how many rows there are is left to TypeOK.
Typed ==
  /\ flag \in [Tenants -> BOOLEAN]
  /\ policy \in [Replicas -> [Tenants -> DecisionType]]
  /\ anchored \in [Replicas -> BOOLEAN]
  /\ cache \subseteq RowType
  /\ req \in [Requests -> RequestType]
  /\ put \in [Replicas -> PutType]
  /\ since \in [Tenants -> 0 .. Staleness]
  /\ whole \subseteq Requests

LEMMA Numbers ==
  /\ PolicyTTL \in Nat /\ PolicyTTL > 0 /\ EntryTTL \in Nat /\ EntryTTL > 0
  /\ MaxEntries \in Nat /\ MaxEntries > 0
  /\ ReadTime \in Nat /\ LookTime \in Nat /\ CallTime \in Nat /\ MaxPuts \in Nat
  /\ Org \in Tenants /\ None \notin Requests
  /\ \A r \in Requests : TenantOf[r] \in Tenants /\ ReplicaOf[r] \in Replicas
BY CacheAssumption DEF Tenants

-----------------------------------------------------------------------------
(* One write of the table. *)

\* What a write leaves is rows that were there, and the new one.
LEMMA StoredRows ==
  ASSUME NEW rows, NEW e, NEW left \in Stored(rows, e)
  PROVE  /\ left \subseteq rows \cup {e}
         /\ \A o \in left : o.tenant = e.tenant => o = e
BY DEF Stored, Oldest

LEMMA RowOf ==
  ASSUME NEW r \in Requests, NEW origin \in Anchors
  PROVE  /\ Row(r, origin) \in RowType
         /\ Row(r, origin).tenant = TenantOf[r] /\ Row(r, origin).answer = r
         /\ Row(r, origin).origin = origin
BY Numbers DEF Row, RowType

\* The answer of a call that ended is stored with itself as its anchor, or with
\* that of the row it replaces, or with none.
LEMMA AnswerStored ==
  ASSUME NEW r \in Requests, cache' \in WithAnchor(r) \cup WithoutAnchor(r)
  PROVE  \A e \in cache' :
           \/ e \in cache
           \/ \E origin \in {r, None} \cup {o.origin : o \in Rows(TenantOf[r])} :
                 e = Row(r, origin)
<1>1. CASE cache' \in WithAnchor(r)
  BY <1>1, StoredRows DEF WithAnchor
<1>2. CASE cache' \in WithoutAnchor(r)
  <2>1. PICK origin \in {None} \cup {o.origin : o \in Rows(TenantOf[r])} :
          cache' \in Stored(cache, Row(r, origin))
    BY <1>2 DEF WithoutAnchor
  <2>2. cache' \subseteq cache \cup {Row(r, origin)}
    BY <2>1, StoredRows
  <2> QED
    BY <2>1, <2>2
<1> QED
  BY <1>1, <1>2

-----------------------------------------------------------------------------
(* The invariant. *)

Paid(e) ==
  /\ e.answer \in whole /\ TenantOf[e.answer] = e.tenant
  /\ e.origin # None => e.origin \in whole /\ TenantOf[e.origin] = e.tenant

\* A complete answer belongs to a request that is over or about to store it again,
\* and nothing but complete answers is kept or replayed.
AnswerInv ==
  /\ \A q \in whole : req[q].phase \in {"storing", "ended"}
  /\ \A q \in Requests : req[q].phase = "storing" => q \in whole
  /\ \A e \in cache : Paid(e)
  /\ \A r \in Requests : req[r].phase = "replayed" =>
       \A q \in {req[r].answer, req[r].origin} \ {None} :
          q \in whole /\ TenantOf[q] = TenantOf[r]

\* The requests that answered completely and write no more.
Done == {q \in whole : req[q].phase = "ended"}

\* What a change of policy has to remove is of requests that were over before, so no
\* answer still to be written can be mistaken for it; what is left of it is in a
\* namespace still to purge.
Due(p) ==
  {e \in cache : put[p].tenant \in {Org, e.tenant} /\ e.answer \in put[p].old}

PurgeInv ==
  \A p \in Replicas :
    /\ put[p].old \subseteq Done
    /\ put[p].step = "purging" /\ ~put[p].on => \A e \in Due(p) : e.tenant \in put[p].todo
    /\ put[p].step = "answered" => Due(p) = {}

\* How old the consent behind a decision may be: a read, what the decision has lived,
\* and the way to the lookup.
ConsentInv ==
  /\ \A t \in Tenants : Enabled(t) => since[t] = 0
  /\ \A p \in Replicas, t \in Tenants :
       policy[p][t].on => since[t] <= ReadTime + (PolicyTTL - policy[p][t].left)
                          /\ policy[p][t].left > 0
  /\ \A r \in Requests :
       /\ req[r].phase \in {"deciding", "decided"} => req[r].age <= ReadTime
       /\ req[r].phase = "calling" => req[r].age <= CallTime
       /\ req[r].phase = "decided" /\ req[r].on => since[TenantOf[r]] <= req[r].age
       /\ req[r].phase = "looking" =>
            req[r].age <= LookTime /\ since[TenantOf[r]] < DecisionAge + req[r].age

Inv == Typed /\ AnswerInv /\ PurgeInv /\ ConsentInv

LEMMA Ending ==
  /\ NewRequest \in RequestType /\ NewRequest.phase = "new"
  /\ [NewRequest EXCEPT !.phase = "ended"] \in RequestType
  /\ [NewRequest EXCEPT !.phase = "ended"].phase = "ended"
  /\ [NewRequest EXCEPT !.phase = "storing"] \in RequestType
  /\ [NewRequest EXCEPT !.phase = "storing"].phase = "storing"
<1>1. NewRequest \in RequestType /\ NewRequest.phase = "new"
  BY Numbers DEF NewRequest, RequestType, Phases, Anchors
<1>2. ASSUME NEW s \in RequestType, NEW phase \in Phases
      PROVE  /\ [s EXCEPT !.phase = phase] \in RequestType
             /\ [s EXCEPT !.phase = phase].phase = phase
  <2>1. [s EXCEPT !.phase = phase] \in RequestType
    BY ZenonT(40) DEF RequestType
  <2>2. [s EXCEPT !.phase = phase].phase = phase
    BY DEF RequestType
  <2> QED
    BY <2>1, <2>2
<1>3. "ended" \in Phases /\ "storing" \in Phases
  BY DEF Phases
<1> QED
  BY <1>1, <1>2, <1>3

LEMMA InitInv == Init => Inv
<1> SUFFICES ASSUME Init PROVE Inv
  OBVIOUS
<1>1. Unknown \in DecisionType /\ Unknown.on = FALSE
  BY Numbers DEF Unknown, DecisionType
<1>2. NewRequest \in RequestType /\ NewRequest.phase = "new"
  BY Ending
<1>3. Idle \in PutType /\ Idle.step = "idle" /\ Idle.old = {}
  BY Numbers DEF Idle, PutType
<1>4. Staleness \in Nat
  BY Numbers DEF Staleness, DecisionAge
<1>5. Typed
  BY <1>1, <1>2, <1>3, <1>4 DEF Init, Typed
<1>6. AnswerInv
  BY <1>2 DEF Init, AnswerInv
<1>7. PurgeInv
  BY <1>3 DEF Init, PurgeInv
<1>8. ConsentInv
  BY <1>1, <1>2 DEF Init, ConsentInv, Enabled
<1> QED
  BY <1>5, <1>6, <1>7, <1>8 DEF Inv

-----------------------------------------------------------------------------
(* The records of requests. *)

LEMMA Going ==
  ASSUME NEW s \in RequestType, NEW phase \in Phases
  PROVE  LET q == [s EXCEPT !.phase = phase, !.age = 0]
         IN /\ q \in RequestType /\ q.phase = phase /\ q.age = 0
<1> DEFINE q == [s EXCEPT !.phase = phase, !.age = 0]
<1>1. q.phase = phase /\ q.age = 0
  BY DEF RequestType
<1>2. 0 \in 0 .. ReadTime + LookTime + CallTime
  BY Numbers
<1>3. q \in RequestType
  BY <1>2, ZenonT(40) DEF RequestType
<1> QED
  BY <1>1, <1>3

LEMMA Admitting ==
  ASSUME NEW s \in RequestType, NEW phase \in Phases, NEW on \in BOOLEAN
  PROVE  [s EXCEPT !.phase = phase, !.on = on, !.age = 0] \in RequestType
<1>1. 0 \in 0 .. ReadTime + LookTime + CallTime
  BY Numbers
<1> QED
  BY <1>1, ZenonT(40) DEF RequestType

LEMMA Deciding ==
  ASSUME NEW s \in RequestType, NEW on \in BOOLEAN
  PROVE  [s EXCEPT !.phase = "decided", !.on = on] \in RequestType
<1>1. "decided" \in Phases
  BY DEF Phases
<1> QED
  BY <1>1, ZenonT(40) DEF RequestType

LEMMA Replaying ==
  ASSUME NEW s \in RequestType, NEW answer \in Anchors, NEW origin \in Anchors
  PROVE  LET q == [s EXCEPT !.phase = "replayed", !.answer = answer, !.origin = origin]
         IN /\ q \in RequestType /\ q.phase = "replayed"
            /\ q.answer = answer /\ q.origin = origin
BY DEF RequestType, Phases

LEMMA Aging ==
  ASSUME NEW s \in RequestType, s.age < ReadTime + LookTime + CallTime
  PROVE  LET q == [s EXCEPT !.age = @ + 1]
         IN /\ q \in RequestType /\ q.phase = s.phase /\ q.age = s.age + 1
            /\ q.on = s.on /\ q.answer = s.answer /\ q.origin = s.origin
<1> DEFINE q == [s EXCEPT !.age = @ + 1]
<1>1. /\ q.phase = s.phase /\ q.age = s.age + 1 /\ q.answer = s.answer
      /\ q.origin = s.origin
  BY DEF RequestType
<1>2. q.on = s.on
  BY DEF RequestType
<1>3. s.age + 1 \in 0 .. ReadTime + LookTime + CallTime
  BY Numbers DEF RequestType
<1>4. q \in RequestType
  BY <1>3, ZenonT(40) DEF RequestType
<1> QED
  BY <1>1, <1>2, <1>4

\* A step of one request: the others are as they were.
LEMMA OneRequest ==
  ASSUME Typed, NEW r \in Requests, NEW q \in RequestType, req' = [req EXCEPT ![r] = q]
  PROVE  /\ req' \in [Requests -> RequestType]
         /\ req'[r] = q
         /\ \A k \in Requests \ {r} : req'[k] = req[k]
BY DEF Typed

-----------------------------------------------------------------------------
(* The steps of requests. *)

\* A request that is neither over nor replayed is in no answer's way.
LEMMA AnswersStay ==
  ASSUME Typed, AnswerInv, NEW r \in Requests, NEW q \in RequestType,
         req' = [req EXCEPT ![r] = q], req[r].phase \notin {"storing", "ended"},
         q.phase \notin {"storing", "replayed"}, UNCHANGED <<cache, whole>>
  PROVE  AnswerInv'
<1>1. /\ req'[r] = q /\ \A k \in Requests \ {r} : req'[k] = req[k]
  BY OneRequest
<1>2. r \notin whole /\ whole \subseteq Requests
  BY DEF AnswerInv, Typed
<1>3. /\ \A k \in whole' : req'[k].phase \in {"storing", "ended"}
      /\ \A k \in Requests : req'[k].phase = "storing" => k \in whole'
  BY <1>1, <1>2 DEF AnswerInv
<1>4. \A e \in cache' : Paid(e)'
  BY DEF AnswerInv, Paid
<1>5. \A k \in Requests : req'[k].phase = "replayed" =>
        \A x \in {req'[k].answer, req'[k].origin} \ {None} :
           x \in whole' /\ TenantOf[x] = TenantOf[k]
  BY <1>1 DEF AnswerInv
<1> QED
  BY <1>3, <1>4, <1>5 DEF AnswerInv

LEMMA PurgesStay ==
  ASSUME Typed, PurgeInv, NEW r \in Requests, NEW q \in RequestType,
         req' = [req EXCEPT ![r] = q], req[r].phase # "ended",
         UNCHANGED <<put, cache, whole>>
  PROVE  PurgeInv'
<1>1. \A k \in Requests \ {r} : req'[k] = req[k]
  BY OneRequest
<1>2. Done \subseteq Done'
  BY <1>1 DEF Done, Typed
<1> QED
  BY <1>2 DEF PurgeInv, Due

LEMMA DoneKept == UNCHANGED <<req, whole>> => Done' = Done
BY DEF Done

\* The consent behind a request's new state.
LEMMA ConsentStays ==
  ASSUME Typed, ConsentInv, NEW r \in Requests, NEW q \in RequestType,
         req' = [req EXCEPT ![r] = q], UNCHANGED <<flag, since, policy>>,
         q.phase \in {"deciding", "decided"} => q.age <= ReadTime,
         q.phase = "calling" => q.age <= CallTime,
         q.phase = "decided" /\ q.on => since[TenantOf[r]] <= q.age,
         q.phase = "looking" =>
           q.age <= LookTime /\ since[TenantOf[r]] < DecisionAge + q.age
  PROVE  ConsentInv'
<1>1. /\ req'[r] = q /\ \A k \in Requests \ {r} : req'[k] = req[k]
  BY OneRequest
<1>2. \A t \in Tenants : Enabled(t)' => since'[t] = 0
  BY DEF ConsentInv, Enabled
<1>3. \A p \in Replicas, t \in Tenants :
        policy'[p][t].on => since'[t] <= ReadTime + (PolicyTTL - policy'[p][t].left)
                            /\ policy'[p][t].left > 0
  BY DEF ConsentInv
<1>4. \A k \in Requests :
        /\ req'[k].phase \in {"deciding", "decided"} => req'[k].age <= ReadTime
        /\ req'[k].phase = "calling" => req'[k].age <= CallTime
        /\ req'[k].phase = "decided" /\ req'[k].on => since'[TenantOf[k]] <= req'[k].age
        /\ req'[k].phase = "looking" =>
             req'[k].age <= LookTime /\ since'[TenantOf[k]] < DecisionAge + req'[k].age
  BY <1>1 DEF ConsentInv
<1> QED
  BY <1>2, <1>3, <1>4 DEF ConsentInv

LEMMA ArriveInv ==
  ASSUME Inv, NEW r \in Requests, Arrive(r)
  PROVE  Inv'
<1>1. /\ Typed /\ AnswerInv /\ PurgeInv /\ ConsentInv
      /\ req[r].phase = "new" /\ req[r] \in RequestType
      /\ UNCHANGED <<flag, put, puts, since, policy, anchored, cache, whole>>
  BY DEF Inv, Typed, Arrive, requestVars
<1>2. /\ Decision(r) = policy[ReplicaOf[r]][TenantOf[r]]
      /\ ReplicaOf[r] \in Replicas /\ TenantOf[r] \in Tenants
      /\ Decision(r) \in DecisionType
  BY <1>1, Numbers DEF Decision, PolicyKey, Typed
<1>3. Decision(r).on \in BOOLEAN /\ Decision(r).left \in 0 .. PolicyTTL
  BY <1>2 DEF DecisionType
<1>4. PICK q \in RequestType :
        /\ req' = [req EXCEPT ![r] = q] /\ q.age = 0
        /\ q.phase \in {"deciding", "looking", "calling"}
        /\ q.phase = "looking" => Decision(r).on
  <2>1. CASE Decision(r).left > 0
    <3>1. PICK on \in BOOLEAN : on = Decision(r).on
      BY <1>3
    <3>2. PICK phase \in {"looking", "calling"} :
            phase = IF Decision(r).on THEN "looking" ELSE "calling"
      OBVIOUS
    <3> DEFINE q == [req[r] EXCEPT !.phase = phase, !.on = on, !.age = 0]
    <3>3. req' = [req EXCEPT ![r] = q]
      BY <1>1, <2>1, <3>1, <3>2 DEF Arrive, Admitted
    <3>4. phase \in Phases
      BY DEF Phases
    <3>5. q \in RequestType /\ q.phase = phase /\ q.age = 0
      <4>1. q \in RequestType
        BY <1>1, <3>4, Admitting
      <4>2. q.phase = phase /\ q.age = 0
        BY <1>1 DEF RequestType
      <4> HIDE DEF q
      <4> QED
        BY <4>1, <4>2
    <3> HIDE DEF q
    <3>6. q.phase \in {"deciding", "looking", "calling"}
      BY <3>5
    <3>7. q.phase = "looking" => Decision(r).on
      BY <3>2, <3>5
    <3> QED
      BY <3>3, <3>5, <3>6, <3>7
  <2>2. CASE ~(Decision(r).left > 0)
    <3> DEFINE q == [req[r] EXCEPT !.phase = "deciding", !.age = 0]
    <3>1. req' = [req EXCEPT ![r] = q]
      BY <1>1, <2>2 DEF Arrive, Goes
    <3>2. "deciding" \in Phases
      BY DEF Phases
    <3>3. q \in RequestType /\ q.phase = "deciding" /\ q.age = 0
      BY <1>1, <3>2, Going
    <3> HIDE DEF q
    <3> QED
      BY <3>1, <3>3
  <2> QED
    BY <2>1, <2>2
<1>5. Typed'
  BY <1>1, <1>4, OneRequest DEF Typed
<1>6. AnswerInv'
  BY <1>1, <1>4, AnswersStay
<1>7. Decision(r).on => since[TenantOf[r]] < DecisionAge
  <2>1. Decision(r).on => since[TenantOf[r]] <= ReadTime + (PolicyTTL - Decision(r).left)
                           /\ Decision(r).left > 0
    BY <1>1, <1>2 DEF ConsentInv
  <2>2. since[TenantOf[r]] \in Int
    BY <1>1, <1>2, Numbers DEF Typed, Staleness, DecisionAge
  <2> QED
    BY <1>3, <2>1, <2>2, Numbers DEF Staleness, DecisionAge
<1>8. ConsentInv'
  <2>1. q.phase \in {"deciding", "decided"} => q.age <= ReadTime
    BY <1>4, Numbers
  <2>2. q.phase = "calling" => q.age <= CallTime
    BY <1>4, Numbers
  <2>3. ~(q.phase = "decided" /\ q.on)
    BY <1>4
  <2>4. q.phase = "looking" =>
          q.age <= LookTime /\ since[TenantOf[r]] < DecisionAge + q.age
    <3>1. DecisionAge + 0 = DecisionAge /\ 0 <= LookTime
      BY Numbers DEF DecisionAge
    <3> QED
      BY <1>4, <1>7, <3>1
  <2>5. req' = [req EXCEPT ![r] = q] /\ UNCHANGED <<flag, since, policy>>
    BY <1>1, <1>4
  <2> QED
    BY <1>1, <2>1, <2>2, <2>3, <2>4, <2>5, ConsentStays
<1>9. PurgeInv'
  BY <1>1, <1>4, PurgesStay
<1> QED
  BY <1>5, <1>6, <1>8, <1>9 DEF Inv

LEMMA ReadPolicyInv ==
  ASSUME Inv, NEW r \in Requests, ReadPolicy(r)
  PROVE  Inv'
<1>1. /\ Typed /\ AnswerInv /\ PurgeInv /\ ConsentInv
      /\ req[r].phase = "deciding" /\ req[r] \in RequestType
      /\ UNCHANGED <<flag, put, puts, since, policy, anchored, cache, whole>>
  BY DEF Inv, Typed, ReadPolicy, requestVars
<1>2. TenantOf[r] \in Tenants /\ req[r].age \in Int /\ req[r].age >= 0
  BY <1>1, Numbers DEF RequestType
<1>3. Enabled(TenantOf[r]) \in BOOLEAN
  BY <1>1, <1>2, Numbers DEF Typed, Enabled
<1>4. PICK q \in RequestType :
        /\ req' = [req EXCEPT ![r] = q]
        /\ \/ q.phase = "calling" /\ q.age = 0
           \/ q.phase = "decided" /\ q.age = req[r].age /\ q.on = Enabled(TenantOf[r])
  <2>1. PICK on \in BOOLEAN : on = Enabled(TenantOf[r])
    BY <1>3
  <2>2. \/ req' = [req EXCEPT ![r] = [req[r] EXCEPT !.phase = "decided", !.on = on]]
        \/ req' = [req EXCEPT ![r] = [req[r] EXCEPT !.phase = "calling", !.on = FALSE, !.age = 0]]
    BY <2>1 DEF ReadPolicy, Admitted, OnFailure
  <2>3. CASE req' = [req EXCEPT ![r] = [req[r] EXCEPT !.phase = "decided", !.on = on]]
    <3> DEFINE q == [req[r] EXCEPT !.phase = "decided", !.on = on]
    <3>1. q \in RequestType /\ q.phase = "decided" /\ q.age = req[r].age /\ q.on = on
      <4>1. q \in RequestType
        BY <1>1, Deciding
      <4>2. q.phase = "decided" /\ q.age = req[r].age
        BY <1>1 DEF RequestType
      <4>3. q.on = on
        BY <1>1 DEF RequestType
      <4> HIDE DEF q
      <4> QED
        BY <4>1, <4>2, <4>3
    <3> HIDE DEF q
    <3>2. req' = [req EXCEPT ![r] = q]
      BY <2>3 DEF q
    <3> QED
      BY <2>1, <3>1, <3>2
  <2>4. CASE req' = [req EXCEPT ![r] = [req[r] EXCEPT !.phase = "calling", !.on = FALSE, !.age = 0]]
    <3> DEFINE q == [req[r] EXCEPT !.phase = "calling", !.on = FALSE, !.age = 0]
    <3>1. q \in RequestType /\ q.phase = "calling" /\ q.age = 0
      <4>1. "calling" \in Phases /\ FALSE \in BOOLEAN
        BY DEF Phases
      <4>2. q \in RequestType
        BY <1>1, <4>1, Admitting
      <4>3. q.phase = "calling" /\ q.age = 0
        BY <1>1 DEF RequestType
      <4> HIDE DEF q
      <4> QED
        BY <4>2, <4>3
    <3> HIDE DEF q
    <3>2. req' = [req EXCEPT ![r] = q]
      BY <2>4 DEF q
    <3> QED
      BY <3>1, <3>2
  <2> QED
    BY <2>2, <2>3, <2>4
<1>5. Typed'
  BY <1>1, <1>4, OneRequest DEF Typed
<1>6. AnswerInv'
  BY <1>1, <1>4, AnswersStay
<1>7. Enabled(TenantOf[r]) => since[TenantOf[r]] = 0
  BY <1>1, <1>2 DEF ConsentInv
<1>8. ConsentInv'
  <2>1. q.phase \in {"deciding", "decided"} => q.age <= ReadTime
    BY <1>1, <1>4 DEF ConsentInv
  <2>2. q.phase = "calling" => q.age <= CallTime
    BY <1>4, Numbers
  <2>3. q.phase = "decided" /\ q.on => since[TenantOf[r]] <= q.age
    BY <1>2, <1>4, <1>7
  <2>4. q.phase # "looking"
    BY <1>4
  <2>5. req' = [req EXCEPT ![r] = q] /\ UNCHANGED <<flag, since, policy>>
    BY <1>1, <1>4
  <2> QED
    BY <1>1, <2>1, <2>2, <2>3, <2>4, <2>5, ConsentStays
<1>9. PurgeInv'
  BY <1>1, <1>4, PurgesStay
<1> QED
  BY <1>5, <1>6, <1>8, <1>9 DEF Inv

LEMMA KeepPolicyInv ==
  ASSUME Inv, NEW r \in Requests, KeepPolicy(r)
  PROVE  Inv'
<1>1. /\ Typed /\ AnswerInv /\ PurgeInv /\ ConsentInv
      /\ req[r].phase = "decided" /\ req[r] \in RequestType
      /\ UNCHANGED <<flag, put, puts, since, anchored, cache, whole>>
  BY DEF Inv, Typed, KeepPolicy, requestVars
<1>2. TenantOf[r] \in Tenants /\ ReplicaOf[r] \in Replicas
      /\ req[r].age \in Int /\ req[r].age <= ReadTime
  BY <1>1, Numbers DEF RequestType, ConsentInv
<1>3. PICK on \in BOOLEAN : on = req[r].on
  BY <1>1 DEF RequestType
<1>4. on => since[TenantOf[r]] <= ReadTime
  <2>1. on => since[TenantOf[r]] <= req[r].age
    BY <1>1, <1>3 DEF ConsentInv
  <2>2. since[TenantOf[r]] \in Int
    BY <1>1, <1>2, Numbers DEF Typed, Staleness, DecisionAge
  <2> QED
    BY <1>2, <2>1, <2>2, Numbers
<1>5. PICK d \in DecisionType : d = [on |-> on, left |-> PolicyTTL]
  <2>1. PolicyTTL \in 0 .. PolicyTTL /\ on \in BOOLEAN
    BY Numbers
  <2>2. [on |-> on, left |-> PolicyTTL] \in DecisionType
    BY <2>1, ZenonT(40) DEF DecisionType
  <2> QED
    BY <2>2, Zenon
<1>6. d.left = PolicyTTL /\ d.on = on
  BY <1>5
<1>7. policy' = [policy EXCEPT ![ReplicaOf[r]][TenantOf[r]] = d]
  BY <1>3, <1>5 DEF KeepPolicy, PolicyKey
<1>8. /\ policy' \in [Replicas -> [Tenants -> DecisionType]]
      /\ \A p \in Replicas, t \in Tenants :
           policy'[p][t] = IF p = ReplicaOf[r] /\ t = TenantOf[r] THEN d ELSE policy[p][t]
  BY <1>1, <1>2, <1>7 DEF Typed
<1>9. PICK q \in RequestType :
        /\ req' = [req EXCEPT ![r] = q] /\ q.age = 0
        /\ q.phase \in {"looking", "calling"}
        /\ q.phase = "looking" => on
  <2>1. PICK phase \in {"looking", "calling"} : phase = IF on THEN "looking" ELSE "calling"
    OBVIOUS
  <2> DEFINE q == [req[r] EXCEPT !.phase = phase, !.on = on, !.age = 0]
  <2>2. req' = [req EXCEPT ![r] = q]
    BY <1>3, <2>1 DEF KeepPolicy, Admitted
  <2>3. phase \in Phases
    BY DEF Phases
  <2>4. q \in RequestType /\ q.phase = phase /\ q.age = 0
    <3>1. q \in RequestType
      BY <1>1, <2>3, Admitting
    <3>2. q.phase = phase /\ q.age = 0
      BY <1>1 DEF RequestType
    <3> HIDE DEF q
    <3> QED
      BY <3>1, <3>2
  <2> HIDE DEF q
  <2>5. q.phase \in {"looking", "calling"} /\ (q.phase = "looking" => on)
    BY <2>1, <2>4
  <2> QED
    BY <2>2, <2>4, <2>5
<1>10. Typed'
  BY <1>1, <1>8, <1>9, OneRequest DEF Typed
<1>11. AnswerInv'
  BY <1>1, <1>9, AnswersStay
<1>12. ConsentInv'
  <2>1. /\ req'[r] = q /\ \A k \in Requests \ {r} : req'[k] = req[k]
    BY <1>1, <1>9, OneRequest
  <2>2. \A t \in Tenants : Enabled(t)' => since'[t] = 0
    BY <1>1 DEF ConsentInv, Enabled
  <2>3. \A p \in Replicas, t \in Tenants :
          policy'[p][t].on => since'[t] <= ReadTime + (PolicyTTL - policy'[p][t].left)
                              /\ policy'[p][t].left > 0
    <3> SUFFICES ASSUME NEW p \in Replicas, NEW t \in Tenants, policy'[p][t].on
                 PROVE  since[t] <= ReadTime + (PolicyTTL - policy'[p][t].left)
                        /\ policy'[p][t].left > 0
      BY <1>1
    <3>1. CASE p = ReplicaOf[r] /\ t = TenantOf[r]
      <4>1. policy'[p][t] = d
        BY <1>8, <3>1
      <4>2. since[t] <= ReadTime
        BY <1>4, <1>6, <3>1, <4>1
      <4> QED
        BY <1>6, <4>1, <4>2, Numbers
    <3>2. CASE ~(p = ReplicaOf[r] /\ t = TenantOf[r])
      BY <1>1, <1>8, <3>2 DEF ConsentInv
    <3> QED
      BY <3>1, <3>2
  <2>4. on => 0 <= LookTime /\ since[TenantOf[r]] < DecisionAge + 0
    <3>1. since[TenantOf[r]] \in Int
      BY <1>1, <1>2, Numbers DEF Typed, Staleness, DecisionAge
    <3> QED
      BY <1>4, <3>1, Numbers DEF Staleness, DecisionAge
  <2>5. \A k \in Requests :
          /\ req'[k].phase \in {"deciding", "decided"} => req'[k].age <= ReadTime
          /\ req'[k].phase = "calling" => req'[k].age <= CallTime
          /\ req'[k].phase = "decided" /\ req'[k].on => since'[TenantOf[k]] <= req'[k].age
          /\ req'[k].phase = "looking" =>
             req'[k].age <= LookTime /\ since'[TenantOf[k]] < DecisionAge + req'[k].age
    <3> SUFFICES ASSUME NEW k \in Requests
                 PROVE  /\ req'[k].phase \in {"deciding", "decided"} => req'[k].age <= ReadTime
                        /\ req'[k].phase = "calling" => req'[k].age <= CallTime
                        /\ req'[k].phase = "decided" /\ req'[k].on
                             => since[TenantOf[k]] <= req'[k].age
                        /\ req'[k].phase = "looking" =>
                             /\ req'[k].age <= LookTime
                             /\ since[TenantOf[k]] < DecisionAge + req'[k].age
      BY <1>1
    <3>1. CASE k = r
      BY <1>9, <2>1, <2>4, <3>1, Numbers
    <3>2. CASE k # r
      BY <1>1, <2>1, <3>2 DEF ConsentInv
    <3> QED
      BY <3>1, <3>2
  <2> QED
    BY <2>2, <2>3, <2>5 DEF ConsentInv
<1>13. PurgeInv'
  BY <1>1, <1>9, PurgesStay
<1> QED
  BY <1>10, <1>11, <1>12, <1>13 DEF Inv

LEMMA LookupInv ==
  ASSUME Inv, NEW r \in Requests, Lookup(r)
  PROVE  Inv'
<1>1. /\ Typed /\ AnswerInv /\ PurgeInv /\ ConsentInv
      /\ req[r].phase = "looking" /\ req[r] \in RequestType
      /\ UNCHANGED <<flag, put, puts, since, policy, cache, whole>>
  BY DEF Inv, Typed, Lookup, requestVars
<1>2. anchored' \in [Replicas -> BOOLEAN]
  BY <1>1 DEF Typed, Lookup
<1>3. PICK q \in RequestType :
        /\ req' = [req EXCEPT ![r] = q]
        /\ \/ q.phase = "calling" /\ q.age = 0
           \/ /\ q.phase = "replayed"
              /\ \A x \in {q.answer, q.origin} \ {None} :
                    x \in whole /\ TenantOf[x] = TenantOf[r]
  <2>1. CASE Goes(r, "calling")
    <3> DEFINE q == [req[r] EXCEPT !.phase = "calling", !.age = 0]
    <3>1. "calling" \in Phases
      BY DEF Phases
    <3>2. q \in RequestType /\ q.phase = "calling" /\ q.age = 0
      BY <1>1, <3>1, Going
    <3>3. req' = [req EXCEPT ![r] = q]
      BY <2>1 DEF Goes
    <3> HIDE DEF q
    <3> QED
      BY <3>2, <3>3
  <2>2. CASE ~Goes(r, "calling")
    <3>1. PICK e \in Rows(TenantOf[r]), named \in {TRUE, FALSE} :
            req' = [req EXCEPT ![r].phase = "replayed", ![r].answer = e.answer,
                               ![r].origin = IF named THEN e.origin ELSE None]
      BY <2>2 DEF Lookup
    <3>2. e \in RowType /\ Paid(e) /\ e.tenant = TenantOf[r]
      BY <1>1 DEF Rows, Typed, AnswerInv
    <3>9. e.answer \in Anchors /\ e.origin \in Anchors /\ None \in Anchors
      BY <3>2 DEF RowType, Anchors
    <3>3. PICK answer \in Anchors : answer = e.answer
      BY <3>9
    <3>4. PICK origin \in Anchors : origin = IF named THEN e.origin ELSE None
      <4>1. CASE named
        BY <3>9, <4>1
      <4>2. CASE ~named
        BY <3>9, <4>2
      <4> QED
        BY <4>1, <4>2
    <3> DEFINE q == [req[r] EXCEPT !.phase = "replayed", !.answer = answer, !.origin = origin]
    <3>5. req' = [req EXCEPT ![r] = q]
      BY <3>1, <3>3, <3>4
    <3>6. q \in RequestType /\ q.phase = "replayed" /\ q.answer = answer /\ q.origin = origin
      <4>1. req[r] \in RequestType /\ answer \in Anchors /\ origin \in Anchors
        BY <1>1
      <4>2. [req[r] EXCEPT !.phase = "replayed", !.answer = answer, !.origin = origin]
              \in RequestType
        BY <4>1, Replaying
      <4>3. q.phase = "replayed" /\ q.answer = answer /\ q.origin = origin
        BY <4>1 DEF RequestType
      <4> QED
        BY <4>2, <4>3
    <3> HIDE DEF q
    <3>7. \A x \in {answer, origin} \ {None} : x \in whole /\ TenantOf[x] = TenantOf[r]
      BY <3>2, <3>3, <3>4 DEF Paid
    <3> QED
      BY <3>5, <3>6, <3>7
  <2> QED
    BY <2>1, <2>2
<1>4. Typed'
  BY <1>1, <1>2, <1>3, OneRequest DEF Typed
<1>5. AnswerInv'
  <2>1. /\ req'[r] = q /\ \A k \in Requests \ {r} : req'[k] = req[k]
    BY <1>1, <1>3, OneRequest
  <2>2. r \notin whole /\ whole \subseteq Requests
    BY <1>1 DEF AnswerInv, Typed
  <2>3. /\ \A k \in whole' : req'[k].phase \in {"storing", "ended"}
        /\ \A k \in Requests : req'[k].phase = "storing" => k \in whole'
    BY <1>1, <1>3, <2>1, <2>2 DEF AnswerInv
  <2>4. \A e \in cache' : Paid(e)'
    BY <1>1 DEF AnswerInv, Paid
  <2>5. \A k \in Requests : req'[k].phase = "replayed" =>
          \A x \in {req'[k].answer, req'[k].origin} \ {None} :
             x \in whole' /\ TenantOf[x] = TenantOf[k]
    <3> SUFFICES ASSUME NEW k \in Requests, req'[k].phase = "replayed",
                        NEW x \in {req'[k].answer, req'[k].origin} \ {None}
                 PROVE  x \in whole /\ TenantOf[x] = TenantOf[k]
      BY <1>1
    <3>1. CASE k = r
      BY <1>3, <2>1, <3>1
    <3>2. CASE k # r
      BY <1>1, <2>1, <3>2 DEF AnswerInv
    <3> QED
      BY <3>1, <3>2
  <2> QED
    BY <2>3, <2>4, <2>5 DEF AnswerInv
<1>6. ConsentInv'
  <2>1. q.phase \in {"deciding", "decided"} => q.age <= ReadTime
    BY <1>3
  <2>2. q.phase = "calling" => q.age <= CallTime
    BY <1>3, Numbers
  <2>3. ~(q.phase = "decided" /\ q.on) /\ q.phase # "looking"
    BY <1>3
  <2>4. req' = [req EXCEPT ![r] = q] /\ UNCHANGED <<flag, since, policy>>
    BY <1>1, <1>3
  <2> QED
    BY <1>1, <2>1, <2>2, <2>3, <2>4, ConsentStays
<1>7. PurgeInv'
  BY <1>1, <1>3, PurgesStay
<1> QED
  BY <1>4, <1>5, <1>6, <1>7 DEF Inv

\* A request whose call has ended keeps nothing but its answer, written or to be
\* written again.
LEMMA StoreInv ==
  ASSUME Inv, NEW r \in Requests, req[r].phase \in {"calling", "storing"},
         NEW phase \in {"ended", "storing"}, Settles(r, phase),
         UNCHANGED <<flag, put, puts, since, policy>>,
         anchored' \in [Replicas -> BOOLEAN], whole' \in {whole, whole \cup {r}},
         phase = "storing" => r \in whole',
         cache' = cache
           \/ (r \in whole' /\ cache' \in WithAnchor(r) \cup WithoutAnchor(r))
  PROVE  Inv'
<1> DEFINE q == [NewRequest EXCEPT !.phase = phase]
<1>1. /\ Typed /\ AnswerInv /\ PurgeInv /\ ConsentInv
      /\ req[r] \in RequestType
      /\ req' = [req EXCEPT ![r] = q]
  BY DEF Inv, Typed, Settles
<1>2. q \in RequestType /\ q.phase = phase
  BY Ending
<1> HIDE DEF q
<1>4. whole \subseteq whole' /\ whole' \subseteq whole \cup {r} /\ whole \subseteq Requests
  BY <1>1 DEF Typed
<1>5. \A e \in cache' :
        \/ e \in cache
        \/ /\ r \in whole'
           /\ \E origin \in {r, None} \cup {o.origin : o \in Rows(TenantOf[r])} :
                 e = Row(r, origin)
  BY AnswerStored
<1>6. \A e \in cache : Paid(e)'
  <2> SUFFICES ASSUME NEW e \in cache PROVE Paid(e)'
    OBVIOUS
  <2>1. Paid(e)
    BY <1>1 DEF AnswerInv
  <2> QED
    BY <1>4, <2>1 DEF Paid
<1>7. \A e \in cache' : e \in cache \/ (r \in whole' /\ e \in RowType /\ e.answer = r /\ Paid(e)')
  <2> SUFFICES ASSUME NEW e \in cache', e \notin cache
               PROVE  r \in whole' /\ e \in RowType /\ e.answer = r /\ Paid(e)'
    OBVIOUS
  <2>1. PICK origin \in {r, None} \cup {o.origin : o \in Rows(TenantOf[r])} :
          e = Row(r, origin)
    BY <1>5
  <2>2. r \in whole'
    BY <1>5
  <2>3. origin \in Anchors
        /\ (origin # None => origin \in whole' /\ TenantOf[origin] = TenantOf[r])
    <3>1. CASE origin \in {r, None}
      BY <2>2, <3>1 DEF Anchors
    <3>2. ASSUME NEW o \in Rows(TenantOf[r]), origin = o.origin
          PROVE  /\ origin \in Anchors
                 /\ (origin # None => origin \in whole' /\ TenantOf[origin] = TenantOf[r])
      <4>1. o \in cache /\ o.tenant = TenantOf[r]
        BY DEF Rows
      <4>2. o \in RowType /\ Paid(o)
        BY <1>1, <4>1 DEF Typed, AnswerInv
      <4> QED
        BY <1>4, <3>2, <4>1, <4>2 DEF Paid, RowType
    <3> QED
      BY <2>1, <3>1, <3>2
  <2>4. /\ e \in RowType /\ e.tenant = TenantOf[r] /\ e.answer = r /\ e.origin = origin
    BY <2>1, <2>3, RowOf
  <2> QED
    BY <2>2, <2>3, <2>4 DEF Paid
<1>8. /\ req'[r] = q /\ \A k \in Requests \ {r} : req'[k] = req[k]
      /\ req' \in [Requests -> RequestType]
  BY <1>1, <1>2, OneRequest
<1>9. Typed'
  <2>1. cache' \subseteq RowType
    BY <1>1, <1>7 DEF Typed
  <2>2. whole' \subseteq Requests
    BY <1>4
  <2> QED
    BY <1>1, <1>5, <1>8, <2>1, <2>2 DEF Typed
<1>10. AnswerInv'
  <2>1. /\ \A k \in whole' : req'[k].phase \in {"storing", "ended"}
        /\ \A k \in Requests : req'[k].phase = "storing" => k \in whole'
    BY <1>1, <1>2, <1>4, <1>8 DEF AnswerInv
  <2>2. \A e \in cache' : Paid(e)'
    BY <1>6, <1>7
  <2>3. \A k \in Requests : req'[k].phase = "replayed" =>
          \A x \in {req'[k].answer, req'[k].origin} \ {None} :
             x \in whole' /\ TenantOf[x] = TenantOf[k]
    BY <1>1, <1>2, <1>4, <1>8 DEF AnswerInv
  <2> QED
    BY <2>1, <2>2, <2>3 DEF AnswerInv
<1>11. ConsentInv'
  <2>1. q.phase \notin {"deciding", "decided", "calling", "looking"}
    BY <1>2
  <2> QED
    BY <1>1, <1>2, <2>1, ConsentStays
<1>12. r \notin Done
  BY DEF Done
<1>13. PurgeInv'
  <2>1. \A p \in Replicas : put[p].old \subseteq Done
    BY <1>1 DEF PurgeInv
  <2>2. \A p \in Replicas : Due(p)' \subseteq Due(p)
    BY <1>1, <1>7, <1>12, <2>1 DEF Due
  <2>3. Done \subseteq Done'
    BY <1>4, <1>8, <1>12 DEF Done
  <2>4. \A p \in Replicas : put[p].old \subseteq Done'
    BY <2>1, <2>3
  <2> QED
    BY <1>1, <2>2, <2>4 DEF PurgeInv
<1> QED
  BY <1>9, <1>10, <1>11, <1>13 DEF Inv

LEMMA CallEndsInv ==
  ASSUME Inv, NEW r \in Requests, CallEnds(r)
  PROVE  Inv'
<1>1. /\ req[r].phase = "calling" /\ UNCHANGED <<flag, put, puts, since, policy>>
      /\ anchored \in [Replicas -> BOOLEAN]
  BY DEF CallEnds, requestVars, Inv, Typed
<1>2. PICK complete \in BOOLEAN :
        /\ whole' = IF complete THEN whole \cup {r} ELSE whole
        /\ IF Stores(r, complete) THEN FirstStore(r)
           ELSE Settles(r, "ended") /\ UNCHANGED <<cache, anchored>>
  BY DEF CallEnds
<1>3. whole' \in {whole, whole \cup {r}}
  BY <1>2
<1>4. CASE Stores(r, complete)
  <2>1. r \in whole' /\ FirstStore(r)
    BY <1>2, <1>4 DEF Stores
  <2>2. anchored' \in [Replicas -> BOOLEAN]
    BY <1>1, <2>1 DEF FirstStore
  <2>3. cache' = cache \/ cache' \in WithAnchor(r)
    BY <2>1 DEF FirstStore
  <2>4. Settles(r, "ended") \/ Settles(r, "storing")
    BY <2>1 DEF FirstStore
  <2> QED
    BY <1>1, <1>3, <2>1, <2>2, <2>3, <2>4, StoreInv
<1>5. CASE ~Stores(r, complete)
  BY <1>1, <1>2, <1>3, <1>5, StoreInv
<1> QED
  BY <1>4, <1>5

LEMMA StoreAgainInv ==
  ASSUME Inv, NEW r \in Requests, StoreAgain(r)
  PROVE  Inv'
<1>1. /\ req[r].phase = "storing" /\ UNCHANGED <<flag, put, puts, since, policy>>
      /\ anchored' \in [Replicas -> BOOLEAN] /\ whole' = whole /\ r \in whole
      /\ Settles(r, "ended") /\ (cache' = cache \/ cache' \in WithoutAnchor(r))
  BY DEF StoreAgain, requestVars, Inv, Typed, AnswerInv
<1> QED
  BY <1>1, StoreInv

-----------------------------------------------------------------------------
(* The steps of a change of policy. *)

Steps == {"idle", "written", "purging", "answered"}

LEMMA PutRecord ==
  ASSUME NEW s \in PutType, NEW step \in Steps, NEW todo \in SUBSET Tenants
  PROVE  /\ [s EXCEPT !.step = step, !.todo = todo] \in PutType
         /\ [s EXCEPT !.todo = todo] \in PutType
         /\ [s EXCEPT !.step = step] \in PutType
<1>1. [s EXCEPT !.step = step, !.todo = todo] \in PutType
  BY ZenonT(40) DEF PutType, Steps
<1>2. [s EXCEPT !.todo = todo] \in PutType
  BY ZenonT(40) DEF PutType
<1>3. [s EXCEPT !.step = step] \in PutType
  BY ZenonT(40) DEF PutType, Steps
<1> QED
  BY <1>1, <1>2, <1>3

LEMMA IdleRecord == Idle \in PutType /\ Idle.step = "idle" /\ Idle.old = {}
BY Numbers DEF Idle, PutType

\* A server's change of policy moves on; the tables lose what it removes.
LEMMA OnePut ==
  ASSUME Typed, AnswerInv, PurgeInv, NEW p \in Replicas, NEW q \in PutType,
         put' = [put EXCEPT ![p] = q], Done \subseteq Done', cache' \subseteq cache,
         q.old \subseteq Done,
         q.step = "purging" /\ ~q.on =>
           \A e \in cache' : q.tenant \in {Org, e.tenant} /\ e.answer \in q.old
                                => e.tenant \in q.todo,
         q.step = "answered" =>
           \A e \in cache' : q.tenant \in {Org, e.tenant} => e.answer \notin q.old
  PROVE  put' \in [Replicas -> PutType] /\ PurgeInv'
<1>1. /\ put' \in [Replicas -> PutType]
      /\ put'[p] = q /\ \A k \in Replicas \ {p} : put'[k] = put[k]
  BY DEF Typed
<1>2. ASSUME NEW k \in Replicas, k # p
      PROVE  /\ put'[k].old \subseteq Done'
             /\ put'[k].step = "purging" /\ ~put'[k].on =>
                   \A e \in Due(k)' : e.tenant \in put'[k].todo
             /\ put'[k].step = "answered" => Due(k)' = {}
  <2>1. put'[k] = put[k]
    BY <1>1, <1>2
  <2>2. Due(k)' \subseteq Due(k)
    BY <2>1 DEF Due
  <2> QED
    BY <2>1, <2>2 DEF PurgeInv
<1>3. /\ put'[p].old \subseteq Done'
      /\ put'[p].step = "purging" /\ ~put'[p].on =>
            \A e \in Due(p)' : e.tenant \in put'[p].todo
      /\ put'[p].step = "answered" => Due(p)' = {}
  <2>1. Due(p)' = {e \in cache' : q.tenant \in {Org, e.tenant} /\ e.answer \in q.old}
    BY <1>1 DEF Due
  <2> QED
    BY <1>1, <2>1
<1> QED
  BY <1>1, <1>2, <1>3 DEF PurgeInv

LEMMA AnswersShrink ==
  ASSUME AnswerInv, UNCHANGED <<req, whole>>, cache' \subseteq cache
  PROVE  AnswerInv'
<1>1. \A e \in cache' : Paid(e)'
  BY DEF AnswerInv, Paid
<1> QED
  BY <1>1 DEF AnswerInv

LEMMA WritePolicyInv ==
  ASSUME Inv, NEW p \in Replicas, NEW t \in Tenants, NEW on \in BOOLEAN,
         WritePolicy(p, t, on)
  PROVE  Inv'
<1>1. /\ Typed /\ AnswerInv /\ PurgeInv /\ ConsentInv
      /\ UNCHANGED <<policy, anchored, cache, req, whole>>
      /\ flag' = [flag EXCEPT ![t] = on]
      /\ since' = [k \in Tenants |-> IF flag'[k] \/ flag'[Org] THEN 0 ELSE since[k]]
  BY DEF Inv, WritePolicy, SinceWith
<1>2. PICK old \in SUBSET Requests : old = Done
  BY <1>1 DEF Typed, Done
<1>3. PICK q : q = [step |-> "written", tenant |-> t, on |-> on, todo |-> {}, old |-> old]
  OBVIOUS
<1>4. q \in PutType
  <2>1. q = [step |-> "written", tenant |-> t, on |-> on, todo |-> {}, old |-> old]
        /\ "written" \in Steps /\ {} \in SUBSET Tenants
    BY <1>3 DEF Steps
  <2> QED
    BY <2>1, ZenonT(40) DEF PutType, Steps
<1>5. q.step = "written" /\ q.old = old
  BY <1>3
<1>6. put' = [put EXCEPT ![p] = q]
  BY <1>2, <1>3 DEF WritePolicy, Done
<1>7. old \subseteq Done
  BY <1>2
<1>8. put' \in [Replicas -> PutType] /\ PurgeInv'
  BY <1>1, <1>4, <1>5, <1>6, <1>7, DoneKept, OnePut
<1>9. Staleness \in Nat
  BY Numbers DEF Staleness, DecisionAge
<1>10. \A k \in Tenants : since[k] \in 0 .. Staleness /\ since'[k] \in {0, since[k]}
  BY <1>1 DEF Typed
<1>11. Typed'
  <2>1. flag' \in [Tenants -> BOOLEAN]
    BY <1>1 DEF Typed
  <2>2. since' \in [Tenants -> 0 .. Staleness]
    BY <1>1, <1>9, <1>10
  <2> QED
    BY <1>1, <1>8, <2>1, <2>2 DEF Typed
<1>12. AnswerInv'
  BY <1>1, AnswersShrink
<1>13. \A k \in Tenants : since'[k] <= since[k]
  BY <1>9, <1>10
<1>14. ConsentInv'
  <2>1. \A k \in Tenants : Enabled(k)' => since'[k] = 0
    BY <1>1 DEF Enabled
  <2>2. \A k \in Replicas, l \in Tenants : policy[k][l].left \in Nat
    BY <1>1, Numbers DEF Typed, DecisionType
  <2>3. \A k \in Replicas, l \in Tenants :
          policy'[k][l].on => since'[l] <= ReadTime + (PolicyTTL - policy'[k][l].left)
                              /\ policy'[k][l].left > 0
    <3> SUFFICES ASSUME NEW k \in Replicas, NEW l \in Tenants, policy[k][l].on
                 PROVE  since'[l] <= ReadTime + (PolicyTTL - policy[k][l].left)
                        /\ policy[k][l].left > 0
      BY <1>1
    <3>1. since[l] <= ReadTime + (PolicyTTL - policy[k][l].left) /\ policy[k][l].left > 0
      BY <1>1 DEF ConsentInv
    <3> QED
      BY <1>9, <1>10, <1>13, <2>2, <3>1, Numbers
  <2>4. \A r \in Requests :
          /\ req'[r].phase \in {"deciding", "decided"} => req'[r].age <= ReadTime
          /\ req'[r].phase = "calling" => req'[r].age <= CallTime
          /\ req'[r].phase = "decided" /\ req'[r].on => since'[TenantOf[r]] <= req'[r].age
          /\ req'[r].phase = "looking" =>
               req'[r].age <= LookTime /\ since'[TenantOf[r]] < DecisionAge + req'[r].age
    <3> SUFFICES ASSUME NEW r \in Requests
                 PROVE  /\ req[r].phase = "decided" /\ req[r].on
                             => since'[TenantOf[r]] <= req[r].age
                        /\ req[r].phase = "looking"
                             => since'[TenantOf[r]] < DecisionAge + req[r].age
      BY <1>1 DEF ConsentInv
    <3>1. /\ since'[TenantOf[r]] <= since[TenantOf[r]]
          /\ since'[TenantOf[r]] \in Int /\ since[TenantOf[r]] \in Int
      BY <1>9, <1>10, <1>13, Numbers
    <3>2. req[r].age \in Int
      BY <1>1, Numbers DEF Typed, RequestType
    <3>3. req[r].phase = "decided" /\ req[r].on => since[TenantOf[r]] <= req[r].age
      BY <1>1 DEF ConsentInv
    <3>4. req[r].phase = "looking" => since[TenantOf[r]] < DecisionAge + req[r].age
      BY <1>1 DEF ConsentInv
    <3>5. req[r].phase = "decided" /\ req[r].on => since'[TenantOf[r]] <= req[r].age
      BY <3>1, <3>2, <3>3
    <3>6. req[r].phase = "looking" => since'[TenantOf[r]] < DecisionAge + req[r].age
      <4>1. DecisionAge \in Int
        BY Numbers DEF DecisionAge
      <4> QED
        BY <3>1, <3>2, <3>4, <4>1
    <3> QED
      BY <3>5, <3>6
  <2> QED
    BY <2>1, <2>3, <2>4 DEF ConsentInv
<1> QED
  BY <1>8, <1>11, <1>12, <1>14 DEF Inv

\* A step that leaves consent and requests alone and takes decisions away.
LEMMA ConsentKept ==
  ASSUME ConsentInv, UNCHANGED <<flag, since, req>>,
         \A p \in Replicas, t \in Tenants :
            policy'[p][t] = policy[p][t] \/ policy'[p][t].on = FALSE
  PROVE  ConsentInv'
<1>1. \A t \in Tenants : Enabled(t)' => since'[t] = 0
  BY DEF ConsentInv, Enabled
<1>2. \A p \in Replicas, t \in Tenants :
        policy'[p][t].on => since'[t] <= ReadTime + (PolicyTTL - policy'[p][t].left)
                            /\ policy'[p][t].left > 0
  BY DEF ConsentInv
<1> QED
  BY <1>1, <1>2 DEF ConsentInv

LEMMA UnknownRecord == Unknown \in DecisionType /\ Unknown.on = FALSE
BY Numbers DEF Unknown, DecisionType

LEMMA InvalidatePolicyInv ==
  ASSUME Inv, NEW p \in Replicas, InvalidatePolicy(p)
  PROVE  Inv'
<1>1. /\ Typed /\ AnswerInv /\ PurgeInv /\ ConsentInv
      /\ UNCHANGED <<flag, anchored, cache, req, since, whole>>
      /\ put[p] \in PutType
      /\ policy' = [policy EXCEPT ![p] = [t \in Tenants |-> Unknown]]
  BY DEF Inv, Typed, InvalidatePolicy
<1>2. put[p].tenant \in Tenants
  BY <1>1 DEF PutType
<1>3. PICK todo \in SUBSET Tenants :
        todo = IF put[p].on THEN {} ELSE Purged(put[p].tenant)
  BY <1>2 DEF Purged
<1> DEFINE q == [put[p] EXCEPT !.step = "purging", !.todo = todo]
<1>4. put' = [put EXCEPT ![p] = q]
  BY <1>3 DEF InvalidatePolicy
<1>5. /\ q \in PutType /\ q.step = "purging" /\ q.todo = todo
      /\ q.tenant = put[p].tenant /\ q.old = put[p].old /\ q.on = put[p].on
  <2>1. q \in PutType
    <3>1. "purging" \in Steps
      BY DEF Steps
    <3> QED
      BY <1>1, <3>1, PutRecord
  <2>2. /\ q.step = "purging" /\ q.todo = todo
        /\ q.tenant = put[p].tenant /\ q.old = put[p].old
    BY <1>1 DEF PutType
  <2>3. q.on = put[p].on
    BY <1>1 DEF PutType
  <2> HIDE DEF q
  <2> QED
    BY <2>1, <2>2, <2>3
<1> HIDE DEF q
<1>6. ASSUME ~q.on, NEW e \in cache, q.tenant \in {Org, e.tenant}
      PROVE  e.tenant \in q.todo
  <2>1. todo = Purged(put[p].tenant) /\ e.tenant \in Tenants
    BY <1>1, <1>3, <1>5, <1>6 DEF Typed, RowType
  <2> QED
    BY <1>5, <1>6, <2>1 DEF Purged
<1>7. put[p].old \subseteq Done
  BY <1>1 DEF PurgeInv
<1>8. put' \in [Replicas -> PutType] /\ PurgeInv'
  BY <1>1, <1>4, <1>5, <1>6, <1>7, DoneKept, OnePut
<1>9. /\ policy' \in [Replicas -> [Tenants -> DecisionType]]
      /\ \A k \in Replicas, t \in Tenants :
           policy'[k][t] = policy[k][t] \/ policy'[k][t].on = FALSE
  BY <1>1, UnknownRecord DEF Typed
<1>10. Typed'
  BY <1>1, <1>8, <1>9 DEF Typed
<1>11. AnswerInv'
  BY <1>1, AnswersShrink
<1>12. ConsentInv'
  BY <1>1, <1>9, ConsentKept
<1> QED
  BY <1>8, <1>10, <1>11, <1>12 DEF Inv

LEMMA PurgeStepInv ==
  ASSUME Inv, NEW p \in Replicas, NEW t \in Tenants, Purge(p, t)
  PROVE  Inv'
<1>1. /\ Typed /\ AnswerInv /\ PurgeInv /\ ConsentInv
      /\ UNCHANGED <<flag, policy, anchored, req, since, whole>>
      /\ put[p] \in PutType /\ put[p].step = "purging"
  BY DEF Inv, Typed, Purge
<1>2. cache' \subseteq cache
  BY DEF Purge
<1>3. put' \in [Replicas -> PutType] /\ PurgeInv'
  <2>1. CASE cache' = cache \ Rows(t) /\ put' = [put EXCEPT ![p].todo = @ \ {t}]
    <3>1. PICK todo \in SUBSET Tenants : todo = put[p].todo \ {t}
      BY <1>1 DEF PutType
    <3> DEFINE q == [put[p] EXCEPT !.todo = todo]
    <3>2. put' = [put EXCEPT ![p] = q]
      BY <2>1, <3>1
    <3>3. /\ q \in PutType /\ q.step = put[p].step /\ q.todo = todo
          /\ q.tenant = put[p].tenant /\ q.old = put[p].old /\ q.on = put[p].on
      <4>1. q \in PutType
        BY <1>1, PutRecord DEF Steps
      <4>2. /\ q.step = put[p].step /\ q.todo = todo
            /\ q.tenant = put[p].tenant /\ q.old = put[p].old
        BY <1>1 DEF PutType
      <4>3. q.on = put[p].on
        BY <1>1 DEF PutType
      <4> HIDE DEF q
      <4> QED
        BY <4>1, <4>2, <4>3
    <3> HIDE DEF q
    <3>4. ASSUME ~q.on, NEW e \in cache', q.tenant \in {Org, e.tenant}, e.answer \in q.old
          PROVE  e.tenant \in q.todo
      <4>1. e \in Due(p) /\ e.tenant # t
        BY <1>2, <2>1, <3>3, <3>4 DEF Due, Rows
      <4>2. e.tenant \in put[p].todo
        BY <1>1, <3>3, <3>4, <4>1 DEF PurgeInv
      <4> QED
        BY <3>1, <3>3, <4>1, <4>2
    <3>5. put[p].old \subseteq Done
      BY <1>1 DEF PurgeInv
    <3>6. q.step # "answered"
      BY <1>1, <3>3
    <3> QED
      BY <1>1, <1>2, <3>2, <3>3, <3>4, <3>5, <3>6, DoneKept, OnePut
  <2>2. CASE put' = [put EXCEPT ![p] = Idle]
    <3>1. /\ Idle \in PutType /\ Idle.old \subseteq Done
          /\ Idle.step # "purging" /\ Idle.step # "answered"
      BY IdleRecord
    <3> QED
      BY <1>1, <1>2, <2>2, <3>1, DoneKept, OnePut
  <2> QED
    BY <2>1, <2>2 DEF Purge
<1>4. Typed'
  <2>1. cache' \subseteq RowType
    BY <1>1, <1>2 DEF Typed
  <2> QED
    BY <1>1, <1>3, <2>1 DEF Typed
<1>5. AnswerInv'
  BY <1>1, <1>2, AnswersShrink
<1>6. ConsentInv'
  BY <1>1, ConsentKept
<1> QED
  BY <1>3, <1>4, <1>5, <1>6 DEF Inv

LEMMA AnswerPutInv ==
  ASSUME Inv, NEW p \in Replicas, AnswerPut(p)
  PROVE  Inv'
<1>1. /\ Typed /\ AnswerInv /\ PurgeInv /\ ConsentInv
      /\ UNCHANGED <<flag, policy, anchored, cache, req, since, whole>>
      /\ put[p] \in PutType /\ put[p].step = "purging" /\ put[p].todo = {}
  BY DEF Inv, Typed, AnswerPut
<1>2. put' \in [Replicas -> PutType] /\ PurgeInv'
  <2>1. CASE put[p].on
    <3>1. put' = [put EXCEPT ![p] = Idle]
      BY <2>1 DEF AnswerPut
    <3>2. /\ Idle \in PutType /\ Idle.old \subseteq Done
          /\ Idle.step # "purging" /\ Idle.step # "answered"
      BY IdleRecord
    <3> QED
      BY <1>1, <3>1, <3>2, DoneKept, OnePut
  <2>2. CASE ~put[p].on
    <3> DEFINE q == [put[p] EXCEPT !.step = "answered"]
    <3>1. put' = [put EXCEPT ![p] = q]
      BY <2>2 DEF AnswerPut
    <3>2. /\ q \in PutType /\ q.step = "answered"
          /\ q.tenant = put[p].tenant /\ q.old = put[p].old
      <4>1. q \in PutType
        <5>1. "answered" \in Steps /\ {} \in SUBSET Tenants
          BY DEF Steps
        <5> QED
          BY <1>1, <5>1, PutRecord
      <4>2. q.step = "answered" /\ q.tenant = put[p].tenant /\ q.old = put[p].old
        BY <1>1 DEF PutType
      <4> HIDE DEF q
      <4> QED
        BY <4>1, <4>2
    <3> HIDE DEF q
    <3>3. ASSUME NEW e \in cache, q.tenant \in {Org, e.tenant}
          PROVE  e.answer \notin q.old
      <4>1. e.answer \in put[p].old => e \in Due(p)
        BY <3>2, <3>3 DEF Due
      <4>2. e \in Due(p) => e.tenant \in put[p].todo
        BY <1>1, <2>2 DEF PurgeInv
      <4> QED
        BY <1>1, <3>2, <4>1, <4>2
    <3>4. q.old \subseteq Done
      BY <1>1, <3>2 DEF PurgeInv
    <3> QED
      BY <1>1, <3>1, <3>2, <3>3, <3>4, DoneKept, OnePut
  <2> QED
    BY <2>1, <2>2
<1>3. Typed'
  BY <1>1, <1>2 DEF Typed
<1>4. AnswerInv'
  BY <1>1, AnswersShrink
<1>5. ConsentInv'
  BY <1>1, ConsentKept
<1> QED
  BY <1>2, <1>3, <1>4, <1>5 DEF Inv

-----------------------------------------------------------------------------
(* Restarts and time. *)

LEMMA RestartInv ==
  ASSUME Inv, NEW p \in Replicas, Restart(p)
  PROVE  Inv'
<1> DEFINE over == [NewRequest EXCEPT !.phase = "ended"]
<1>1. /\ Typed /\ AnswerInv /\ PurgeInv /\ ConsentInv
      /\ UNCHANGED <<flag, cache, since, whole>>
      /\ policy' = [policy EXCEPT ![p] = [t \in Tenants |-> Unknown]]
      /\ anchored' = [anchored EXCEPT ![p] = TRUE]
      /\ req' = [r \in Requests |->
                   IF ReplicaOf[r] = p /\ req[r].phase \notin {"new", "storing", "replayed"}
                   THEN over ELSE req[r]]
      /\ put' = [put EXCEPT ![p] = IF put[p].step = "answered" THEN put[p] ELSE Idle]
  BY DEF Inv, Restart
<1>2. over \in RequestType /\ over.phase = "ended"
  BY Ending
<1> HIDE DEF over
<1>3. \A r \in Requests :
        \/ req'[r] = req[r]
        \/ req'[r] = over /\ req[r].phase # "replayed"
  BY <1>1
<1>4. req' \in [Requests -> RequestType]
  BY <1>1, <1>2 DEF Typed
<1>5. /\ policy' \in [Replicas -> [Tenants -> DecisionType]]
      /\ \A k \in Replicas, t \in Tenants :
           policy'[k][t] = policy[k][t] \/ policy'[k][t].on = FALSE
  BY <1>1, UnknownRecord DEF Typed
<1>6. put' \in [Replicas -> PutType] /\ PurgeInv'
  <2>0. Done \subseteq Done'
    BY <1>1, <1>2, <1>3 DEF Done, Typed
  <2>1. CASE put[p].step = "answered"
    <3>1. put' = put
      BY <1>1, <2>1 DEF Typed
    <3> QED
      BY <1>1, <2>0, <3>1 DEF Typed, PurgeInv, Due
  <2>2. CASE put[p].step # "answered"
    <3>1. put' = [put EXCEPT ![p] = Idle]
      BY <1>1, <2>2
    <3>2. /\ Idle \in PutType /\ Idle.old \subseteq Done
          /\ Idle.step # "purging" /\ Idle.step # "answered"
      BY IdleRecord
    <3> QED
      BY <1>1, <2>0, <3>1, <3>2, OnePut
  <2> QED
    BY <2>1, <2>2
<1>7. Typed'
  <2>1. anchored' \in [Replicas -> BOOLEAN]
    BY <1>1 DEF Typed
  <2> QED
    BY <1>1, <1>4, <1>5, <1>6, <2>1 DEF Typed
<1>8. AnswerInv'
  <2>1. /\ \A q \in whole' : req'[q].phase \in {"storing", "ended"}
        /\ \A q \in Requests : req'[q].phase = "storing" => q \in whole'
    BY <1>1, <1>2, <1>3 DEF AnswerInv, Typed
  <2>2. \A e \in cache' : Paid(e)'
    BY <1>1 DEF AnswerInv, Paid
  <2>3. \A r \in Requests : req'[r].phase = "replayed" =>
          \A x \in {req'[r].answer, req'[r].origin} \ {None} :
             x \in whole' /\ TenantOf[x] = TenantOf[r]
    <3> SUFFICES ASSUME NEW r \in Requests, req'[r].phase = "replayed"
                 PROVE  \A x \in {req'[r].answer, req'[r].origin} \ {None} :
                           x \in whole' /\ TenantOf[x] = TenantOf[r]
      OBVIOUS
    <3>1. req'[r] = req[r]
      BY <1>2, <1>3
    <3> QED
      BY <1>1, <3>1 DEF AnswerInv
  <2> QED
    BY <2>1, <2>2, <2>3 DEF AnswerInv
<1>9. ConsentInv'
  <2>1. \A t \in Tenants : Enabled(t)' => since'[t] = 0
    BY <1>1 DEF ConsentInv, Enabled
  <2>2. \A k \in Replicas, t \in Tenants :
          policy'[k][t].on => since'[t] <= ReadTime + (PolicyTTL - policy'[k][t].left)
                              /\ policy'[k][t].left > 0
    BY <1>1, <1>5 DEF ConsentInv
  <2>3. \A r \in Requests :
          /\ req'[r].phase \in {"deciding", "decided"} => req'[r].age <= ReadTime
          /\ req'[r].phase = "calling" => req'[r].age <= CallTime
          /\ req'[r].phase = "decided" /\ req'[r].on => since'[TenantOf[r]] <= req'[r].age
          /\ req'[r].phase = "looking" =>
               req'[r].age <= LookTime /\ since'[TenantOf[r]] < DecisionAge + req'[r].age
    BY <1>1, <1>2, <1>3 DEF ConsentInv
  <2> QED
    BY <2>1, <2>2, <2>3 DEF ConsentInv
<1> QED
  BY <1>6, <1>7, <1>8, <1>9 DEF Inv

LEMMA DecisionAges ==
  ASSUME NEW d \in DecisionType, d.left > 1
  PROVE  LET q == [d EXCEPT !.left = @ - 1]
         IN q \in DecisionType /\ q.left = d.left - 1 /\ q.on = d.on
<1> DEFINE q == [d EXCEPT !.left = @ - 1]
<1>1. q.left = d.left - 1
  BY DEF DecisionType
<1>2. q.on = d.on
  BY DEF DecisionType
<1>3. d.left - 1 \in 0 .. PolicyTTL
  BY Numbers DEF DecisionType
<1>4. q \in DecisionType
  BY <1>3, ZenonT(40) DEF DecisionType
<1> HIDE DEF q
<1>5. q \in DecisionType /\ q.left = d.left - 1 /\ q.on = d.on
  BY <1>1, <1>2, <1>4
<1> QED
  BY <1>5 DEF q

LEMMA RowAges ==
  ASSUME NEW e \in RowType, e.age < EntryTTL - 1
  PROVE  LET q == [e EXCEPT !.age = @ + 1]
         IN /\ q \in RowType /\ q.tenant = e.tenant /\ q.answer = e.answer
            /\ q.origin = e.origin
BY Numbers DEF RowType

LEMMA TickInv ==
  ASSUME Inv, Tick
  PROVE  Inv'
<1>1. /\ Typed /\ AnswerInv /\ PurgeInv /\ ConsentInv
      /\ UNCHANGED <<flag, anchored, put, whole>>
      /\ \A r \in Requests : ~Urgent(r)
  BY DEF Inv, Tick
<1>2. Staleness \in Nat
  BY Numbers DEF Staleness, DecisionAge
<1>3. \A t \in Tenants : since[t] \in 0 .. Staleness
  BY <1>1 DEF Typed
<1>4. /\ since' \in [Tenants -> 0 .. Staleness]
      /\ \A t \in Tenants : since'[t] <= since[t] + 1 /\ (Enabled(t) => since'[t] = 0)
  <2>1. since' = [t \in Tenants |->
                    IF Enabled(t) THEN 0
                    ELSE IF since[t] < Staleness THEN since[t] + 1 ELSE since[t]]
    BY DEF Tick
  <2>2. ASSUME NEW t \in Tenants
        PROVE  /\ since'[t] \in 0 .. Staleness /\ since'[t] <= since[t] + 1
               /\ (Enabled(t) => since'[t] = 0)
    <3>1. since[t] \in 0 .. Staleness
      BY <1>3
    <3>2. CASE Enabled(t)
      BY <1>2, <2>1, <3>1, <3>2
    <3>3. CASE ~Enabled(t)
      <4>1. since'[t] = IF since[t] < Staleness THEN since[t] + 1 ELSE since[t]
        BY <2>1, <3>3
      <4> QED
        BY <1>2, <3>1, <3>3, <4>1
    <3> QED
      BY <3>2, <3>3
  <2> QED
    BY <2>1, <2>2
<1>5. \A p \in Replicas, t \in Tenants :
        /\ policy'[p][t] \in DecisionType
        /\ policy'[p][t].on =>
             /\ policy[p][t].on /\ policy'[p][t].left = policy[p][t].left - 1
             /\ policy'[p][t].left > 0
  <2> SUFFICES ASSUME NEW p \in Replicas, NEW t \in Tenants
               PROVE  /\ policy'[p][t] \in DecisionType
                      /\ policy'[p][t].on =>
                           /\ policy[p][t].on /\ policy'[p][t].left = policy[p][t].left - 1
                           /\ policy'[p][t].left > 0
    OBVIOUS
  <2>1. policy'[p][t] = IF policy[p][t].left > 1
                        THEN [policy[p][t] EXCEPT !.left = @ - 1] ELSE Unknown
    BY DEF Tick
  <2>2. PICK d \in DecisionType : d = policy[p][t]
    BY <1>1 DEF Typed
  <2>3. CASE d.left > 1
    <3> DEFINE q == [d EXCEPT !.left = @ - 1]
    <3>1. policy'[p][t] = q
      BY <2>1, <2>2, <2>3
    <3>2. q \in DecisionType /\ q.left = d.left - 1 /\ q.on = d.on
      BY <2>3, DecisionAges
    <3>3. d.left \in Int
      BY Numbers DEF DecisionType
    <3> HIDE DEF q
    <3>4. q.left > 0
      BY <2>3, <3>2, <3>3
    <3> QED
      BY <2>2, <3>1, <3>2, <3>4
  <2>4. CASE ~(d.left > 1)
    BY <2>1, <2>2, <2>4, UnknownRecord
  <2> QED
    BY <2>3, <2>4
<1>6. policy' \in [Replicas -> [Tenants -> DecisionType]]
  <2>1. policy' = [p \in Replicas |-> [t \in Tenants |-> policy'[p][t]]]
    BY DEF Tick
  <2> QED
    BY <1>5, <2>1
<1>7. \A e \in cache' : /\ e \in RowType
                        /\ \E o \in cache : /\ e.tenant = o.tenant /\ e.answer = o.answer
                                            /\ e.origin = o.origin
  <2> SUFFICES ASSUME NEW e \in cache'
               PROVE  /\ e \in RowType
                      /\ \E o \in cache : /\ e.tenant = o.tenant /\ e.answer = o.answer
                                          /\ e.origin = o.origin
    OBVIOUS
  <2>1. PICK o \in cache : o.age < EntryTTL - 1 /\ e = [o EXCEPT !.age = @ + 1]
    BY DEF Tick
  <2>2. o \in RowType
    BY <1>1 DEF Typed
  <2> QED
    BY <2>1, <2>2, RowAges
<1>8. ASSUME NEW r \in Requests
      PROVE  /\ req'[r] \in RequestType
             /\ req'[r].phase = req[r].phase /\ req'[r].on = req[r].on
             /\ req'[r].answer = req[r].answer /\ req'[r].origin = req[r].origin
             /\ req'[r].phase \in {"deciding", "decided"} =>
                  req'[r].age <= ReadTime /\ req'[r].age = req[r].age + 1
             /\ req'[r].phase = "calling" => req'[r].age <= CallTime
             /\ req'[r].phase = "looking" =>
                  req'[r].age <= LookTime /\ req'[r].age = req[r].age + 1
  <2>1. req[r] \in RequestType /\ ~Urgent(r)
    BY <1>1 DEF Typed
  <2>2. req[r].age \in Nat
    BY <2>1, Numbers DEF RequestType
  <2>3. CASE req[r].phase \in {"deciding", "decided", "looking", "calling"}
    <3> DEFINE q == [req[r] EXCEPT !.age = @ + 1]
    <3>1. req'[r] = q
      BY <2>3 DEF Tick
    <3>2. req[r].phase \in {"deciding", "decided"} => req[r].age < ReadTime
      BY <1>1, <2>1, <2>2, Numbers DEF Urgent, ConsentInv
    <3>3. req[r].phase = "calling" => req[r].age < CallTime
      BY <1>1, <2>1, <2>2, Numbers DEF Urgent, ConsentInv
    <3>9. req[r].phase = "looking" => req[r].age < LookTime
      BY <1>1, <2>1, <2>2, Numbers DEF Urgent, ConsentInv
    <3>4. req[r].age < ReadTime + LookTime + CallTime
      BY <2>2, <2>3, <3>2, <3>3, <3>9, Numbers
    <3>5. /\ q \in RequestType /\ q.phase = req[r].phase /\ q.age = req[r].age + 1
          /\ q.on = req[r].on /\ q.answer = req[r].answer /\ q.origin = req[r].origin
      BY <2>1, <3>4, Aging
    <3> HIDE DEF q
    <3>6. /\ q.phase \in {"deciding", "decided"} => q.age <= ReadTime
          /\ q.phase = "calling" => q.age <= CallTime
          /\ q.phase = "looking" => q.age <= LookTime
      BY <2>2, <3>2, <3>3, <3>5, <3>9, Numbers
    <3> QED
      BY <2>2, <3>1, <3>5, <3>6
  <2>4. CASE req[r].phase \notin {"deciding", "decided", "looking", "calling"}
    <3>1. req'[r] = req[r]
      BY <2>4 DEF Tick
    <3> QED
      BY <2>1, <2>2, <2>4, <3>1
  <2> QED
    BY <2>3, <2>4
<1>9. req' \in [Requests -> RequestType]
  <2>1. req' = [r \in Requests |-> req'[r]]
    BY DEF Tick
  <2>2. \A r \in Requests : req'[r] \in RequestType
    BY <1>8
  <2> QED
    BY <2>1, <2>2
<1>10. Typed'
  <2>1. cache' \subseteq RowType
    BY <1>7
  <2> QED
    BY <1>1, <1>4, <1>6, <1>9, <2>1 DEF Typed
<1>11. AnswerInv'
  <2>1. /\ \A q \in whole' : req'[q].phase \in {"storing", "ended"}
        /\ \A q \in Requests : req'[q].phase = "storing" => q \in whole'
    BY <1>1, <1>8 DEF AnswerInv, Typed
  <2>2. \A e \in cache' : Paid(e)'
    BY <1>1, <1>7 DEF AnswerInv, Paid
  <2>3. \A r \in Requests : req'[r].phase = "replayed" =>
          \A x \in {req'[r].answer, req'[r].origin} \ {None} :
             x \in whole' /\ TenantOf[x] = TenantOf[r]
    <3> SUFFICES ASSUME NEW r \in Requests, req'[r].phase = "replayed"
                 PROVE  \A x \in {req'[r].answer, req'[r].origin} \ {None} :
                           x \in whole' /\ TenantOf[x] = TenantOf[r]
      OBVIOUS
    <3>1. /\ req'[r].phase = req[r].phase /\ req'[r].answer = req[r].answer
          /\ req'[r].origin = req[r].origin
      BY <1>8
    <3> QED
      BY <1>1, <3>1 DEF AnswerInv
  <2> QED
    BY <2>1, <2>2, <2>3 DEF AnswerInv
<1>12. PurgeInv'
  <2>1. ASSUME NEW p \in Replicas, NEW e \in Due(p)'
        PROVE  \E o \in Due(p) : o.tenant = e.tenant
    BY <1>1, <1>7 DEF Due
  <2>2. Done \subseteq Done'
    BY <1>1, <1>8 DEF Done, Typed
  <2> QED
    BY <1>1, <2>1, <2>2 DEF PurgeInv
<1>13. ConsentInv'
  <2>1. \A t \in Tenants : Enabled(t)' => since'[t] = 0
    BY <1>1, <1>4 DEF Enabled
  <2>2. \A p \in Replicas, t \in Tenants :
          policy'[p][t].on => since'[t] <= ReadTime + (PolicyTTL - policy'[p][t].left)
                              /\ policy'[p][t].left > 0
    <3> SUFFICES ASSUME NEW p \in Replicas, NEW t \in Tenants, policy'[p][t].on
                 PROVE  since'[t] <= ReadTime + (PolicyTTL - policy'[p][t].left)
                        /\ policy'[p][t].left > 0
      OBVIOUS
    <3>1. /\ policy[p][t].on /\ policy'[p][t].left = policy[p][t].left - 1
          /\ policy'[p][t].left > 0
      BY <1>5
    <3>2. since[t] <= ReadTime + (PolicyTTL - policy[p][t].left)
      BY <1>1, <3>1 DEF ConsentInv
    <3>3. policy[p][t].left \in Int
      BY <1>1, Numbers DEF Typed, DecisionType
    <3>4. since'[t] <= since[t] + 1 /\ since'[t] \in Int /\ since[t] \in Int
      BY <1>2, <1>3, <1>4
    <3> QED
      BY <3>1, <3>2, <3>3, <3>4, Numbers
  <2>3. \A r \in Requests :
          /\ req'[r].phase \in {"deciding", "decided"} => req'[r].age <= ReadTime
          /\ req'[r].phase = "calling" => req'[r].age <= CallTime
          /\ req'[r].phase = "decided" /\ req'[r].on => since'[TenantOf[r]] <= req'[r].age
          /\ req'[r].phase = "looking" =>
               req'[r].age <= LookTime /\ since'[TenantOf[r]] < DecisionAge + req'[r].age
    <3> SUFFICES ASSUME NEW r \in Requests
                 PROVE  /\ req'[r].phase = "decided" /\ req'[r].on
                             => since'[TenantOf[r]] <= req'[r].age
                        /\ req'[r].phase = "looking"
                             => since'[TenantOf[r]] < DecisionAge + req'[r].age
      BY <1>8
    <3>1. /\ req'[r].phase = req[r].phase /\ req'[r].on = req[r].on
          /\ req'[r].phase \in {"decided", "looking"} => req'[r].age = req[r].age + 1
      BY <1>8
    <3>2. /\ req[r].phase = "decided" /\ req[r].on => since[TenantOf[r]] <= req[r].age
          /\ req[r].phase = "looking" => since[TenantOf[r]] < DecisionAge + req[r].age
      BY <1>1 DEF ConsentInv
    <3>3. req[r].age \in Int /\ DecisionAge \in Int
      BY <1>1, Numbers DEF Typed, RequestType, DecisionAge
    <3>4. TenantOf[r] \in Tenants
      BY Numbers
    <3>5. /\ since'[TenantOf[r]] <= since[TenantOf[r]] + 1
          /\ since'[TenantOf[r]] \in Int /\ since[TenantOf[r]] \in Int
      BY <1>2, <1>3, <1>4, <3>4
    <3>6. CASE req'[r].phase = "decided" /\ req'[r].on
      BY <3>1, <3>2, <3>3, <3>5, <3>6
    <3>7. CASE req'[r].phase = "looking"
      BY <3>1, <3>2, <3>3, <3>5, <3>7
    <3> QED
      BY <3>6, <3>7
  <2> QED
    BY <2>1, <2>2, <2>3 DEF ConsentInv
<1> QED
  BY <1>10, <1>11, <1>12, <1>13 DEF Inv

LEMMA NextInv == Inv /\ [Next]_vars => Inv'
<1> SUFFICES ASSUME Inv, [Next]_vars PROVE Inv'
  OBVIOUS
<1>1. CASE \E r \in Requests :
             Arrive(r) \/ ReadPolicy(r) \/ KeepPolicy(r) \/ Lookup(r) \/ CallEnds(r)
             \/ StoreAgain(r)
  BY <1>1, ArriveInv, ReadPolicyInv, KeepPolicyInv, LookupInv, CallEndsInv, StoreAgainInv
<1>2. CASE \E p \in Replicas :
             \/ \E t \in Tenants : Purge(p, t) \/ \E on \in BOOLEAN : WritePolicy(p, t, on)
             \/ InvalidatePolicy(p) \/ AnswerPut(p) \/ Restart(p)
  <2> PICK p \in Replicas :
        \/ \E t \in Tenants : Purge(p, t) \/ \E on \in BOOLEAN : WritePolicy(p, t, on)
        \/ InvalidatePolicy(p) \/ AnswerPut(p) \/ Restart(p)
    BY <1>2
  <2>1. ASSUME NEW t \in Tenants, Purge(p, t) PROVE Inv'
    BY <2>1, PurgeStepInv
  <2>2. ASSUME NEW t \in Tenants, NEW on \in BOOLEAN, WritePolicy(p, t, on) PROVE Inv'
    BY <2>2, WritePolicyInv
  <2>3. CASE InvalidatePolicy(p) \/ AnswerPut(p) \/ Restart(p)
    BY <2>3, InvalidatePolicyInv, AnswerPutInv, RestartInv
  <2> QED
    BY <2>1, <2>2, <2>3
<1>3. CASE Tick
  BY <1>3, TickInv
<1>4. CASE UNCHANGED vars
  <2>1. UNCHANGED <<flag, policy, anchored, cache, req, put, since, whole>>
    BY <1>4 DEF vars
  <2>2. Typed /\ AnswerInv /\ PurgeInv /\ ConsentInv
    BY DEF Inv
  <2>3. Typed'
    BY <2>1, <2>2 DEF Typed
  <2>4. AnswerInv'
    BY <2>1, <2>2, AnswersShrink
  <2>5. PurgeInv'
    BY <2>1, <2>2, DoneKept DEF PurgeInv, Due
  <2>6. ConsentInv'
    BY <2>1, <2>2, ConsentKept
  <2> QED
    BY <2>3, <2>4, <2>5, <2>6 DEF Inv
<1> QED
  BY <1>1, <1>2, <1>3, <1>4 DEF Next

LEMMA InvHolds == Spec => []Inv
<1>1. Init => Inv
  BY InitInv
<1>2. Inv /\ [Next]_vars => Inv'
  BY NextInv
<1> QED
  BY <1>1, <1>2, PTL DEF Spec

-----------------------------------------------------------------------------
(* The theorems. *)

\* What is replayed, and the call a replay's saving is measured against, is a
\* complete answer another request of the same tenant has paid for, through
\* evictions, rewrites that keep an older origin, and servers that read no anchors.
THEOREM ReplayCorrect == Spec => []ReplayIsOwnPaid
<1>1. Inv => ReplayIsOwnPaid
  <2> SUFFICES ASSUME Inv, NEW r \in Requests, req[r].phase = "replayed",
                      NEW q \in {req[r].answer, req[r].origin} \ {None}
               PROVE  q # r /\ q \in whole /\ TenantOf[q] = TenantOf[r]
    BY DEF ReplayIsOwnPaid
  <2>1. q \in whole /\ TenantOf[q] = TenantOf[r]
    BY DEF Inv, AnswerInv
  <2>2. req[q].phase \in {"storing", "ended"}
    BY <2>1 DEF Inv, AnswerInv
  <2> QED
    BY <2>1, <2>2
<1> QED
  BY <1>1, InvHolds, PTL

\* A purge that was answered left nothing behind of the requests that were over when
\* the policy was changed, whatever was stored, was evicted or expired while it ran.
\* (A request that has yet to write its answer a second time is not over.)
THEOREM PurgeCorrect == Spec => []PurgedIsGone
<1>1. Inv => PurgedIsGone
  BY DEF Inv, PurgeInv, Due, PurgedIsGone
<1> QED
  BY <1>1, InvHolds, PTL

\* Nothing but a lookup replays.
LEMMA OnlyLookup ==
  ASSUME Typed, [Next]_vars, NEW r \in Requests,
         req'[r].phase = "replayed", req[r].phase # "replayed"
  PROVE  Lookup(r)
<1>1. req \in [Requests -> RequestType]
  BY DEF Typed
<1>3. ASSUME NEW k \in Requests, NEW q, req' = [req EXCEPT ![k] = q],
             q.phase # "replayed"
      PROVE  FALSE
  BY <1>1, <1>3
<1>4. ASSUME NEW k \in Requests, NEW on, Admitted(k, on) PROVE FALSE
  <2> DEFINE q == [req[k] EXCEPT !.phase = IF on THEN "looking" ELSE "calling",
                                 !.on = on, !.age = 0]
  <2>1. req' = [req EXCEPT ![k] = q]
    BY <1>4 DEF Admitted
  <2>2. q.phase = IF on THEN "looking" ELSE "calling"
    BY <1>1 DEF RequestType
  <2> HIDE DEF q
  <2> QED
    BY <1>3, <2>1, <2>2
<1>5. ASSUME NEW k \in Requests, NEW phase \in Phases \ {"replayed"}, Goes(k, phase)
      PROVE  FALSE
  <2> DEFINE q == [req[k] EXCEPT !.phase = phase, !.age = 0]
  <2>1. req' = [req EXCEPT ![k] = q]
    BY <1>5 DEF Goes
  <2>2. q.phase = phase
    BY <1>1 DEF RequestType
  <2> HIDE DEF q
  <2> QED
    BY <1>3, <1>5, <2>1, <2>2
<1>6. req' = req => FALSE
  OBVIOUS
<1>7. {"deciding", "calling"} \subseteq Phases \ {"replayed"}
  BY DEF Phases
<1>8. ASSUME NEW k \in Requests,
             Arrive(k) \/ ReadPolicy(k) \/ KeepPolicy(k) \/ CallEnds(k) \/ StoreAgain(k)
      PROVE  FALSE
  <2>1. CASE Arrive(k)
    BY <1>4, <1>5, <1>7, <2>1 DEF Arrive
  <2>2. CASE ReadPolicy(k)
    <3>1. CASE req' = [req EXCEPT ![k].phase = "decided", ![k].on = Enabled(TenantOf[k])]
      <4> DEFINE q == [req[k] EXCEPT !.phase = "decided", !.on = Enabled(TenantOf[k])]
      <4>1. req' = [req EXCEPT ![k] = q]
        BY <3>1
      <4>2. q.phase = "decided"
        BY <1>1 DEF RequestType
      <4> HIDE DEF q
      <4> QED
        BY <1>3, <4>1, <4>2
    <3>2. CASE Admitted(k, OnFailure)
      BY <1>4, <3>2
    <3> QED
      BY <2>2, <3>1, <3>2 DEF ReadPolicy
  <2>3. CASE KeepPolicy(k)
    BY <1>4, <2>3 DEF KeepPolicy
  <2>4. CASE CallEnds(k) \/ StoreAgain(k)
    <3>1. PICK phase \in {"ended", "storing"} : Settles(k, phase)
      BY <2>4 DEF CallEnds, StoreAgain, FirstStore
    <3> DEFINE q == [NewRequest EXCEPT !.phase = phase]
    <3>2. req' = [req EXCEPT ![k] = q] /\ q.phase = phase
      BY <3>1, Ending DEF Settles
    <3> HIDE DEF q
    <3> QED
      BY <1>3, <3>1, <3>2
  <2> QED
    BY <1>8, <2>1, <2>2, <2>3, <2>4
<1>9. ASSUME NEW k \in Requests, Lookup(k) PROVE k = r
  <2> SUFFICES ASSUME k # r PROVE FALSE
    OBVIOUS
  <2>1. req'[r] = req[r]
    BY <1>1, <1>9 DEF Lookup, Goes
  <2> QED
    BY <2>1
<1>10. ASSUME NEW p \in Replicas,
              \/ \E t \in Tenants : Purge(p, t) \/ \E on \in BOOLEAN : WritePolicy(p, t, on)
              \/ InvalidatePolicy(p) \/ AnswerPut(p)
       PROVE  FALSE
  BY <1>6, <1>10 DEF Purge, WritePolicy, InvalidatePolicy, AnswerPut
<1>11. ASSUME NEW p \in Replicas, Restart(p) PROVE FALSE
  <2>1. req'[r] \in {req[r], [NewRequest EXCEPT !.phase = "ended"]}
    BY <1>11 DEF Restart
  <2> QED
    BY <2>1, Ending
<1>12. CASE Tick
  <2>1. req'[r] \in {req[r], [req[r] EXCEPT !.age = @ + 1]}
    BY <1>12 DEF Tick
  <2>2. [req[r] EXCEPT !.age = @ + 1].phase = req[r].phase
    BY <1>1 DEF RequestType
  <2> QED
    BY <2>1, <2>2
<1>13. CASE UNCHANGED vars
  BY <1>6, <1>13 DEF vars
<1> QED
  BY <1>8, <1>9, <1>10, <1>11, <1>12, <1>13 DEF Next

\* An answer is replayed less than a read, a decision's life and the way from the
\* decision to the lookup after the consent of its tenant ended, on every server.
THEOREM ConsentCorrect == Spec => ServedWithConsent
<1>1. Inv /\ [Next]_vars =>
        [\A r \in Requests :
           req'[r].phase = "replayed" /\ req[r].phase # "replayed"
             => since[TenantOf[r]] < Staleness]_vars
  <2> SUFFICES ASSUME Inv, [Next]_vars, NEW r \in Requests,
                      req'[r].phase = "replayed", req[r].phase # "replayed"
               PROVE  since[TenantOf[r]] < Staleness
    OBVIOUS
  <2>1. req[r].phase = "looking"
    BY OnlyLookup DEF Inv, Lookup
  <2>2. /\ req[r].age <= LookTime /\ since[TenantOf[r]] < DecisionAge + req[r].age
        /\ req[r].age \in Int /\ since[TenantOf[r]] \in Int
    BY <2>1, Numbers DEF Inv, ConsentInv, Typed, RequestType, Staleness, DecisionAge
  <2> QED
    BY <2>2, Numbers DEF Staleness, DecisionAge
<1> QED
  BY <1>1, InvHolds, PTL DEF Spec, ServedWithConsent

-----------------------------------------------------------------------------
(* The bound of the table. *)

Bounded ==
  /\ IsFiniteSet(cache) /\ Cardinality(cache) <= MaxEntries
  /\ puts \in 0 .. MaxPuts

Fits(rows) == IsFiniteSet(rows) /\ Cardinality(rows) <= MaxEntries

\* A write removes a row when it would leave one too many.
LEMMA WriteFits ==
  ASSUME NEW rows, Fits(rows), NEW e, NEW left \in Stored(rows, e)
  PROVE  Fits(left)
<1> DEFINE others == {o \in rows : o.tenant # e.tenant}
           all == others \cup {e}
<1>1. IsFiniteSet(others) /\ Cardinality(others) <= Cardinality(rows)
  BY FS_Subset DEF Fits
<1>2. Cardinality(rows) \in Nat /\ Cardinality(others) \in Nat
  BY <1>1, FS_CardinalityType DEF Fits
<1>3. e \notin others
  OBVIOUS
<1>4. IsFiniteSet(all) /\ Cardinality(all) = Cardinality(others) + 1
  BY <1>1, <1>3, FS_AddElement
<1>5. \/ left = all /\ Cardinality(all) <= MaxEntries
      \/ \E o \in Oldest(others) : left = all \ {o}
  BY DEF Stored
<1>6. ASSUME NEW o \in Oldest(others), left = all \ {o}
      PROVE  Fits(left)
  <2>1. o \in all
    BY DEF Oldest
  <2> HIDE DEF all, others
  <2>2. IsFiniteSet(left) /\ Cardinality(left) = Cardinality(all) - 1
    BY <1>4, <1>6, <2>1, FS_RemoveElement
  <2> QED
    BY <1>1, <1>2, <1>4, <2>2, Numbers DEF Fits
<1> QED
  BY <1>4, <1>5, <1>6 DEF Fits

LEMMA StoreFits ==
  ASSUME Fits(cache), NEW r \in Requests,
         cache' \in {cache} \cup WithAnchor(r) \cup WithoutAnchor(r)
  PROVE  Fits(cache')
<1>1. CASE cache' = cache
  BY <1>1
<1>2. CASE cache' \in WithAnchor(r)
  BY <1>2, WriteFits DEF WithAnchor
<1>3. CASE cache' \in WithoutAnchor(r)
  <2>1. PICK e : cache' \in Stored(cache, e)
    BY <1>3 DEF WithoutAnchor
  <2> QED
    BY <2>1, WriteFits
<1> QED
  BY <1>1, <1>2, <1>3

LEMMA BoundedNext == Inv /\ Bounded /\ [Next]_vars => Bounded'
<1> SUFFICES ASSUME Inv, Bounded, [Next]_vars PROVE Bounded'
  OBVIOUS
<1>1. Fits(cache) /\ puts \in 0 .. MaxPuts
  BY DEF Bounded, Fits
<1>2. Fits(cache') /\ puts' \in 0 .. MaxPuts => Bounded'
  BY DEF Bounded, Fits
<1>3. cache' \subseteq cache => Fits(cache')
  <2> SUFFICES ASSUME cache' \subseteq cache PROVE Fits(cache')
    OBVIOUS
  <2>1. IsFiniteSet(cache') /\ Cardinality(cache') <= Cardinality(cache)
    BY <1>1, FS_Subset DEF Fits
  <2>2. Cardinality(cache) \in Nat /\ Cardinality(cache') \in Nat
    BY <1>1, <2>1, FS_CardinalityType DEF Fits
  <2> QED
    BY <1>1, <2>1, <2>2, Numbers DEF Fits
<1>4. CASE \E r \in Requests : Arrive(r) \/ ReadPolicy(r) \/ KeepPolicy(r) \/ Lookup(r)
  BY <1>1, <1>2, <1>3, <1>4 DEF Arrive, ReadPolicy, KeepPolicy, Lookup, requestVars
<1>5. CASE \E r \in Requests : CallEnds(r) \/ StoreAgain(r)
  <2>1. PICK r \in Requests : CallEnds(r) \/ StoreAgain(r)
    BY <1>5
  <2>2. puts' = puts /\ cache' \in {cache} \cup WithAnchor(r) \cup WithoutAnchor(r)
    BY <2>1 DEF CallEnds, StoreAgain, FirstStore, requestVars
  <2>3. Fits(cache')
    BY <1>1, <2>2, StoreFits
  <2> QED
    BY <1>1, <1>2, <2>2, <2>3
<1>6. CASE \E p \in Replicas :
             \/ \E t \in Tenants : Purge(p, t)
             \/ InvalidatePolicy(p) \/ AnswerPut(p) \/ Restart(p)
  BY <1>1, <1>2, <1>3, <1>6 DEF Purge, InvalidatePolicy, AnswerPut, Restart
<1>7. CASE \E p \in Replicas, t \in Tenants, on \in BOOLEAN : WritePolicy(p, t, on)
  <2>1. cache' = cache /\ puts < MaxPuts /\ puts' = puts + 1
    BY <1>7 DEF WritePolicy
  <2>2. puts' \in 0 .. MaxPuts
    BY <1>1, <2>1, Numbers
  <2> QED
    BY <1>2, <1>3, <2>1, <2>2
<1>8. CASE Tick
  <2> DEFINE kept == {o \in cache : o.age < EntryTTL - 1}
             aged(e) == [e EXCEPT !.age = @ + 1]
  <2>1. IsFiniteSet(kept) /\ Cardinality(kept) <= Cardinality(cache)
    BY <1>1, FS_Subset DEF Fits
  <2>2. cache' = {aged(e) : e \in kept} /\ puts' = puts
    BY <1>8 DEF Tick
  <2> DEFINE f == [e \in kept |-> aged(e)]
  <2>3. cache' = {f[e] : e \in kept} /\ f \in [kept -> cache'] /\ f \in Surjection(kept, cache')
    BY <2>2 DEF Surjection
  <2> HIDE DEF f, kept
  <2>4. IsFiniteSet(cache') /\ Cardinality(cache') <= Cardinality(kept)
    BY <2>1, <2>3, FS_Surjection
  <2>5. Cardinality(cache) \in Nat /\ Cardinality(kept) \in Nat /\ Cardinality(cache') \in Nat
    BY <1>1, <2>1, <2>4, FS_CardinalityType DEF Fits
  <2> QED
    BY <1>1, <1>2, <2>1, <2>2, <2>4, <2>5, Numbers DEF Fits
<1>9. CASE UNCHANGED vars
  BY <1>1, <1>2, <1>3, <1>9 DEF vars
<1> QED
  BY <1>4, <1>5, <1>6, <1>7, <1>8, <1>9 DEF Next

\* Types, and the table is never over its bound (semantic_cache_store_bounded).
THEOREM TableCorrect == Spec => []TypeOK
<1>1. Init => Bounded
  BY FS_EmptySet, Numbers DEF Init, Bounded
<1>2. Inv /\ Bounded => TypeOK
  BY DEF Inv, Typed, Bounded, TypeOK, DecisionType, RowType, RequestType, PutType, Phases,
         Anchors
<1>3. Inv /\ Bounded /\ [Next]_vars => Bounded'
  BY BoundedNext
<1> QED
  BY <1>1, <1>2, <1>3, InvHolds, PTL DEF Spec
====
