--------------------------- MODULE GatewayProofs ---------------------------
(***************************************************************************)
(* Theorems of Gateway for any number of requests, replicas, sets and      *)
(* chunks, any timeouts and any clocks within the skew: the scripts are    *)
(* called as LimitLeases admits, a released place stays free, a call is    *)
(* executed once, and a stream that was cut is neither metered nor shown.  *)
(* With a lease as long as a configuration gives it, no more calls run     *)
(* than the limit.                                                         *)
(***************************************************************************)
EXTENDS Gateway, FiniteSetTheorems, TLAPS

-----------------------------------------------------------------------------
(* LimitLeases: however the scripts are called, no set holds more members than *)
(* its limit.                                                                  *)

\* What the theorems are about: the types and the limits.
LeaseInv == LeaseTypeOK /\ PlacesBounded

LEMMA SkewsAreNat == Skews \subseteq Nat
BY LeaseAssumption DEF Skews

LEMMA MembersFinite ==
  ASSUME NEW T \in SUBSET Requests
  PROVE  IsFiniteSet(T) /\ Cardinality(T) \in Nat
BY LeaseAssumption, FS_Subset, FS_CardinalityType

\* Fewer members than a bounded set has are bounded as well.
LEMMA FewerMembers ==
  ASSUME NEW T \in SUBSET Requests, NEW U \in SUBSET Requests, T \subseteq U,
         NEW n \in Nat, Cardinality(U) <= n
  PROVE  Cardinality(T) <= n
<1>1. IsFiniteSet(U) /\ Cardinality(U) \in Nat /\ Cardinality(T) \in Nat
  BY MembersFinite
<1>2. Cardinality(T) <= Cardinality(U)
  BY <1>1, FS_Subset
<1> QED
  BY <1>1, <1>2

\* The limits of this set survive a step that adds no member to it.
LEMMA NoNewMember ==
  ASSUME LeaseInv, NEW s \in Scopes, Members(s)' \subseteq Members(s)
  PROVE  (Cardinality(Members(s)) <= Places[s])'
<1>1. Members(s) \in SUBSET Requests /\ Members(s)' \in SUBSET Requests
  BY DEF Members
<1>2. Places[s] \in Nat /\ Cardinality(Members(s)) <= Places[s]
  BY LeaseAssumption DEF LeaseInv, PlacesBounded
<1> QED
  BY <1>1, <1>2, FewerMembers

LEMMA SetsOfInScopes == ASSUME NEW r \in Requests PROVE SetsOf(r) \subseteq Scopes
BY LeaseAssumption DEF SetsOf

-----------------------------------------------------------------------------
(* Types. *)

LEMMA SweptScores ==
  ASSUME LeaseTypeOK, NEW s \in Scopes, NEW d \in Skews
  PROVE  Swept(s, d) \in [Requests -> 0 .. Lease + MaxSkew]
BY LeaseAssumption DEF LeaseTypeOK, Swept

LEMMA NewScore ==
  ASSUME NEW d \in Skews
  PROVE  Lease + d \in 0 .. Lease + MaxSkew /\ Lease + d > 0
BY LeaseAssumption DEF Skews

LEMMA GrantedType ==
  ASSUME LeaseTypeOK, NEW r \in Requests, NEW d \in Skews, AcquireGranted(r, d)
  PROVE  LeaseTypeOK'
<1>1. \A s \in Scopes : [Swept(s, d) EXCEPT ![r] = Lease + d]
                          \in [Requests -> 0 .. Lease + MaxSkew]
  BY SweptScores, NewScore
<1> QED
  BY <1>1 DEF AcquireGranted, LeaseTypeOK

LEMMA RefusedType ==
  ASSUME LeaseTypeOK, NEW r \in Requests, NEW d \in Skews, AcquireRefused(r, d)
  PROVE  LeaseTypeOK'
<1>1. PICK i \in DOMAIN Path[r] :
        left' = [s \in Scopes |-> IF s \in {Path[r][k] : k \in 1 .. i}
                                  THEN Swept(s, d) ELSE left[s]]
  BY DEF AcquireRefused
<1> QED
  BY <1>1, SweptScores DEF LeaseTypeOK

LEMMA ReleaseType ==
  ASSUME LeaseTypeOK, NEW r \in Requests, ReleaseScript(r)
  PROVE  LeaseTypeOK'
<1>1. 0 \in 0 .. Lease + MaxSkew
  BY LeaseAssumption
<1> QED
  BY <1>1 DEF ReleaseScript, LeaseTypeOK

LEMMA RenewType ==
  ASSUME LeaseTypeOK, NEW r \in Requests, NEW d \in Skews, RenewScript(r, d)
  PROVE  LeaseTypeOK'
BY NewScore DEF RenewScript, LeaseTypeOK

LEMMA ElapseType ==
  ASSUME LeaseTypeOK, Elapse
  PROVE  LeaseTypeOK'
<1>1. \A s \in Scopes, q \in Requests :
        (IF left[s][q] > 0 THEN left[s][q] - 1 ELSE 0) \in 0 .. Lease + MaxSkew
  BY LeaseAssumption DEF LeaseTypeOK
<1> QED
  BY <1>1 DEF Elapse, LeaseTypeOK

LEMMA EmptyType == NoMembers \in [Scopes -> [Requests -> 0 .. Lease + MaxSkew]]
<1>1. 0 \in 0 .. Lease + MaxSkew
  BY LeaseAssumption
<1> QED
  BY <1>1 DEF NoMembers

-----------------------------------------------------------------------------
(* The limits. *)

\* The caller sweeps, counts and adds itself in one step: whatever its clock says,
\* what remains with it is within the limit.
LEMMA GrantedBounded ==
  ASSUME LeaseInv, NEW r \in Requests, NEW d \in Skews, AcquireGranted(r, d)
  PROVE  PlacesBounded'
<1> USE DEF LeaseInv
<1>1. SUFFICES ASSUME NEW s \in Scopes
               PROVE  (Cardinality(Members(s)) <= Places[s])'
  BY DEF PlacesBounded
<1>2. CASE s \notin SetsOf(r)
  <2>1. Members(s)' = Members(s)
    BY <1>2 DEF AcquireGranted, Members
  <2> QED
    BY <2>1, NoNewMember
<1>3. CASE s \in SetsOf(r)
  <2>1. Members(s)' \subseteq Unexpired(s, d) \cup {r}
    <3> SUFFICES ASSUME NEW q \in Requests, left'[s][q] > 0, q # r
                 PROVE  left[s][q] > d
      BY DEF Members, Unexpired
    <3>1. left'[s][q] = Swept(s, d)[q]
      BY <1>3 DEF AcquireGranted, Swept
    <3> QED
      BY <3>1 DEF Swept
  <2>2. Unexpired(s, d) \in SUBSET Requests /\ Members(s)' \in SUBSET Requests
    BY DEF Unexpired, Members
  <2>3. /\ Unexpired(s, d) \cup {r} \in SUBSET Requests
        /\ Cardinality(Unexpired(s, d) \cup {r}) <= Cardinality(Unexpired(s, d)) + 1
    BY <2>2, MembersFinite, FS_AddElement
  <2>4. Cardinality(Unexpired(s, d)) < Places[s] /\ Places[s] \in Nat
    BY <1>3, LeaseAssumption DEF AcquireGranted, Granted, HasRoom
  <2>5. Cardinality(Unexpired(s, d) \cup {r}) <= Places[s]
    BY <2>2, <2>3, <2>4, MembersFinite
  <2> QED
    BY <2>1, <2>2, <2>3, <2>4, <2>5, FewerMembers
<1> QED
  BY <1>2, <1>3

LEMMA RefusedBounded ==
  ASSUME LeaseInv, NEW r \in Requests, NEW d \in Skews, AcquireRefused(r, d)
  PROVE  PlacesBounded'
<1>1. PICK i \in DOMAIN Path[r] :
        left' = [s \in Scopes |-> IF s \in {Path[r][k] : k \in 1 .. i}
                                  THEN Swept(s, d) ELSE left[s]]
  BY DEF AcquireRefused
<1>2. \A s \in Scopes : Members(s)' \subseteq Members(s)
  BY <1>1 DEF Members, Swept
<1> QED
  BY <1>2, NoNewMember DEF PlacesBounded

LEMMA ReleaseBounded ==
  ASSUME LeaseInv, NEW r \in Requests, ReleaseScript(r)
  PROVE  PlacesBounded'
<1>1. \A s \in Scopes : Members(s)' \subseteq Members(s)
  BY DEF ReleaseScript, Members, LeaseInv, LeaseTypeOK
<1> QED
  BY <1>1, NoNewMember DEF PlacesBounded

\* Only a member is renewed, so a renewal adds none.
LEMMA RenewBounded ==
  ASSUME LeaseInv, NEW r \in Requests, NEW d \in Skews, RenewScript(r, d)
  PROVE  PlacesBounded'
<1>1. \A s \in Scopes : Members(s)' \subseteq Members(s)
  <2> SUFFICES ASSUME NEW s \in Scopes, NEW q \in Requests, left'[s][q] > 0
               PROVE  left[s][q] > 0
    BY DEF Members
  <2>1. CASE Owned(r, d) /\ s \in SetsOf(r) /\ q = r
    <3>1. left[s][r] > d
      BY <2>1 DEF Owned
    <3> QED
      BY <2>1, <3>1, SkewsAreNat DEF LeaseInv, LeaseTypeOK
  <2>2. CASE ~(Owned(r, d) /\ s \in SetsOf(r) /\ q = r)
    BY <2>2 DEF RenewScript, LeaseInv, LeaseTypeOK
  <2> QED
    BY <2>1, <2>2
<1> QED
  BY <1>1, NoNewMember DEF PlacesBounded

LEMMA ElapseBounded ==
  ASSUME LeaseInv, Elapse
  PROVE  PlacesBounded'
<1>1. \A s \in Scopes : Members(s)' \subseteq Members(s)
  BY DEF Elapse, Members
<1> QED
  BY <1>1, NoNewMember DEF PlacesBounded

LEMMA EmptyBounded ==
  ASSUME left = NoMembers
  PROVE  PlacesBounded
<1>1. \A s \in Scopes : Members(s) = {}
  BY DEF NoMembers, Members
<1>2. \A s \in Scopes : 0 <= Places[s]
  BY LeaseAssumption
<1> QED
  BY <1>1, <1>2, FS_EmptySet DEF PlacesBounded

-----------------------------------------------------------------------------
LEMMA LeaseInitInv == LeaseInit => LeaseInv
BY EmptyType, EmptyBounded DEF LeaseInit, LeaseInv, LeaseTypeOK

LEMMA LeaseNextInv == LeaseInv /\ [LeaseNext]_left => LeaseInv'
<1> SUFFICES ASSUME LeaseInv, [LeaseNext]_left
             PROVE  LeaseInv'
  OBVIOUS
<1>1. ASSUME NEW r \in Requests, NEW d \in Skews, AcquireGranted(r, d)
      PROVE  LeaseInv'
  BY <1>1, GrantedType, GrantedBounded DEF LeaseInv
<1>2. ASSUME NEW r \in Requests, NEW d \in Skews, AcquireRefused(r, d)
      PROVE  LeaseInv'
  BY <1>2, RefusedType, RefusedBounded DEF LeaseInv
<1>3. ASSUME NEW r \in Requests, NEW d \in Skews, RenewScript(r, d)
      PROVE  LeaseInv'
  BY <1>3, RenewType, RenewBounded DEF LeaseInv
<1>4. ASSUME NEW r \in Requests, ReleaseScript(r)
      PROVE  LeaseInv'
  BY <1>4, ReleaseType, ReleaseBounded DEF LeaseInv
<1>5. CASE Elapse
  BY <1>5, ElapseType, ElapseBounded DEF LeaseInv
<1>6. CASE Lose
  <2>1. left' = NoMembers
    BY <1>6 DEF Lose
  <2>2. (left = NoMembers => PlacesBounded)'
    BY EmptyBounded, PTL
  <2> QED
    BY <2>1, <2>2, EmptyType DEF LeaseInv, LeaseTypeOK
<1>7. CASE UNCHANGED left
  BY <1>7 DEF LeaseInv, LeaseTypeOK, PlacesBounded, Members
<1> QED
  BY <1>1, <1>2, <1>3, <1>4, <1>5, <1>6, <1>7 DEF LeaseNext

\* The scores stay in range and no set ever holds more members than its limit, for
\* any number of replicas, clocks within the skew and any order of the scripts.
THEOREM LeasesCorrect == LeaseSpec => [](LeaseTypeOK /\ PlacesBounded)
<1>1. LeaseSpec => []LeaseInv
  BY LeaseInitInv, LeaseNextInv, PTL DEF LeaseSpec
<1> QED
  BY <1>1, PTL DEF LeaseInv

-----------------------------------------------------------------------------
(* Gateway. *)

CallType ==
  [phase : {"new", "ended"} \cup Running, due : Nat, tries : 0 .. Retries + 1,
   for : Requests \cup {None}, inner : {"off", "reading", "sending", "done"},
   fed : 0 .. Chunks, ready : BOOLEAN, shown : 0 .. Chunks, held : BOOLEAN,
   canceled : BOOLEAN, renewing : BOOLEAN, epoch : 0 .. MaxLosses, sent : Nat]

BeforeAnswer == {"new", "admitted", "waiting", "calling"}

One(b) == IF b THEN 1 ELSE 0

\* Where the chunks of a call are: nothing exists before the answer, a generator
\* that runs on after the end knows that it is canceled, it reads no second chunk
\* before the guard streams, and what was shown, read or sent was fed.
InStep(q) ==
  /\ q.phase \in BeforeAnswer => q.inner = "off"
  /\ q.phase = "handed" => q.inner \in {"off", "done"} /\ q.shown = 0
  /\ q.phase = "ended" /\ q.inner \in {"reading", "sending"} => q.canceled
  /\ q.phase = "opened" => /\ q.inner # "off"
                           /\ q.inner = "reading" => q.fed = 0
                           /\ ~q.ready \/ q.inner = "done"
                           /\ q.shown = 0
  /\ q.inner = "off" => q.shown = 0 /\ ~q.ready /\ q.fed = 0
  /\ q.inner \in {"reading", "sending"} =>
       q.shown + One(q.ready) + One(q.inner = "sending") <= q.fed
  /\ q.inner = "done" => q.shown + One(q.ready) <= Chunks

\* A call the provider does not deduplicate has not been executed before it is
\* answered, and at most once then.
Unrepeated(q) == q.sent <= 1 /\ (q.phase \in BeforeAnswer => q.sent = 0)

CallsInv ==
  /\ req \in [Requests -> CallType]
  /\ \A r \in Requests : InStep(req[r])
  /\ \A r \in Requests \ Deduplicated : Unrepeated(req[r])

RestType ==
  /\ inflight \in [Replicas -> Requests \cup {None}]
  /\ warm \in [Replicas -> 0 .. WarmTime]
  /\ late \subseteq Requests /\ losses \in 0 .. MaxLosses
  /\ metered \in [Streams -> {0, 1}]
  /\ freed \subseteq Requests

\* A request that has not been admitted, or was released, is in no set, and no
\* request is in a set outside its path.
PlacesInv ==
  /\ LeaseTypeOK
  /\ \A r \in Requests, s \in Scopes : s \notin SetsOf(r) => left[s][r] = 0
  /\ \A r \in Requests : Phase(r) = "new" \/ r \in freed => ~Present(r)
  /\ \A r \in freed : Phase(r) # "new"

Inv == CallsInv /\ RestType /\ PlacesInv

-----------------------------------------------------------------------------
(* The calls. *)

LEMMA NewRequestType == NewRequest \in CallType /\ InStep(NewRequest) /\ Unrepeated(NewRequest)
BY GatewayAssumption DEF NewRequest, CallType, InStep, Unrepeated, One, BeforeAnswer

LEMMA OverType ==
  /\ Over \in CallType /\ InStep(Over) /\ Unrepeated(Over)
  /\ Over.phase = "ended" /\ Over.sent = 0
<1>1. Over \in CallType
  BY NewRequestType DEF Over, CallType
<1>2. /\ Over.phase = "ended" /\ Over.inner = "off" /\ Over.shown = 0 /\ Over.ready = FALSE
      /\ Over.fed = 0 /\ Over.sent = 0
  BY DEF Over, NewRequest
<1> QED
  BY <1>1, <1>2 DEF InStep, Unrepeated, BeforeAnswer

LEMMA EndOfType ==
  ASSUME NEW q \in CallType, InStep(q)
  PROVE  EndOf(q) \in CallType /\ InStep(EndOf(q)) /\ Unrepeated(EndOf(q)) /\ EndOf(q).phase = "ended"
<1>1. CASE q.inner \in {"reading", "sending"}
  <2> DEFINE e == [Over EXCEPT !.inner = q.inner, !.fed = q.fed, !.canceled = TRUE]
  <2>1. e \in CallType /\ EndOf(q) = e
    BY <1>1, OverType DEF CallType, EndOf
  <2>2. /\ e.inner = q.inner /\ e.fed = q.fed /\ e.canceled /\ e.phase = "ended"
        /\ e.shown = 0 /\ e.ready = FALSE /\ e.sent = 0
    BY <1>1 DEF Over, NewRequest
  <2>3. q.fed \in Nat /\ 0 + 0 + One(q.inner = "sending") <= q.fed
    <3>1. q.shown \in Nat /\ q.fed \in Nat
      BY GatewayAssumption DEF CallType
    <3>2. q.shown + One(q.ready) + One(q.inner = "sending") <= q.fed
      BY <1>1 DEF InStep
    <3> QED
      BY <3>1, <3>2 DEF One
  <2>4. InStep(e) /\ Unrepeated(e)
    BY <1>1, <2>2, <2>3 DEF InStep, Unrepeated, BeforeAnswer, One
  <2> QED
    BY <2>1, <2>2, <2>4
<1>2. CASE q.inner \notin {"reading", "sending"}
  BY <1>2, OverType DEF EndOf, Over, NewRequest
<1> QED
  BY <1>1, <1>2

\* A step that replaces one call by a sound one keeps all calls sound.
LEMMA OneCallMoves ==
  ASSUME CallsInv, NEW r \in Requests, NEW q, Becomes(r, q),
         q \in CallType, InStep(q), r \notin Deduplicated => Unrepeated(q)
  PROVE  CallsInv'
<1>1. /\ req' \in [Requests -> CallType] /\ req'[r] = q
      /\ \A p \in Requests : p # r => req'[p] = req[p]
  BY DEF Becomes, CallsInv
<1> QED
  BY <1>1 DEF CallsInv

LEMMA EndsCalls ==
  ASSUME CallsInv, NEW r \in Requests, Ends(r)
  PROVE  CallsInv'
<1>1. Becomes(r, EndOf(req[r]))
  BY DEF Ends, Becomes, CallsInv
<1>2. req[r] \in CallType /\ InStep(req[r])
  BY DEF CallsInv
<1> QED
  BY <1>1, <1>2, EndOfType, OneCallMoves

\* Before the answer there are no chunks to keep in step.
LEMMA BeforeAnswerInStep ==
  ASSUME NEW p \in CallType, InStep(p), p.phase \in BeforeAnswer,
         NEW q \in CallType, q.phase \in BeforeAnswer, q.inner = p.inner,
         q.fed = p.fed, q.ready = p.ready, q.shown = p.shown
  PROVE  InStep(q)
BY DEF InStep, BeforeAnswer

LEMMA AdmitCalls ==
  ASSUME CallsInv, losses \in 0 .. MaxLosses, NEW r \in Requests, Admit(r)
  PROVE  CallsInv'
<1>1. PICK q : q = [req[r] EXCEPT !.phase = "admitted", !.epoch = losses]
  OBVIOUS
<1>2. CASE Becomes(r, q)
  <2>1. req[r] \in CallType /\ InStep(req[r]) /\ req[r].phase = "new"
    BY DEF Admit, Phase, CallsInv
  <2>2. q \in CallType /\ q.phase = "admitted"
    BY <1>1, <2>1 DEF CallType, Running
  <2>3. /\ q.inner = req[r].inner /\ q.fed = req[r].fed /\ q.ready = req[r].ready
        /\ q.shown = req[r].shown /\ q.sent = req[r].sent
    BY <1>1, <2>1 DEF CallType
  <2>4. InStep(q) /\ (r \notin Deduplicated => Unrepeated(q))
    BY <2>1, <2>2, <2>3, BeforeAnswerInStep DEF CallsInv, Unrepeated, BeforeAnswer
  <2> QED
    BY <1>2, <2>2, <2>4, OneCallMoves
<1>3. CASE Ends(r)
  BY <1>3, EndsCalls
<1> QED
  BY <1>1, <1>2, <1>3 DEF Admit

LEMMA CallingSound ==
  ASSUME CallsInv, NEW r \in Requests, Phase(r) \in {"admitted", "waiting"}
  PROVE  /\ Calling(r) \in CallType /\ InStep(Calling(r))
         /\ r \notin Deduplicated => Unrepeated(Calling(r))
<1>1. PICK q : q = Calling(r)
  OBVIOUS
<1>2. req[r] \in CallType /\ InStep(req[r]) /\ req[r].phase \in {"admitted", "waiting"}
  BY DEF Phase, CallsInv
<1>3. 1 \in 0 .. Retries + 1 /\ AttemptTime \in Nat
  BY GatewayAssumption
<1>4. q \in CallType /\ q.phase = "calling"
  BY <1>1, <1>2, <1>3 DEF Calling, CallType, Running
<1>5. /\ q.inner = req[r].inner /\ q.fed = req[r].fed /\ q.ready = req[r].ready
      /\ q.shown = req[r].shown /\ q.sent = req[r].sent
  BY <1>1, <1>2 DEF Calling, CallType
<1>6. InStep(q) /\ (r \notin Deduplicated => Unrepeated(q))
  BY <1>2, <1>4, <1>5, BeforeAnswerInStep DEF CallsInv, Unrepeated, BeforeAnswer
<1> QED
  BY <1>1, <1>4, <1>6

LEMMA EnterGateCalls ==
  ASSUME CallsInv, RestType, NEW r \in Requests, EnterGate(r)
  PROVE  CallsInv'
<1>1. PICK q : q = [req[r] EXCEPT !.phase = "waiting", !.due = MaxWait,
                                  !.for = inflight[ReplicaOf[r]]]
  OBVIOUS
<1>2. req[r] \in CallType /\ InStep(req[r]) /\ req[r].phase = "admitted"
  BY DEF Phase, CallsInv, EnterGate
<1>3. CASE Becomes(r, Calling(r))
  BY <1>2, <1>3, CallingSound, OneCallMoves DEF Phase
<1>4. CASE Becomes(r, q)
  <2>1. MaxWait \in Nat /\ inflight[ReplicaOf[r]] \in Requests \cup {None}
    BY GatewayAssumption DEF RestType
  <2>2. q \in CallType /\ q.phase = "waiting"
    BY <1>1, <1>2, <2>1 DEF CallType, Running
  <2>3. /\ q.inner = req[r].inner /\ q.fed = req[r].fed /\ q.ready = req[r].ready
        /\ q.shown = req[r].shown /\ q.sent = req[r].sent
    BY <1>1, <1>2 DEF CallType
  <2>4. InStep(q) /\ (r \notin Deduplicated => Unrepeated(q))
    BY <1>2, <2>2, <2>3, BeforeAnswerInStep DEF CallsInv, Unrepeated, BeforeAnswer
  <2> QED
    BY <1>4, <2>2, <2>4, OneCallMoves
<1> QED
  BY <1>1, <1>3, <1>4 DEF EnterGate

LEMMA LeaveGateCalls ==
  ASSUME CallsInv, NEW r \in Requests, LeaveGate(r)
  PROVE  CallsInv'
BY CallingSound, OneCallMoves DEF LeaveGate

\* An answer is the first execution a call that is not deduplicated has had.
LEMMA AnsweredSound ==
  ASSUME CallsInv, NEW r \in Requests, Phase(r) = "calling", NEW k \in {0, 1},
         NEW q \in {[req[r] EXCEPT !.phase = "handed", !.sent = @ + k],
                    [req[r] EXCEPT !.phase = "handed", !.inner = "done", !.ready = TRUE,
                                   !.sent = @ + k]}
  PROVE  q \in CallType /\ InStep(q) /\ (r \notin Deduplicated => Unrepeated(q))
<1>1. req[r] \in CallType /\ InStep(req[r]) /\ req[r].phase = "calling"
  BY DEF CallsInv, Phase
<1>2. req[r].inner = "off" /\ req[r].shown = 0 /\ ~req[r].ready /\ req[r].sent + k \in Nat
  BY <1>1 DEF InStep, BeforeAnswer, CallType
<1>3. q \in CallType /\ q.phase = "handed"
  BY <1>1, <1>2, ZenonT(40) DEF CallType, Running
<1>4. /\ q.shown = 0 /\ q.sent = req[r].sent + k
      /\ \/ q.inner = "off" /\ ~q.ready /\ q.fed = 0
         \/ q.inner = "done"
  BY <1>1, <1>2 DEF CallType, InStep
<1>5. InStep(q)
  BY <1>3, <1>4, GatewayAssumption DEF InStep, BeforeAnswer, One
<1>6. r \notin Deduplicated => Unrepeated(q)
  BY <1>1, <1>3, <1>4 DEF Unrepeated, BeforeAnswer, CallsInv
<1> QED
  BY <1>3, <1>5, <1>6

LEMMA CallAnswersCalls ==
  ASSUME CallsInv, NEW r \in Requests, CallAnswers(r)
  PROVE  CallsInv'
BY AnsweredSound, OneCallMoves DEF CallAnswers

LEMMA CallRetriesCalls ==
  ASSUME CallsInv, NEW r \in Requests, CallRetries(r)
  PROVE  CallsInv'
<1>0. PICK failure \in DOMAIN MayHaveExecuted : \E k \in MayHaveExecuted[failure] :
        /\ Retryable(r, failure)
        /\ Becomes(r, [req[r] EXCEPT !.due = AttemptTime, !.tries = @ + 1, !.sent = @ + k])
  BY DEF CallRetries
<1>1. PICK k \in MayHaveExecuted[failure] :
        /\ Retryable(r, failure)
        /\ Becomes(r, [req[r] EXCEPT !.due = AttemptTime, !.tries = @ + 1, !.sent = @ + k])
  BY <1>0
<1>2. k \in {0, 1} /\ (r \notin Deduplicated => k = 0)
  BY <1>1 DEF MayHaveExecuted, Retryable
<1>3. PICK q : q = [req[r] EXCEPT !.due = AttemptTime, !.tries = @ + 1, !.sent = @ + k]
  OBVIOUS
<1>4. req[r] \in CallType /\ InStep(req[r]) /\ req[r].phase = "calling"
  BY DEF CallsInv, CallRetries, Phase
<1>5. /\ req[r].tries + 1 \in 0 .. Retries + 1 /\ req[r].sent + k \in Nat
      /\ AttemptTime \in Nat
  BY <1>2, <1>4, GatewayAssumption DEF CallRetries, CallType
<1>6. q \in CallType
  BY <1>3, <1>4, <1>5 DEF CallType
<1>7. /\ q.inner = req[r].inner /\ q.fed = req[r].fed /\ q.ready = req[r].ready
      /\ q.shown = req[r].shown /\ q.sent = req[r].sent + k /\ q.phase = "calling"
  BY <1>3, <1>4 DEF CallType
<1>8. InStep(q) /\ (r \notin Deduplicated => Unrepeated(q))
  BY <1>2, <1>4, <1>6, <1>7, BeforeAnswerInStep DEF CallsInv, Unrepeated, BeforeAnswer
<1> QED
  BY <1>1, <1>3, <1>6, <1>8, OneCallMoves

LEMMA CallFailsCalls ==
  ASSUME CallsInv, NEW r \in Requests, CallFails(r)
  PROVE  CallsInv'
BY AnsweredSound, OneCallMoves, EndsCalls DEF CallFails

LEMMA GuardStartsCalls ==
  ASSUME CallsInv, NEW r \in Requests, GuardStarts(r)
  PROVE  CallsInv'
<1>1. PICK q : q = [req[r] EXCEPT !.phase = "opened", !.renewing = TRUE,
                                  !.inner = IF @ = "off" THEN "reading" ELSE @]
  OBVIOUS
<1>2. req[r] \in CallType /\ InStep(req[r]) /\ req[r].phase = "handed"
  BY DEF CallsInv, GuardStarts, Phase
<1>3. q \in CallType /\ q.phase = "opened"
  BY <1>1, <1>2 DEF CallType, Running
<1>4. /\ q.inner = IF req[r].inner = "off" THEN "reading" ELSE req[r].inner
      /\ q.fed = req[r].fed /\ q.ready = req[r].ready
      /\ q.shown = req[r].shown /\ q.sent = req[r].sent
  BY <1>1, <1>2 DEF CallType
<1>5. InStep(q)
  BY <1>2, <1>3, <1>4 DEF InStep, BeforeAnswer, One
<1>6. r \notin Deduplicated => Unrepeated(q)
  BY <1>3, <1>4 DEF CallsInv, Unrepeated, BeforeAnswer
<1> QED
  BY <1>1, <1>3, <1>5, <1>6, OneCallMoves DEF GuardStarts

\* After the answer a step keeps the executions of a call.
LEMMA AnsweredMoves ==
  ASSUME CallsInv, NEW r \in Requests, NEW q \in CallType, Becomes(r, q), InStep(q),
         q.sent = req[r].sent, q.phase \notin BeforeAnswer
  PROVE  CallsInv'
<1>1. r \notin Deduplicated => Unrepeated(q)
  BY DEF CallsInv, Unrepeated
<1> QED
  BY <1>1, OneCallMoves

LEMMA RenewalFiresCalls ==
  ASSUME CallsInv, NEW r \in Requests, RenewalFires(r)
  PROVE  CallsInv'
<1>1. PICK q : q = [req[r] EXCEPT !.renewing = TRUE]
  OBVIOUS
<1>2. req[r] \in CallType /\ InStep(req[r]) /\ req[r].phase = "streaming"
  BY DEF CallsInv, RenewalFires, Phase
<1>3. q \in CallType /\ q.phase = "streaming" /\ q.sent = req[r].sent
  BY <1>1, <1>2 DEF CallType
<1>4. /\ q.inner = req[r].inner /\ q.fed = req[r].fed /\ q.ready = req[r].ready
      /\ q.shown = req[r].shown
  BY <1>1, <1>2 DEF CallType
<1>5. InStep(q)
  BY <1>2, <1>3, <1>4 DEF InStep, BeforeAnswer
<1> QED
  BY <1>1, <1>3, <1>5, AnsweredMoves DEF RenewalFires, BeforeAnswer

LEMMA RenewEveryType == RenewEvery \in Nat
BY LeaseAssumption DEF RenewEvery

LEMMA RenewalEndsCalls ==
  ASSUME CallsInv, NEW r \in Requests, RenewalEnds(r)
  PROVE  CallsInv'
<1>1. PICK q : /\ Becomes(r, q)
               /\ q \in {[req[r] EXCEPT !.phase = "streaming", !.renewing = FALSE,
                                        !.due = RenewEvery],
                         [req[r] EXCEPT !.renewing = FALSE, !.canceled = TRUE]}
  BY DEF RenewalEnds
<1>2. req[r] \in CallType /\ InStep(req[r]) /\ req[r].phase \in Guarded
  BY DEF CallsInv, RenewalEnds, Phase
<1>3. q \in CallType /\ q.phase \in Guarded /\ q.sent = req[r].sent
  <2>1. CASE q = [req[r] EXCEPT !.phase = "streaming", !.renewing = FALSE, !.due = RenewEvery]
    BY <1>2, <2>1, RenewEveryType, ZenonT(40) DEF CallType, Guarded, Running
  <2>2. CASE q = [req[r] EXCEPT !.renewing = FALSE, !.canceled = TRUE]
    BY <1>2, <2>2, ZenonT(40) DEF CallType, Guarded, Running
  <2> QED
    BY <1>1, <2>1, <2>2
<1>4. /\ q.inner = req[r].inner /\ q.fed = req[r].fed /\ q.ready = req[r].ready
      /\ q.shown = req[r].shown /\ q.phase \in {req[r].phase, "streaming"}
  BY <1>1, <1>2 DEF CallType
<1>5. InStep(q)
  BY <1>2, <1>3, <1>4 DEF InStep, BeforeAnswer, Guarded
<1> QED
  BY <1>1, <1>3, <1>5, AnsweredMoves DEF Guarded, BeforeAnswer

\* The generator's end, in the two places it can come.
LEMMA GeneratorDoneCalls ==
  ASSUME CallsInv, NEW r \in Requests, GeneratorDone(r), req[r].inner = "reading"
  PROVE  CallsInv'
<1>1. req[r] \in CallType /\ InStep(req[r])
  BY DEF CallsInv
<1>2. CASE Phase(r) = "ended"
  <2>1. Becomes(r, Over)
    BY <1>2 DEF GeneratorDone, Becomes, CallsInv
  <2> QED
    BY <2>1, OverType, OneCallMoves
<1>3. CASE Phase(r) # "ended"
  <2>1. PICK q : q = [req[r] EXCEPT !.inner = "done"]
    OBVIOUS
  <2>2. Becomes(r, q)
    BY <1>3, <2>1 DEF GeneratorDone, Becomes, CallsInv
  <2>3. q \in CallType /\ q.phase = req[r].phase /\ q.sent = req[r].sent
    BY <1>1, <2>1 DEF CallType
  <2>4. /\ q.inner = "done" /\ q.fed = req[r].fed /\ q.ready = req[r].ready
        /\ q.shown = req[r].shown
    BY <1>1, <2>1 DEF CallType
  <2>5. q.shown + One(q.ready) <= Chunks
    <3>1. req[r].shown + One(req[r].ready) + 0 <= req[r].fed
      BY <1>1 DEF InStep, One
    <3>2. req[r].shown \in Nat /\ req[r].fed \in Nat /\ req[r].fed <= Chunks /\ Chunks \in Nat
      BY <1>1, GatewayAssumption DEF CallType
    <3> QED
      BY <2>4, <3>1, <3>2 DEF One
  <2>6. req[r].phase \notin BeforeAnswer /\ req[r].phase # "handed"
    BY <1>1 DEF InStep
  <2>7. InStep(q)
    BY <1>1, <1>3, <2>3, <2>4, <2>5, <2>6 DEF InStep, Phase
  <2> QED
    BY <2>2, <2>3, <2>6, <2>7, AnsweredMoves
<1> QED
  BY <1>2, <1>3

LEMMA GeneratorReadsCalls ==
  ASSUME CallsInv, NEW r \in Requests, GeneratorReads(r)
  PROVE  CallsInv'
<1>1. req[r] \in CallType /\ InStep(req[r]) /\ req[r].inner = "reading"
  BY DEF CallsInv, GeneratorReads
<1>2. CASE req[r].canceled
  BY <1>1, <1>2, GeneratorDoneCalls DEF GeneratorReads
<1>3. CASE ~req[r].canceled
  <2>1. PICK q : q = [req[r] EXCEPT !.inner = "sending", !.fed = @ + 1]
    OBVIOUS
  <2>2. /\ req[r].fed + 1 \in 0 .. Chunks /\ req[r].fed \in Nat /\ req[r].shown \in Nat
    BY <1>1, GatewayAssumption DEF GeneratorReads, CallType
  <2>3. q \in CallType /\ q.phase = req[r].phase /\ q.sent = req[r].sent
    BY <1>1, <2>1, <2>2 DEF CallType
  <2>4. /\ q.inner = "sending" /\ q.fed = req[r].fed + 1 /\ q.ready = req[r].ready
        /\ q.shown = req[r].shown
    BY <1>1, <2>1, <2>2 DEF CallType
  <2>5. q.shown + One(q.ready) + 1 <= q.fed
    <3>1. req[r].shown + One(req[r].ready) + 0 <= req[r].fed
      BY <1>1 DEF InStep, One
    <3> QED
      BY <2>2, <2>4, <3>1 DEF One
  <2>6. req[r].phase \notin BeforeAnswer \cup {"handed", "ended"}
    BY <1>1, <1>3 DEF InStep
  <2>7. InStep(q)
    BY <1>1, <2>3, <2>4, <2>5, <2>6 DEF InStep, One
  <2> QED
    BY <1>3, <2>1, <2>3, <2>6, <2>7, AnsweredMoves DEF GeneratorReads
<1> QED
  BY <1>2, <1>3

LEMMA GeneratorEndsCalls ==
  ASSUME CallsInv, NEW r \in Requests, GeneratorEnds(r)
  PROVE  CallsInv'
BY GeneratorDoneCalls DEF GeneratorEnds

LEMMA GuardReadsCalls ==
  ASSUME CallsInv, NEW r \in Requests, GuardReads(r)
  PROVE  CallsInv'
<1>1. req[r] \in CallType /\ InStep(req[r]) /\ req[r].inner = "sending"
  BY DEF CallsInv, GuardReads
<1>2. req[r].shown \in Nat /\ req[r].fed \in Nat
  BY <1>1, GatewayAssumption DEF CallType
<1>3. req[r].shown + One(req[r].ready) + 1 <= req[r].fed
  BY <1>1 DEF InStep, One
<1>4. CASE Phase(r) = "streaming"
  <2>1. PICK q : q = [req[r] EXCEPT !.inner = "reading", !.ready = TRUE]
    OBVIOUS
  <2>2. q \in CallType /\ q.phase = "streaming" /\ q.sent = req[r].sent
    BY <1>1, <1>4, <2>1 DEF CallType, Phase
  <2>3. q.inner = "reading" /\ q.fed = req[r].fed /\ q.ready /\ q.shown = req[r].shown
    BY <1>1, <2>1 DEF CallType
  <2>4. ~req[r].ready
    BY <1>4 DEF GuardReads
  <2>5. InStep(q)
    BY <1>2, <1>3, <2>2, <2>3, <2>4 DEF InStep, One, BeforeAnswer
  <2> QED
    BY <1>4, <2>1, <2>2, <2>5, AnsweredMoves DEF GuardReads, BeforeAnswer
<1>5. CASE Phase(r) = "ended"
  <2>1. PICK q : q = [req[r] EXCEPT !.inner = "reading"]
    OBVIOUS
  <2>2. q \in CallType /\ q.phase = "ended" /\ q.sent = req[r].sent
    BY <1>1, <1>5, <2>1 DEF CallType, Phase
  <2>3. /\ q.inner = "reading" /\ q.fed = req[r].fed /\ q.ready = req[r].ready
        /\ q.shown = req[r].shown /\ q.canceled = req[r].canceled
    BY <1>1, <2>1 DEF CallType
  <2>4. req[r].canceled
    BY <1>1, <1>5 DEF InStep, Phase
  <2>5. InStep(q)
    BY <1>2, <1>3, <2>2, <2>3, <2>4 DEF InStep, One, BeforeAnswer
  <2> QED
    BY <1>5, <2>1, <2>2, <2>5, AnsweredMoves DEF GuardReads, BeforeAnswer
<1> QED
  BY <1>4, <1>5 DEF GuardReads

LEMMA GuardYieldsCalls ==
  ASSUME CallsInv, NEW r \in Requests, GuardYields(r)
  PROVE  CallsInv'
<1>1. /\ req[r] \in CallType /\ InStep(req[r]) /\ req[r].phase = "streaming"
      /\ req[r].ready
  BY DEF CallsInv, GuardYields, Exposes, Phase
<1>2. PICK q : q = [req[r] EXCEPT !.ready = FALSE, !.held = TRUE, !.shown = @ + 1]
  OBVIOUS
<1>3. req[r].shown \in Nat /\ req[r].fed \in Nat /\ req[r].fed <= Chunks /\ Chunks \in Nat
  BY <1>1, GatewayAssumption DEF CallType
<1>4. /\ req[r].inner # "off"
      /\ req[r].inner \in {"reading", "sending"} =>
            req[r].shown + 1 + One(req[r].inner = "sending") <= req[r].fed
      /\ req[r].inner = "done" => req[r].shown + 1 <= Chunks
  BY <1>1 DEF InStep, One
<1>5. req[r].shown + 1 \in 0 .. Chunks
  <2>1. req[r].inner \in {"reading", "sending", "done"}
    BY <1>1, <1>4 DEF CallType
  <2> QED
    BY <1>3, <1>4, <2>1 DEF One
<1>6. q \in CallType /\ q.phase = "streaming" /\ q.sent = req[r].sent
  BY <1>1, <1>2, <1>5 DEF CallType
<1>7. q.inner = req[r].inner /\ q.fed = req[r].fed /\ ~q.ready /\ q.shown = req[r].shown + 1
  BY <1>1, <1>2, <1>5 DEF CallType
<1>8. InStep(q)
  BY <1>3, <1>4, <1>6, <1>7 DEF InStep, One, BeforeAnswer
<1> QED
  BY <1>2, <1>6, <1>8, AnsweredMoves DEF GuardYields, BeforeAnswer

LEMMA ClientTakesCalls ==
  ASSUME CallsInv, NEW r \in Requests, ClientTakes(r)
  PROVE  CallsInv'
<1>1. CASE Stalled(r) /\ GuardLeaves(r)
  BY <1>1, EndsCalls DEF GuardLeaves
<1>2. CASE Holds(r) /\ Becomes(r, [req[r] EXCEPT !.held = FALSE])
  <2>1. req[r] \in CallType /\ InStep(req[r]) /\ req[r].phase = "streaming"
    BY <1>2 DEF CallsInv, Holds, Phase
  <2>2. PICK q : q = [req[r] EXCEPT !.held = FALSE]
    OBVIOUS
  <2>3. q \in CallType /\ q.phase = "streaming" /\ q.sent = req[r].sent
    BY <2>1, <2>2 DEF CallType
  <2>4. /\ q.inner = req[r].inner /\ q.fed = req[r].fed /\ q.ready = req[r].ready
        /\ q.shown = req[r].shown
    BY <2>1, <2>2 DEF CallType
  <2>5. InStep(q)
    BY <2>1, <2>3, <2>4 DEF InStep, BeforeAnswer
  <2> QED
    BY <1>2, <2>2, <2>3, <2>5, AnsweredMoves DEF BeforeAnswer
<1> QED
  BY <1>1, <1>2 DEF ClientTakes

LEMMA CrashCalls ==
  ASSUME CallsInv, NEW p \in Replicas, Crash(p)
  PROVE  CallsInv'
<1>1. /\ req' \in [Requests -> CallType]
      /\ \A r \in Requests : req'[r] \in {Over, req[r]}
  BY OverType DEF Crash, CallsInv
<1> QED
  BY <1>1, OverType DEF CallsInv

LEMMA TickCalls ==
  ASSUME CallsInv, Tick
  PROVE  CallsInv'
<1>1. ASSUME NEW r \in Requests
      PROVE  /\ req'[r] \in CallType
             /\ InStep(req'[r])
             /\ r \notin Deduplicated => Unrepeated(req'[r])
  <2>1. req[r] \in CallType /\ InStep(req[r])
    BY DEF CallsInv
  <2>2. CASE Phase(r) \in {"waiting", "calling", "streaming"} /\ ~Stalled(r)
    <3>1. PICK q : q = [req[r] EXCEPT !.due = @ - 1]
      OBVIOUS
    <3>2. req'[r] = q
      BY <2>2, <3>1 DEF Tick
    <3>3. req[r].due \in Nat /\ req[r].due # 0
      BY <2>1, <2>2 DEF Tick, Urgent, CallType
    <3>4. q \in CallType
      BY <2>1, <3>1, <3>3 DEF CallType
    <3>5. /\ q.phase = req[r].phase /\ q.inner = req[r].inner /\ q.fed = req[r].fed
          /\ q.ready = req[r].ready /\ q.shown = req[r].shown
          /\ q.canceled = req[r].canceled /\ q.sent = req[r].sent
      BY <2>1, <3>1 DEF CallType
    <3>6. InStep(q)
      BY <2>1, <3>5 DEF InStep
    <3>7. r \notin Deduplicated => Unrepeated(q)
      BY <3>5 DEF CallsInv, Unrepeated
    <3> QED
      BY <3>2, <3>4, <3>6, <3>7
  <2>3. CASE ~(Phase(r) \in {"waiting", "calling", "streaming"} /\ ~Stalled(r))
    <3>1. req'[r] = req[r]
      BY <2>3 DEF Tick
    <3> QED
      BY <2>1, <3>1 DEF CallsInv
  <2> QED
    BY <2>2, <2>3
<1>2. req' \in [Requests -> CallType]
  BY <1>1 DEF Tick
<1> QED
  BY <1>1, <1>2 DEF CallsInv

LEMMA CallsStep ==
  ASSUME CallsInv, RestType, [Next]_vars
  PROVE  CallsInv'
<1>1. ASSUME NEW r \in Requests,
             Admit(r) \/ Call(r) \/ Generator(r) \/ Renewal(r) \/ Guard(r)
             \/ LateRenewal(r) \/ ClientTakes(r) \/ Disconnect(r)
      PROVE  CallsInv'
  <2>1. losses \in 0 .. MaxLosses
    BY DEF RestType
  <2>2. CASE Admit(r)
    BY <2>1, <2>2, AdmitCalls
  <2>3. CASE Call(r)
    BY <2>3, EnterGateCalls, LeaveGateCalls, CallAnswersCalls, CallRetriesCalls,
       CallFailsCalls DEF Call
  <2>4. CASE Generator(r)
    BY <2>4, GeneratorReadsCalls, GeneratorEndsCalls DEF Generator
  <2>5. CASE Renewal(r)
    BY <2>5, RenewalFiresCalls, RenewalEndsCalls DEF Renewal
  <2>6. CASE Guard(r)
    BY <2>6, GuardStartsCalls, GuardReadsCalls, GuardYieldsCalls, EndsCalls
    DEF Guard, GuardEnds, GuardLeaves
  <2>7. CASE LateRenewal(r)
    BY <2>7 DEF LateRenewal, CallsInv
  <2>8. CASE Disconnect(r)
    BY <2>8, EndsCalls DEF Disconnect
  <2>9. CASE ClientTakes(r)
    BY <2>9, ClientTakesCalls
  <2> QED
    BY <1>1, <2>2, <2>3, <2>4, <2>5, <2>6, <2>7, <2>8, <2>9
<1>2. CASE \E p \in Replicas : Crash(p)
  BY <1>2, CrashCalls
<1>3. CASE RedisLoses
  BY <1>3 DEF RedisLoses, CallsInv
<1>4. CASE Tick
  BY <1>4, TickCalls
<1>5. CASE UNCHANGED vars
  BY <1>5 DEF vars, CallsInv
<1> QED
  BY <1>1, <1>2, <1>3, <1>4, <1>5 DEF Next

-----------------------------------------------------------------------------
(* The gate, the receipts and what is released. *)

LEMMA GateType ==
  ASSUME RestType, NEW r \in Requests, GateReleased(r)
  PROVE  /\ inflight' \in [Replicas -> Requests \cup {None}]
         /\ warm' \in [Replicas -> 0 .. WarmTime]
<1>1. WarmTime \in 0 .. WarmTime
  BY GatewayAssumption
<1> QED
  BY <1>1 DEF GateReleased, gateVars, RestType

LEMMA ReleaseRest ==
  ASSUME RestType, NEW r \in Requests, ReleaseAdmission(r)
  PROVE  late' \subseteq Requests /\ freed' \subseteq Requests
BY DEF ReleaseAdmission, RestType

LEMMA RestStep ==
  ASSUME RestType, [Next]_vars
  PROVE  RestType'
<1> USE DEF leaseVars, gateVars
<1>1. ASSUME NEW r \in Requests, Admit(r)
      PROVE  RestType'
  BY <1>1 DEF Admit, RestType
<1>2. ASSUME NEW r \in Requests, Call(r)
      PROVE  RestType'
  <2>1. CASE EnterGate(r)
    BY <2>1, GatewayAssumption DEF EnterGate, RestType
  <2>2. CASE LeaveGate(r)
    BY <2>2 DEF LeaveGate, RestType
  <2>3. CASE CallAnswers(r)
    BY <2>3, GateType DEF CallAnswers, RestType
  <2>4. CASE CallRetries(r)
    BY <2>4 DEF CallRetries, RestType
  <2>5. CASE CallFails(r)
    BY <2>5, GateType, ReleaseRest DEF CallFails, RestType
  <2> QED
    BY <1>2, <2>1, <2>2, <2>3, <2>4, <2>5 DEF Call
<1>3. ASSUME NEW r \in Requests, Generator(r)
      PROVE  RestType'
  <2>1. CASE GeneratorReads(r)
    BY <2>1, GateType DEF GeneratorReads, RestType
  <2>2. CASE GeneratorEnds(r)
    <3>1. metered' \in [Streams -> {0, 1}]
      BY <2>2 DEF GeneratorEnds, Meters, RestType
    <3> QED
      BY <2>2, <3>1, GateType DEF GeneratorEnds, RestType
  <2> QED
    BY <1>3, <2>1, <2>2 DEF Generator
<1>4. ASSUME NEW r \in Requests, Renewal(r)
      PROVE  RestType'
  BY <1>4 DEF Renewal, RenewalFires, RenewalEnds, RestType
<1>5. ASSUME NEW r \in Requests, Guard(r)
      PROVE  RestType'
  <2>1. CASE GuardEnds(r)
    BY <2>1, ReleaseRest DEF GuardEnds, GuardLeaves, RestType
  <2>2. CASE GuardStarts(r) \/ GuardReads(r) \/ GuardYields(r)
    BY <2>2 DEF GuardStarts, GuardReads, GuardYields, RestType
  <2> QED
    BY <1>5, <2>1, <2>2 DEF Guard
<1>6. ASSUME NEW r \in Requests, LateRenewal(r)
      PROVE  RestType'
  BY <1>6 DEF LateRenewal, RestType
<1>7. ASSUME NEW r \in Requests, Disconnect(r)
      PROVE  RestType'
  <2>1. /\ inflight' \in [Replicas -> Requests \cup {None}]
        /\ warm' \in [Replicas -> 0 .. WarmTime]
    BY <1>7, GateType DEF Disconnect, RestType
  <2>2. late' \subseteq Requests /\ freed' \subseteq Requests /\ losses' \in 0 .. MaxLosses
    BY <1>7, ReleaseRest DEF Disconnect, RestType
  <2> QED
    BY <1>7, <2>1, <2>2 DEF Disconnect, RestType
<1>8. ASSUME NEW p \in Replicas, Crash(p)
      PROVE  RestType'
  <2>1. 0 \in 0 .. WarmTime
    BY GatewayAssumption
  <2> QED
    BY <1>8, <2>1 DEF Crash, RestType
<1>9. CASE RedisLoses
  BY <1>9, GatewayAssumption DEF RedisLoses, RestType
<1>10. CASE Tick
  <2>1. warm' \in [Replicas -> 0 .. WarmTime]
    BY <1>10, GatewayAssumption DEF Tick, RestType
  <2> QED
    BY <1>10, <2>1 DEF Tick, RestType
<1>11. ASSUME NEW r \in Requests, ClientTakes(r)
      PROVE  RestType'
  BY <1>11, ReleaseRest DEF ClientTakes, GuardLeaves, RestType
<1>12. CASE UNCHANGED vars
  BY <1>12 DEF vars, RestType
<1> QED
  BY <1>1, <1>2, <1>3, <1>4, <1>5, <1>6, <1>7, <1>8, <1>9, <1>10, <1>11, <1>12 DEF Next

-----------------------------------------------------------------------------
(* The places. *)

\* Nobody comes into a set, inside or outside its path.
Fewer ==
  /\ LeaseTypeOK'
  /\ \A r \in Requests, s \in Scopes : left[s][r] = 0 => left'[s][r] = 0

\* Only one request may come into a set.
FewerBut(q) ==
  /\ LeaseTypeOK'
  /\ \A r \in Requests, s \in Scopes :
       r # q \/ s \notin SetsOf(r) => (left[s][r] = 0 => left'[s][r] = 0)

LEMMA AcquireFewer ==
  ASSUME LeaseTypeOK, NEW q \in Requests, NEW d \in Skews, AcquireGranted(q, d)
  PROVE  FewerBut(q)
<1>1. LeaseTypeOK'
  BY GrantedType
<1>2. ASSUME NEW r \in Requests, NEW s \in Scopes, r # q \/ s \notin SetsOf(r), left[s][r] = 0
      PROVE  left'[s][r] = 0
  <2>1. CASE s \in SetsOf(q)
    <3>1. r # q
      BY <1>2, <2>1
    <3>2. left'[s] = [Swept(s, d) EXCEPT ![q] = Lease + d]
      BY <2>1 DEF AcquireGranted
    <3> QED
      BY <1>2, <3>1, <3>2 DEF Swept
  <2>2. CASE s \notin SetsOf(q)
    BY <1>2, <2>2 DEF AcquireGranted
  <2> QED
    BY <2>1, <2>2
<1> QED
  BY <1>1, <1>2 DEF FewerBut

LEMMA RefusedFewer ==
  ASSUME LeaseTypeOK, NEW q \in Requests, NEW d \in Skews, AcquireRefused(q, d)
  PROVE  Fewer
<1>1. PICK i \in DOMAIN Path[q] :
        left' = [s \in Scopes |-> IF s \in {Path[q][k] : k \in 1 .. i}
                                  THEN Swept(s, d) ELSE left[s]]
  BY DEF AcquireRefused
<1>2. \A r \in Requests, s \in Scopes : left[s][r] = 0 => left'[s][r] = 0
  BY <1>1 DEF Swept
<1> QED
  BY <1>2, RefusedType DEF Fewer

LEMMA ReleaseFewer ==
  ASSUME LeaseTypeOK, NEW q \in Requests, ReleaseScript(q)
  PROVE  /\ Fewer
         /\ \A s \in SetsOf(q) : left'[s][q] = 0
<1>1. \A r \in Requests, s \in Scopes : left[s][r] = 0 => left'[s][r] = 0
  BY DEF ReleaseScript, LeaseTypeOK
<1>2. \A s \in SetsOf(q) : left'[s][q] = 0
  BY SetsOfInScopes DEF ReleaseScript, LeaseTypeOK
<1> QED
  BY <1>1, <1>2, ReleaseType DEF Fewer

\* A member is renewed in all its sets, nobody else in any.
LEMMA RenewFewer ==
  ASSUME LeaseTypeOK, NEW q \in Requests, NEW d \in Skews, RenewScript(q, d)
  PROVE  Fewer
<1>1. ASSUME NEW r \in Requests, NEW s \in Scopes, left[s][r] = 0
      PROVE  left'[s][r] = 0
  <2>1. CASE Owned(q, d) /\ s \in SetsOf(q)
    <3>1. left[s][q] > d /\ d \in Nat
      BY <2>1, SkewsAreNat DEF Owned
    <3>2. r # q
      BY <1>1, <3>1
    <3>3. left'[s] = [left[s] EXCEPT ![q] = Lease + d]
      BY <2>1 DEF RenewScript
    <3> QED
      BY <1>1, <3>2, <3>3 DEF LeaseTypeOK
  <2>2. CASE ~(Owned(q, d) /\ s \in SetsOf(q))
    BY <1>1, <2>2 DEF RenewScript
  <2> QED
    BY <2>1, <2>2
<1> QED
  BY <1>1, RenewType DEF Fewer

LEMMA ElapseFewer ==
  ASSUME LeaseTypeOK, Elapse
  PROVE  Fewer
BY ElapseType DEF Elapse, Fewer

LEMMA LoseFewer ==
  ASSUME Lose
  PROVE  Fewer
BY EmptyType DEF Lose, NoMembers, Fewer, LeaseTypeOK

LEMMA SkewsOfRequests == ASSUME NEW r \in Requests PROVE SkewOf[r] \in Skews
BY GatewayAssumption DEF Skews

\* A call that has been admitted is never new again.
Onward == \A r \in Requests : Phase(r) # "new" => Phase(r)' # "new"

LEMMA BecomesOnward ==
  ASSUME CallsInv, NEW r \in Requests, NEW q \in CallType, Becomes(r, q), q.phase # "new"
  PROVE  Onward
BY DEF Becomes, CallsInv, Onward, Phase

LEMMA EndsOnward ==
  ASSUME CallsInv, NEW r \in Requests, Ends(r)
  PROVE  Onward /\ Phase(r)' # "new"
<1>1. Becomes(r, EndOf(req[r])) /\ req[r] \in CallType /\ InStep(req[r])
  BY DEF Ends, Becomes, CallsInv
<1> QED
  BY <1>1, EndOfType DEF Becomes, CallsInv, Onward, Phase

LEMMA AdmitOnward ==
  ASSUME CallsInv, NEW r \in Requests, Admit(r)
  PROVE  Onward /\ Phase(r)' # "new"
<1>1. PICK q : q = [req[r] EXCEPT !.phase = "admitted", !.epoch = losses]
  OBVIOUS
<1>2. CASE Becomes(r, q)
  <2>1. req[r] \in CallType
    BY DEF CallsInv
  <2>2. q.phase = "admitted"
    BY <1>1, <2>1 DEF CallType
  <2> QED
    BY <1>2, <2>2 DEF Becomes, CallsInv, Onward, Phase
<1> QED
  BY <1>1, <1>2, EndsOnward DEF Admit

LEMMA CallOnward ==
  ASSUME CallsInv, NEW r \in Requests, Call(r)
  PROVE  Onward
<1>2. req[r] \in CallType
  BY DEF CallsInv
<1>3. CASE EnterGate(r)
  BY <1>2, <1>3, ZenonT(40) DEF EnterGate, Becomes, Calling, CallsInv, CallType, Onward, Phase
<1>4. CASE LeaveGate(r)
  BY <1>2, <1>4 DEF LeaveGate, Becomes, Calling, CallsInv, CallType, Onward, Phase
<1>5. CASE CallAnswers(r)
  BY <1>2, <1>5, ZenonT(40) DEF CallAnswers, Becomes, CallsInv, CallType, Onward, Phase
<1>6. CASE CallRetries(r)
  BY <1>2, <1>6 DEF CallRetries, Becomes, CallsInv, CallType, Onward, Phase
<1>7. CASE CallFails(r)
  BY <1>2, <1>7, EndsOnward, ZenonT(40) DEF CallFails, Becomes, CallsInv, CallType, Onward, Phase
<1> QED
  BY <1>3, <1>4, <1>5, <1>6, <1>7 DEF Call

LEMMA GeneratorOnward ==
  ASSUME CallsInv, NEW r \in Requests, Generator(r)
  PROVE  Onward
<1>1. req[r] \in CallType
  BY DEF CallsInv
<1>2. PICK q : q = [req[r] EXCEPT !.inner = "sending", !.fed = @ + 1]
  OBVIOUS
<1>3. CASE GeneratorDone(r)
  BY <1>1, <1>3, OverType DEF GeneratorDone, CallsInv, CallType, Onward, Phase
<1>4. CASE Becomes(r, q)
  BY <1>1, <1>2, <1>4 DEF Becomes, CallsInv, CallType, Onward, Phase
<1>5. CASE GeneratorReads(r)
  BY <1>2, <1>3, <1>4, <1>5 DEF GeneratorReads
<1>6. CASE GeneratorEnds(r)
  BY <1>3, <1>6 DEF GeneratorEnds
<1> QED
  BY <1>5, <1>6 DEF Generator

LEMMA RenewalOnward ==
  ASSUME CallsInv, NEW r \in Requests, Renewal(r)
  PROVE  Onward
<1>1. req[r] \in CallType
  BY DEF CallsInv
<1>2. CASE RenewalFires(r)
  BY <1>1, <1>2 DEF RenewalFires, Becomes, CallsInv, CallType, Onward, Phase
<1>3. CASE RenewalEnds(r)
  <2>1. PICK q : /\ Becomes(r, q)
                 /\ q \in {[req[r] EXCEPT !.phase = "streaming", !.renewing = FALSE,
                                          !.due = RenewEvery],
                           [req[r] EXCEPT !.renewing = FALSE, !.canceled = TRUE]}
    BY <1>3 DEF RenewalEnds
  <2>2. q.phase \in {req[r].phase, "streaming"}
    BY <1>1, <2>1 DEF CallType
  <2> QED
    BY <2>1, <2>2 DEF Becomes, CallsInv, Onward, Phase
<1> QED
  BY <1>2, <1>3 DEF Renewal

LEMMA GuardOnward ==
  ASSUME CallsInv, NEW r \in Requests, Guard(r)
  PROVE  Onward
<1>1. req[r] \in CallType
  BY DEF CallsInv
<1>2. CASE GuardStarts(r)
  BY <1>1, <1>2 DEF GuardStarts, Becomes, CallsInv, CallType, Onward, Phase
<1>3. CASE GuardReads(r)
  BY <1>1, <1>3, ZenonT(40) DEF GuardReads, Becomes, CallsInv, CallType, Onward, Phase
<1>4. CASE GuardYields(r)
  BY <1>1, <1>4 DEF GuardYields, Becomes, CallsInv, CallType, Onward, Phase
<1>5. CASE GuardEnds(r)
  BY <1>5, EndsOnward DEF GuardEnds, GuardLeaves
<1> QED
  BY <1>2, <1>3, <1>4, <1>5 DEF Guard

LEMMA ClientOnward ==
  ASSUME CallsInv, NEW r \in Requests, ClientTakes(r)
  PROVE  Onward
<1>1. req[r] \in CallType
  BY DEF CallsInv
<1>2. CASE Holds(r) /\ Becomes(r, [req[r] EXCEPT !.held = FALSE])
  BY <1>1, <1>2 DEF Holds, Becomes, CallsInv, CallType, Onward, Phase
<1>3. CASE GuardLeaves(r)
  BY <1>3, EndsOnward DEF GuardLeaves
<1> QED
  BY <1>2, <1>3 DEF ClientTakes

LEMMA CrashOnward ==
  ASSUME CallsInv, NEW p \in Replicas, Crash(p)
  PROVE  Onward
BY OverType DEF Crash, Onward, Phase

LEMMA TickOnward ==
  ASSUME CallsInv, Tick
  PROVE  Onward
BY DEF Tick, CallsInv, CallType, Onward, Phase

LEMMA OnwardStep ==
  ASSUME CallsInv, [Next]_vars
  PROVE  Onward
<1>1. ASSUME req' = req
      PROVE  Onward
  BY <1>1 DEF Onward, Phase
<1>2. ASSUME NEW r \in Requests,
             Admit(r) \/ Call(r) \/ Generator(r) \/ Renewal(r) \/ Guard(r)
             \/ LateRenewal(r) \/ ClientTakes(r) \/ Disconnect(r)
      PROVE  Onward
  <2>1. CASE LateRenewal(r)
    BY <1>1, <2>1 DEF LateRenewal
  <2>2. CASE Disconnect(r)
    BY <2>2, EndsOnward DEF Disconnect
  <2> QED
    BY <1>2, <2>1, <2>2, AdmitOnward, CallOnward, GeneratorOnward, RenewalOnward, GuardOnward,
       ClientOnward
<1>3. CASE \E p \in Replicas : Crash(p)
  BY <1>3, CrashOnward
<1>4. CASE RedisLoses
  BY <1>1, <1>4 DEF RedisLoses
<1>5. CASE UNCHANGED vars
  BY <1>1, <1>5 DEF vars
<1> QED
  BY <1>2, <1>3, <1>4, <1>5, TickOnward DEF Next

\* Steps that bring nobody in, or take a call out, keep the places sound.
LEMMA FewerPlaces ==
  ASSUME PlacesInv, RestType, Fewer, Onward, freed' = freed
  PROVE  PlacesInv'
<1>1. \A r \in Requests : ~Present(r) => ~Present(r)'
  BY DEF Present, Fewer, PlacesInv, LeaseTypeOK
<1>2. \A r \in Requests : Phase(r)' = "new" => Phase(r) = "new"
  BY DEF Onward
<1> QED
  BY <1>1, <1>2 DEF PlacesInv, Fewer, Onward, RestType

LEMMA ReleasePlaces ==
  ASSUME PlacesInv, RestType, Onward, NEW r \in Requests, Phase(r)' # "new",
         ReleaseAdmission(r)
  PROVE  PlacesInv'
<1>1. CASE ReleaseScript(r) /\ freed' = freed \cup {r}
  <2>1. Fewer /\ \A s \in SetsOf(r) : left'[s][r] = 0
    BY <1>1, ReleaseFewer DEF PlacesInv
  <2>2. ~Present(r)'
    BY <2>1 DEF Present, PlacesInv, Fewer, LeaseTypeOK
  <2>3. \A p \in Requests : ~Present(p) => ~Present(p)'
    BY <2>1 DEF Present, Fewer, PlacesInv, LeaseTypeOK
  <2>4. \A p \in Requests : Phase(p)' = "new" => Phase(p) = "new"
    BY DEF Onward
  <2> QED
    BY <1>1, <2>1, <2>2, <2>3, <2>4 DEF PlacesInv, Fewer, Onward, RestType
<1>2. CASE UNCHANGED <<left, freed>>
  <2>1. Fewer
    BY <1>2 DEF Fewer, PlacesInv, LeaseTypeOK
  <2> QED
    BY <1>2, <2>1, FewerPlaces
<1> QED
  BY <1>1, <1>2 DEF ReleaseAdmission

LEMMA AdmitPlaces ==
  ASSUME PlacesInv, RestType, CallsInv, NEW r \in Requests, Admit(r)
  PROVE  PlacesInv'
<1>1. Onward /\ Phase(r)' # "new" /\ freed' = freed /\ SkewOf[r] \in Skews
  BY AdmitOnward, SkewsOfRequests DEF Admit
<1>2. CASE AcquireGranted(r, SkewOf[r])
  <2>1. FewerBut(r)
    BY <1>1, <1>2, AcquireFewer DEF PlacesInv
  <2>2. r \notin freed
    BY DEF Admit, PlacesInv
  <2>3. \A p \in Requests : p # r /\ ~Present(p) => ~Present(p)'
    BY <2>1 DEF Present, FewerBut, PlacesInv, LeaseTypeOK
  <2>4. \A p \in Requests : Phase(p)' = "new" => Phase(p) = "new" /\ p # r
    BY <1>1 DEF Onward
  <2> QED
    BY <1>1, <2>1, <2>2, <2>3, <2>4 DEF PlacesInv, FewerBut, Onward, RestType
<1>3. CASE AcquireRefused(r, SkewOf[r])
  BY <1>1, <1>3, RefusedFewer, FewerPlaces DEF PlacesInv
<1>4. CASE UNCHANGED left
  BY <1>1, <1>4, FewerPlaces DEF Fewer, PlacesInv, LeaseTypeOK
<1> QED
  BY <1>2, <1>3, <1>4 DEF Admit

LEMMA CallFailsPlaces ==
  ASSUME PlacesInv, RestType, CallsInv, NEW r \in Requests, CallFails(r)
  PROVE  PlacesInv'
<1>1. Onward
  BY CallOnward DEF Call
<1>2. CASE UNCHANGED leaseVars
  BY <1>1, <1>2, FewerPlaces DEF leaseVars, Fewer, PlacesInv, LeaseTypeOK
<1>3. CASE Ends(r) /\ ReleaseAdmission(r)
  BY <1>1, <1>3, EndsOnward, ReleasePlaces
<1> QED
  BY <1>2, <1>3 DEF CallFails

LEMMA RenewalPlaces ==
  ASSUME PlacesInv, RestType, CallsInv, NEW r \in Requests, RenewalEnds(r) \/ LateRenewal(r)
  PROVE  PlacesInv'
<1>1. Onward
  BY RenewalOnward DEF Renewal, LateRenewal, Onward, Phase
<1>2. freed' = freed /\ (RenewScript(r, SkewOf[r]) \/ UNCHANGED left)
  BY DEF RenewalEnds, LateRenewal
<1>3. Fewer
  <2>1. CASE RenewScript(r, SkewOf[r])
    BY <2>1, RenewFewer, SkewsOfRequests DEF PlacesInv
  <2>2. CASE UNCHANGED left
    BY <2>2 DEF Fewer, PlacesInv, LeaseTypeOK
  <2> QED
    BY <1>2, <2>1, <2>2
<1> QED
  BY <1>1, <1>2, <1>3, FewerPlaces

LEMMA PlacesStep ==
  ASSUME PlacesInv, RestType, CallsInv, [Next]_vars
  PROVE  PlacesInv'
<1>1. Onward
  BY OnwardStep
<1>2. ASSUME UNCHANGED left, UNCHANGED freed
      PROVE  PlacesInv'
  BY <1>1, <1>2, FewerPlaces DEF Fewer, PlacesInv, LeaseTypeOK
<1>3. ASSUME NEW r \in Requests, ReleaseAdmission(r), Ends(r)
      PROVE  PlacesInv'
  BY <1>1, <1>3, EndsOnward, ReleasePlaces
<1>4. ASSUME NEW r \in Requests, Call(r) \/ Generator(r)
      PROVE  PlacesInv'
  BY <1>2, <1>4, CallFailsPlaces
  DEF Call, Generator, EnterGate, LeaveGate, CallAnswers, CallRetries,
      GeneratorReads, GeneratorEnds, leaseVars
<1>5. ASSUME NEW r \in Requests, Renewal(r) \/ LateRenewal(r)
      PROVE  PlacesInv'
  BY <1>2, <1>5, RenewalPlaces DEF Renewal, RenewalFires, leaseVars
<1>6. ASSUME NEW r \in Requests, Guard(r) \/ ClientTakes(r)
      PROVE  PlacesInv'
  BY <1>2, <1>3, <1>6
  DEF Guard, GuardStarts, GuardReads, GuardYields, GuardEnds, GuardLeaves, ClientTakes,
      leaseVars
<1>7. ASSUME NEW r \in Requests, Disconnect(r)
      PROVE  PlacesInv'
  BY <1>2, <1>3, <1>7 DEF Disconnect, leaseVars
<1>8. ASSUME NEW p \in Replicas, Crash(p)
      PROVE  PlacesInv'
  BY <1>2, <1>8 DEF Crash
<1>9. CASE RedisLoses
  BY <1>1, <1>9, LoseFewer, FewerPlaces DEF RedisLoses
<1>10. CASE Tick
  BY <1>1, <1>10, ElapseFewer, FewerPlaces DEF Tick, PlacesInv
<1>11. CASE UNCHANGED vars
  BY <1>2, <1>11 DEF vars
<1> QED
  BY <1>4, <1>5, <1>6, <1>7, <1>8, <1>9, <1>10, <1>11, AdmitPlaces DEF Next

-----------------------------------------------------------------------------
(* The theorems. *)

LEMMA InitInv == Init => Inv
<1> SUFFICES ASSUME Init
             PROVE  Inv
  OBVIOUS
<1>1. CallsInv
  BY NewRequestType DEF Init, CallsInv
<1>2. RestType
  BY GatewayAssumption DEF Init, RestType
<1>3. PlacesInv
  <2>1. \A r \in Requests, s \in Scopes : left[s][r] = 0
    BY DEF Init, LeaseInit, NoMembers
  <2> QED
    BY <2>1, EmptyType DEF Init, LeaseInit, PlacesInv, LeaseTypeOK, Present
<1> QED
  BY <1>1, <1>2, <1>3 DEF Inv

LEMMA NextInv == Inv /\ [Next]_vars => Inv'
BY CallsStep, RestStep, PlacesStep DEF Inv

LEMMA GatewayInvariant == Spec => []Inv
BY InitInv, NextInv, PTL DEF Spec

\* The local state of every call, the gate, the receipts and the sets keep their types.
THEOREM GatewayTypeCorrect == Spec => []TypeOK
<1>1. Inv => TypeOK
  BY DEF Inv, CallsInv, CallType, RestType, PlacesInv, TypeOK
<1> QED
  BY <1>1, GatewayInvariant, PTL

\* A released place stays free: a renewal that reaches Redis late finds no member.
THEOREM ReleasedStaysGone == Spec => []ReleasedIsGone
<1>1. Inv => ReleasedIsGone
  BY DEF Inv, RestType, PlacesInv, ReleasedIsGone
<1> QED
  BY <1>1, GatewayInvariant, PTL

\* No retry repeats a call that the provider may have executed.
THEOREM NeverExecutedTwice == Spec => []ExecutedOnce
<1>1. Inv => ExecutedOnce
  BY DEF Inv, CallsInv, Unrepeated, ExecutedOnce
<1> QED
  BY <1>1, GatewayInvariant, PTL

LEMMA MeteringStep ==
  ASSUME Inv, [Next]_vars, NEW r \in Streams, metered'[r] > metered[r]
  PROVE  req[r].fed = Chunks /\ Phase(r) = "streaming" /\ ~req[r].canceled
<1>1. r \in Requests /\ req[r] \in CallType /\ InStep(req[r]) /\ Chunks > 0
  BY GatewayAssumption DEF Inv, CallsInv
<1>2. metered[r] \in {0, 1} /\ metered \in [Streams -> {0, 1}]
  BY DEF Inv, RestType
<1>3. PICK q \in Requests : GeneratorEnds(q)
  <2>1. ASSUME NEW q \in Requests, Call(q)
        PROVE  metered' = metered
    BY <2>1 DEF Call, EnterGate, LeaveGate, CallAnswers, CallRetries, CallFails
  <2>2. ASSUME NEW q \in Requests, Admit(q) \/ Renewal(q) \/ LateRenewal(q) \/ Disconnect(q)
        PROVE  metered' = metered
    BY <2>2 DEF Admit, Renewal, RenewalFires, RenewalEnds, LateRenewal, Disconnect
  <2>3. ASSUME NEW q \in Requests, Guard(q) \/ ClientTakes(q) \/ GeneratorReads(q)
        PROVE  metered' = metered
    BY <2>3 DEF Guard, GuardStarts, GuardReads, GuardYields, GuardEnds, GuardLeaves,
       ClientTakes, GeneratorReads
  <2>4. ASSUME (\E p \in Replicas : Crash(p)) \/ RedisLoses \/ Tick \/ UNCHANGED vars
        PROVE  metered' = metered
    BY <2>4 DEF Crash, RedisLoses, Tick, vars
  <2>5. metered' # metered
    BY <1>2
  <2> QED
    BY <2>1, <2>2, <2>3, <2>4, <2>5 DEF Next, Generator
<1>4. q = r /\ req[r].fed = Chunks /\ Completed(r) /\ req[r].inner = "reading"
  BY <1>2, <1>3 DEF GeneratorEnds, Meters
<1>5. req[r].phase \notin BeforeAnswer \cup {"handed", "ended", "opened"}
  BY <1>1, <1>4 DEF Completed, InStep, CallType
<1> QED
  BY <1>1, <1>4, <1>5 DEF Completed, BeforeAnswer, CallType, Running, Phase

\* A stream that was cut short is not metered, whoever cut it and whenever.
THEOREM CutNeverMetered == Spec => CutIsNotMetered
<1>1. Inv /\ [Next]_vars =>
        [\A r \in Streams : metered'[r] > metered[r]
             => req[r].fed = Chunks /\ Phase(r) = "streaming" /\ ~req[r].canceled]_vars
  BY MeteringStep
<1> QED
  BY <1>1, GatewayInvariant, PTL DEF Spec, CutIsNotMetered

-----------------------------------------------------------------------------
(* What the client is shown. *)

ShowsNoMore == \A r \in Requests : req[r].canceled => req'[r].shown <= req[r].shown

LEMMA BecomesShowsNoMore ==
  ASSUME CallsInv, NEW r \in Requests, NEW q, Becomes(r, q),
         req[r].canceled => q.shown <= req[r].shown
  PROVE  ShowsNoMore
<1>1. \A p \in Requests : req[p].shown <= req[p].shown
  BY GatewayAssumption DEF CallsInv, CallType
<1> QED
  BY <1>1 DEF Becomes, CallsInv, ShowsNoMore

LEMMA KeepsShown ==
  ASSUME CallsInv, NEW r \in Requests, NEW q, Becomes(r, q), q.shown = req[r].shown
  PROVE  ShowsNoMore
<1>1. req[r].shown <= req[r].shown
  BY GatewayAssumption DEF CallsInv, CallType
<1> QED
  BY <1>1, BecomesShowsNoMore

LEMMA EndOfShown == \A q : EndOf(q).shown = 0
BY DEF EndOf, Over, NewRequest

LEMMA EndsShowsNoMore ==
  ASSUME CallsInv, NEW r \in Requests, Ends(r)
  PROVE  ShowsNoMore
<1>1. Becomes(r, EndOf(req[r]))
  BY DEF Ends, Becomes, CallsInv
<1>2. 0 <= req[r].shown
  BY GatewayAssumption DEF CallsInv, CallType
<1> QED
  BY <1>1, <1>2, EndOfShown, BecomesShowsNoMore

\* Before the answer nothing is canceled or shown; the calls themselves show nothing.
LEMMA CallShowsNoMore ==
  ASSUME CallsInv, NEW r \in Requests, Call(r)
  PROVE  ShowsNoMore
<1>1. req[r] \in CallType
  BY DEF CallsInv
<1>2. Calling(r).shown = req[r].shown
  BY <1>1 DEF Calling, CallType
<1>3. CASE EnterGate(r)
  <2>1. PICK q : q = [req[r] EXCEPT !.phase = "waiting", !.due = MaxWait,
                                    !.for = inflight[ReplicaOf[r]]]
    OBVIOUS
  <2>2. q.shown = req[r].shown
    BY <1>1, <2>1 DEF CallType
  <2> QED
    BY <1>2, <1>3, <2>1, <2>2, KeepsShown DEF EnterGate
<1>4. CASE LeaveGate(r)
  BY <1>2, <1>4, KeepsShown DEF LeaveGate
<1>5. ASSUME NEW k \in {0, 1},
             NEW q \in {[req[r] EXCEPT !.phase = "handed", !.sent = @ + k],
                        [req[r] EXCEPT !.phase = "handed", !.inner = "done", !.ready = TRUE,
                                       !.sent = @ + k],
                        [req[r] EXCEPT !.due = AttemptTime, !.tries = @ + 1, !.sent = @ + k]},
             Becomes(r, q)
      PROVE  ShowsNoMore
  <2>1. q.shown = req[r].shown
    BY <1>1, <1>5 DEF CallType
  <2> QED
    BY <1>5, <2>1, KeepsShown
<1>6. CASE CallAnswers(r)
  BY <1>5, <1>6 DEF CallAnswers
<1>7. CASE CallRetries(r)
  <2>1. \A failure \in DOMAIN MayHaveExecuted : MayHaveExecuted[failure] \subseteq {0, 1}
    BY DEF MayHaveExecuted
  <2>2. PICK failure \in DOMAIN MayHaveExecuted : \E k \in MayHaveExecuted[failure] :
          Becomes(r, [req[r] EXCEPT !.due = AttemptTime, !.tries = @ + 1, !.sent = @ + k])
    BY <1>7 DEF CallRetries
  <2> QED
    BY <1>5, <2>1, <2>2
<1>8. CASE CallFails(r)
  BY <1>5, <1>8, EndsShowsNoMore DEF CallFails
<1> QED
  BY <1>3, <1>4, <1>6, <1>7, <1>8 DEF Call

LEMMA AdmitShowsNoMore ==
  ASSUME CallsInv, NEW r \in Requests, Admit(r)
  PROVE  ShowsNoMore
<1>1. PICK q : q = [req[r] EXCEPT !.phase = "admitted", !.epoch = losses]
  OBVIOUS
<1>2. q.shown = req[r].shown
  BY <1>1 DEF CallsInv, CallType
<1> QED
  BY <1>1, <1>2, KeepsShown, EndsShowsNoMore DEF Admit

LEMMA GeneratorShowsNoMore ==
  ASSUME CallsInv, NEW r \in Requests, Generator(r)
  PROVE  ShowsNoMore
<1>1. req[r] \in CallType /\ 0 <= req[r].shown
  BY GatewayAssumption DEF CallsInv, CallType
<1>2. CASE GeneratorDone(r)
  <2>1. PICK q : q = IF Phase(r) = "ended" THEN Over ELSE [req[r] EXCEPT !.inner = "done"]
    OBVIOUS
  <2>2. Becomes(r, q)
    BY <1>2, <2>1 DEF GeneratorDone, Becomes, CallsInv
  <2>3. q.shown <= req[r].shown
    <3>1. CASE Phase(r) = "ended"
      BY <1>1, <2>1, <3>1 DEF Over, NewRequest
    <3>2. CASE Phase(r) # "ended"
      <4>1. q.shown = req[r].shown
        BY <1>1, <2>1, <3>2 DEF CallType
      <4> QED
        BY <1>1, <4>1, GatewayAssumption DEF CallType
    <3> QED
      BY <3>1, <3>2
  <2> QED
    BY <2>2, <2>3, BecomesShowsNoMore
<1>3. PICK q : q = [req[r] EXCEPT !.inner = "sending", !.fed = @ + 1]
  OBVIOUS
<1>4. q.shown = req[r].shown
  BY <1>1, <1>3 DEF CallType
<1>5. CASE GeneratorReads(r)
  BY <1>2, <1>3, <1>4, <1>5, KeepsShown DEF GeneratorReads
<1>6. CASE GeneratorEnds(r)
  BY <1>2, <1>6 DEF GeneratorEnds
<1> QED
  BY <1>5, <1>6 DEF Generator

LEMMA RenewalShowsNoMore ==
  ASSUME CallsInv, NEW r \in Requests, Renewal(r)
  PROVE  ShowsNoMore
<1>1. PICK q : /\ Becomes(r, q)
               /\ q \in {[req[r] EXCEPT !.renewing = TRUE],
                         [req[r] EXCEPT !.phase = "streaming", !.renewing = FALSE,
                                        !.due = RenewEvery],
                         [req[r] EXCEPT !.renewing = FALSE, !.canceled = TRUE]}
  BY DEF Renewal, RenewalFires, RenewalEnds
<1>2. q.shown = req[r].shown
  BY <1>1 DEF CallsInv, CallType
<1> QED
  BY <1>1, <1>2, KeepsShown

\* The guard checks its lease in the step that yields a chunk.
LEMMA GuardShowsNoMore ==
  ASSUME CallsInv, NEW r \in Requests, Guard(r)
  PROVE  ShowsNoMore
<1>1. req[r] \in CallType
  BY DEF CallsInv
<1>2. CASE GuardStarts(r)
  <2>1. PICK q : q = [req[r] EXCEPT !.phase = "opened", !.renewing = TRUE,
                                    !.inner = IF @ = "off" THEN "reading" ELSE @]
    OBVIOUS
  <2>2. q.shown = req[r].shown
    BY <1>1, <2>1 DEF CallType
  <2> QED
    BY <1>2, <2>1, <2>2, KeepsShown DEF GuardStarts
<1>3. CASE GuardReads(r)
  <2>1. PICK q : /\ Becomes(r, q)
                 /\ q \in {[req[r] EXCEPT !.inner = "reading", !.ready = TRUE],
                           [req[r] EXCEPT !.inner = "reading"]}
    BY <1>3 DEF GuardReads
  <2>2. q.shown = req[r].shown
    BY <1>1, <2>1 DEF CallType
  <2> QED
    BY <2>1, <2>2, KeepsShown
<1>4. CASE GuardYields(r)
  BY <1>4, BecomesShowsNoMore DEF GuardYields, Exposes
<1>5. CASE GuardEnds(r)
  BY <1>5, EndsShowsNoMore DEF GuardEnds, GuardLeaves
<1> QED
  BY <1>2, <1>3, <1>4, <1>5 DEF Guard

LEMMA ClientShowsNoMore ==
  ASSUME CallsInv, NEW r \in Requests, ClientTakes(r)
  PROVE  ShowsNoMore
<1>1. PICK q : q = [req[r] EXCEPT !.held = FALSE]
  OBVIOUS
<1>2. q.shown = req[r].shown
  BY <1>1 DEF CallsInv, CallType
<1> QED
  BY <1>1, <1>2, KeepsShown, EndsShowsNoMore DEF ClientTakes, GuardLeaves

LEMMA CrashShowsNoMore ==
  ASSUME CallsInv, NEW p \in Replicas, Crash(p)
  PROVE  ShowsNoMore
<1>1. \A r \in Requests : 0 <= req[r].shown /\ req[r].shown <= req[r].shown
  BY GatewayAssumption DEF CallsInv, CallType
<1>2. Over.shown = 0
  BY DEF Over, NewRequest
<1> QED
  BY <1>1, <1>2 DEF Crash, ShowsNoMore

LEMMA TickShowsNoMore ==
  ASSUME CallsInv, Tick
  PROVE  ShowsNoMore
<1> SUFFICES ASSUME NEW r \in Requests
             PROVE  req'[r].shown <= req[r].shown
  BY DEF ShowsNoMore
<1>1. req[r] \in CallType /\ req[r].shown <= req[r].shown
  BY GatewayAssumption DEF CallsInv, CallType
<1>2. PICK q : q = [req[r] EXCEPT !.due = @ - 1]
  OBVIOUS
<1>3. q.shown = req[r].shown
  BY <1>1, <1>2 DEF CallType
<1>4. req'[r] \in {q, req[r]}
  BY <1>2 DEF Tick
<1> QED
  BY <1>1, <1>3, <1>4

LEMMA ShowingStep ==
  ASSUME Inv, [Next]_vars
  PROVE  ShowsNoMore
<1>1. CallsInv
  BY DEF Inv
<1>2. ASSUME UNCHANGED req
      PROVE  ShowsNoMore
  BY <1>1, <1>2, GatewayAssumption DEF ShowsNoMore, CallsInv, CallType
<1>3. ASSUME NEW r \in Requests, LateRenewal(r) \/ Disconnect(r)
      PROVE  ShowsNoMore
  BY <1>1, <1>2, <1>3, EndsShowsNoMore DEF LateRenewal, Disconnect
<1>4. CASE RedisLoses \/ UNCHANGED vars
  BY <1>2, <1>4 DEF RedisLoses, vars
<1> QED
  BY <1>1, <1>3, <1>4, AdmitShowsNoMore, CallShowsNoMore, GeneratorShowsNoMore,
     RenewalShowsNoMore, GuardShowsNoMore, ClientShowsNoMore, CrashShowsNoMore,
     TickShowsNoMore DEF Next

\* Once a renewal failed the client is shown no further chunk, not even one that
\* the guard had read before.
THEOREM NothingShownAfterLoss == Spec => NothingAfterLoss
<1>1. Inv /\ [Next]_vars => [ShowsNoMore]_vars
  BY ShowingStep
<1> QED
  BY <1>1, GatewayInvariant, PTL DEF Spec, NothingAfterLoss, ShowsNoMore

-----------------------------------------------------------------------------
(* The refinement. *)

\* A release script or none.
LEMMA ReleaseIsLease ==
  ASSUME NEW r \in Requests, ReleaseAdmission(r)
  PROVE  [LeaseNext]_left
BY DEF ReleaseAdmission, LeaseNext

\* Only a request that is in no set asks for places.
LEMMA AdmitIsLease ==
  ASSUME Inv, NEW r \in Requests, Admit(r)
  PROVE  [LeaseNext]_left
<1>1. ~Present(r)
  BY DEF Admit, Inv, PlacesInv
<1>2. SkewOf[r] \in Skews
  BY SkewsOfRequests
<1> QED
  BY <1>1, <1>2 DEF Admit, LeaseNext

LEMMA RenewalIsLease ==
  ASSUME NEW r \in Requests, RenewalEnds(r) \/ LateRenewal(r)
  PROVE  [LeaseNext]_left
<1>1. SkewOf[r] \in Skews
  BY SkewsOfRequests
<1> QED
  BY <1>1 DEF RenewalEnds, LateRenewal, LeaseNext

LEMMA StepIsLease ==
  ASSUME Inv, [Next]_vars
  PROVE  [LeaseNext]_left
<1>1. ASSUME NEW r \in Requests, Call(r) \/ Generator(r)
      PROVE  [LeaseNext]_left
  BY <1>1, ReleaseIsLease DEF Call, Generator, EnterGate, LeaveGate, CallAnswers,
     CallRetries, CallFails, GeneratorReads, GeneratorEnds, leaseVars
<1>2. ASSUME NEW r \in Requests, Renewal(r) \/ LateRenewal(r)
      PROVE  [LeaseNext]_left
  BY <1>2, RenewalIsLease DEF Renewal, RenewalFires, leaseVars
<1>3. ASSUME NEW r \in Requests, Guard(r) \/ ClientTakes(r) \/ Disconnect(r)
      PROVE  [LeaseNext]_left
  BY <1>3, ReleaseIsLease DEF Guard, GuardStarts, GuardReads, GuardYields, GuardEnds,
     GuardLeaves, ClientTakes, Disconnect, leaseVars
<1>4. CASE (\E p \in Replicas : Crash(p)) \/ UNCHANGED vars
  BY <1>4 DEF Crash, vars
<1>5. CASE RedisLoses \/ Tick
  BY <1>5 DEF RedisLoses, Tick, LeaseNext
<1> QED
  BY <1>1, <1>2, <1>3, <1>4, <1>5, AdmitIsLease DEF Next

\* The server drives the scripts only in ways LimitLeases admits: a place is asked
\* for once per request, and every other call renews, releases or sweeps.
THEOREM GatewayImplementsLeases == Spec => ImplementsLeases
<1>1. Init => LeaseInit
  BY DEF Init
<1>2. Inv /\ [Next]_vars => [LeaseNext]_left
  BY StepIsLease
<1> QED
  BY <1>1, <1>2, GatewayInvariant, PTL DEF Spec, ImplementsLeases, LeaseSpec

\* Whatever the server does, no set holds more members than its limit.
THEOREM GatewayKeepsPlaces == Spec => []PlacesBounded
BY GatewayImplementsLeases, LeasesCorrect, PTL DEF ImplementsLeases

-----------------------------------------------------------------------------
(* Time. *)

\* What a configuration has to give a lease: the attempts a call may make, the
\* wait at the gate and the fastest clock, and a stream the time to its renewal.
\* _default_lease_seconds adds 60 seconds to the attempts, of which the gate's wait
\* takes 15 by default.
LeaseIsLong ==
  /\ Lease > AttemptTime * (Retries + 1) + MaxWait + MaxSkew
  /\ Lease > RenewEvery + MaxSkew

\* The time n left on a lease covers what the call q may still need of it: what is
\* used up so far is at most the wait and the attempts made, or the time since the
\* last renewal.
InTime(q, n) ==
  /\ q.phase = "admitted" => n >= Lease
  /\ q.phase = "waiting" => q.due <= MaxWait /\ n >= Lease - MaxWait + q.due
  /\ q.phase = "calling" => /\ q.tries >= 1 /\ q.due <= AttemptTime
                            /\ n >= Lease - MaxWait - AttemptTime * q.tries + q.due
  /\ q.phase \in {"handed", "opened"} =>
       n >= Lease - MaxWait - AttemptTime * (Retries + 1)
  /\ q.phase = "streaming" => q.due <= RenewEvery /\ n >= Lease - RenewEvery + q.due

\* A call under way that has not lost its lease while it waits for its client.
Going(q) == q.phase \in Running /\ ~(q.phase = "streaming" /\ q.held /\ q.canceled)

\* One whose place Redis has not lost.
Lives(r) == Going(req[r]) /\ req[r].epoch = losses

Timely == \A r \in Requests : Lives(r) => \A s \in SetsOf(r) : InTime(req[r], left[s][r])

EpochsPast == \A r \in Requests : Going(req[r]) => req[r].epoch <= losses

TimeInv == Timely /\ EpochsPast /\ RunningWithinLimit

LEMMA AttemptsFit ==
  ASSUME NEW t \in 0 .. Retries + 1
  PROVE  /\ AttemptTime * t \in Nat /\ AttemptTime * (Retries + 1) \in Nat
         /\ AttemptTime * t <= AttemptTime * (Retries + 1)
         /\ AttemptTime * (t + 1) = AttemptTime * t + AttemptTime
         /\ t >= 1 => AttemptTime * t >= AttemptTime
<1>1. AttemptTime \in Nat /\ Retries \in Nat /\ t \in Nat
  BY GatewayAssumption
<1>2. AttemptTime * t \in Nat /\ AttemptTime * (Retries + 1) \in Nat
  BY <1>1
<1>3. AttemptTime * (t + 1) = AttemptTime * t + AttemptTime
  BY <1>1
<1>4. PICK u \in Nat : Retries + 1 = t + u
  <2>1. Retries + 1 - t \in Nat /\ Retries + 1 = t + (Retries + 1 - t)
    BY <1>1
  <2> QED
    BY <2>1
<1>5. AttemptTime * (t + u) = AttemptTime * t + AttemptTime * u /\ AttemptTime * u \in Nat
  BY <1>1, <1>4
<1>6. AttemptTime * t <= AttemptTime * (Retries + 1)
  BY <1>2, <1>4, <1>5
<1>7. ASSUME t >= 1
      PROVE  AttemptTime * t >= AttemptTime
  <2>1. PICK v \in Nat : t = 1 + v
    <3>1. t - 1 \in Nat /\ t = 1 + (t - 1)
      BY <1>1, <1>7
    <3> QED
      BY <3>1
  <2>2. AttemptTime * (1 + v) = AttemptTime + AttemptTime * v /\ AttemptTime * v \in Nat
    BY <1>1, <2>1
  <2> QED
    BY <1>1, <2>1, <2>2
<1> QED
  BY <1>2, <1>3, <1>6, <1>7

LEMMA TimesType ==
  /\ Lease \in Nat /\ MaxWait \in Nat /\ MaxSkew \in Nat /\ AttemptTime \in Nat
  /\ Retries \in Nat /\ RenewEvery \in Nat /\ AttemptTime * (Retries + 1) \in Nat
BY LeaseAssumption, GatewayAssumption, RenewEveryType, AttemptsFit

\* A lease that is in time is unexpired on every clock.
LEMMA InTimeLives ==
  ASSUME LeaseIsLong, NEW q \in CallType, q.phase \in Running, NEW n \in Int, InTime(q, n)
  PROVE  n > MaxSkew
<1>1. q.tries \in 0 .. Retries + 1 /\ q.due \in Nat
  BY DEF CallType
<1>2. AttemptTime * q.tries \in Nat /\ AttemptTime * q.tries <= AttemptTime * (Retries + 1)
  BY <1>1, AttemptsFit
<1>3. CASE q.phase = "admitted" \/ q.phase = "waiting"
  BY <1>1, <1>3, TimesType DEF InTime, LeaseIsLong
<1>4. CASE q.phase = "calling"
  <2>1. n >= Lease - MaxWait - AttemptTime * q.tries + q.due
    BY <1>4 DEF InTime
  <2> QED
    BY <1>1, <1>2, <2>1, TimesType DEF LeaseIsLong
<1>5. CASE q.phase \in {"handed", "opened"}
  <2>1. n >= Lease - MaxWait - AttemptTime * (Retries + 1)
    BY <1>5 DEF InTime
  <2> QED
    BY <2>1, TimesType DEF LeaseIsLong
<1>6. CASE q.phase = "streaming"
  BY <1>1, <1>6, TimesType DEF InTime, LeaseIsLong
<1> QED
  BY <1>3, <1>4, <1>5, <1>6 DEF Running

\* More time, or a whole new lease, is in time as well.
LEMMA InTimeFresh ==
  ASSUME NEW q \in CallType, NEW n \in Int, NEW m \in Int, InTime(q, n),
         m >= n \/ m >= Lease
  PROVE  InTime(q, m)
<1>1. q.tries \in 0 .. Retries + 1 /\ q.due \in Nat
  BY DEF CallType
<1>2. /\ AttemptTime * q.tries \in Nat
      /\ q.tries >= 1 => AttemptTime * q.tries >= AttemptTime
  BY <1>1, AttemptsFit
<1>3. CASE q.phase = "calling"
  <2>1. /\ q.tries >= 1 /\ q.due <= AttemptTime
        /\ n >= Lease - MaxWait - AttemptTime * q.tries + q.due
    BY <1>3 DEF InTime
  <2>2. m >= Lease - MaxWait - AttemptTime * q.tries + q.due
    BY <1>1, <1>2, <2>1, TimesType
  <2> QED
    BY <1>3, <2>1, <2>2 DEF InTime
<1>4. CASE q.phase # "calling"
  BY <1>1, <1>4, TimesType DEF InTime
<1> QED
  BY <1>3, <1>4

\* A call goes on in the time it had.
Proceeds(p, q) ==
  /\ Going(p) /\ q.epoch = p.epoch
  /\ \A n \in Int : InTime(p, n) => InTime(q, n)

AllProceed == \A r \in Requests : Going(req'[r]) => Proceeds(req[r], req'[r])

LEMMA Unchanging == req' = req => AllProceed
BY DEF AllProceed, Proceeds

LEMMA OneProceeds ==
  ASSUME CallsInv, NEW r \in Requests, NEW q, Becomes(r, q),
         Going(q) => Proceeds(req[r], q)
  PROVE  AllProceed
<1>1. \A x \in Requests : x # r => req'[x] = req[x]
  BY DEF Becomes, CallsInv
<1>2. req'[r] = q
  BY DEF Becomes, CallsInv
<1> QED
  BY <1>1, <1>2 DEF AllProceed, Proceeds

LEMMA EndsProceeds ==
  ASSUME CallsInv, NEW r \in Requests, Ends(r)
  PROVE  AllProceed /\ Phase(r)' = "ended"
<1>1. Becomes(r, EndOf(req[r])) /\ EndOf(req[r]).phase = "ended"
  BY EndOfType DEF Ends, Becomes, CallsInv
<1>2. ~Going(EndOf(req[r]))
  BY <1>1 DEF Running, Going
<1> QED
  BY <1>1, <1>2, OneProceeds DEF Becomes, CallsInv, Phase

\* Calling begins with the first attempt, out of the gate or past it.
LEMMA CallingProceeds ==
  ASSUME CallsInv, NEW r \in Requests, Phase(r) \in {"admitted", "waiting"}
  PROVE  Proceeds(req[r], Calling(r))
<1>1. PICK q : q = Calling(r)
  OBVIOUS
<1>2. req[r] \in CallType /\ req[r].phase \in {"admitted", "waiting"} /\ req[r].due \in Nat
  BY DEF CallsInv, Phase, CallType
<1>3. /\ q.phase = "calling" /\ q.due = AttemptTime /\ q.tries = 1
      /\ q.epoch = req[r].epoch
  BY <1>1, <1>2 DEF Calling, CallType
<1>4. AttemptTime * 1 = AttemptTime
  BY TimesType
<1>5. ASSUME NEW n \in Int, InTime(req[r], n)
      PROVE  InTime(q, n)
  <2>1. n >= Lease - MaxWait
    BY <1>2, <1>5, TimesType DEF InTime
  <2>2. n >= Lease - MaxWait - AttemptTime * q.tries + q.due
    BY <1>3, <1>4, <2>1, TimesType
  <2> QED
    BY <1>3, <2>2, TimesType DEF InTime
<1> QED
  BY <1>1, <1>2, <1>3, <1>5 DEF Proceeds, Going, Running

LEMMA EnterGateProceeds ==
  ASSUME CallsInv, NEW r \in Requests, EnterGate(r)
  PROVE  AllProceed
<1>1. PICK q : q = [req[r] EXCEPT !.phase = "waiting", !.due = MaxWait,
                                  !.for = inflight[ReplicaOf[r]]]
  OBVIOUS
<1>2. req[r] \in CallType /\ req[r].phase = "admitted" /\ Phase(r) = "admitted"
  BY DEF CallsInv, Phase, EnterGate
<1>3. q.phase = "waiting" /\ q.due = MaxWait /\ q.epoch = req[r].epoch
  BY <1>1, <1>2 DEF CallType
<1>4. Proceeds(req[r], q)
  BY <1>2, <1>3, TimesType DEF Proceeds, InTime, Going, Running
<1> QED
  BY <1>1, <1>2, <1>4, CallingProceeds, OneProceeds DEF EnterGate

\* An answer comes within the attempts.
LEMMA AnsweredProceeds ==
  ASSUME CallsInv, NEW r \in Requests, Phase(r) = "calling",
         NEW q, q.phase = "handed", q.epoch = req[r].epoch
  PROVE  Proceeds(req[r], q)
<1>1. /\ req[r].phase = "calling" /\ req[r].due \in Nat
      /\ req[r].tries \in 0 .. Retries + 1
  BY DEF CallsInv, CallType, Phase
<1>2. /\ AttemptTime * req[r].tries \in Nat
      /\ AttemptTime * req[r].tries <= AttemptTime * (Retries + 1)
  BY <1>1, AttemptsFit
<1>3. ASSUME NEW n \in Int, InTime(req[r], n)
      PROVE  InTime(q, n)
  <2>1. n >= Lease - MaxWait - AttemptTime * req[r].tries + req[r].due
    BY <1>1, <1>3 DEF InTime
  <2>2. n >= Lease - MaxWait - AttemptTime * (Retries + 1)
    BY <1>1, <1>2, <2>1, TimesType
  <2> QED
    BY <2>2 DEF InTime
<1> QED
  BY <1>1, <1>3 DEF Proceeds, Going, Running

LEMMA CallRetriesProceeds ==
  ASSUME CallsInv, NEW r \in Requests, CallRetries(r)
  PROVE  AllProceed
<1>1. PICK k : Becomes(r, [req[r] EXCEPT !.due = AttemptTime, !.tries = @ + 1, !.sent = @ + k])
  BY DEF CallRetries
<1>2. PICK q : q = [req[r] EXCEPT !.due = AttemptTime, !.tries = @ + 1, !.sent = @ + k]
  OBVIOUS
<1>3. /\ req[r] \in CallType /\ req[r].phase = "calling" /\ req[r].due \in Nat
      /\ req[r].tries \in 0 .. Retries + 1
  BY DEF CallsInv, CallRetries, Phase, CallType
<1>4. /\ q.phase = "calling" /\ q.due = AttemptTime /\ q.tries = req[r].tries + 1
      /\ q.epoch = req[r].epoch
  BY <1>2, <1>3 DEF CallType
<1>5. /\ AttemptTime * req[r].tries \in Nat
      /\ AttemptTime * (req[r].tries + 1) = AttemptTime * req[r].tries + AttemptTime
  BY <1>3, AttemptsFit
<1>6. ASSUME NEW n \in Int, InTime(req[r], n)
      PROVE  InTime(q, n)
  <2>1. n >= Lease - MaxWait - AttemptTime * req[r].tries + req[r].due
    BY <1>3, <1>6 DEF InTime
  <2>2. n >= Lease - MaxWait - AttemptTime * (req[r].tries + 1) + AttemptTime
    BY <1>3, <1>5, <2>1, TimesType
  <2> QED
    BY <1>3, <1>4, <2>2, TimesType DEF InTime
<1>7. Proceeds(req[r], q)
  BY <1>3, <1>4, <1>6 DEF Proceeds, Going, Running
<1> QED
  BY <1>1, <1>2, <1>7, OneProceeds

LEMMA CallProceeds ==
  ASSUME CallsInv, NEW r \in Requests, Call(r)
  PROVE  AllProceed
<1>1. req[r] \in CallType
  BY DEF CallsInv
<1>2. CASE LeaveGate(r)
  BY <1>2, CallingProceeds, OneProceeds DEF LeaveGate
<1>3. ASSUME Phase(r) = "calling", NEW k,
             NEW q \in {[req[r] EXCEPT !.phase = "handed", !.sent = @ + k],
                        [req[r] EXCEPT !.phase = "handed", !.inner = "done", !.ready = TRUE,
                                       !.sent = @ + k]},
             Becomes(r, q)
      PROVE  AllProceed
  <2>1. q.phase = "handed" /\ q.epoch = req[r].epoch
    BY <1>1, <1>3 DEF CallType
  <2> QED
    BY <1>3, <2>1, AnsweredProceeds, OneProceeds
<1>4. CASE CallAnswers(r)
  BY <1>3, <1>4 DEF CallAnswers
<1>5. CASE CallFails(r)
  BY <1>3, <1>5, EndsProceeds DEF CallFails
<1> QED
  BY <1>2, <1>4, <1>5, EnterGateProceeds, CallRetriesProceeds DEF Call

\* Steps that touch neither the phase nor the time of a call.
LEMMA SameTimeProceeds ==
  ASSUME CallsInv, NEW r \in Requests, NEW q, Becomes(r, q),
         q.phase = req[r].phase, q.due = req[r].due, q.tries = req[r].tries,
         q.epoch = req[r].epoch, Going(q) => Going(req[r])
  PROVE  AllProceed
<1>1. Going(q) => Proceeds(req[r], q)
  BY DEF Proceeds, InTime
<1> QED
  BY <1>1, OneProceeds

LEMMA GeneratorProceeds ==
  ASSUME CallsInv, NEW r \in Requests, Generator(r)
  PROVE  AllProceed
<1>1. req[r] \in CallType
  BY DEF CallsInv
<1>2. PICK q : q = [req[r] EXCEPT !.inner = "sending", !.fed = @ + 1]
  OBVIOUS
<1>3. PICK p : p = [req[r] EXCEPT !.inner = "done"]
  OBVIOUS
<1>4. /\ q.phase = req[r].phase /\ q.due = req[r].due /\ q.tries = req[r].tries
      /\ q.epoch = req[r].epoch
      /\ p.phase = req[r].phase /\ p.due = req[r].due /\ p.tries = req[r].tries
      /\ p.epoch = req[r].epoch
      /\ Going(q) => Going(req[r])
      /\ Going(p) => Going(req[r])
  BY <1>1, <1>2, <1>3, ZenonT(40) DEF CallType, Going
<1>5. CASE GeneratorDone(r)
  <2>1. Becomes(r, Over) \/ Becomes(r, p)
    BY <1>3, <1>5 DEF GeneratorDone, Becomes, CallsInv
  <2>2. ~Going(Over)
    BY OverType DEF Running, Going
  <2> QED
    BY <1>4, <2>1, <2>2, OneProceeds, SameTimeProceeds
<1>6. CASE Becomes(r, q)
  BY <1>4, <1>6, SameTimeProceeds
<1> QED
  BY <1>2, <1>5, <1>6 DEF Generator, GeneratorReads, GeneratorEnds

LEMMA GuardProceeds ==
  ASSUME CallsInv, NEW r \in Requests, Guard(r)
  PROVE  AllProceed
<1>1. req[r] \in CallType
  BY DEF CallsInv
<1>2. CASE GuardStarts(r)
  <2>1. PICK q : /\ Becomes(r, q)
                 /\ q = [req[r] EXCEPT !.phase = "opened", !.renewing = TRUE,
                                       !.inner = IF @ = "off" THEN "reading" ELSE @]
    BY <1>2 DEF GuardStarts
  <2>2. q.phase = "opened" /\ q.epoch = req[r].epoch /\ req[r].phase = "handed"
    BY <1>1, <1>2, <2>1 DEF CallType, GuardStarts, Phase
  <2>3. Proceeds(req[r], q)
    BY <2>2 DEF Proceeds, InTime, Going, Running
  <2> QED
    BY <2>1, <2>3, OneProceeds
<1>3. CASE GuardReads(r)
  <2>1. PICK q : /\ Becomes(r, q)
                 /\ q \in {[req[r] EXCEPT !.inner = "reading", !.ready = TRUE],
                           [req[r] EXCEPT !.inner = "reading"]}
    BY <1>3 DEF GuardReads
  <2>2. /\ q.phase = req[r].phase /\ q.due = req[r].due /\ q.tries = req[r].tries
        /\ q.epoch = req[r].epoch /\ q.held = req[r].held /\ q.canceled = req[r].canceled
    BY <1>1, <2>1 DEF CallType
  <2> QED
    BY <2>1, <2>2, SameTimeProceeds DEF Going
<1>4. CASE GuardYields(r)
  <2>1. PICK q : /\ Becomes(r, q)
                 /\ q = [req[r] EXCEPT !.ready = FALSE, !.held = TRUE, !.shown = @ + 1]
    BY <1>4 DEF GuardYields
  <2>2. /\ q.phase = req[r].phase /\ q.due = req[r].due /\ q.tries = req[r].tries
        /\ q.epoch = req[r].epoch /\ ~req[r].canceled
    BY <1>1, <1>4, <2>1 DEF CallType, GuardYields, Exposes
  <2> QED
    BY <2>1, <2>2, SameTimeProceeds DEF Going
<1>5. CASE GuardEnds(r)
  BY <1>5, EndsProceeds DEF GuardEnds, GuardLeaves
<1> QED
  BY <1>2, <1>3, <1>4, <1>5 DEF Guard

\* The client takes its chunk in its time, or ends a call that has lost its lease.
LEMMA ClientProceeds ==
  ASSUME CallsInv, NEW r \in Requests, ClientTakes(r)
  PROVE  AllProceed
<1>1. req[r] \in CallType
  BY DEF CallsInv
<1>2. CASE Holds(r) /\ ~req[r].canceled /\ Becomes(r, [req[r] EXCEPT !.held = FALSE])
  <2>1. PICK q : Becomes(r, q) /\ q = [req[r] EXCEPT !.held = FALSE]
    BY <1>2
  <2>2. /\ q.phase = req[r].phase /\ q.due = req[r].due /\ q.tries = req[r].tries
        /\ q.epoch = req[r].epoch
    BY <1>1, <2>1 DEF CallType
  <2> QED
    BY <1>2, <2>1, <2>2, SameTimeProceeds DEF Going
<1>3. CASE GuardLeaves(r)
  BY <1>3, EndsProceeds DEF GuardLeaves
<1> QED
  BY <1>2, <1>3 DEF ClientTakes

LEMMA RenewalFiresProceeds ==
  ASSUME CallsInv, NEW r \in Requests, RenewalFires(r)
  PROVE  AllProceed
<1>1. PICK q : Becomes(r, q) /\ q = [req[r] EXCEPT !.renewing = TRUE]
  BY DEF RenewalFires
<1>2. /\ q.phase = req[r].phase /\ q.due = req[r].due /\ q.tries = req[r].tries
      /\ q.epoch = req[r].epoch /\ q.held = req[r].held /\ q.canceled = req[r].canceled
  BY <1>1 DEF CallsInv, CallType
<1> QED
  BY <1>1, <1>2, SameTimeProceeds DEF Going

LEMMA CrashProceeds ==
  ASSUME CallsInv, NEW p \in Replicas, Crash(p)
  PROVE  AllProceed
<1>1. ~Going(Over)
  BY OverType DEF Running, Going
<1>2. \A r \in Requests : req'[r] = Over \/ req'[r] = req[r]
  BY DEF Crash
<1> QED
  BY <1>1, <1>2 DEF AllProceed, Proceeds

-----------------------------------------------------------------------------
(* What the scripts of others leave of a lease. *)

\* The places of the calls that go on are as good as before, or renewed.
LeftKept ==
  \A r \in Requests : Lives(r) /\ Phase(r)' \in Running =>
    \A s \in SetsOf(r) : left'[s][r] >= left[s][r] \/ left'[s][r] >= Lease

\* The place of a living call is unexpired on every clock.
LEMMA LivesUnexpired ==
  ASSUME LeaseIsLong, Inv, Timely, NEW r \in Requests, Lives(r), NEW s \in SetsOf(r)
  PROVE  s \in Scopes /\ left[s][r] \in Int /\ left[s][r] > MaxSkew
<1>1. s \in Scopes /\ left[s][r] \in Int
  BY SetsOfInScopes, LeaseAssumption DEF Inv, PlacesInv, LeaseTypeOK
<1>2. req[r] \in CallType /\ req[r].phase \in Running /\ InTime(req[r], left[s][r])
  BY DEF Inv, CallsInv, Timely, Lives, Going
<1> QED
  BY <1>1, <1>2, InTimeLives

LEMMA AcquireKeeps ==
  ASSUME LeaseIsLong, Inv, Timely, NEW q \in Requests, NEW d \in Skews,
         AcquireGranted(q, d) \/ AcquireRefused(q, d)
  PROVE  LeftKept
<1> SUFFICES ASSUME NEW r \in Requests, Lives(r), NEW s \in SetsOf(r)
             PROVE  left'[s][r] >= left[s][r] \/ left'[s][r] >= Lease
  BY DEF LeftKept
<1>1. /\ s \in Scopes /\ left[s][r] \in Int /\ left[s][r] > MaxSkew
      /\ d \in Nat /\ d <= MaxSkew /\ Lease \in Nat /\ MaxSkew \in Nat
  BY LivesUnexpired, LeaseAssumption DEF Skews
<1>2. Swept(s, d)[r] = left[s][r]
  BY <1>1 DEF Swept
<1>3. CASE AcquireGranted(q, d)
  <2>1. left'[s] = IF s \in SetsOf(q) THEN [Swept(s, d) EXCEPT ![q] = Lease + d] ELSE left[s]
    BY <1>1, <1>3 DEF AcquireGranted
  <2>2. Swept(s, d) = [x \in Requests |-> Swept(s, d)[x]]
    BY DEF Swept
  <2>3. left'[s][r] = left[s][r] \/ left'[s][r] = Lease + d
    BY <1>2, <2>1, <2>2
  <2> QED
    BY <1>1, <2>3
<1>4. CASE AcquireRefused(q, d)
  <2>1. left'[s] = Swept(s, d) \/ left'[s] = left[s]
    BY <1>1, <1>4 DEF AcquireRefused
  <2> QED
    BY <1>1, <1>2, <2>1
<1> QED
  BY <1>3, <1>4

LEMMA RenewKeeps ==
  ASSUME Inv, NEW q \in Requests, NEW d \in Skews, RenewScript(q, d) \/ UNCHANGED left
  PROVE  LeftKept
<1> SUFFICES ASSUME NEW r \in Requests, NEW s \in SetsOf(r)
             PROVE  left'[s][r] >= left[s][r] \/ left'[s][r] >= Lease
  BY DEF LeftKept
<1>1. s \in Scopes /\ left[s][r] \in Int /\ Lease \in Nat /\ d \in Nat
  BY SetsOfInScopes, LeaseAssumption, SkewsAreNat DEF Inv, PlacesInv, LeaseTypeOK
<1>2. left'[s][r] = left[s][r] \/ left'[s][r] = Lease + d
  BY <1>1 DEF RenewScript, Inv, PlacesInv, LeaseTypeOK
<1> QED
  BY <1>1, <1>2

LEMMA ReleaseKeeps ==
  ASSUME Inv, NEW q \in Requests, ReleaseAdmission(q), Phase(q)' = "ended"
  PROVE  LeftKept
<1> SUFFICES ASSUME NEW r \in Requests, Phase(r)' \in Running, NEW s \in SetsOf(r)
             PROVE  left'[s][r] >= left[s][r]
  BY DEF LeftKept
<1>1. s \in Scopes /\ left[s][r] \in Int /\ r # q
  BY SetsOfInScopes, LeaseAssumption DEF Inv, PlacesInv, LeaseTypeOK, Running
<1>2. left'[s][r] = left[s][r]
  BY <1>1 DEF ReleaseAdmission, ReleaseScript, Inv, PlacesInv, LeaseTypeOK
<1> QED
  BY <1>1, <1>2

LEMMA StillKeeps ==
  ASSUME Inv, UNCHANGED left
  PROVE  LeftKept
<1> SUFFICES ASSUME NEW r \in Requests, NEW s \in SetsOf(r)
             PROVE  left'[s][r] >= left[s][r]
  BY DEF LeftKept
<1>1. left[s][r] \in Int
  BY SetsOfInScopes, LeaseAssumption DEF Inv, PlacesInv, LeaseTypeOK
<1> QED
  BY <1>1

\* Calls that go on in their time, with their leases kept, stay in time.
LEMMA KeptInTime ==
  ASSUME Inv, Inv', Timely, AllProceed, LeftKept, losses' = losses
  PROVE  Timely'
<1> SUFFICES ASSUME NEW r \in Requests, Going(req'[r]), req'[r].epoch = losses,
                    NEW s \in SetsOf(r)
             PROVE  InTime(req'[r], left'[s][r])
  BY DEF Timely, Lives
<1>1. Proceeds(req[r], req'[r]) /\ Lives(r)
  BY DEF AllProceed, Proceeds, Lives
<1>2. left[s][r] \in Int /\ left'[s][r] \in Int /\ req'[r] \in CallType
  BY SetsOfInScopes, LeaseAssumption DEF Inv, PlacesInv, LeaseTypeOK, CallsInv
<1>3. InTime(req'[r], left[s][r])
  BY <1>1, <1>2 DEF Timely, Proceeds
<1>4. left'[s][r] >= left[s][r] \/ left'[s][r] >= Lease
  BY <1>1 DEF LeftKept, Going, Phase
<1> QED
  BY <1>2, <1>3, <1>4, InTimeFresh

LEMMA AdmitInTime ==
  ASSUME LeaseIsLong, Inv, Inv', Timely, NEW r \in Requests, Admit(r)
  PROVE  Timely'
<1>1. /\ losses' = losses /\ SkewOf[r] \in Skews
      /\ \A x \in Requests : x # r => req'[x] = req[x]
  BY SkewsOfRequests DEF Admit, Ends, Becomes, Inv, CallsInv
<1>2. LeftKept
  BY <1>1, AcquireKeeps, StillKeeps DEF Admit
<1>3. CASE Ends(r)
  BY <1>1, <1>2, <1>3, EndsProceeds, KeptInTime DEF Inv
<1>4. CASE /\ AcquireGranted(r, SkewOf[r])
           /\ Becomes(r, [req[r] EXCEPT !.phase = "admitted", !.epoch = losses])
  <2>1. ASSUME NEW x \in Requests, Lives(x)', NEW s \in SetsOf(x)
        PROVE  InTime(req'[x], left'[s][x])
    <3>1. s \in Scopes /\ left[s][x] \in Int /\ left'[s][x] \in Int /\ req'[x] \in CallType
      BY SetsOfInScopes, LeaseAssumption DEF Inv, PlacesInv, LeaseTypeOK, CallsInv
    <3>2. CASE x # r
      <4>1. Lives(x) /\ req'[x] = req[x] /\ InTime(req[x], left[s][x])
        BY <1>1, <2>1, <3>2 DEF Lives, Timely
      <4>2. left'[s][x] >= left[s][x] \/ left'[s][x] >= Lease
        BY <1>2, <2>1, <4>1 DEF LeftKept, Lives, Going, Phase
      <4> QED
        BY <3>1, <4>1, <4>2, InTimeFresh
    <3>3. CASE x = r
      <4>1. req'[r].phase = "admitted"
        BY <1>4 DEF Becomes, Inv, CallsInv, CallType
      <4>2. left'[s] = [Swept(s, SkewOf[r]) EXCEPT ![r] = Lease + SkewOf[r]]
        BY <1>4, <3>1, <3>3 DEF AcquireGranted
      <4>3. left'[s][r] = Lease + SkewOf[r]
        BY <4>2 DEF Swept
      <4>4. Lease \in Nat /\ SkewOf[r] \in Nat
        BY <1>1, LeaseAssumption, SkewsAreNat
      <4> QED
        BY <3>3, <4>1, <4>3, <4>4 DEF InTime
    <3> QED
      BY <3>2, <3>3
  <2> QED
    BY <2>1 DEF Timely
<1> QED
  BY <1>3, <1>4 DEF Admit

\* A renewal that succeeds begins a new interval with a new lease.
LEMMA RenewalEndsInTime ==
  ASSUME Inv, Inv', Timely, NEW r \in Requests, RenewalEnds(r)
  PROVE  Timely'
<1>1. /\ losses' = losses /\ SkewOf[r] \in Skews /\ req[r] \in CallType
      /\ \A x \in Requests : x # r => req'[x] = req[x]
  BY SkewsOfRequests DEF RenewalEnds, Becomes, Inv, CallsInv
<1>2. LeftKept
  BY <1>1, RenewKeeps DEF RenewalEnds
<1>3. CASE Becomes(r, [req[r] EXCEPT !.renewing = FALSE, !.canceled = TRUE])
  <2>1. PICK q : /\ Becomes(r, q)
                 /\ q = [req[r] EXCEPT !.renewing = FALSE, !.canceled = TRUE]
    BY <1>3
  <2>2. /\ q.phase = req[r].phase /\ q.due = req[r].due /\ q.tries = req[r].tries
        /\ q.epoch = req[r].epoch /\ q.held = req[r].held /\ q.canceled
    BY <1>1, <2>1 DEF CallType
  <2>3. AllProceed
    BY <1>1, <2>1, <2>2, SameTimeProceeds DEF Inv, Going
  <2> QED
    BY <1>1, <1>2, <2>3, KeptInTime
<1>4. CASE /\ Owned(r, SkewOf[r]) /\ RenewScript(r, SkewOf[r])
           /\ Becomes(r, [req[r] EXCEPT !.phase = "streaming", !.renewing = FALSE,
                                        !.due = RenewEvery])
  <2>1. ASSUME NEW x \in Requests, Lives(x)', NEW s \in SetsOf(x)
        PROVE  InTime(req'[x], left'[s][x])
    <3>1. s \in Scopes /\ left[s][x] \in Int /\ left'[s][x] \in Int /\ req'[x] \in CallType
      BY SetsOfInScopes, LeaseAssumption DEF Inv, PlacesInv, LeaseTypeOK, CallsInv
    <3>2. CASE x # r
      <4>1. Lives(x) /\ req'[x] = req[x] /\ InTime(req[x], left[s][x])
        BY <1>1, <2>1, <3>2 DEF Lives, Timely
      <4>2. left'[s][x] >= left[s][x] \/ left'[s][x] >= Lease
        BY <1>2, <2>1, <4>1 DEF LeftKept, Lives, Going, Phase
      <4> QED
        BY <3>1, <4>1, <4>2, InTimeFresh
    <3>3. CASE x = r
      <4>1. req'[r].phase = "streaming" /\ req'[r].due = RenewEvery
        BY <1>1, <1>4 DEF Becomes, Inv, CallsInv, CallType
      <4>2. left'[s] = [left[s] EXCEPT ![r] = Lease + SkewOf[r]]
        BY <1>4, <3>1, <3>3 DEF RenewScript
      <4>3. left'[s][r] = Lease + SkewOf[r]
        BY <3>1, <4>2 DEF Inv, PlacesInv, LeaseTypeOK
      <4>4. SkewOf[r] \in Nat
        BY <1>1, SkewsAreNat
      <4> QED
        BY <3>3, <4>1, <4>3, <4>4, TimesType DEF InTime
    <3> QED
      BY <3>2, <3>3
  <2> QED
    BY <2>1 DEF Timely
<1> QED
  BY <1>3, <1>4 DEF RenewalEnds

\* Time takes as much from what a call may need as from its lease.
LEMMA TickInTime ==
  ASSUME LeaseIsLong, Inv, Inv', Timely, Tick
  PROVE  Timely'
<1> SUFFICES ASSUME NEW r \in Requests, Lives(r)', NEW s \in SetsOf(r)
             PROVE  InTime(req'[r], left'[s][r])
  BY DEF Timely
<1>1. req[r] \in CallType /\ req[r].due \in Nat /\ ~Urgent(r) /\ losses' = losses
  BY DEF Inv, CallsInv, CallType, Tick
<1>2. req'[r] = IF Phase(r) \in {"waiting", "calling", "streaming"} /\ ~Stalled(r)
                THEN [req[r] EXCEPT !.due = @ - 1] ELSE req[r]
  BY DEF Tick
<1>3. /\ req'[r].phase = req[r].phase /\ req'[r].epoch = req[r].epoch
      /\ req'[r].tries = req[r].tries
      /\ req'[r].held = req[r].held /\ req'[r].canceled = req[r].canceled
  BY <1>1, <1>2 DEF CallType
<1>4. Lives(r)
  BY <1>1, <1>3 DEF Lives, Going
<1>5. /\ req[r].phase \in {"waiting", "calling", "streaming"} /\ ~Stalled(r)
      /\ req[r].due > 0
  BY <1>1, <1>4 DEF Lives, Going, Stalled, Holds, Phase, Running, Urgent
<1>6. req'[r].due = req[r].due - 1
  BY <1>1, <1>2, <1>5 DEF CallType, Phase
<1>7. /\ s \in Scopes /\ left[s][r] \in Int /\ left[s][r] > MaxSkew
  BY <1>4, LivesUnexpired
<1>8. left'[s][r] = left[s][r] - 1
  BY <1>7, TimesType DEF Tick, Elapse
<1>9. InTime(req[r], left[s][r])
  BY <1>4 DEF Timely
<1>10. req[r].tries \in 0 .. Retries + 1 /\ AttemptTime * req[r].tries \in Nat
  BY <1>1, AttemptsFit DEF CallType
<1>11. CASE req[r].phase = "calling"
  <2>1. /\ req[r].tries >= 1 /\ req[r].due <= AttemptTime
        /\ left[s][r] >= Lease - MaxWait - AttemptTime * req[r].tries + req[r].due
    BY <1>9, <1>11 DEF InTime
  <2>2. left'[s][r] >= Lease - MaxWait - AttemptTime * req[r].tries + req'[r].due
    BY <1>1, <1>6, <1>7, <1>8, <1>10, <2>1, TimesType
  <2> QED
    BY <1>1, <1>3, <1>6, <1>11, <2>1, <2>2, TimesType DEF InTime
<1>12. CASE req[r].phase \in {"waiting", "streaming"}
  BY <1>1, <1>3, <1>6, <1>7, <1>8, <1>9, <1>12, TimesType DEF InTime
<1> QED
  BY <1>5, <1>11, <1>12

-----------------------------------------------------------------------------
(* The limit on the calls. *)

\* Only an admission brings a call into an epoch, the present one.
Joins ==
  \A r \in Requests : Going(req'[r]) =>
    \/ Going(req[r]) /\ req'[r].epoch = req[r].epoch
    \/ req'[r].epoch = losses /\ losses' = losses

LEMMA ProceedJoins == AllProceed => Joins
BY DEF AllProceed, Proceeds, Joins

LEMMA TimelyStep ==
  ASSUME LeaseIsLong, Inv, Inv', Timely, EpochsPast, [Next]_vars
  PROVE  Timely' /\ Joins /\ (losses' = losses \/ losses' = losses + 1)
<1>1. CallsInv /\ losses \in Nat /\ MaxLosses \in Nat
  BY GatewayAssumption DEF Inv, RestType
<1>2. ASSUME AllProceed, LeftKept, losses' = losses
      PROVE  Timely' /\ Joins
  BY <1>2, KeptInTime, ProceedJoins
<1>3. ASSUME NEW r \in Requests, Admit(r)
      PROVE  Timely' /\ Joins /\ losses' = losses
  <2>1. losses' = losses
    BY <1>3 DEF Admit
  <2>2. Ends(r) \/ Becomes(r, [req[r] EXCEPT !.phase = "admitted", !.epoch = losses])
    BY <1>3 DEF Admit
  <2>3. CASE Ends(r)
    BY <1>1, <1>3, <2>1, <2>3, AdmitInTime, EndsProceeds, ProceedJoins
  <2>4. CASE Becomes(r, [req[r] EXCEPT !.phase = "admitted", !.epoch = losses])
    <3>1. req'[r].epoch = losses /\ \A x \in Requests : x # r => req'[x] = req[x]
      BY <1>1, <2>4 DEF Becomes, CallsInv, CallType
    <3>2. Joins
      BY <2>1, <3>1 DEF Joins
    <3> QED
      BY <1>3, <2>1, <3>2, AdmitInTime
  <2> QED
    BY <2>2, <2>3, <2>4
<1>4. ASSUME NEW r \in Requests,
             Call(r) \/ Generator(r) \/ Guard(r) \/ ClientTakes(r) \/ RenewalFires(r)
      PROVE  Timely' /\ Joins /\ losses' = losses
  <2>1. AllProceed
    BY <1>1, <1>4, CallProceeds, GeneratorProceeds, GuardProceeds, ClientProceeds,
       RenewalFiresProceeds
  <2>2. losses' = losses
    BY <1>4 DEF Call, Generator, Guard, ClientTakes, RenewalFires, EnterGate, LeaveGate, CallAnswers,
       CallRetries, CallFails, GeneratorReads, GeneratorEnds, GuardStarts, GuardReads,
       GuardYields, GuardEnds, GuardLeaves, leaseVars
  <2>3. UNCHANGED left \/ (Ends(r) /\ ReleaseAdmission(r))
    BY <1>4 DEF Call, Generator, Guard, ClientTakes, RenewalFires, EnterGate, LeaveGate, CallAnswers,
       CallRetries, CallFails, GeneratorReads, GeneratorEnds, GuardStarts, GuardReads,
       GuardYields, GuardEnds, GuardLeaves, leaseVars
  <2>4. LeftKept
    BY <1>1, <2>3, StillKeeps, EndsProceeds, ReleaseKeeps
  <2> QED
    BY <1>2, <2>1, <2>2, <2>4
<1>5. ASSUME NEW r \in Requests, RenewalEnds(r)
      PROVE  Timely' /\ Joins /\ losses' = losses
  <2>1. losses' = losses /\ Phase(r) \in Running
    BY <1>5 DEF RenewalEnds, Guarded, Running
  <2>2. /\ req'[r].epoch = req[r].epoch
        /\ Going(req'[r]) => Going(req[r])
        /\ \A x \in Requests : x # r => req'[x] = req[x]
    <3>1. PICK q : /\ Becomes(r, q)
                   /\ q \in {[req[r] EXCEPT !.phase = "streaming", !.renewing = FALSE,
                                            !.due = RenewEvery],
                             [req[r] EXCEPT !.renewing = FALSE, !.canceled = TRUE]}
      BY <1>5 DEF RenewalEnds
    <3>2. req[r] \in CallType /\ q.epoch = req[r].epoch
      BY <1>1, <3>1 DEF CallsInv, CallType
    <3>3. /\ q.held = req[r].held
          /\ \/ q.phase = "streaming" /\ q.canceled = req[r].canceled
             \/ q.phase = req[r].phase /\ q.canceled
      BY <3>1, <3>2 DEF CallType
    <3>4. Going(q) => Going(req[r])
      BY <2>1, <3>3 DEF Going, Phase
    <3> QED
      BY <1>1, <3>1, <3>2, <3>4 DEF Becomes, CallsInv
  <2>3. Joins
    BY <2>1, <2>2 DEF Joins
  <2> QED
    BY <1>5, <2>1, <2>3, RenewalEndsInTime
<1>6. ASSUME NEW r \in Requests, LateRenewal(r)
      PROVE  Timely' /\ Joins /\ losses' = losses
  <2>1. losses' = losses /\ AllProceed /\ LeftKept
    BY <1>6, RenewKeeps, SkewsOfRequests, Unchanging DEF LateRenewal
  <2> QED
    BY <1>2, <2>1
<1>7. ASSUME NEW r \in Requests, Disconnect(r)
      PROVE  Timely' /\ Joins /\ losses' = losses
  <2>1. AllProceed /\ Phase(r)' = "ended"
    BY <1>1, <1>7, EndsProceeds DEF Disconnect
  <2>2. losses' = losses /\ (UNCHANGED left \/ ReleaseAdmission(r))
    BY <1>7 DEF Disconnect, leaseVars
  <2> QED
    BY <1>2, <2>1, <2>2, StillKeeps, ReleaseKeeps
<1>8. ASSUME NEW p \in Replicas, Crash(p)
      PROVE  Timely' /\ Joins /\ losses' = losses
  <2>1. losses' = losses /\ UNCHANGED left
    BY <1>8 DEF Crash
  <2> QED
    BY <1>1, <1>2, <1>8, <2>1, CrashProceeds, StillKeeps
<1>9. CASE RedisLoses
  <2>1. losses' = losses + 1 /\ req' = req
    BY <1>9 DEF RedisLoses
  <2>2. \A r \in Requests : ~Lives(r)'
    <3>1. \A r \in Requests : Going(req[r]) => req[r].epoch \in Nat /\ req[r].epoch <= losses
      BY <1>1 DEF EpochsPast, CallsInv, CallType
    <3> QED
      BY <1>1, <2>1, <3>1 DEF Lives
  <2>3. Timely'
    BY <2>2 DEF Timely
  <2> QED
    BY <2>1, <2>3, Unchanging, ProceedJoins
<1>10. CASE Tick
  <2>1. losses' = losses
    BY <1>10 DEF Tick
  <2>2. \A r \in Requests :
          /\ req'[r].phase = req[r].phase /\ req'[r].epoch = req[r].epoch
          /\ req'[r].held = req[r].held /\ req'[r].canceled = req[r].canceled
    BY <1>1, <1>10 DEF Tick, CallsInv, CallType
  <2>3. Joins
    BY <2>2 DEF Joins, Going
  <2> QED
    BY <1>10, <2>1, <2>3, TickInTime
<1>11. CASE UNCHANGED vars
  BY <1>2, <1>11, Unchanging, StillKeeps DEF vars
<1> QED
  BY <1>3, <1>4, <1>5, <1>6, <1>7, <1>8, <1>9, <1>10, <1>11 DEF Next, Renewal

\* The calls of a set that were admitted in one epoch.
RunningIn(s, e) ==
  {r \in Requests : Going(req[r]) /\ s \in SetsOf(r) /\ req[r].epoch = e}

CountsAll == \A s \in Scopes, e \in 0 .. losses : Cardinality(RunningIn(s, e)) <= Places[s]

LEMMA CountsGoing == RunningWithinLimit <=> CountsAll
<1>1. \A s \in Scopes, e \in 0 .. losses :
        RunningIn(s, e) = {r \in Requests : /\ Phase(r) \in Running /\ ~Stalled(r)
                                            /\ s \in SetsOf(r) /\ req[r].epoch = e}
  BY DEF RunningIn, Going, Stalled, Holds, Phase
<1> QED
  BY <1>1 DEF RunningWithinLimit, CountsAll

\* Those of the present epoch are among the members of the set; those of an
\* earlier one only become fewer.
LEMMA LimitStep ==
  ASSUME LeaseIsLong, Inv, Inv', TimeInv, PlacesBounded', [Next]_vars
  PROVE  TimeInv'
<1>1. Timely' /\ Joins /\ (losses' = losses \/ losses' = losses + 1)
  BY TimelyStep DEF TimeInv
<1>2. losses \in Nat /\ \A r \in Requests : req[r].epoch \in Nat
  BY GatewayAssumption DEF Inv, RestType, CallsInv, CallType
<1>3. EpochsPast'
  BY <1>1, <1>2 DEF TimeInv, EpochsPast, Joins
<1>4. ASSUME NEW s \in Scopes, NEW e \in 0 .. losses'
      PROVE  Cardinality(RunningIn(s, e)') <= Places[s]
  <2>1. Places[s] \in Nat
    BY LeaseAssumption
  <2>2. CASE e = losses'
    <3>1. RunningIn(s, e)' \subseteq Members(s)'
      <4> SUFFICES ASSUME NEW r \in Requests, Lives(r)', s \in SetsOf(r)
                   PROVE  left'[s][r] > 0
        BY <2>2 DEF RunningIn, Members, Lives
      <4>1. InTime(req'[r], left'[s][r]) /\ req'[r] \in CallType /\ left'[s][r] \in Int
        BY <1>1, LeaseAssumption DEF Timely, Inv, CallsInv, PlacesInv, LeaseTypeOK
      <4>2. req'[r].phase \in Running
        BY DEF Lives, Going
      <4> QED
        BY <4>1, <4>2, InTimeLives, TimesType
    <3>2. Members(s)' \in SUBSET Requests /\ RunningIn(s, e)' \in SUBSET Requests
      BY DEF Members, RunningIn
    <3>3. Cardinality(Members(s)') <= Places[s]
      BY DEF PlacesBounded
    <3> QED
      BY <2>1, <3>1, <3>2, <3>3, FewerMembers
  <2>3. CASE e # losses'
    <3>1. e \in 0 .. losses /\ (losses' = losses => e # losses)
      BY <1>1, <1>2, <2>3
    <3>2. RunningIn(s, e)' \subseteq RunningIn(s, e)
      BY <1>1, <3>1 DEF RunningIn, Joins
    <3>3. Cardinality(RunningIn(s, e)) <= Places[s]
      BY <3>1, CountsGoing DEF TimeInv, CountsAll
    <3>4. RunningIn(s, e)' \in SUBSET Requests /\ RunningIn(s, e) \in SUBSET Requests
      BY DEF RunningIn
    <3> QED
      BY <2>1, <3>2, <3>3, <3>4, FewerMembers
  <2> QED
    BY <2>2, <2>3
<1>5. RunningWithinLimit'
  <2>1. CountsAll'
    BY <1>4 DEF CountsAll
  <2>2. (CountsAll => RunningWithinLimit)'
    BY CountsGoing, PTL
  <2> QED
    BY <2>1, <2>2
<1> QED
  BY <1>1, <1>3, <1>5 DEF TimeInv

LEMMA InitTime == Init => TimeInv
<1> SUFFICES ASSUME Init PROVE TimeInv
  OBVIOUS
<1>1. \A r \in Requests : ~Going(req[r])
  BY DEF Init, NewRequest, Going, Running
<1>2. \A s \in Scopes, e \in 0 .. losses : RunningIn(s, e) = {}
  BY <1>1 DEF RunningIn
<1>3. \A s \in Scopes : Places[s] \in Nat
  BY LeaseAssumption
<1>4. \A s \in Scopes, e \in 0 .. losses : Cardinality(RunningIn(s, e)) <= Places[s]
  <2>1. Cardinality({}) = 0
    BY FS_EmptySet
  <2> QED
    BY <1>2, <1>3, <2>1
<1>5. RunningWithinLimit
  BY <1>4, CountsGoing DEF CountsAll
<1> QED
  BY <1>1, <1>5 DEF TimeInv, Timely, EpochsPast, Lives

\* No more calls than the limit are under way in any set, from admission to the
\* last byte: the lease of a call, which _default_lease_seconds derives from the
\* attempts and timeouts, outlives it or is renewed in time, on every clock. A client
\* that takes its chunks slowly, or not at all, does not change that as long as the
\* renewals succeed; a stream whose renewal failed while its guard waited for the
\* client is over the limit until the client moves.
THEOREM LimitHolds ==
  ASSUME LeaseIsLong
  PROVE  Spec => []RunningWithinLimit
<1>1. Inv /\ Inv' /\ TimeInv /\ PlacesBounded' /\ [Next]_vars => TimeInv'
  BY LimitStep
<1>2. TimeInv => RunningWithinLimit
  BY DEF TimeInv
<1> QED
  BY <1>1, <1>2, InitTime, GatewayInvariant, GatewayKeepsPlaces, PTL DEF Spec
=============================================================================
