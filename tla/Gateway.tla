------------------------------ MODULE Gateway ------------------------------
(***************************************************************************)
(* One proxied model call from admission to the end of its answer:         *)
(* _protect_model_proxy and _lease_guarded_body_iterator (api/server.py),  *)
(* the chat handlers (brevitas/proxy.py), the pathfinder gate              *)
(* (token_efficiency_model/lossless/batch_group.py) and the retries of     *)
(* ProviderHTTPClientPool.request (brevitas/provider_reliability.py), on   *)
(* top of the leases of LimitLeases.                                       *)
(*                                                                         *)
(* Time passes only when nothing is due: a provider attempt ends by its    *)
(* timeout, a gate wait by max_wait, a renewal fires on its interval. The  *)
(* guard is held at a chunk until the client has taken it, for as long as  *)
(* the client likes. All requests carry one burst signature; the gate is   *)
(* per replica.                                                            *)
(***************************************************************************)
EXTENDS LimitLeases

CONSTANTS
  Replicas,      \* server processes
  ReplicaOf,     \* the replica a request arrives at
  SkewOf,        \* how far the clock a request's server reads is ahead
  Streams,       \* requests with "stream": true
  Deduplicated,  \* requests the provider deduplicates (capability and key)
  Chunks,        \* chunks of a streamed answer
  Retries,       \* max_retries
  AttemptTime,   \* connect + read + write timeout of one attempt, with the pause
                 \* (retry_max_s) that may come before it
  Margin,        \* the 60 s added for the gateway's own overhead
  MaxWait,       \* max_wait of the gate
  WarmTime,      \* warm_ttl of a released signature
  MaxLosses,     \* bound: how often Redis loses its keys
  None

ASSUME GatewayAssumption ==
  /\ ReplicaOf \in [Requests -> Replicas]
  /\ SkewOf \in [Requests -> 0 .. MaxSkew]
  /\ Streams \subseteq Requests /\ Deduplicated \subseteq Requests
  /\ Chunks \in Nat \ {0} /\ AttemptTime \in Nat \ {0}
  /\ {Retries, Margin, MaxWait, WarmTime, MaxLosses} \subseteq Nat
  /\ None \notin Requests

\* A lease that covers the attempts and nothing else.
DefaultLeaseBare == AttemptTime * (Retries + 1)

\* _default_lease_seconds: the longest legitimate request, plus the margin. A
\* configuration gives Lease this value.
DefaultLease == AttemptTime * (Retries + 1) + Margin
RenewEvery == IF Lease \div 3 > 0 THEN Lease \div 3 ELSE 1

VARIABLES
  req,        \* the requests' local state
  inflight,   \* _inflight: the pathfinder whose event a replica's gate holds
  warm,       \* _warm: time the signature stays warm at a replica
  late,       \* renewals on their way to Redis whose guard has ended
  losses,     \* how often Redis has lost its keys
  metered,    \* history: receipts of a stream
  freed       \* history: requests whose release script has run

gateVars == <<inflight, warm>>
leaseVars == <<left, late, losses, freed>>
vars == <<left, req, inflight, warm, late, losses, metered, freed>>

\* "handed": the handler has returned its response, nobody iterates it yet;
\* "opened": the guard waits for its first renewal; "streaming": it yields chunks.
Running == {"admitted", "waiting", "calling", "handed", "opened", "streaming"}
Guarded == {"opened", "streaming"}

NewRequest == [phase |-> "new", due |-> 0, tries |-> 0, for |-> None,
               inner |-> "off", fed |-> 0, ready |-> FALSE, shown |-> 0, held |-> FALSE,
               canceled |-> FALSE, renewing |-> FALSE, epoch |-> 0, sent |-> 0]

\* A call that has ended leaves no local state behind, except that the generator
\* of a stream may still run.
Over == [NewRequest EXCEPT !.phase = "ended"]
EndOf(q) ==
  IF q.inner \in {"reading", "sending"}
  THEN [Over EXCEPT !.inner = q.inner, !.fed = q.fed, !.canceled = TRUE]
  ELSE Over

TypeOK ==
  /\ LeaseTypeOK
  /\ req \in [Requests ->
       [phase : {"new", "ended"} \cup Running, due : Nat, tries : 0 .. Retries + 1,
        for : Requests \cup {None}, inner : {"off", "reading", "sending", "done"},
        fed : 0 .. Chunks, ready : BOOLEAN, shown : 0 .. Chunks, held : BOOLEAN,
        canceled : BOOLEAN, renewing : BOOLEAN, epoch : 0 .. MaxLosses, sent : Nat]]
  /\ inflight \in [Replicas -> Requests \cup {None}]
  /\ warm \in [Replicas -> 0 .. WarmTime]
  /\ late \subseteq Requests /\ losses \in 0 .. MaxLosses
  /\ metered \in [Streams -> {0, 1}]
  /\ freed \subseteq Requests

Init ==
  /\ LeaseInit
  /\ req = [r \in Requests |-> NewRequest]
  /\ inflight = [p \in Replicas |-> None] /\ warm = [p \in Replicas |-> 0]
  /\ late = {} /\ losses = 0
  /\ metered = [r \in Streams |-> 0]
  /\ freed = {}

Phase(r) == req[r].phase
Becomes(r, q) == req' = [req EXCEPT ![r] = q]
Ends(r) == req' = [req EXCEPT ![r] = EndOf(@)]

-----------------------------------------------------------------------------
(* Admission. *)

\* The rate counters may refuse and Redis may be out of reach: no place is taken.
\* A reply that is lost leaves the place taken and the caller refused (503).
Admit(r) ==
  /\ Phase(r) = "new"
  /\ \/ /\ AcquireGranted(r, SkewOf[r])
        /\ \/ Becomes(r, [req[r] EXCEPT !.phase = "admitted", !.epoch = losses])
           \/ Ends(r)
     \/ /\ \/ AcquireRefused(r, SkewOf[r])
           \/ UNCHANGED left
        /\ Ends(r)
  /\ UNCHANGED <<gateVars, late, losses, freed, metered>>

\* Every way out of the guard sends the release script, whose failure is only
\* logged. A renewal still under way is canceled here, but may reach Redis later.
ReleaseAdmission(r) ==
  /\ \/ ReleaseScript(r) /\ freed' = freed \cup {r}
     \/ UNCHANGED <<left, freed>>
  /\ late' = IF req[r].renewing THEN late \cup {r} ELSE late

-----------------------------------------------------------------------------
(* The pathfinder gate. *)

Calling(r) ==
  [req[r] EXCEPT !.phase = "calling", !.due = AttemptTime, !.tries = 1]

\* A request without a signature and one whose signature is warm pass; the first
\* other one becomes the pathfinder and those after it wait on its event.
EnterGate(r) ==
  LET p == ReplicaOf[r] IN
  /\ Phase(r) = "admitted"
  /\ \/ Becomes(r, Calling(r)) /\ UNCHANGED inflight
     \/ /\ warm[p] = 0 /\ inflight[p] = None
        /\ inflight' = [inflight EXCEPT ![p] = r]
        /\ Becomes(r, Calling(r))
     \/ /\ warm[p] = 0 /\ inflight[p] # None
        /\ Becomes(r, [req[r] EXCEPT !.phase = "waiting", !.due = MaxWait,
                                      !.for = inflight[p]])
        /\ UNCHANGED inflight
  /\ UNCHANGED <<leaseVars, warm, metered>>

\* await ev.wait() without the timeout.
WaitIsOverByEvent(r) == inflight[ReplicaOf[r]] # req[r].for
WaitIsOver(r) == inflight[ReplicaOf[r]] # req[r].for \/ req[r].due = 0

LeaveGate(r) ==
  /\ Phase(r) = "waiting" /\ WaitIsOver(r)
  /\ Becomes(r, Calling(r))
  /\ UNCHANGED <<leaseVars, gateVars, metered>>

IsPathfinder(r) == inflight[ReplicaOf[r]] = r

\* release: wake the siblings and mark the signature warm.
GateReleased(r) ==
  IF IsPathfinder(r)
  THEN /\ inflight' = [inflight EXCEPT ![ReplicaOf[r]] = None]
       /\ warm' = [warm EXCEPT ![ReplicaOf[r]] = WarmTime]
  ELSE UNCHANGED gateVars

-----------------------------------------------------------------------------
(* The provider call. *)

\* Metering is best effort: a receipt may be dropped (_emit_usage).
Meters(r) == \E k \in {0, 1} : metered' = [metered EXCEPT ![r] = k]

\* A plain answer is complete, and metered, before it is handed to the guard as one
\* chunk; a stream is handed over with nothing read from it.
CallAnswers(r) ==
  /\ Phase(r) = "calling"
  /\ IF r \in Streams
     THEN /\ Becomes(r, [req[r] EXCEPT !.phase = "handed", !.sent = @ + 1])
          /\ UNCHANGED <<gateVars, metered>>
     ELSE /\ Becomes(r, [req[r] EXCEPT !.phase = "handed", !.inner = "done", !.ready = TRUE,
                         !.sent = @ + 1])
          /\ GateReleased(r) /\ UNCHANGED metered
  /\ UNCHANGED leaseVars

\* What a failed attempt tells about the provider: a connection that was never
\* made and a 429 mean it did not execute; a timeout, a broken connection and any
\* other transient status leave that open.
MayHaveExecuted == [unsent |-> {0}, limited |-> {0}, broken |-> {0, 1}, transient |-> {0, 1}]

\* A retry policy that takes every transport error for one before the send.
RetryableAlways(r, failure) == TRUE

Retryable(r, failure) == failure \in {"unsent", "limited"} \/ r \in Deduplicated

CallRetries(r) ==
  /\ Phase(r) = "calling" /\ req[r].tries <= Retries
  /\ \E failure \in DOMAIN MayHaveExecuted :
        /\ Retryable(r, failure)
        /\ \E k \in MayHaveExecuted[failure] :
              Becomes(r, [req[r] EXCEPT !.due = AttemptTime, !.tries = @ + 1,
                          !.sent = @ + k])
  /\ UNCHANGED <<leaseVars, gateVars, metered>>

\* The last failure goes to the caller as the provider's answer, which passes the
\* guard, or as an exception, after which the middleware releases. Reading the
\* body of a stream's error answer may itself fail: then nobody releases the gate.
CallFails(r) ==
  /\ Phase(r) = "calling"
  /\ \/ /\ \E k \in {0, 1} :
              Becomes(r, [req[r] EXCEPT !.phase = "handed", !.inner = "done", !.ready = TRUE,
                          !.sent = @ + k])
        /\ GateReleased(r) /\ UNCHANGED leaseVars
     \/ /\ Ends(r)
        /\ GateReleased(r) \/ (r \in Streams /\ UNCHANGED gateVars)
        /\ ReleaseAdmission(r) /\ UNCHANGED losses
  /\ UNCHANGED metered

-----------------------------------------------------------------------------
(* The guarded body. *)

\* The guard re-proves the lease before the first chunk; the handler's generator
\* has begun to read meanwhile.
GuardStarts(r) ==
  /\ Phase(r) = "handed"
  /\ Becomes(r, [req[r] EXCEPT !.phase = "opened", !.renewing = TRUE,
                 !.inner = IF @ = "off" THEN "reading" ELSE @])
  /\ UNCHANGED <<leaseVars, gateVars, metered>>

RenewalFires(r) ==
  /\ Phase(r) = "streaming" /\ req[r].due = 0 /\ ~req[r].renewing /\ ~req[r].canceled
  /\ Becomes(r, [req[r] EXCEPT !.renewing = TRUE])
  /\ UNCHANGED <<leaseVars, gateVars, metered>>

\* A renewal that fails, with or without having reached Redis, is a lost lease.
RenewalEnds(r) ==
  /\ Phase(r) \in Guarded /\ req[r].renewing
  /\ \/ /\ RenewScript(r, SkewOf[r])
        /\ Becomes(r, IF Owned(r, SkewOf[r])
                      THEN [req[r] EXCEPT !.phase = "streaming", !.renewing = FALSE,
                                         !.due = RenewEvery]
                      ELSE [req[r] EXCEPT !.renewing = FALSE, !.canceled = TRUE])
     \/ /\ RenewScript(r, SkewOf[r]) \/ UNCHANGED left
        /\ Becomes(r, [req[r] EXCEPT !.renewing = FALSE, !.canceled = TRUE])
  /\ UNCHANGED <<gateVars, late, losses, freed, metered>>

LateRenewal(r) ==
  /\ r \in late
  /\ late' = late \ {r}
  /\ RenewScript(r, SkewOf[r]) \/ UNCHANGED left
  /\ UNCHANGED <<req, gateVars, losses, freed, metered>>

\* The generator ends; it is the last of a call that the guard has left.
GeneratorDone(r) ==
  req' = [req EXCEPT ![r] = IF Phase(r) = "ended" THEN Over ELSE [@ EXCEPT !.inner = "done"]]

\* stream_gen: the first chunk read releases the gate; a canceled admission ends
\* the loop with the next chunk.
GeneratorReads(r) ==
  /\ req[r].inner = "reading" /\ req[r].fed < Chunks
  /\ IF req[r].canceled
     THEN GeneratorDone(r)
     ELSE Becomes(r, [req[r] EXCEPT !.inner = "sending", !.fed = @ + 1])
  /\ GateReleased(r)
  /\ UNCHANGED <<leaseVars, metered>>

\* completed = True
CompletedAnyway(r) == TRUE
Completed(r) == ~req[r].canceled

\* The loop ends with the provider's stream, which alone is metered, or it breaks.
GeneratorEnds(r) ==
  /\ req[r].inner = "reading"
  /\ GeneratorDone(r)
  /\ \/ req[r].fed = Chunks /\ Completed(r) /\ Meters(r)
     \/ UNCHANGED metered
  /\ GateReleased(r)
  /\ UNCHANGED leaseVars

\* The guard waits in `yield chunk` until the client has taken the chunk, and does
\* not know that the lease was lost meanwhile.
Holds(r) == Phase(r) = "streaming" /\ req[r].held
Stalled(r) == Holds(r) /\ req[r].canceled

\* A chunk goes from the generator to the guard's pending read, or to nobody.
GuardReads(r) ==
  /\ req[r].inner = "sending"
  /\ \/ Phase(r) = "streaming" /\ ~req[r].ready /\ ~req[r].held /\ ~req[r].canceled
        /\ Becomes(r, [req[r] EXCEPT !.inner = "reading", !.ready = TRUE])
     \/ Phase(r) = "ended" /\ Becomes(r, [req[r] EXCEPT !.inner = "reading"])
  /\ UNCHANGED <<leaseVars, gateVars, metered>>

\* The renewal can lose the lease between the read and this step.
ExposesRead(r) == Phase(r) = "streaming" /\ req[r].ready
Exposes(r) == Phase(r) = "streaming" /\ req[r].ready /\ ~req[r].canceled

\* The chunk is the client's to take: the guard waits for its send to return.
GuardYields(r) ==
  /\ Exposes(r)
  /\ Becomes(r, [req[r] EXCEPT !.ready = FALSE, !.held = TRUE, !.shown = @ + 1])
  /\ UNCHANGED <<leaseVars, gateVars, metered>>

GuardLeaves(r) ==
  /\ Ends(r)
  /\ ReleaseAdmission(r)
  /\ UNCHANGED <<gateVars, losses, metered>>

\* The guard ends with the body or with the lease.
GuardEnds(r) ==
  /\ Phase(r) \in Guarded /\ ~req[r].held
  /\ \/ req[r].canceled
     \/ Phase(r) = "streaming" /\ req[r].inner = "done" /\ ~req[r].ready
  /\ GuardLeaves(r)

-----------------------------------------------------------------------------
(* The client and the replicas. *)

\* The client has taken the chunk: the guard reads on, or finds its lease lost.
ClientTakes(r) ==
  \/ /\ Holds(r) /\ ~req[r].canceled
     /\ Becomes(r, [req[r] EXCEPT !.held = FALSE])
     /\ UNCHANGED <<leaseVars, gateVars, metered>>
  \/ Stalled(r) /\ GuardLeaves(r)

\* The client goes away. Before the body is iterated the place is nobody's to
\* release, and a stream that was handed over is never read; afterwards the
\* guard's own release may be cut short.
Disconnect(r) ==
  /\ Phase(r) \in Running
  /\ Ends(r)
  /\ IF Phase(r) = "calling" THEN GateReleased(r) ELSE UNCHANGED gateVars
  /\ IF Phase(r) \in Guarded
     THEN ReleaseAdmission(r) /\ UNCHANGED losses
     ELSE UNCHANGED leaseVars
  /\ UNCHANGED metered

\* A replica is killed: its calls, its gate and its guards are gone.
Crash(p) ==
  LET here == {r \in Requests : ReplicaOf[r] = p /\ Phase(r) \in Running} IN
  /\ here # {}
  /\ req' = [r \in Requests |->
               IF ReplicaOf[r] = p /\ Phase(r) # "new"
               THEN Over
               ELSE req[r]]
  /\ late' = late \cup {r \in here : req[r].renewing}
  /\ inflight' = [inflight EXCEPT ![p] = None]
  /\ warm' = [warm EXCEPT ![p] = 0]
  /\ UNCHANGED <<left, losses, freed, metered>>

RedisLoses ==
  /\ losses < MaxLosses /\ losses' = losses + 1
  /\ Lose
  /\ UNCHANGED <<req, gateVars, late, freed, metered>>

\* Work that takes no time of its own is done before time passes. A stalled stream
\* has none: it does not renew, and its guard does not run.
Urgent(r) ==
  \/ Phase(r) \in {"admitted", "handed", "opened"}
  \/ Phase(r) \in {"waiting", "calling"} /\ req[r].due = 0
  \/ /\ Phase(r) = "streaming" /\ ~Stalled(r)
     /\ req[r].due = 0 \/ req[r].renewing \/ req[r].canceled

Tick ==
  /\ \A r \in Requests : ~Urgent(r)
  /\ Elapse
  /\ req' = [r \in Requests |->
               IF Phase(r) \in {"waiting", "calling", "streaming"} /\ ~Stalled(r)
               THEN [req[r] EXCEPT !.due = @ - 1] ELSE req[r]]
  /\ warm' = [p \in Replicas |-> IF warm[p] > 0 THEN warm[p] - 1 ELSE 0]
  /\ UNCHANGED <<inflight, late, losses, freed, metered>>

Call(r) == EnterGate(r) \/ LeaveGate(r) \/ CallAnswers(r) \/ CallRetries(r) \/ CallFails(r)
Generator(r) == GeneratorReads(r) \/ GeneratorEnds(r)
Renewal(r) == RenewalFires(r) \/ RenewalEnds(r)
Guard(r) == GuardStarts(r) \/ GuardReads(r) \/ GuardYields(r) \/ GuardEnds(r)

Next ==
  \/ \E r \in Requests :
        Admit(r) \/ Call(r) \/ Generator(r) \/ Renewal(r) \/ Guard(r)
        \/ LateRenewal(r) \/ ClientTakes(r) \/ Disconnect(r)
  \/ \E p \in Replicas : Crash(p)
  \/ RedisLoses \/ Tick

Spec == Init /\ [][Next]_vars

\* Everything the server does for a request goes on (calls end by their timeouts,
\* the event loop runs every task) and time passes; what clients do, the taking of a
\* chunk included, crashes, losses and renewals that come late are not owed.
Fairness ==
  /\ \A r \in Requests :
        WF_vars(Call(r)) /\ WF_vars(Generator(r)) /\ WF_vars(Renewal(r)) /\ WF_vars(Guard(r))
  /\ WF_vars(Tick)

FairSpec == Spec /\ Fairness

-----------------------------------------------------------------------------
(* Properties. *)

\* No more calls than the limit are under way in any set, from admission to the
\* last byte: a lease outlives every call that cannot renew it (retries, timeouts,
\* the wait at the gate and another replica's faster clock included) and a stream
\* renews in time, while it waits for its client too. Streams that lost their lease
\* while they waited go on until the client moves, and count apart, as calls
\* admitted before Redis lost its keys do.
RunningWithinLimit ==
  \A s \in Scopes, e \in 0 .. losses :
     Cardinality({r \in Requests : /\ Phase(r) \in Running /\ ~Stalled(r)
                                   /\ s \in SetsOf(r) /\ req[r].epoch = e}) <= Places[s]

\* A place that was released stays free: a renewal canceled with its guard that
\* reaches Redis after the release does not take it again.
ReleasedIsGone == \A r \in freed : ~Present(r)

\* Once a renewal has reported the lease lost, or failed, the client is shown no
\* further chunk, not even one the guard had already read
\* (_lease_guarded_body_iterator: "no later chunk is exposed").
NothingAfterLoss ==
  [][\A r \in Requests : req[r].canceled => req'[r].shown <= req[r].shown]_vars

\* The provider executes a call at most once, whatever fails and is retried,
\* unless the provider itself deduplicates it.
ExecutedOnce == \A r \in Requests \ Deduplicated : req[r].sent <= 1

\* A stream is metered only after its last chunk was read from the provider with
\* the lease held: not when the lease was lost, the client left or the provider
\* broke off before.
CutIsNotMetered ==
  [][\A r \in Streams : metered'[r] > metered[r]
        => req[r].fed = Chunks /\ Phase(r) = "streaming" /\ ~req[r].canceled]_vars

\* Every place comes back and every call ends, after crashes, lost replies, lost
\* releases and a pathfinder that never wakes its siblings. Only a client that keeps
\* a stream open and takes no more of it keeps the call, and while the lease is
\* renewed its place, for ever.
PlacesComeBack ==
  \A r \in Requests :
     \/ <>[](~Present(r) /\ (Phase(r) \notin Running \/ Stalled(r)))
     \/ <>[](Holds(r) /\ ~req[r].canceled)

\* The scripts are driven only in the ways LimitLeases admits.
ImplementsLeases == LeaseSpec
=============================================================================
