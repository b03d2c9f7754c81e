------------------------------- MODULE JobQueue -------------------------------
(***************************************************************************)
(* The durable job queue: api/jobs.py (JobService and its store), the      *)
(* claim and outbound-marker functions of the database, and the worker's   *)
(* _process_job.  Slots (worker consumers) claim a row under a lease, run  *)
(* it, and write back through a fence on owner, status and lease; clients  *)
(* submit and cancel by read-then-write.  A row's three deadlines          *)
(* (lease_expires_at, available_at, expires_at) are kept as the booleans   *)
(* "still in the future", switched by the passing of time.                 *)
(***************************************************************************)
EXTENDS Naturals, FiniteSets

CONSTANTS
  Jobs,            \* row ids: uuid4 values, each used for one row only
  Keys,            \* idempotency keys of one organization's customers
  Slots,           \* consumers of all of the worker processes
  Owners,          \* lease_owner values
  SlotId,          \* [Slots -> Owners]: f"{worker_id}_{slot}"
  Clients,         \* concurrent HTTP requests of the organization
  NoOwner,         \* NULL lease_owner
  MaxAttempts,     \* max_attempts of the rows
  MaxActive,       \* job_max_active_per_org
  RetentionFence   \* TRUE: claim_ai_job of 202607280020; FALSE: the SQLite and
                   \* in-memory stores, which retire expired rows only if queued

ASSUME JobQueueAssumption ==
  /\ MaxAttempts \in Nat \ {0}
  /\ MaxActive \in Nat \ {0}
  /\ SlotId \in [Slots -> Owners]
  /\ NoOwner \notin Owners
  /\ RetentionFence \in BOOLEAN

VARIABLES
  row,       \* row[j]: the ai_jobs row j
  slot,      \* slot[w]: the locals of process_one running in slot w
  client,    \* client[c]: the locals of a submit or cancel request
  accepted   \* history: how many requests of row j the provider accepted

vars == <<row, slot, client, accepted>>

Held     == {"leased", "running"}
Active   == {"queued"} \cup Held
Terminal == {"succeeded", "failed", "cancelled", "dead"}
Statuses == {"absent", "purged"} \cup Active \cup Terminal
Codes    == {"", "provider_outcome_ambiguous", "expired", "lease_expired",
             "ciphertext_unreadable", "error"}
Kinds    == {"chat", "compress"}

Row == [status : Statuses, key : Keys, op : Kinds, attempts : 0..MaxAttempts,
        owner : Owners \cup {NoOwner},
        live : BOOLEAN,      \* lease_expires_at > now()
        due : BOOLEAN,       \* available_at <= now()
        retained : BOOLEAN,  \* expires_at > now()
        cancel : BOOLEAN,    \* cancel_requested
        marker : 0..MaxAttempts,  \* provider_outbound_attempt, 0 for NULL
        code : Codes]

\* What the slot is about to write when it settles the row.
Verdicts == {"none", "ok", "cancelled", "unreadable",
             "retryable", "permanent", "notAccepted", "rejected"}

\* "decrypt", "work": inside process_one, before a billable call; "outbound":
\* the marker is persisted, the request is not sent; "calling": it is sent;
\* "produced": a result is in hand; "confirm": before _confirm_lease; "settle":
\* between the renewal and the fenced write.
Places == {"idle", "claimed", "decrypt", "work", "outbound", "calling",
           "produced", "confirm", "settle"}

Slot == [at : Places, job : Jobs, attempt : 0..MaxAttempts,
         marked : BOOLEAN,    \* row["provider_outbound_started_at"] of the local copy
         taken : BOOLEAN,     \* the provider accepted the request now in flight
         verdict : Verdicts]

Client == [at : {"idle", "creating", "cancelling"}, key : Keys, job : Jobs,
           seen : Active]

TypeOK == /\ row \in [Jobs -> Row]
          /\ slot \in [Slots -> Slot]
          /\ client \in [Clients -> Client]
          /\ accepted \in [Jobs -> Nat]

Init ==
  /\ \E k \in Keys :
       row = [j \in Jobs |->
                [status |-> "absent", key |-> k, op |-> "chat", attempts |-> 0,
                 owner |-> NoOwner, live |-> FALSE, due |-> FALSE,
                 retained |-> FALSE, cancel |-> FALSE, marker |-> 0, code |-> ""]]
  /\ \E j \in Jobs :
       slot = [w \in Slots |->
                 [at |-> "idle", job |-> j, attempt |-> 0, marked |-> FALSE,
                  taken |-> FALSE, verdict |-> "none"]]
  /\ \E j \in Jobs, k \in Keys :
       client = [c \in Clients |->
                   [at |-> "idle", key |-> k, job |-> j, seen |-> "queued"]]
  /\ accepted = [j \in Jobs |-> 0]

-----------------------------------------------------------------------------
(* The store. *)

Stored(r)    == r.status \in Active \cup Terminal
Lapsed(r)    == r.status \in Held /\ ~r.live
Abandoned(r) == r.status = "queued" \/ Lapsed(r)

\* status, completed_at, lease_owner = NULL, lease_expires_at = NULL.
Ended(r, status, code) ==
  [r EXCEPT !.status = status, !.owner = NoOwner, !.live = FALSE, !.code = code]

\* The predicate of renew, update, quarantine_ciphertext and the marker.
Owns(w, r) == r.owner = SlotId[w] /\ r.status \in Held /\ r.live

\* Whether expires_at is looked at: before 202607280020, for queued rows only.
RetentionAppliesToQueued(r) == r.status = "queued"
RetentionApplies(r) == RetentionFence \/ r.status = "queued"

\* The three sweeps claim runs before it selects a row, in the database's order.
Ambiguous(r) == r.op = "chat" /\ r.marker # 0 /\ Abandoned(r)
Expired(r)   == ~r.retained /\ Abandoned(r) /\ RetentionApplies(r)
Exhausted(r) == Lapsed(r) /\ r.attempts >= MaxAttempts

\* Defect: retention retires a row before its unknown provider outcome is seen.
SweptExpiredFirst(r) ==
  IF Expired(r) THEN Ended(r, "dead", "expired")
  ELSE IF Ambiguous(r) THEN Ended(r, "dead", "provider_outcome_ambiguous")
  ELSE IF Exhausted(r) THEN Ended(r, "dead", "lease_expired")
  ELSE r

Swept(r) ==
  IF Ambiguous(r) THEN Ended(r, "dead", "provider_outcome_ambiguous")
  ELSE IF Expired(r) THEN Ended(r, "dead", "expired")
  ELSE IF Exhausted(r) THEN Ended(r, "dead", "lease_expired")
  ELSE r

Claimable(r) ==
  /\ r.attempts < MaxAttempts
  /\ ~r.cancel
  /\ r.marker = 0
  /\ (r.status = "queued" /\ r.due) \/ Lapsed(r)
  /\ RetentionApplies(r) => r.retained

\* Defect: the attempt is not counted.
LeasedUncounted(r, w) == [r EXCEPT !.status = "leased", !.owner = SlotId[w],
                                   !.live = TRUE]

Leased(r, w) == [r EXCEPT !.status = "leased", !.attempts = @ + 1,
                          !.owner = SlotId[w], !.live = TRUE]

\* purge_expired_ai_jobs, run by every worker's maintenance loop.
Purge ==
  /\ row' = [j \in Jobs |->
               IF row[j].status \in Terminal /\ ~row[j].retained
               THEN [row[j] EXCEPT !.status = "purged"] ELSE row[j]]
  /\ UNCHANGED <<slot, client, accepted>>

\* A read of a succeeded row whose result ciphertext cannot be opened.
QuarantineResult(j) ==
  /\ row[j].status = "succeeded"
  /\ row' = [row EXCEPT ![j].status = "dead", ![j].code = "ciphertext_unreadable"]
  /\ UNCHANGED <<slot, client, accepted>>

\* Time: a lease runs out, a back-off ends, a retention window closes.
LeaseEnds(j) ==
  /\ row[j].status \in Held /\ row[j].live
  /\ row' = [row EXCEPT ![j].live = FALSE]
  /\ UNCHANGED <<slot, client, accepted>>

BackoffEnds(j) ==
  /\ row[j].status = "queued" /\ ~row[j].due
  /\ row' = [row EXCEPT ![j].due = TRUE]
  /\ UNCHANGED <<slot, client, accepted>>

RetentionEnds(j) ==
  /\ Stored(row[j]) /\ row[j].retained
  /\ row' = [row EXCEPT ![j].retained = FALSE]
  /\ UNCHANGED <<slot, client, accepted>>

-----------------------------------------------------------------------------
(* JobService.submit and JobService.cancel: a read, then a write. *)

ActiveJobs == {j \in Jobs : row[j].status \in Active}
Taken(k)   == \E j \in Jobs : Stored(row[j]) /\ row[j].key = k

\* find_by_idempotency, then count_active: past both, the request will create.
SubmitCheck(c, k) ==
  /\ client[c].at = "idle"
  /\ ~Taken(k)
  /\ Cardinality(ActiveJobs) < MaxActive
  /\ client' = [client EXCEPT ![c].at = "creating", ![c].key = k]
  /\ UNCHANGED <<row, slot, accepted>>

\* create: the unique key makes the second of two racing submits return the
\* first one's row.
SubmitCreate(c) ==
  /\ client[c].at = "creating"
  /\ client' = [client EXCEPT ![c].at = "idle"]
  /\ \/ Taken(client[c].key) /\ UNCHANGED row
     \/ /\ ~Taken(client[c].key)
        /\ \E j \in Jobs, o \in Kinds :
             /\ row[j].status = "absent"
             /\ row' = [row EXCEPT ![j] =
                          [@ EXCEPT !.status = "queued", !.key = client[c].key,
                                    !.op = o, !.due = TRUE, !.retained = TRUE]]
     \/ UNCHANGED row   \* KMS or insert failed: the client sees an error
  /\ UNCHANGED <<slot, accepted>>

CancelRead(c, j) ==
  /\ client[c].at = "idle"
  /\ row[j].status \in Active
  /\ client' = [client EXCEPT ![c].at = "cancelling", ![c].job = j,
                              ![c].seen = row[j].status]
  /\ UNCHANGED <<row, slot, accepted>>

\* Defects: the write does not compare with the state that was read; it leaves
\* the lease on the row; it ends a running row.
CancelWriteBlind(c) ==
  LET j == client[c].job IN
  /\ client[c].at = "cancelling"
  /\ client' = [client EXCEPT ![c].at = "idle"]
  /\ row' = IF client[c].seen \in {"queued", "leased"}
            THEN [row EXCEPT ![j] = [Ended(@, "cancelled", @.code) EXCEPT !.cancel = TRUE]]
            ELSE [row EXCEPT ![j].cancel = TRUE]
  /\ UNCHANGED <<slot, accepted>>

CancelWriteKeepsLease(c) ==
  LET j == client[c].job IN
  /\ client[c].at = "cancelling"
  /\ client' = [client EXCEPT ![c].at = "idle"]
  /\ row' = IF row[j].status \in {"queued", "leased"}
            THEN [row EXCEPT ![j].status = "cancelled", ![j].cancel = TRUE]
            ELSE row
  /\ UNCHANGED <<slot, accepted>>

CancelWriteRunning(c) ==
  LET j == client[c].job IN
  /\ client[c].at = "cancelling"
  /\ client' = [client EXCEPT ![c].at = "idle"]
  /\ row' = IF row[j].status \in Active
            THEN [row EXCEPT ![j] = [Ended(@, "cancelled", @.code) EXCEPT !.cancel = TRUE]]
            ELSE row
  /\ UNCHANGED <<slot, accepted>>

CancelWrite(c) ==
  LET j == client[c].job IN
  /\ client[c].at = "cancelling"
  /\ client' = [client EXCEPT ![c].at = "idle"]
  /\ row' =
       IF client[c].seen \in {"queued", "leased"}
       THEN IF row[j].status \in {"queued", "leased"}
            THEN [row EXCEPT ![j] = [Ended(@, "cancelled", @.code) EXCEPT !.cancel = TRUE]]
            ELSE row
       ELSE IF row[j].status \in Active
            THEN [row EXCEPT ![j].cancel = TRUE]
            ELSE row
  /\ UNCHANGED <<slot, accepted>>

-----------------------------------------------------------------------------
(* JobService.process_one in slot w. *)

Goto(w, place) == slot' = [slot EXCEPT ![w].at = place]
Leave(w)       == slot' = [slot EXCEPT ![w] =
                             [@ EXCEPT !.at = "idle", !.attempt = 0, !.marked = FALSE,
                                       !.taken = FALSE, !.verdict = "none"]]
Decide(w, v)   == slot' = [slot EXCEPT ![w].at = "confirm", ![w].verdict = v]

\* The sweeps always happen; a row is leased if one can be.  The reply may be
\* lost: the row is then leased by a slot that does not know it.
Claim(w) ==
  LET swept == [j \in Jobs |-> Swept(row[j])] IN
  /\ slot[w].at = "idle"
  /\ \/ /\ \A j \in Jobs : ~Claimable(swept[j])
        /\ row' = swept
        /\ UNCHANGED slot
     \/ \E j \in Jobs :
          /\ Claimable(swept[j])
          /\ row' = [swept EXCEPT ![j] = Leased(@, w)]
          /\ \/ slot' = [slot EXCEPT ![w] =
                  [at |-> "claimed", job |-> j, attempt |-> row[j].attempts + 1,
                   marked |-> FALSE, taken |-> FALSE, verdict |-> "none"]]
             \/ UNCHANGED slot
  /\ UNCHANGED <<client, accepted>>

\* _owned_update(status = running); JobLeaseLost ends process_one.
Start(w) ==
  LET j == slot[w].job IN
  /\ slot[w].at = "claimed"
  /\ IF Owns(w, row[j])
     THEN row' = [row EXCEPT ![j].status = "running"] /\ Goto(w, "decrypt")
     ELSE UNCHANGED row /\ Leave(w)
  /\ UNCHANGED <<client, accepted>>

\* Decryption and, when the data key rotated, the fenced ciphertext rewrite.
Decrypt(w) ==
  /\ slot[w].at = "decrypt"
  /\ \/ Goto(w, "work")
     \/ Decide(w, "unreadable")
     \/ Decide(w, "retryable")          \* KMS outage
  /\ UNCHANGED <<row, client, accepted>>

\* Before the billable boundary _process_job can find the key revoked or the
\* provider unconfigured (permanent) or no capacity (retryable).
WorkFails(w) ==
  /\ slot[w].at = "work"
  /\ Decide(w, "permanent") \/ Decide(w, "retryable")
  /\ UNCHANGED <<row, client, accepted>>

Compress(w) ==
  /\ slot[w].at = "work"
  /\ row[slot[w].job].op = "compress"
  /\ Goto(w, "produced")
  /\ UNCHANGED <<row, client, accepted>>

CanMark(w, r) == /\ Owns(w, r) /\ r.status = "running" /\ r.op = "chat"
                 /\ ~r.cancel /\ r.marker = 0

\* mark_provider_outbound_started.  The slot goes on only when the stored row
\* came back with its own attempt number; a rejected marker ends process_one
\* (JobLeaseLost), a lost reply is an ordinary retryable error.
Mark(w) ==
  LET j == slot[w].job IN
  /\ slot[w].at = "work"
  /\ row[j].op = "chat"
  /\ \/ /\ CanMark(w, row[j])
        /\ row' = [row EXCEPT ![j].marker = row[j].attempts]
        /\ \/ /\ row[j].attempts = slot[w].attempt
              /\ slot' = [slot EXCEPT ![w].at = "outbound", ![w].marked = TRUE]
           \/ row[j].attempts # slot[w].attempt /\ Leave(w)
           \/ Decide(w, "retryable")
     \/ /\ ~CanMark(w, row[j])
        /\ Leave(w)
        /\ UNCHANGED row
  /\ UNCHANGED <<client, accepted>>

\* _run_configured_model sends the request from a thread: no fence is read
\* between the marker and the request.
Post(w) ==
  /\ slot[w].at = "outbound"
  /\ \E taken \in BOOLEAN :
       /\ slot' = [slot EXCEPT ![w].at = "calling", ![w].taken = taken]
       /\ accepted' = IF taken THEN [accepted EXCEPT ![slot[w].job] = @ + 1]
                      ELSE accepted
  /\ UNCHANGED <<row, client>>

\* An answer; an outcome nobody can tell (time-out, 5xx, unparsable), whether or
\* not the request was taken; or a proof that it was not accepted.
Answer(w) ==
  /\ slot[w].at = "calling"
  /\ \/ slot[w].taken /\ Goto(w, "produced")
     \/ Decide(w, "retryable") \/ Decide(w, "permanent")
     \/ ~slot[w].taken /\ (Decide(w, "notAccepted") \/ Decide(w, "rejected"))
  /\ UNCHANGED <<row, client, accepted>>

\* The row is read again; cancel_requested turns the result into a cancellation.
\* Encrypting the result can fail.
Produced(w) ==
  /\ slot[w].at = "produced"
  /\ IF row[slot[w].job].cancel THEN Decide(w, "cancelled")
     ELSE Decide(w, "ok") \/ Decide(w, "retryable")
  /\ UNCHANGED <<row, client, accepted>>

Confirm(w) ==
  /\ slot[w].at = "confirm"
  /\ IF Owns(w, row[slot[w].job]) THEN Goto(w, "settle") ELSE Leave(w)
  /\ UNCHANGED <<row, client, accepted>>

NotAcceptedVerdicts == {"notAccepted", "rejected"}

\* Defects: an error that may be retried is retried although the provider may
\* have taken the request; a permanent error after the marker is a failure.
ErrorSettledResends(w, r) ==
  IF slot[w].verdict \in {"retryable", "notAccepted"} /\ slot[w].attempt < MaxAttempts
  THEN [Ended(r, "queued", "error") EXCEPT !.due = FALSE, !.marker = 0]
  ELSE Ended(r, "dead", "error")

ErrorSettledForgetsMarker(w, r) ==
  IF slot[w].verdict = "permanent" THEN Ended(r, "failed", "error")
  ELSE Ended(r, "dead", "error")

\* The values process_one writes for a verdict: the branches of its two handlers.
ErrorSettled(w, r) ==
  LET refused   == slot[w].verdict \in NotAcceptedVerdicts
      unknown   == slot[w].marked /\ ~refused
      retryable == slot[w].verdict \in {"retryable", "notAccepted"}
      cleared   == [r EXCEPT !.marker = IF slot[w].marked THEN 0 ELSE @]
  IN IF unknown THEN Ended(r, "dead", "provider_outcome_ambiguous")
     ELSE IF ~retryable THEN Ended(cleared, "failed", "error")
     ELSE IF slot[w].attempt < MaxAttempts
          THEN [Ended(cleared, "queued", "error") EXCEPT !.due = FALSE]
          ELSE Ended(cleared, "dead", "error")

Settled(w, r) ==
  CASE slot[w].verdict = "ok"         -> Ended(r, "succeeded", "")
    [] slot[w].verdict = "cancelled"  -> Ended(r, "cancelled", "")
    [] slot[w].verdict = "unreadable" -> Ended(r, "dead", "ciphertext_unreadable")
    [] OTHER                          -> ErrorSettled(w, r)

\* The fenced write: a stale slot changes nothing.
Settle(w) ==
  LET j == slot[w].job IN
  /\ slot[w].at = "settle"
  /\ row' = IF Owns(w, row[j]) THEN [row EXCEPT ![j] = Settled(w, @)] ELSE row
  /\ Leave(w)
  /\ UNCHANGED <<client, accepted>>

\* The process dies, the drain deadline passes, a store call raises outside the
\* handlers, or the heartbeat stops and cancels the processor: the row stays
\* leased.  A request already handed to its thread is not retracted.
Abandon(w) ==
  /\ slot[w].at # "idle"
  /\ Leave(w)
  /\ UNCHANGED <<row, client, accepted>>

-----------------------------------------------------------------------------

Progress(w) == \/ Start(w) \/ Decrypt(w) \/ WorkFails(w) \/ Compress(w)
               \/ Mark(w) \/ Post(w) \/ Answer(w) \/ Produced(w)
               \/ Confirm(w) \/ Settle(w)

Next == \/ \E w \in Slots : Claim(w) \/ Progress(w) \/ Abandon(w)
        \/ \E c \in Clients : \/ \E k \in Keys : SubmitCheck(c, k)
                              \/ \E j \in Jobs : CancelRead(c, j)
                              \/ SubmitCreate(c) \/ CancelWrite(c)
        \/ \E j \in Jobs : \/ LeaseEnds(j) \/ BackoffEnds(j)
                           \/ RetentionEnds(j) \/ QuarantineResult(j)
        \/ Purge

Spec == Init /\ [][Next]_vars

\* A row no slot is working on: nobody renews its lease any more.
Untended(j) == \A w \in Slots : slot[w].at = "idle" \/ slot[w].job # j

\* Slots keep running and claiming, an unrenewed lease runs out, time passes.
Fairness == /\ \A w \in Slots : WF_vars(Progress(w)) /\ WF_vars(Claim(w))
            /\ \A j \in Jobs : /\ WF_vars(Untended(j) /\ LeaseEnds(j))
                               /\ WF_vars(BackoffEnds(j))
                               /\ WF_vars(RetentionEnds(j))

FairSpec == Spec /\ Fairness

-----------------------------------------------------------------------------
(* Properties. *)

\* The provider accepts at most one request of a job, whatever crashes, lost
\* replies, lease losses and reclaims happen: the outbound marker of
\* mark_provider_outbound_started is never passed twice ("a reclaimed marked
\* job is never sent automatically", api/worker.py).
AtMostOneAccepted == \A j \in Jobs : accepted[j] <= 1

\* Why: a job whose marker was passed stays sealed against another one, only the
\* slot that passed it holds the right to send, and that slot clears the marker
\* only while nothing was accepted (process_one's provider_outbound_not_accepted).
Sealed(r) == r.marker # 0 \/ r.status \in Terminal \cup {"purged"}
Unsent(w) == /\ slot[w].marked
             /\ \/ slot[w].at = "outbound"
                \/ slot[w].at = "calling" /\ ~slot[w].taken
                \/ /\ slot[w].at \in {"confirm", "settle"}
                   /\ slot[w].verdict \in NotAcceptedVerdicts

BillingFence ==
  /\ \A j \in Jobs : /\ row[j].status = "absent" => row[j].marker = 0
                     /\ row[j].status \in Held => row[j].attempts # 0
  /\ \A j \in Jobs : accepted[j] # 0 => accepted[j] = 1 /\ Sealed(row[j])
  /\ \A w \in Slots : slot[w].marked => Sealed(row[slot[w].job])
  /\ \A w, x \in Slots : w # x /\ slot[w].marked /\ slot[x].marked
                            => slot[w].job # slot[x].job
  /\ \A w \in Slots : slot[w].at \in {"outbound", "calling"} => slot[w].marked
  /\ \A w \in Slots : Unsent(w) => accepted[slot[w].job] = 0

\* A billed job is never reported as an ordinary failure or expiry: it ends
\* succeeded, cancelled after its result, unreadable, or marked ambiguous. The
\* order of the sweeps of claim_ai_job is what keeps the label.
BilledOutcome ==
  \A j \in Jobs :
    accepted[j] > 0 /\ row[j].status \in Terminal =>
      \/ row[j].status \in {"succeeded", "cancelled"}
      \/ row[j].code \in {"provider_outcome_ambiguous", "ciphertext_unreadable"}

\* Owner, status and lease agree: exactly the leased and running rows have an
\* owner, and "a terminal row must never keep a live lease" (api/jobs.py, cancel).
LeaseShape ==
  \A j \in Jobs : /\ row[j].owner # NoOwner <=> row[j].status \in Held
                  /\ row[j].live => row[j].status \in Held

\* The fence compares the owner, not the attempt. A slot that passes it is
\* nevertheless working on the current attempt: no stale attempt can write.
OwnedMeansCurrent ==
  \A w \in Slots :
    slot[w].at # "idle" /\ Owns(w, row[slot[w].job])
      => slot[w].attempt = row[slot[w].job].attempts

\* A final outcome is never overwritten (a stale worker, a late cancel, a
\* second sweep): it can only be purged, or buried when it cannot be decrypted.
TerminalIsFinal ==
  [][\A j \in Jobs : row[j].status \in Terminal =>
       \/ row'[j].status \in {row[j].status, "purged"}
       \/ row[j].status = "succeeded" /\ row'[j].status = "dead"]_vars

\* Once the tenant reads "cancelled", no provider request of the job is accepted.
CancelledNeverBilled ==
  [][\A j \in Jobs : row[j].status = "cancelled" => accepted'[j] = accepted[j]]_vars

\* "Expired jobs must not be reclaimed and re-executed past their retention
\* window" (202607280020_expired_job_reclaim_fence.sql:1).
ExpiredNeverRuns ==
  [][\A j \in Jobs : ~row[j].retained => row'[j].attempts = row[j].attempts]_vars

\* Every accepted job ends, also one whose worker died with a cancellation
\* pending; an unfinished job holds a place of the organization's quota.
EventuallyEnds == \A j \in Jobs : row[j].status \in Active ~> row[j].status \notin Active

\* The queue is an implementation of the tenant-visible life cycle.
Lifecycle == INSTANCE JobLifecycle WITH
  phase  <- [j \in Jobs |-> IF row[j].status \in Active THEN "open" ELSE row[j].status],
  kind   <- [j \in Jobs |-> row[j].op],
  billed <- accepted
ImplementsLifecycle == Lifecycle!Spec
=============================================================================
