---------------------------- MODULE BillingRecovery ----------------------------
(***************************************************************************)
(* Reporting fees to Stripe: api/billing_recovery.py (the processor every  *)
(* billing worker runs) over one of the two ledgers it serves.  A worker   *)
(* claims an entry under a lease, persists an outbound marker, posts the   *)
(* meter event, and completes the entry.  A crash, a lost answer or a      *)
(* lapsed lease leaves an entry whose fee Stripe may or may not hold; the  *)
(* next claim reconciles it against Stripe's total before it replays it.   *)
(* Stripe drops a repeated identifier, but only for a day.                 *)
(* The entries are the fees of one organization in one weekly period.      *)
(***************************************************************************)
EXTENDS Naturals, FiniteSets, FiniteSetsExt

CONSTANTS
  Workers,      \* billing worker processes
  Entries,      \* rows of the ledger
  Fee,          \* [Entries -> Nat \ {0}]: fee_microusd
  Cap,          \* BREVITAS_BILLING_WEEKLY_CAP_USD
  AttemptLimit,   \* max_attempts of a new row
  AttemptCeiling, \* what a manual retry may raise max_attempts to
  None,         \* NULL lease_owner
  Gone,         \* lease_owner of a process that is no more
  Settlement,   \* TRUE: period_settlement_ledger, FALSE: billing_ledger
  Exclusive,    \* BREVITAS_STRIPE_METER_EXCLUSIVE_WRITER
  RateLimits,   \* environment: Stripe may answer 429
  Lapses        \* environment: the account may stop being billable

ASSUME BillingAssumption ==
  /\ IsFiniteSet(Entries)
  /\ Fee \in [Entries -> Nat \ {0}]
  /\ Cap \in Nat
  /\ AttemptLimit \in Nat \ {0}
  /\ AttemptCeiling \in Nat
  /\ AttemptLimit <= AttemptCeiling
  /\ None \notin Workers /\ Gone \notin Workers /\ None # Gone
  /\ {Settlement, Exclusive, RateLimits, Lapses} \subseteq BOOLEAN
  \* period_settlement_ledger_live_period_idx: one live settlement per period
  /\ Settlement => Cardinality(Entries) = 1

VARIABLES
  row,      \* row[e]: the ledger row e
  slot,     \* slot[w]: the locals of _process_entry in worker w
  wire,     \* meter events sent, not yet processed by Stripe: <<w, e>>
  held,     \* held[e]: how often Stripe counted the fee of e
  forgot,   \* entries whose identifier Stripe no longer recognizes
  account   \* billing_accounts row of the organization

vars == <<row, slot, wire, held, forgot, account>>

Open     == {"pending", "sending"}
Statuses == Open \cup {"reported", "review", "dead", "capped", "expired"}

Row == [status : Statuses,
        marked : BOOLEAN,      \* outbound_started_at is not null
        stale : BOOLEAN,       \* outbound_started_at < now() - 23 hours
        reportable : BOOLEAN,  \* within 34 days of occurred_at (period_end)
        owner : Workers \cup {None, Gone},
        lease : {"none", "live", "over"},   \* lease_expires_at against now()
        attempts : 0..AttemptCeiling,
        limit : 0..AttemptCeiling]          \* max_attempts

SumFees(S) == MapThenSumSet(LAMBDA e : Fee[e], S)

\* What a claim may expect Stripe's total to be.
Totals == {0} \cup {Fee[e] + SumFees(S) : e \in Entries, S \in SUBSET Entries}

\* "reconcile": reclaimed with a marker; "validate", "begin": before the
\* marker; "post": marked, nothing sent; "waiting": sent; "recheck": the answer
\* was lost; "unsent": answered 429; "settle": about to complete the entry.
Places == {"idle", "reconcile", "validate", "begin", "post", "waiting",
           "recheck", "unsent", "settle"}

Slot == [at : Places, entry : Entries,
         replay : BOOLEAN,   \* claimed with an outbound marker
         expected : Totals,  \* expected_period_microusd, read by the claim
         verdict : {"none", "reported", "review", "dead"}]

TypeOK == /\ row \in [Entries -> Row]
          /\ slot \in [Workers -> Slot]
          /\ wire \subseteq Workers \X Entries
          /\ held \in [Entries -> Nat]
          /\ forgot \subseteq Entries
          /\ account \in {"billable", "lapsed", "unanchored"}

NewRow == [status |-> "pending", marked |-> FALSE, stale |-> FALSE,
           reportable |-> TRUE, owner |-> None, lease |-> "none",
           attempts |-> 0, limit |-> AttemptLimit]

Init == /\ row = [e \in Entries |-> NewRow]
        /\ \E e \in Entries :
             slot = [w \in Workers |-> [at |-> "idle", entry |-> e, replay |-> FALSE,
                                        expected |-> 0, verdict |-> "none"]]
        /\ wire = {}
        /\ held = [e \in Entries |-> 0]
        /\ forgot = {}
        /\ account = "billable"

-----------------------------------------------------------------------------
(* The ledger's functions. *)

Lower(a, b) == IF a <= b THEN a ELSE b
Upper(a, b) == IF a >= b THEN a ELSE b

\* A terminal status also clears lease_owner and lease_expires_at.
Closed(r, status) == [r EXCEPT !.status = status, !.owner = None, !.lease = "none"]

\* The three sweeps each claim starts with.
TooOld(r) ==
  r.status = "pending" /\ ~r.reportable /\ (Settlement => ~r.marked)
Unreplayable(r) == r.status = "sending" /\ r.lease = "over" /\ r.stale

\* Defect: the sweep looks at the status the other ledger leases a row in.
ExhaustedElsewhere(r) ==
  /\ r.status = (IF Settlement THEN "sending" ELSE "pending")
  /\ r.lease = "over"
  /\ r.attempts >= r.limit

Exhausted(r) ==
  /\ r.status = (IF Settlement THEN "pending" ELSE "sending")
  /\ r.lease = "over"
  /\ r.attempts >= r.limit

Swept(r) ==
  IF TooOld(r) THEN Closed(r, "expired")
  ELSE IF Unreplayable(r) \/ Exhausted(r) THEN Closed(r, "review")
  ELSE r

Claimable(r) ==
  IF Settlement
  THEN \/ r.status = "pending" /\ r.attempts < r.limit /\ r.lease # "live"
       \/ r.status = "sending" /\ r.lease = "over"
  ELSE /\ r.attempts < r.limit
       /\ r.status = "pending" \/ (r.status = "sending" /\ r.lease = "over")

\* Defect: a fee whose send is ambiguous is not counted.
CommittedIfKnown(r) == r.status \in {"sending", "reported"}

\* What Stripe holds or may hold.
Committed(r) ==
  \/ r.status \in {"sending", "reported"}
  \/ r.marked /\ (Settlement \/ r.status = "review")

\* The period total once e is sent: expected_period_microusd.
Expected(rows, e) ==
  Fee[e] + SumFees({o \in Entries \ {e} : Committed(rows[o])})

\* Money that is committed already is not held back by the cap.
OverCap(rows, e) ==
  /\ IF Settlement THEN ~rows[e].marked ELSE rows[e].status = "pending"
  /\ Expected(rows, e) > Cap

\* Taking the lease; only the per-row ledger moves the status with it.
Leased(r, w) ==
  [r EXCEPT !.status = IF Settlement THEN @ ELSE "sending",
            !.owner = w, !.lease = "live",
            !.attempts = Lower(@ + 1, AttemptCeiling)]

\* Defect: release_owner also gives back ambiguous sends.
UnstartedOrNot(r, w) ==
  r.owner = w /\ r.status = (IF Settlement THEN "pending" ELSE "sending")

Unstarted(r, w) ==
  /\ r.owner = w /\ ~r.marked
  /\ r.status = (IF Settlement THEN "pending" ELSE "sending")

Refunded(r) == [r EXCEPT !.status = "pending", !.owner = None, !.lease = "none",
                         !.attempts = IF @ = 0 THEN 0 ELSE @ - 1]

\* release_owner: every claim of w whose request was never begun.
Released(w) ==
  [e \in Entries |-> IF Unstarted(row[e], w) THEN Refunded(row[e]) ELSE row[e]]

\* Defect: lease_expires_at is not compared.
InHandLapsed(r, w) ==
  /\ r.owner = w
  /\ r.status = "sending" \/ (Settlement /\ r.status = "pending")

\* renew and begin_send find the row in the worker's hands.
InHand(r, w) ==
  /\ r.owner = w /\ r.lease = "live"
  /\ r.status = "sending" \/ (Settlement /\ r.status = "pending")

\* complete finds it; the lease may have run out, no one else took it over.
Completable(r, w) ==
  /\ r.owner = w
  /\ r.status = "sending" \/ (Settlement /\ r.status = "pending" /\ r.marked)

\* Defect: the marker is left for the completion to set.
MarkedLater(r) == [r EXCEPT !.status = "sending"]

Marked(r) == [r EXCEPT !.status = "sending", !.marked = TRUE]

\* Defect: the settlement's marker is erased too.
UnsentReleasedErased(r) == [Refunded(r) EXCEPT !.marked = FALSE, !.stale = FALSE]

\* release_unsent: the per-row ledger erases the marker, the settlement
\* ledger's write-once latch keeps it.
UnsentReleased(r) ==
  IF Settlement THEN Refunded(r)
  ELSE [Refunded(r) EXCEPT !.marked = FALSE, !.stale = FALSE]

\* An operator's retry: a first send again, with at least one attempt left.
Retried(r) ==
  [r EXCEPT !.status = "pending", !.owner = None, !.lease = "none",
            !.marked = FALSE, !.stale = FALSE,
            !.limit = Lower(AttemptCeiling, Upper(@, r.attempts + 1))]

-----------------------------------------------------------------------------
(* The worker. *)

Goes(w, place) == slot' = [slot EXCEPT ![w].at = place]
Settles(w, verdict) ==
  slot' = [slot EXCEPT ![w].at = "settle", ![w].verdict = verdict]

\* _process_entry returns, or has not started.
Rests(w) ==
  slot' = [slot EXCEPT ![w].at = "idle", ![w].replay = FALSE,
                       ![w].expected = 0, ![w].verdict = "none"]

\* The claimed row r, as it was before the lease was taken.
Takes(w, e, r, total) ==
  slot' = [slot EXCEPT ![w] =
    [at |-> IF r.marked THEN "reconcile" ELSE "validate",
     entry |-> e, replay |-> r.marked, expected |-> total, verdict |-> "none"]]

\* claim_one: the sweeps, then one candidate, which is retired or leased.  The
\* reply may be lost on the way back.
Claim(w) ==
  /\ slot[w].at = "idle"
  /\ LET swept == [e \in Entries |-> Swept(row[e])]
         found == {e \in Entries : Claimable(swept[e])}
     IN \/ found = {} /\ row' = swept /\ UNCHANGED slot
        \/ \E e \in found :
             LET retire(status) ==
                   row' = [swept EXCEPT ![e] = Closed(@, status)] /\ UNCHANGED slot
             IN \/ ~Settlement /\ account = "lapsed" /\ retire("dead")
                \/ ~Settlement /\ account = "unanchored" /\ retire("review")
                \/ /\ Settlement \/ account = "billable"
                   /\ OverCap(swept, e)
                   /\ retire("capped")
                \/ /\ Settlement \/ account = "billable"
                   /\ ~OverCap(swept, e)
                   /\ row' = [swept EXCEPT ![e] = Leased(@, w)]
                   /\ UNCHANGED slot \/ Takes(w, e, swept[e], Expected(swept, e))
  /\ UNCHANGED <<wire, held, forgot, account>>

\* Stripe's total of the customer and period equals what the claim expected.
\* Summaries lag and calls fail, so a true match may go unseen.
Matches(w) ==
  /\ Exclusive
  /\ InHand(row[slot[w].entry], w)
  /\ MapThenSumSet(LAMBDA e : held[e] * Fee[e], Entries) = slot[w].expected

\* Defect: replays whatever its age.
ReconcileAgeless(w) ==
  /\ slot[w].at = "reconcile"
  /\ \/ Matches(w) /\ Settles(w, "reported")
     \/ Goes(w, "validate")
  /\ UNCHANGED <<row, wire, held, forgot, account>>

\* A reclaimed entry with a marker: reconciled, too old to replay, or replayed.
Reconcile(w) ==
  /\ slot[w].at = "reconcile"
  /\ \/ Matches(w) /\ Settles(w, "reported")
     \/ row[slot[w].entry].stale /\ Settles(w, "review")
     \/ ~row[slot[w].entry].stale /\ Goes(w, "validate")
  /\ UNCHANGED <<row, wire, held, forgot, account>>

\* validate_contract, before the marker: fine, a catalog error, or no answer,
\* a lost lease or a stop request, which all give the claim back.
Validate(w) ==
  /\ slot[w].at = "validate"
  /\ \/ InHand(row[slot[w].entry], w) /\ Goes(w, "begin") /\ UNCHANGED row
     \/ slot[w].replay /\ Settles(w, "review") /\ UNCHANGED row
     \/ Rests(w) /\ row' = Released(w)
  /\ UNCHANGED <<wire, held, forgot, account>>

\* The heartbeat and begin_send; the reply of begin_send may be lost.
Begin(w) ==
  /\ slot[w].at = "begin"
  /\ LET e == slot[w].entry
     IN \/ InHand(row[e], w) /\ row' = [row EXCEPT ![e] = Marked(@)]
           /\ (Goes(w, "post") \/ Rests(w))
        \/ Rests(w) /\ UNCHANGED row
  /\ UNCHANGED <<wire, held, forgot, account>>

\* send: it validates the contract again, then posts the meter event.
Send(w) ==
  /\ slot[w].at = "post"
  /\ \/ Goes(w, "waiting") /\ wire' = wire \cup {<<w, slot[w].entry>>}
     \/ Settles(w, "review") /\ UNCHANGED wire
     \/ RateLimits /\ Goes(w, "unsent") /\ UNCHANGED wire
     \/ Goes(w, "recheck") /\ UNCHANGED wire
  /\ UNCHANGED <<row, held, forgot, account>>

\* The answer to the POST: 2xx, 4xx, 429, or none.  A 4xx is taken for a verdict
\* on the fee, also when the POST replays an event that Stripe counted before.
Answer(w) ==
  /\ slot[w].at = "waiting"
  /\ LET sent == <<w, slot[w].entry>>
         refused == sent \in wire /\ wire' = wire \ {sent}
     IN \/ sent \notin wire /\ Settles(w, "reported") /\ UNCHANGED wire
        \/ refused /\ Settles(w, "dead")
        \/ RateLimits /\ refused /\ Goes(w, "unsent")
        \/ Goes(w, "recheck") /\ UNCHANGED wire
  /\ UNCHANGED <<row, held, forgot, account>>

\* After an unknown outcome: reconciled at once, or left in the ledger as it is.
Recheck(w) ==
  /\ slot[w].at = "recheck"
  /\ \/ Matches(w) /\ Settles(w, "reported")
     \/ Rests(w)
  /\ UNCHANGED <<row, wire, held, forgot, account>>

Unsend(w) ==
  /\ slot[w].at = "unsent"
  /\ LET e == slot[w].entry
     IN row' = IF row[e].owner = w /\ row[e].status = "sending"
               THEN [row EXCEPT ![e] = UnsentReleased(@)] ELSE row
  /\ Rests(w)
  /\ UNCHANGED <<wire, held, forgot, account>>

Settle(w) ==
  /\ slot[w].at = "settle"
  /\ LET e == slot[w].entry
     IN row' = IF Completable(row[e], w)
               THEN [row EXCEPT ![e] = Closed(@, slot[w].verdict)] ELSE row
  /\ Rests(w)
  /\ UNCHANGED <<wire, held, forgot, account>>

\* Between cycles a stopping worker gives back what it never began to send.
Drain(w) ==
  /\ slot[w].at = "idle"
  /\ row' = Released(w)
  /\ UNCHANGED <<slot, wire, held, forgot, account>>

\* A failed call ends the cycle; a crash also ends the owner's identity.
Abandon(w) ==
  /\ slot[w].at # "idle"
  /\ Rests(w)
  /\ \/ UNCHANGED row
     \/ row' = [e \in Entries |-> [row[e] EXCEPT !.owner = IF @ = w THEN Gone ELSE @]]
  /\ UNCHANGED <<wire, held, forgot, account>>

-----------------------------------------------------------------------------
(* Stripe, the operator and the passing of time. *)

\* No request for e is under way or about to be sent.
Quiet(e) ==
  \A w \in Workers : /\ <<w, e>> \notin wire
                     /\ ~(slot[w].entry = e /\ slot[w].at \in {"post", "waiting"})

\* Stripe processes a meter event: a known identifier is not counted again.
Ingest ==
  /\ \E w \in Workers, e \in Entries :
       /\ <<w, e>> \in wire
       /\ wire' = wire \ {<<w, e>>}
       /\ held' = IF held[e] = 0 \/ e \in forgot
                  THEN [held EXCEPT ![e] = @ + 1] ELSE held
  /\ UNCHANGED <<row, slot, forgot, account>>

\* A request whose sender gave up never arrives, or is refused.
Drop ==
  /\ \E w \in Workers, e \in Entries :
       /\ <<w, e>> \in wire
       /\ ~(slot[w].at = "waiting" /\ slot[w].entry = e)
       /\ wire' = wire \ {<<w, e>>}
  /\ UNCHANGED <<row, slot, held, forgot, account>>

\* A day after the send.  The hour between the 23-hour limit and that day
\* outlasts every lease (at most 900 s) and every call.
Forget(e) ==
  /\ held[e] > 0 /\ e \notin forgot
  /\ row[e].status \in Open /\ row[e].lease # "live"
  /\ row[e].marked => row[e].stale
  /\ Quiet(e)
  /\ forgot' = forgot \cup {e}
  /\ UNCHANGED <<row, slot, wire, held, account>>

\* manually_resolve_billing_ledger_entry, by an operator who looked Stripe up.
Resolve(e) ==
  /\ ~Settlement /\ Quiet(e)
  /\ row[e].status \in {"review", "dead"}
  /\ \/ held[e] > 0 /\ row' = [row EXCEPT ![e] = Closed(@, "reported")]
     \/ held[e] = 0 /\ row' = [row EXCEPT ![e] = Closed(@, "dead")]
     \/ /\ held[e] = 0 /\ row[e].attempts < AttemptCeiling
        /\ row' = [row EXCEPT ![e] = Retried(@)]
  /\ UNCHANGED <<slot, wire, held, forgot, account>>

LeaseEnds(e) ==
  /\ row[e].lease = "live"
  /\ row' = [row EXCEPT ![e].lease = "over"]
  /\ UNCHANGED <<slot, wire, held, forgot, account>>

MarkerAges(e) ==
  /\ row[e].status \in Open /\ row[e].marked /\ ~row[e].stale
  /\ row' = [row EXCEPT ![e].stale = TRUE]
  /\ UNCHANGED <<slot, wire, held, forgot, account>>

WindowCloses(e) ==
  /\ row[e].status \in Open /\ row[e].reportable
  /\ row' = [row EXCEPT ![e].reportable = FALSE]
  /\ UNCHANGED <<slot, wire, held, forgot, account>>

AccountChanges ==
  /\ Lapses
  /\ account' \in {"billable", "lapsed", "unanchored"} \ {account}
  /\ UNCHANGED <<row, slot, wire, held, forgot>>

Cycle(w) == \/ Reconcile(w) \/ Validate(w) \/ Begin(w) \/ Send(w) \/ Answer(w)
            \/ Recheck(w) \/ Unsend(w) \/ Settle(w)

Next == \/ \E w \in Workers : Claim(w) \/ Cycle(w) \/ Drain(w) \/ Abandon(w)
        \/ \E e \in Entries : \/ Forget(e) \/ Resolve(e) \/ LeaseEnds(e)
                              \/ MarkerAges(e) \/ WindowCloses(e)
        \/ Ingest \/ Drop \/ AccountChanges

Spec == Init /\ [][Next]_vars

\* A worker keeps polling and finishes its cycles (every call has a timeout);
\* time passes.
Fairness ==
  /\ \A w \in Workers : WF_vars(Claim(w)) /\ WF_vars(Cycle(w))
  /\ \A e \in Entries : /\ WF_vars(LeaseEnds(e)) /\ WF_vars(MarkerAges(e))
                        /\ WF_vars(WindowCloses(e))

FairSpec == Spec /\ Fairness

-----------------------------------------------------------------------------
\* Stripe never counts a fee twice, however often its send is replayed: the
\* markers, sweeps and age checks keep every replay within Stripe's memory.
ChargedOnce == \A e \in Entries : held[e] <= 1

\* A fee Stripe holds, or may come to hold, carries the outbound marker: no
\* entry that was sent looks like one that never was (begin_send before send).
SentIsMarked ==
  \A e \in Entries :
    held[e] > 0 \/ (\E w \in Workers : <<w, e>> \in wire) => row[e].marked

\* A fee Stripe holds stays in the committed sum, which the cap and the expected
\* total are computed from (claim_billing_ledger_entries), unless the per-row
\* ledger closed it as dead, for an operator to look up; it is never closed as
\* one that was not sent.
HeldIsAccounted ==
  \A e \in Entries :
    held[e] > 0 => /\ row[e].status \notin {"capped", "expired"}
                   /\ Committed(row[e]) \/ (~Settlement /\ row[e].status = "dead")

MayHold(e) == held[e] > 0 \/ ~Quiet(e)

\* No entry is taken up to be sent for the first time unless its fee fits under
\* the weekly cap beside all that Stripe holds or may still come to hold, but for
\* rows closed as dead: the serialized look of the claims at the committed sum.
SendsFitCap ==
  [][\A e \in Entries :
       row[e].status = "pending" /\ row'[e].status = "sending" =>
         Fee[e] + SumFees({o \in Entries \ {e} : MayHold(o) /\ row[o].status # "dead"})
           <= Cap]_vars

\* Every entry leaves the queue, reported or closed where an operator sees it: no
\* combination of crashes, refusals and sweeps leaves it open for ever.
EventuallyClosed ==
  \A e \in Entries : row[e].status \in Open ~> row[e].status \notin Open
=============================================================================
