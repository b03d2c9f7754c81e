--------------------------- MODULE SettlementWriter ---------------------------
(***************************************************************************)
(* One organization's weekly settlements, before and around their send:    *)
(* the writer and the promoter (202607280013, 202607280031), the row       *)
(* latches (202607280010) and the sweep of the workers                     *)
(* (api/billing_settlement_sweep.py).                                      *)
(*                                                                         *)
(* A settlement is computed from the week's evidence as a draft, becomes   *)
(* money when an operator promotes it, and is then sent by the processor   *)
(* of BillingRecovery, of which only the status and the marker are kept    *)
(* here.  Receipts that come late change the evidence of a closed week;    *)
(* Stripe may move the grid the weeks lie on.                              *)
(*                                                                         *)
(* Writer and promoter hold the organization's advisory lock, so each is   *)
(* one step.  Fees are counted in the share the organization owes, and the *)
(* billable basis and the gross savings are one number.                    *)
(***************************************************************************)
EXTENDS Integers, FiniteSets, FiniteSetsExt, Sequences, SequencesExt

CONSTANTS
  Week,             \* half-days in a billing period
  Horizon,          \* bound: half-days are 0 .. Horizon
  BackOffsets,      \* closed weeks the enumerator looks back
  Limit,            \* BREVITAS_BILLING_SETTLEMENT_SWEEP_LIMIT
  ReportingWindow,  \* half-days a closed week may still be reported
  Guards,           \* pre_write_guards of the sweep
  Sweeps,           \* replicas that run it
  Values,           \* what a receipt adds to the net verified savings
  MaxReceipts, MaxWarm, MaxRows, MaxStops, MaxAccount  \* bounds

ASSUME SettlementAssumption ==
  /\ {Week, BackOffsets, Limit} \subseteq Nat \ {0}
  /\ {Horizon, ReportingWindow, MaxReceipts, MaxWarm, MaxRows, MaxStops, MaxAccount} \subseteq Nat
  /\ Guards \in BOOLEAN /\ IsFiniteSet(Sweeps) /\ Values \subseteq Int

Times == 0 .. Horizon
Day(t) == t \div 2
Days == 0 .. Day(Horizon)

VARIABLES
  now,      \* the clock, in half-days since billing_started_at
  anchor,   \* billing_accounts.current_period_start
  account,  \* "billable", "unattested" or "inactive"
  usage,    \* usage[t]: the eligible receipts of half-day t
  warm,     \* warm[d]: spent_usd of the warm budget rows of day d
  ledger,   \* period_settlement_ledger, in the order of its ids
  sweep,    \* run_once of each replica
  stops,    \* bound: how often a replica stopped
  changes   \* bound: how often the account changed

vars == <<now, anchor, account, usage, warm, ledger, sweep, stops, changes>>

\* "review" stands for dead, capped and expired as well.
Statuses == {"draft", "pending", "sending", "reported", "review", "void"}

TypeOK ==
  /\ now \in Times /\ anchor \in Times
  /\ account \in {"billable", "unattested", "inactive"}
  /\ usage \in [Times -> [saved : Int, rows : Nat]]
  /\ warm \in [Days -> Nat]
  /\ \A i \in DOMAIN ledger :
       ledger[i] \in [start : Times, revision : 1 .. MaxRows, saved : Int, warm : Nat,
                      rows : Nat, fee : Nat, status : Statuses,
                      marked : BOOLEAN, superseded : BOOLEAN]
  /\ sweep \in [Sweeps -> [todo : SUBSET Times, at : {"look", "settle"}]]
  /\ stops \in 0 .. MaxStops /\ changes \in 0 .. MaxAccount

Init ==
  /\ now = 0 /\ anchor = 0 /\ account = "billable"
  /\ usage = [t \in Times |-> [saved |-> 0, rows |-> 0]]
  /\ warm = [d \in Days |-> 0]
  /\ ledger = <<>>
  /\ sweep = [r \in Sweeps |-> [todo |-> {}, at |-> "look"]]
  /\ stops = 0 /\ changes = 0

-----------------------------------------------------------------------------
(* The evidence of the week that starts at c. *)

Upper(a, b) == IF a >= b THEN a ELSE b

Ticks(c) == {t \in Times : c <= t /\ t < c + Week}
Saved(c) == MapThenSumSet(LAMBDA t : usage[t].saved, Ticks(c))
RowCount(c) == MapThenSumSet(LAMBDA t : usage[t].rows, Ticks(c))

\* Every day that overlaps the week, so a boundary day counts for two.
WarmSpend(c) ==
  MapThenSumSet(LAMBDA d : warm[d], {d \in Days : 2 * d < c + Week /\ 2 * d + 2 > c})

Ceiling(c) == Upper(Saved(c) - WarmSpend(c), 0)

-----------------------------------------------------------------------------
(* The ledger. *)

RowsOf(c) == {i \in DOMAIN ledger : ledger[i].start = c}
Live(s) == ~s.superseded /\ s.status # "void"

\* Defect: the marker is not looked at, only the status.
SentByStatus(s) == s.status \in {"sending", "reported"}

\* What the frozen ceiling of 202607280008 counts.
Sent(s) == s.status \in {"sending", "reported"} \/ s.marked

\* What the writer counts: a pending settlement is money as well.
QueuedOrSent(s) == s.status = "pending" \/ Sent(s)

SentFee(c) == MapThenSumSet(LAMBDA i : ledger[i].fee, {i \in RowsOf(c) : Sent(ledger[i])})

\* Defect: the amount about to be billed is not looked at again.
GateOnceOnly(c, fee) == fee = 0 \/ account # "unattested"

\* assert_billing_period_settlement_allowed: the attestation, then the ceilings.
Gate(c, fee) ==
  fee = 0 \/ (account # "unattested" /\ fee + SentFee(c) <= Ceiling(c))

\* The week of the present grid that t lies in.
WeekOf(t) == anchor + Week * ((t - anchor) \div Week)

\* A settlement of an overlapping week of another grid, whatever became of it.
GridShifted(c) ==
  \E i \in DOMAIN ledger : /\ ledger[i].start # c
                           /\ ledger[i].start < c + Week /\ c < ledger[i].start + Week

Refused(c) == account = "inactive" \/ c + Week > now \/ c < 0 \/ GridShifted(c)

Draft(c, revision) ==
  [start |-> c, revision |-> revision, saved |-> Saved(c), warm |-> WarmSpend(c),
   rows |-> RowCount(c), fee |-> Ceiling(c), status |-> "draft",
   marked |-> FALSE, superseded |-> FALSE]

\* The live settlement already says what would be computed now.
Unchanged(s, c) ==
  /\ Live(s)
  /\ s.saved = Saved(c) /\ s.warm = WarmSpend(c) /\ s.rows = RowCount(c)
  /\ s.fee = Ceiling(c)

\* settle_billing_period writes: a first draft, or a revision of one nobody
\* queued.  An inactive or early call, a halt and a refusal write nothing.
First(c) == ~Refused(c) /\ RowsOf(c) = {} /\ Gate(c, Ceiling(c))

Revises(c) ==
  /\ ~Refused(c) /\ RowsOf(c) # {}
  /\ LET prev == ledger[Max(RowsOf(c))]
     IN ~Unchanged(prev, c) /\ prev.status \in {"draft", "void"}
  /\ \A i \in RowsOf(c) : QueuedOrSent(ledger[i]) => ledger[i].fee = 0
  /\ Gate(c, Ceiling(c))

Settled(c, revising) ==
  IF First(c) THEN Append(ledger, Draft(c, 1))
  ELSE IF revising /\ Revises(c)
  THEN LET prev == Max(RowsOf(c))
       IN Append([ledger EXCEPT ![prev].superseded = TRUE],
                 Draft(c, ledger[prev].revision + 1))
  ELSE ledger

-----------------------------------------------------------------------------
(* The sweep. *)

\* billing_periods_awaiting_settlement, before its limit.
Awaiting ==
  {c \in {anchor - n * Week : n \in 1 .. BackOffsets} :
     /\ account # "inactive"
     /\ c >= 0 /\ c + Week <= now
     /\ \A i \in RowsOf(c) : ~Live(ledger[i])}

Oldest(S) == {c \in S : Cardinality({d \in S : d < c}) < Limit}

\* The day that contains the end of the week is over.
WarmIsFinal(c) == now >= 2 * (Day(c + Week) + 1)

\* The summary the sweep asks for answers for the current week alone, and it
\* must show a fee the organization may be billed.
SummaryBillable(c) == c = anchor /\ account # "unattested" /\ Ceiling(c) > 0

Skips(c) == Guards /\ ~(WarmIsFinal(c) /\ SummaryBillable(c))

Candidate(r) == Min(sweep[r].todo)

Enumerate(r) ==
  /\ sweep[r].todo = {}
  /\ Awaiting # {}
  /\ sweep' = [sweep EXCEPT ![r].todo = Oldest(Awaiting)]
  /\ UNCHANGED <<now, anchor, account, usage, warm, ledger, stops, changes>>

Popped(r) == [sweep EXCEPT ![r] = [todo |-> @.todo \ {Candidate(r)}, at |-> "look"]]

Consider(r) ==
  /\ sweep[r].todo # {} /\ sweep[r].at = "look"
  /\ sweep' = IF Skips(Candidate(r)) THEN Popped(r) ELSE [sweep EXCEPT ![r].at = "settle"]
  /\ UNCHANGED <<now, anchor, account, usage, warm, ledger, stops, changes>>

\* The candidate is an instant: the writer looks for its week on the grid of
\* this moment.
Writes(r) ==
  /\ sweep[r].at = "settle"
  /\ LET c == WeekOf(Candidate(r))
     IN /\ First(c) => Len(ledger) < MaxRows
        /\ ledger' = Settled(c, FALSE)
  /\ sweep' = Popped(r)
  /\ UNCHANGED <<now, anchor, account, usage, warm, stops, changes>>

\* The call never reaches the writer; the sweep goes on with the next.
CallFails(r) ==
  /\ sweep[r].at = "settle"
  /\ sweep' = Popped(r)
  /\ UNCHANGED <<now, anchor, account, usage, warm, ledger, stops, changes>>

\* A stop request or a crash between two candidates; nothing is held.
Stop(r) ==
  /\ stops < MaxStops
  /\ sweep[r].todo # {}
  /\ sweep' = [sweep EXCEPT ![r] = [todo |-> {}, at |-> "look"]]
  /\ stops' = stops + 1
  /\ UNCHANGED <<now, anchor, account, usage, warm, ledger, changes>>

-----------------------------------------------------------------------------
(* The operator and the processor. *)

\* settle_billing_period with p_allow_revision.
Settle ==
  /\ Len(ledger) < MaxRows
  /\ \E t \in 0 .. now : ledger' = Settled(WeekOf(t), TRUE)
  /\ UNCHANGED <<now, anchor, account, usage, warm, sweep, stops, changes>>

SetStatus(i, status) == ledger' = [ledger EXCEPT ![i].status = status]

Promote(i) ==
  /\ LET s == ledger[i]
     IN /\ s.status = "draft" /\ ~s.superseded
        /\ \A j \in RowsOf(s.start) \ {i} : ledger[j].status # "pending"
        /\ s.fee > 0
        /\ s.start + Week >= now - ReportingWindow
        /\ Gate(s.start, s.fee)
  /\ SetStatus(i, "pending")
  /\ UNCHANGED <<now, anchor, account, usage, warm, sweep, stops, changes>>

\* The latches let an operator retract any settlement but erase no marker.
Retract(i) ==
  /\ Live(ledger[i])
  /\ SetStatus(i, "void")
  /\ UNCHANGED <<now, anchor, account, usage, warm, sweep, stops, changes>>

\* begin_send of a claimed settlement.
Begin(i) ==
  /\ ledger[i].status = "pending" /\ ~ledger[i].superseded
  /\ ledger' = [ledger EXCEPT ![i].status = "sending", ![i].marked = TRUE]
  /\ UNCHANGED <<now, anchor, account, usage, warm, sweep, stops, changes>>

\* The entry is completed, or given back after a 429 with its marker.
Finish(i) ==
  /\ ledger[i].status = "sending"
  /\ \E status \in {"reported", "review", "pending"} : SetStatus(i, status)
  /\ UNCHANGED <<now, anchor, account, usage, warm, sweep, stops, changes>>

\* The sweeps and the cap of a claim retire what was not begun.
Retire(i) ==
  /\ ledger[i].status = "pending" /\ ~ledger[i].marked
  /\ SetStatus(i, "review")
  /\ UNCHANGED <<now, anchor, account, usage, warm, sweep, stops, changes>>

-----------------------------------------------------------------------------
(* Receipts, pings, Stripe and the clock. *)

\* A receipt of a half-day that has begun, however long ago; it may lose money.
Receipt ==
  /\ MapThenSumSet(LAMBDA t : usage[t].rows, Times) < MaxReceipts
  /\ \E t \in 0 .. now, v \in Values :
       usage' = [usage EXCEPT ![t] = [saved |-> @.saved + v, rows |-> @.rows + 1]]
  /\ UNCHANGED <<now, anchor, account, warm, ledger, sweep, stops, changes>>

\* A ping is booked on the day its budget was reserved: the present one or, by
\* a batch that ran past midnight, the one before.
WarmBooked ==
  /\ MapThenSumSet(LAMBDA d : warm[d], Days) < MaxWarm
  /\ \E d \in {Day(now), Day(now) - 1} \cap Days : warm' = [warm EXCEPT ![d] = @ + 1]
  /\ UNCHANGED <<now, anchor, account, usage, ledger, sweep, stops, changes>>

\* A renewal, or a new anchor (a plan change, a pause).
AnchorMoves ==
  /\ anchor' \in {anchor + Week, now}
  /\ anchor < anchor' /\ anchor' <= now
  /\ UNCHANGED <<now, account, usage, warm, ledger, sweep, stops, changes>>

AccountChanges ==
  /\ changes < MaxAccount
  /\ account' \in {"billable", "unattested", "inactive"} \ {account}
  /\ changes' = changes + 1
  /\ UNCHANGED <<now, anchor, usage, warm, ledger, sweep, stops>>

Tick ==
  /\ now < Horizon
  /\ now' = now + 1
  /\ UNCHANGED <<anchor, account, usage, warm, ledger, sweep, stops, changes>>

Next ==
  \/ \E r \in Sweeps : Enumerate(r) \/ Consider(r) \/ Writes(r) \/ CallFails(r) \/ Stop(r)
  \/ Settle
  \/ \E i \in DOMAIN ledger : Promote(i) \/ Retract(i) \/ Begin(i) \/ Finish(i) \/ Retire(i)
  \/ Receipt \/ WarmBooked \/ AnchorMoves \/ AccountChanges \/ Tick

Spec == Init /\ [][Next]_vars

\* A replica runs its cycles to their end; a call that is made again and again
\* for a week gets through at last.
FairSpec ==
  /\ Spec
  /\ \A r \in Sweeps :
       /\ WF_vars(Enumerate(r)) /\ WF_vars(Consider(r))
       /\ WF_vars(Writes(r) \/ CallFails(r))
       /\ \A c \in 0 .. Horizon - Week : SF_vars(Writes(r) /\ Candidate(r) = c)

-----------------------------------------------------------------------------
\* A settlement that waits to be sent, or whose send has begun.
Billed(s) == s.status = "pending" \/ s.marked

\* No usage is billed twice: of the settlements that are queued, sent or may have
\* been sent, no two cover a common half-day, across revisions, retractions, late
\* receipts and a grid that moved (steps 4, 9 and 12 of settle_billing_period, the
\* latches of 202607280010).
UsageBilledOnce ==
  \A i, j \in DOMAIN ledger :
    i # j /\ Billed(ledger[i]) /\ Billed(ledger[j])
      => Ticks(ledger[i].start) \cap Ticks(ledger[j].start) = {}

\* At the moment a settlement becomes money, all that is queued or sent for its
\* week is covered by the evidence as it stands then, not as it stood when the
\* draft was computed (the gate promote_billing_period_settlement runs again).
PromotedWithinEvidence ==
  [][\A i \in DOMAIN ledger :
       ledger[i].status = "draft" /\ ledger'[i].status = "pending" =>
         LET c == ledger[i].start
         IN MapThenSumSet(LAMBDA j : ledger[j].fee,
                          {j \in RowsOf(c) : j = i \/ Billed(ledger[j])})
              <= Ceiling(c)]_vars

\* A week the sweep is there to draft: closed, billable, with a fee, its warm
\* spend final, and never settled.
Due(c) ==
  /\ c \in Awaiting /\ RowsOf(c) = {} /\ ~GridShifted(c)
  /\ account = "billable" /\ Ceiling(c) > 0
  /\ Guards => WarmIsFinal(c)
  /\ Len(ledger) < MaxRows

\* The sweep leaves no such week undrafted for ever (api/billing_settlement_sweep.py:
\* "the period stays enumerable, so the moment it has real evidence it settles
\* normally").
NoWeekIsLeft == \A c \in 0 .. Horizon - Week : []<>~Due(c)
=============================================================================
