---------------------------- MODULE CacheWarming ----------------------------
(***************************************************************************)
(* Keep-alive pings for a provider's prompt cache: the rows of one         *)
(* organization and provider (warm_credentials, warm_prefixes,             *)
(* warm_budget_ledger) with the functions of 202607280003 and              *)
(* 202607280018, the live traffic that observes prefixes (api/server.py)   *)
(* and the warming loops of the workers (api/worker.py).                   *)
(*                                                                         *)
(* Every function runs as one transaction; claims and observations hold    *)
(* advisory locks besides. Amounts are small whole numbers. Rows live for  *)
(* days without traffic, longer than any behaviour here.                   *)
(***************************************************************************)
EXTENDS Integers, FiniteSets, FiniteSetsExt, Functions

CONSTANTS
  Prefixes, CustomerOf,  \* prefix rows, and whose they are
  Workers,
  Days,          \* bound: days are 1 .. Days
  Lease,         \* claim_lease_seconds
  Due,           \* provider_ttl_seconds less the safety margin
  Reserve,       \* ping_reserve_usd, an upper bound of what a ping costs
  Budgets, CustomerLimits, PingLimits,  \* what an administrator may set for
                 \* daily_budget_usd, max_warm_customers, max_pings_per_customer_day
  ClaimLimit, StopLoss,
  MaxClaims      \* bound: claims made

ASSUME WarmingAssumption ==
  /\ IsFiniteSet(Prefixes) /\ IsFiniteSet(Workers) /\ "nobody" \notin Workers
  /\ {Days, Lease, Due, Reserve, ClaimLimit, StopLoss, MaxClaims} \subseteq Nat \ {0}
  /\ Budgets \subseteq Nat
  /\ CustomerLimits \subseteq Nat \ {0} /\ PingLimits \subseteq Nat \ {0}

Tokens == 1 .. MaxClaims

VARIABLES
  cred,     \* the credential: is there one, enabled, not refused by the provider, and
            \* the terms it is used under
  row,      \* the prefix rows
  ledger,   \* warm_budget_ledger by day
  claim,    \* the claims workers hold, by token
  tokens,   \* how many tokens have been given
  day,
  charged,  \* history: what answered pings cost, by the day they were budgeted
  granted   \* history: the budget under which a day's last claim was made

histories == <<charged, granted>>
vars == <<cred, row, ledger, claim, tokens, day, charged, granted>>

Terms == [budget : Budgets, customers : CustomerLimits, pings : PingLimits]
NoTerms == [budget |-> 0, customers |-> 0, pings |-> 0]
NoCredential == [here |-> FALSE, enabled |-> FALSE, active |-> FALSE, terms |-> NoTerms]

NoRow == [here |-> FALSE, active |-> FALSE, due |-> 0, token |-> 0, misses |-> 0,
          pings |-> 0, on |-> 0]
NoClaim == [by |-> "nobody", prefix |-> "none", day |-> 0, left |-> 0, stage |-> "none",
            outcome |-> "release", spent |-> 0, orphan |-> FALSE]

TypeOK ==
  /\ cred \in [here : BOOLEAN, enabled : BOOLEAN, active : BOOLEAN, terms : Terms \cup {NoTerms}]
  /\ row \in [Prefixes -> [here : BOOLEAN, active : BOOLEAN,
                           due : 0 .. IF Lease > Due THEN Lease ELSE Due,
                           token : 0 .. MaxClaims, misses : 0 .. StopLoss,
                           pings : Nat, on : 0 .. Days]]
  /\ ledger \in [1 .. Days -> [reserved : Nat, spent : Nat]]
  /\ \A t \in Tokens : claim[t] = NoClaim \/
        /\ claim[t].by \in Workers /\ claim[t].prefix \in Prefixes
        /\ claim[t].day \in 1 .. Days /\ claim[t].left \in 0 .. Lease
        /\ claim[t].stage \in {"claimed", "pinging", "settling"}
        /\ claim[t].outcome \in {"warmed", "release", "prefix_invalid", "auth_failed"}
        /\ claim[t].spent \in 0 .. Reserve /\ claim[t].orphan \in BOOLEAN
  /\ tokens \in 0 .. MaxClaims /\ day \in 1 .. Days
  /\ charged \in [1 .. Days -> Nat] /\ granted \in [1 .. Days -> Budgets \cup {0}]

Init ==
  /\ \E terms \in Terms :
        cred = [here |-> TRUE, enabled |-> terms.budget > 0, active |-> TRUE, terms |-> terms]
  /\ row = [x \in Prefixes |-> NoRow]
  /\ ledger = [d \in 1 .. Days |-> [reserved |-> 0, spent |-> 0]]
  /\ claim = [t \in Tokens |-> NoClaim] /\ tokens = 0
  /\ day = 1
  /\ charged = [d \in 1 .. Days |-> 0] /\ granted = [d \in 1 .. Days |-> 0]

Warming == cred.here /\ cred.enabled /\ cred.active

-----------------------------------------------------------------------------
(* Live traffic. *)

\* The arrival's own schedule, whoever holds the row.
NextDueAnyway(x) == Due
\* While a claim token is held the claimant owns the schedule.
NextDue(x) == IF row[x].here /\ row[x].token # 0 THEN row[x].due ELSE Due

\* warm_prefix_observe: the first prefix of a customer needs room for the customer;
\* a cache read clears the misses and any observation revives a stopped prefix.
Observe(x, cacheRead) ==
  LET known == {CustomerOf[y] : y \in {z \in Prefixes : row[z].here}} IN
  /\ Warming
  /\ CustomerOf[x] \in known \/ Cardinality(known) < cred.terms.customers
  /\ row' = [row EXCEPT ![x] =
               IF row[x].here
               THEN [@ EXCEPT !.active = TRUE, !.due = NextDue(x),
                              !.misses = IF cacheRead THEN 0 ELSE row[x].misses]
               ELSE [NoRow EXCEPT !.here = TRUE, !.active = TRUE, !.due = NextDue(x)]]
  /\ UNCHANGED <<cred, ledger, claim, tokens, day, histories>>

-----------------------------------------------------------------------------
(* The administrator. *)

\* warm_credentials_upsert: the terms are always rewritten, whatever the day's ledger
\* holds; only a new credential clears auth_failed.
SaveCredential(enabled, new, terms) ==
  /\ cred.here \/ new
  /\ enabled => terms.budget > 0
  /\ cred' = [here |-> TRUE, enabled |-> enabled, active |-> new \/ cred.active, terms |-> terms]
  /\ UNCHANGED <<row, ledger, claim, tokens, day, histories>>

\* warm_credentials_purge: the ledger stays.
PurgeCredential ==
  /\ cred.here
  /\ cred' = NoCredential
  /\ row' = [x \in Prefixes |-> NoRow]
  /\ claim' = [t \in Tokens |-> IF claim[t].by \in Workers
                                THEN [claim[t] EXCEPT !.orphan = TRUE] ELSE claim[t]]
  /\ UNCHANGED <<ledger, tokens, day, histories>>

-----------------------------------------------------------------------------
(* The claim. *)

Batch(w) == {t \in Tokens : claim[t].by = w}

Candidates ==
  {x \in Prefixes : row[x].here /\ row[x].active /\ row[x].due = 0 /\ row[x].misses < StopLoss}

PingsToday(c) ==
  MapThenSumSet(LAMBDA x : IF row[x].on = day THEN row[x].pings ELSE 0,
                {x \in Prefixes : CustomerOf[x] = c})

HasBudget(n) == ledger[day].reserved + ledger[day].spent + n * Reserve <= cred.terms.budget

\* warm_due_claim: the loop skips candidates that are not worth a ping, that are
\* over their customer's pings or over the budget; what it claims is reserved and
\* leased under new tokens. The worker has finished its last batch.
Claim(w) ==
  /\ Batch(w) = {} /\ Warming
  /\ \E xs \in (SUBSET Candidates) \ {{}} :
        LET n == Cardinality(xs) IN
        /\ n <= ClaimLimit /\ tokens + n <= MaxClaims
        /\ HasBudget(n)
        /\ \A c \in {CustomerOf[x] : x \in xs} :
              PingsToday(c) + Cardinality({x \in xs : CustomerOf[x] = c}) <= cred.terms.pings
        /\ \E name \in Bijection(xs, tokens + 1 .. tokens + n) :
              /\ row' = [x \in Prefixes |->
                           IF x \in xs
                           THEN [row[x] EXCEPT !.due = Lease, !.token = name[x]]
                           ELSE row[x]]
              /\ claim' = [t \in Tokens |->
                             IF \E x \in xs : name[x] = t
                             THEN [NoClaim EXCEPT !.by = w, !.day = day, !.left = Lease,
                                     !.stage = "claimed",
                                     !.prefix = CHOOSE x \in xs : name[x] = t]
                             ELSE claim[t]]
        /\ ledger' = [ledger EXCEPT ![day].reserved = @ + n * Reserve]
        /\ tokens' = tokens + n
  /\ granted' = [granted EXCEPT ![day] = cred.terms.budget]
  /\ UNCHANGED <<cred, day, charged>>

-----------------------------------------------------------------------------
(* One ping. *)

\* A worker's pings go one after the other, in the order of the claim.
First(w) == Batch(w) # {} /\ claim[Min(Batch(w))].stage = "claimed"
Current(w) == Min(Batch(w))

Settles(t, outcome, spent) ==
  claim' = [claim EXCEPT ![t].stage = "settling", ![t].outcome = outcome, ![t].spent = spent]

\* Nothing is sent: a payload that cannot be opened, a revoked key, a provider or
\* model that is not pinged any more, a limiter that refuses or is out of reach, an
\* open circuit.
SkipPing(w) ==
  /\ First(w)
  /\ \E outcome \in {"release", "prefix_invalid"} : Settles(Current(w), outcome, 0)
  /\ UNCHANGED <<cred, row, ledger, tokens, day, histories>>

SendPing(w) ==
  /\ First(w)
  /\ claim' = [claim EXCEPT ![Current(w)].stage = "pinging"]
  /\ UNCHANGED <<cred, row, ledger, tokens, day, histories>>

\* A 2xx whose usage cannot be read is booked at the whole reservation.
BookedUnread == [outcome |-> "release", spent |-> 0]
Booked == [outcome |-> "warmed", spent |-> Reserve]

\* The provider answers. An error status costs nothing; a broken connection may have
\* cost a ping nobody can see (it is settled as nothing and not in charged).
PingAnswered(w) ==
  LET t == Current(w) IN
  /\ Batch(w) # {} /\ claim[t].stage = "pinging"
  /\ \/ \E outcome \in {"release", "prefix_invalid", "auth_failed"} :
           Settles(t, outcome, 0) /\ UNCHANGED charged
     \/ \E cost \in 1 .. Reserve :
           /\ charged' = [charged EXCEPT ![claim[t].day] = @ + cost]
           /\ \/ Settles(t, "warmed", cost)
              \/ Settles(t, Booked.outcome, Booked.spent)
  /\ UNCHANGED <<cred, row, ledger, tokens, day, granted>>

\* warm_ping_settle: the money is always booked; the row changes only while the
\* claim is the row's.
SettledRow(x, t) ==
  IF row[x].token # t THEN row[x]
  ELSE CASE claim[t].outcome = "warmed" ->
              [row[x] EXCEPT !.misses = @ + 1, !.due = Due, !.token = 0,
                             !.pings = IF row[x].on = day THEN @ + 1 ELSE 1, !.on = day]
         [] claim[t].outcome = "release" -> [row[x] EXCEPT !.token = 0]
         [] claim[t].outcome = "prefix_invalid" ->
              [row[x] EXCEPT !.token = 0, !.active = FALSE]
         [] OTHER -> row[x]

SettlePing(w) ==
  LET t == Current(w)
      c == claim[t]
  IN
  /\ Batch(w) # {} /\ c.stage = "settling"
  /\ \/ /\ ledger' = [ledger EXCEPT
                        ![c.day].reserved = IF @ > Reserve THEN @ - Reserve ELSE 0,
                        ![c.day].spent = IF c.outcome = "warmed" THEN @ + c.spent ELSE @]
        /\ row' = [row EXCEPT ![c.prefix] = SettledRow(c.prefix, t)]
        /\ cred' = [cred EXCEPT !.active = @ /\ c.outcome # "auth_failed"]
     \/ UNCHANGED <<ledger, row, cred>>  \* the settlement fails and is only logged
  /\ claim' = [claim EXCEPT ![t] = NoClaim]
  /\ UNCHANGED <<tokens, day, histories>>

\* A worker is killed: its reservations stay.
Crash(w) ==
  /\ Batch(w) # {}
  /\ claim' = [t \in Tokens |-> IF t \in Batch(w) THEN NoClaim ELSE claim[t]]
  /\ UNCHANGED <<cred, row, ledger, tokens, day, histories>>

-----------------------------------------------------------------------------
Tick ==
  /\ row' = [x \in Prefixes |-> IF row[x].due > 0 THEN [row[x] EXCEPT !.due = @ - 1]
                                ELSE row[x]]
  /\ claim' = [t \in Tokens |-> IF claim[t].left > 0 THEN [claim[t] EXCEPT !.left = @ - 1]
                                ELSE claim[t]]
  /\ row' # row \/ claim' # claim
  /\ UNCHANGED <<cred, ledger, tokens, day, histories>>

\* purge_warm_state keeps the ledger for 365 days at least.
Midnight ==
  /\ day < Days /\ day' = day + 1
  /\ UNCHANGED <<cred, row, ledger, claim, tokens, histories>>

Next ==
  \/ \E x \in Prefixes, cacheRead \in BOOLEAN : Observe(x, cacheRead)
  \/ \E enabled, new \in BOOLEAN, terms \in Terms : SaveCredential(enabled, new, terms)
  \/ PurgeCredential
  \/ \E w \in Workers : \/ Claim(w) \/ SkipPing(w) \/ SendPing(w)
                        \/ PingAnswered(w) \/ SettlePing(w) \/ Crash(w)
  \/ Tick \/ Midnight

Spec == Init /\ [][Next]_vars

-----------------------------------------------------------------------------
(* Properties. *)

\* What the provider charged for answered pings is covered by the day's ledger, and
\* the ledger by the budget under which the day's last claim was made: across workers,
\* lapsed claims, crashes between the ping and its settlement, settlements that are
\* lost, receipts that cannot be read and budgets that are raised and lowered during
\* the day (warm_due_claim: "the daily ceiling"; _warm_one: "booking 0 ... would
\* release the whole reservation, so daily_budget_usd would never bind"). A budget
\* lowered below what is booked stops claims and takes nothing back.
ChargesCovered ==
  \A d \in 1 .. Days :
     /\ charged[d] <= ledger[d].reserved + ledger[d].spent
     /\ ledger[d].reserved + ledger[d].spent <= granted[d]

\* A claim within its lease is the row's, however hot the prefix: nobody else claims
\* it and its own settlement counts (202607280018: "the warming claim lease must
\* survive live traffic"). A purge ends the claims with their rows.
HeldWithinLease ==
  \A t \in Tokens :
     claim[t].by \in Workers /\ claim[t].left > 0 /\ ~claim[t].orphan
       => row[claim[t].prefix].token = t
=============================================================================
