---------------------------- MODULE WebhookInbox ----------------------------
(***************************************************************************)
(* Stripe's webhook deliveries and the subscription state they bring to a  *)
(* billing account: the route (src/app/api/billing/webhook/route.ts), the  *)
(* inbox with its leases (webhook-inbox.mjs, 202607200001, 202607200012)   *)
(* and the reconciliation by compare-and-set (stripe-canonical-state.mjs,  *)
(* 202607200006).                                                          *)
(*                                                                         *)
(* One subscription of one account.  Stripe's state moves through versions *)
(* and announces each by an event, delivered again until it is answered    *)
(* with a 2xx.  An invocation never applies what the event carries: it     *)
(* retrieves the state as it is now, writes it under the revision it read, *)
(* and is done only when a second retrieval agrees with what it wrote.     *)
(*                                                                         *)
(* A delivery that finds a live lease is answered 503 and changes nothing, *)
(* so it has no step here.  The heartbeat is the lease that stays live.    *)
(***************************************************************************)
EXTENDS Integers

CONSTANTS
  Invocations,  \* requests the route serves at the same time
  Last,         \* bound: Stripe's versions are 0 .. Last
  Content,      \* what the fingerprint sees of a version
  MaxAttempts,  \* maxAttempts of reconcileCanonicalResource
  MaxFaults,    \* bound: crashes, failing calls and suspensions
  None

ASSUME WebhookAssumption ==
  /\ Last \in Nat /\ MaxFaults \in Nat /\ MaxAttempts \in Nat \ {0}
  /\ DOMAIN Content = 0 .. Last
  /\ None \notin Invocations

Versions == 0 .. Last
Events == 1 .. Last   \* event v announces version v
Contents == {Content[v] : v \in Versions}

VARIABLES
  stripe,   \* the version Stripe is at
  account,  \* the content the billing account shows
  inbox,    \* rows of stripe_webhook_events
  acked,    \* events Stripe has a 2xx for
  call,     \* the invocations
  faults    \* bound

vars == <<stripe, account, inbox, acked, call, faults>>

Busy == {"retrieve", "revision", "write", "confirm", "complete"}

\* A revision matters only as "is it still the one I read", which is current.
Idle == [at |-> "idle", event |-> None, seen |-> None, current |-> FALSE, tries |-> 0]
Started(e) ==
  [at |-> "retrieve", event |-> e, seen |-> None, current |-> FALSE, tries |-> 0]

TypeOK ==
  /\ stripe \in Versions /\ account \in Contents
  /\ inbox \in [Events -> [status : {"absent", "processing", "processed"},
                           owner : Invocations \cup {None}, live : BOOLEAN]]
  /\ acked \subseteq Events
  /\ call \in [Invocations -> [at : Busy \cup {"idle", "fail", "answer"},
                               event : Events \cup {None}, seen : Contents \cup {None},
                               current : BOOLEAN, tries : 0 .. MaxAttempts]]
  /\ faults \in 0 .. MaxFaults

Init ==
  /\ stripe = 0 /\ account = Content[0]
  /\ inbox = [e \in Events |-> [status |-> "absent", owner |-> None, live |-> FALSE]]
  /\ acked = {}
  /\ call = [w \in Invocations |-> Idle]
  /\ faults = 0

-----------------------------------------------------------------------------
(* Stripe. *)

Announced == 1 .. stripe

Change ==
  /\ stripe < Last
  /\ stripe' = stripe + 1
  /\ UNCHANGED <<account, inbox, acked, call, faults>>

\* A delivery of what an earlier one finished, whose answer was lost.
Duplicate(e) ==
  /\ e \in Announced \ acked
  /\ inbox[e].status = "processed"
  /\ acked' = acked \cup {e}
  /\ UNCHANGED <<stripe, account, inbox, call, faults>>

-----------------------------------------------------------------------------
(* The inbox. *)

\* Defect: a claim without completion counts as taken for good.
ClaimableOnce(e) == inbox[e].status = "absent"

Claimable(e) == inbox[e].status # "processed" /\ ~inbox[e].live

Owned(w) ==
  /\ call[w].at # "idle"
  /\ LET row == inbox[call[w].event]
     IN row.status = "processing" /\ row.owner = w /\ row.live

Claim(w, e) ==
  /\ call[w].at = "idle"
  /\ e \in Announced \ acked
  /\ Claimable(e)
  /\ inbox' = [inbox EXCEPT ![e] = [status |-> "processing", owner |-> w, live |-> TRUE]]
  /\ call' = [call EXCEPT ![w] = Started(e)]
  /\ UNCHANGED <<stripe, account, acked, faults>>

\* The final renewal and the completion, which checks the lease again.
Complete(w) ==
  /\ call[w].at = "complete"
  /\ \/ /\ Owned(w)
        /\ inbox' = [inbox EXCEPT ![call[w].event] =
                       [status |-> "processed", owner |-> None, live |-> FALSE]]
        /\ call' = [call EXCEPT ![w].at = "answer"]
     \/ /\ ~Owned(w)
        /\ call' = [call EXCEPT ![w].at = "fail"]
        /\ UNCHANGED inbox
  /\ UNCHANGED <<stripe, account, acked, faults>>

Answer(w) ==
  /\ call[w].at = "answer"
  /\ acked' = acked \cup {call[w].event}
  /\ call' = [call EXCEPT ![w] = Idle]
  /\ UNCHANGED <<stripe, account, inbox, faults>>

\* Any error of apply or complete ends here, and in a 500.
Fail(w) ==
  /\ call[w].at = "fail"
  /\ inbox' = IF Owned(w)
              THEN [inbox EXCEPT ![call[w].event].owner = None, ![call[w].event].live = FALSE]
              ELSE inbox
  /\ call' = [call EXCEPT ![w] = Idle]
  /\ UNCHANGED <<stripe, account, acked, faults>>

-----------------------------------------------------------------------------
(* reconcileCanonicalResource. *)

Retrieve(w) ==
  /\ call[w].at = "retrieve"
  /\ call' = [call EXCEPT ![w].seen = Content[stripe], ![w].at = "revision"]
  /\ UNCHANGED <<stripe, account, inbox, acked, faults>>

ReadRevision(w) ==
  /\ call[w].at = "revision"
  /\ call' = [call EXCEPT ![w].current = TRUE, ![w].at = "write"]
  /\ UNCHANGED <<stripe, account, inbox, acked, faults>>

\* The next round of the loop, or "did not stabilize".
NextAttempt(w) ==
  LET tries == call[w].tries + 1
  IN [call[w] EXCEPT !.tries = tries, !.current = FALSE,
                     !.at = IF tries = MaxAttempts THEN "fail" ELSE "retrieve"]

\* Every other invocation's revision is out of date.
Wrote(w) ==
  [v \in Invocations |-> IF v = w THEN [call[w] EXCEPT !.at = "confirm"]
                                  ELSE [call[v] EXCEPT !.current = FALSE]]

\* Defect: the compare-and-set is not tied to the lease.
WriteUnfenced(w) ==
  /\ call[w].at = "write"
  /\ IF call[w].current
     THEN account' = call[w].seen /\ call' = Wrote(w)
     ELSE call' = [call EXCEPT ![w] = NextAttempt(w)] /\ UNCHANGED account
  /\ UNCHANGED <<stripe, inbox, acked, faults>>

\* Renewal of the lease and compare-and-set in one transaction.
Write(w) ==
  /\ call[w].at = "write"
  /\ \/ ~Owned(w) /\ call' = [call EXCEPT ![w].at = "fail"] /\ UNCHANGED account
     \/ Owned(w) /\ call[w].current /\ account' = call[w].seen /\ call' = Wrote(w)
     \/ /\ Owned(w) /\ ~call[w].current
        /\ call' = [call EXCEPT ![w] = NextAttempt(w)]
        /\ UNCHANGED account
  /\ UNCHANGED <<stripe, inbox, acked, faults>>

\* Defect: what was written is taken for what is there.
ConfirmBlindly(w) ==
  /\ call[w].at = "confirm"
  /\ call' = [call EXCEPT ![w].at = "complete"]
  /\ UNCHANGED <<stripe, account, inbox, acked, faults>>

Confirm(w) ==
  /\ call[w].at = "confirm"
  /\ call' = [call EXCEPT ![w] = IF Content[stripe] = call[w].seen
                                 THEN [call[w] EXCEPT !.at = "complete"]
                                 ELSE NextAttempt(w)]
  /\ UNCHANGED <<stripe, account, inbox, acked, faults>>

-----------------------------------------------------------------------------
(* Time and failures. *)

Serves(w, e) == call[w].at # "idle" /\ call[w].event = e
Deserted(e) == inbox[e].owner = None \/ ~Serves(inbox[e].owner, e)

\* Nobody renews the lease of an invocation that is gone.
LeaseEnds(e) ==
  /\ inbox[e].live /\ Deserted(e)
  /\ inbox' = [inbox EXCEPT ![e].live = FALSE]
  /\ UNCHANGED <<stripe, account, acked, call, faults>>

\* An invocation is suspended for longer than its lease, and then goes on.
Suspended(e) ==
  /\ faults < MaxFaults
  /\ inbox[e].live /\ ~Deserted(e)
  /\ inbox' = [inbox EXCEPT ![e].live = FALSE]
  /\ faults' = faults + 1
  /\ UNCHANGED <<stripe, account, acked, call>>

\* A call to Stripe or the database fails.
CallFails(w) ==
  /\ faults < MaxFaults
  /\ call[w].at \in Busy
  /\ call' = [call EXCEPT ![w].at = "fail"]
  /\ faults' = faults + 1
  /\ UNCHANGED <<stripe, account, inbox, acked>>

\* The write or the completion was done and its reply is lost.
ReplyLost(w) ==
  /\ faults < MaxFaults
  /\ Owned(w)
  /\ \/ /\ call[w].at = "write" /\ call[w].current
        /\ account' = call[w].seen
        /\ call' = [Wrote(w) EXCEPT ![w].at = "fail"]
        /\ UNCHANGED inbox
     \/ /\ call[w].at = "complete"
        /\ inbox' = [inbox EXCEPT ![call[w].event] =
                       [status |-> "processed", owner |-> None, live |-> FALSE]]
        /\ call' = [call EXCEPT ![w].at = "fail"]
        /\ UNCHANGED account
  /\ faults' = faults + 1
  /\ UNCHANGED <<stripe, acked>>

\* The invocation ends without cleanup, or its answer never arrives.
Crash(w) ==
  /\ faults < MaxFaults
  /\ call[w].at # "idle"
  /\ call' = [call EXCEPT ![w] = Idle]
  /\ faults' = faults + 1
  /\ UNCHANGED <<stripe, account, inbox, acked>>

-----------------------------------------------------------------------------

Step(w) ==
  \/ Retrieve(w) \/ ReadRevision(w) \/ Write(w) \/ Confirm(w)
  \/ Complete(w) \/ Answer(w) \/ Fail(w)

Delivered(e) == Duplicate(e) \/ \E w \in Invocations : Claim(w, e)

\* Every event is answered and every invocation has ended.
AllQuiet ==
  /\ stripe = Last /\ acked = Events
  /\ \A w \in Invocations : call[w].at = "idle"
  /\ UNCHANGED vars

Next ==
  \/ Change \/ AllQuiet
  \/ \E e \in Events : Delivered(e) \/ LeaseEnds(e) \/ Suspended(e)
  \/ \E w \in Invocations : Step(w) \/ CallFails(w) \/ ReplyLost(w) \/ Crash(w)

Spec == Init /\ [][Next]_vars

\* An invocation is bounded by maxDuration, a lease by its 60 seconds, and
\* Stripe sends an event again, however often it was refused.
Fairness ==
  /\ \A w \in Invocations : WF_vars(Step(w))
  /\ \A e \in Events : WF_vars(LeaseEnds(e)) /\ SF_vars(Delivered(e))

FairSpec == Spec /\ Fairness

-----------------------------------------------------------------------------
(* Properties. *)

Pending(e) == e \notin acked /\ inbox[e].status # "processed"

\* As long as the account shows something else than Stripe, an event is left
\* that Stripe sends again and the inbox applies again: an older snapshot may
\* overwrite a newer one for a while, but never as the last word.
BehindIsPending == account # Content[stripe] => \E e \in Announced : Pending(e)

\* The account ends up with Stripe's state and every event is acknowledged,
\* whatever crashes, suspensions and lost replies came before.
CatchesUp == <>[](account = Content[stripe] /\ Announced \subseteq acked)
=============================================================================
