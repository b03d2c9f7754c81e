------------------------ MODULE BillingRecoveryProofs ------------------------
(***************************************************************************)
(* Theorems of BillingRecovery for every set of workers and entries, every *)
(* fee, cap and attempt limit, and both ledgers: the types; that what may  *)
(* have been sent is marked; that Stripe counts no fee twice; that a fee   *)
(* Stripe holds stays accounted for; and that what is sent fits under the  *)
(* weekly cap.  All but the types assume that no marker is erased: the     *)
(* settlement ledger, or no 429 from Stripe.                               *)
(***************************************************************************)
EXTENDS BillingRecovery, FiniteSetTheorems, TLAPS

-----------------------------------------------------------------------------
(* The rows. *)

LEMMA ClosedType ==
  ASSUME NEW r \in Row, NEW s \in Statuses
  PROVE  Closed(r, s) \in Row
BY DEF Closed, Row

LEMMA SweptType ==
  ASSUME NEW r \in Row
  PROVE  Swept(r) \in Row
BY ClosedType DEF Swept, Statuses, Open

LEMMA LeasedType ==
  ASSUME NEW r \in Row, NEW w \in Workers
  PROVE  Leased(r, w) \in Row
<1>1. Lower(r.attempts + 1, AttemptCeiling) \in 0..AttemptCeiling
  BY BillingAssumption DEF Lower, Row
<1>2. (IF Settlement THEN r.status ELSE "sending") \in Statuses
  BY DEF Row, Statuses, Open
<1> QED
  BY <1>1, <1>2 DEF Leased, Row

LEMMA RefundedType ==
  ASSUME NEW r \in Row
  PROVE  Refunded(r) \in Row
<1>1. (IF r.attempts = 0 THEN 0 ELSE r.attempts - 1) \in 0..AttemptCeiling
  BY BillingAssumption DEF Row
<1>2. "pending" \in Statuses
  BY DEF Statuses, Open
<1> QED
  BY <1>1, <1>2 DEF Refunded, Row

LEMMA MarkedType ==
  ASSUME NEW r \in Row
  PROVE  Marked(r) \in Row
BY DEF Marked, Row, Statuses, Open

LEMMA UnsentReleasedType ==
  ASSUME NEW r \in Row
  PROVE  UnsentReleased(r) \in Row
BY RefundedType DEF UnsentReleased, Row

LEMMA RetriedType ==
  ASSUME NEW r \in Row
  PROVE  Retried(r) \in Row
<1>1. Lower(AttemptCeiling, Upper(r.limit, r.attempts + 1)) \in 0..AttemptCeiling
  BY BillingAssumption DEF Lower, Upper, Row
<1>2. "pending" \in Statuses
  BY DEF Statuses, Open
<1> QED
  BY <1>1, <1>2 DEF Retried, Row

\* No sweep, lease, release or closing erases a marker, or makes it young again.
KeepsMarker(r, s) ==
  /\ r.marked => s.marked
  /\ r.stale => s.stale

LEMMA SweptKeeps ==
  ASSUME NEW r \in Row
  PROVE  KeepsMarker(r, Swept(r))
BY DEF KeepsMarker, Swept, Closed, Row

LEMMA ReleasedKeeps ==
  ASSUME NEW r \in Row
  PROVE  /\ KeepsMarker(r, Refunded(r))
         /\ \A s \in Statuses : KeepsMarker(r, Closed(r, s))
         /\ \A w \in Workers : KeepsMarker(r, Leased(r, w))
         /\ KeepsMarker(r, Marked(r))
         /\ Settlement => KeepsMarker(r, UnsentReleased(r))
BY DEF KeepsMarker, Refunded, Closed, Leased, Marked, UnsentReleased, Row

-----------------------------------------------------------------------------
(* The types. *)

LEMMA InitType == Init => TypeOK
<1> SUFFICES ASSUME Init PROVE TypeOK
  OBVIOUS
<1>1. NewRow \in Row
  BY BillingAssumption DEF NewRow, Row, Statuses, Open
<1>2. slot \in [Workers -> Slot]
  <2>1. PICK e \in Entries :
          slot = [w \in Workers |-> [at |-> "idle", entry |-> e, replay |-> FALSE,
                                     expected |-> 0, verdict |-> "none"]]
    BY DEF Init
  <2>2. 0 \in Totals
    BY DEF Totals
  <2> QED
    BY <2>1, <2>2 DEF Slot, Places
<1> QED
  BY <1>1, <1>2 DEF Init, TypeOK

LEMMA SlotMoves ==
  ASSUME TypeOK, NEW w \in Workers, NEW p \in Places,
         NEW v \in {"none", "reported", "review", "dead"},
         Goes(w, p) \/ Settles(w, v) \/ Rests(w)
  PROVE  slot' \in [Workers -> Slot]
<1>1. slot[w] \in Slot
  BY DEF TypeOK
<1>2. /\ [slot[w] EXCEPT !.at = p] \in Slot
      /\ [slot[w] EXCEPT !.at = "settle", !.verdict = v] \in Slot
  BY <1>1 DEF Slot, Places
<1>3. [slot[w] EXCEPT !.at = "idle", !.replay = FALSE,
                      !.expected = 0, !.verdict = "none"] \in Slot
  <2>1. 0 \in Totals
    BY DEF Totals
  <2> QED
    BY <1>1, <2>1 DEF Slot, Places
<1>4. CASE Goes(w, p)
  BY <1>2, <1>4 DEF TypeOK, Goes
<1>5. CASE Settles(w, v)
  BY <1>2, <1>5 DEF TypeOK, Settles
<1>6. CASE Rests(w)
  BY <1>3, <1>6 DEF TypeOK, Rests
<1> QED
  BY <1>4, <1>5, <1>6

LEMMA TakesType ==
  ASSUME TypeOK, NEW w \in Workers, NEW e \in Entries, NEW r \in Row, NEW rows,
         Takes(w, e, r, Expected(rows, e))
  PROVE  slot' \in [Workers -> Slot]
<1>1. Expected(rows, e) \in Totals
  <2> DEFINE S == {o \in Entries \ {e} : Committed(rows[o])}
  <2>1. S \in SUBSET Entries
    OBVIOUS
  <2>2. Expected(rows, e) = Fee[e] + SumFees(S)
    BY DEF Expected
  <2> HIDE DEF S
  <2> QED
    BY <2>1, <2>2 DEF Totals
<1>2. [at |-> IF r.marked THEN "reconcile" ELSE "validate",
       entry |-> e, replay |-> r.marked, expected |-> Expected(rows, e),
       verdict |-> "none"] \in Slot
  BY <1>1 DEF Slot, Places, Row
<1> QED
  BY <1>2 DEF Takes, TypeOK

\* A slot that is about to complete its entry has decided how.
Decided == \A w \in Workers : slot[w].at = "settle" => slot[w].verdict # "none"

\* What a claim does to the rows, and that only a leasing one moves the slot.
LEMMA ClaimSplit ==
  ASSUME TypeOK, NEW w \in Workers, Claim(w)
  PROVE  LET swept == [e \in Entries |-> Swept(row[e])]
         IN /\ swept \in [Entries -> Row]
            /\ UNCHANGED <<wire, held, forgot, account>>
            /\ slot[w].at = "idle"
            /\ \/ row' = swept /\ UNCHANGED slot
               \/ \E e \in Entries, s \in Statuses \ Open :
                    row' = [swept EXCEPT ![e] = Closed(@, s)] /\ UNCHANGED slot
               \/ \E e \in Entries :
                    /\ Claimable(swept[e])
                    /\ row' = [swept EXCEPT ![e] = Leased(@, w)]
                    /\ \/ UNCHANGED slot
                       \/ Takes(w, e, swept[e], Expected(swept, e))
<1> DEFINE swept == [e \in Entries |-> Swept(row[e])]
<1>1. swept \in [Entries -> Row]
  BY SweptType DEF TypeOK
<1>2. {"dead", "review", "capped"} \subseteq Statuses \ Open
  BY DEF Statuses, Open
<1> HIDE DEF swept
<1> QED
  BY <1>1, <1>2 DEF Claim, swept

\* The steps that only move a worker's slot decide nothing but Settles.
LEMMA DecidedMoves ==
  ASSUME TypeOK, Decided, NEW w \in Workers, NEW p \in Places \ {"settle"},
         NEW v \in {"reported", "review", "dead"},
         Goes(w, p) \/ Settles(w, v) \/ Rests(w)
  PROVE  Decided'
<1>1. \A x \in Workers : slot[x] \in Slot
  BY DEF TypeOK
<1> QED
  BY <1>1 DEF TypeOK, Decided, Goes, Settles, Rests, Slot

LEMMA NextType == TypeOK /\ Decided /\ [Next]_vars => TypeOK' /\ Decided'
<1> SUFFICES ASSUME TypeOK, Decided, [Next]_vars
             PROVE  TypeOK' /\ Decided'
  OBVIOUS
<1>1. ASSUME NEW w \in Workers, Claim(w)
      PROVE  TypeOK' /\ Decided'
  <2> DEFINE swept == [e \in Entries |-> Swept(row[e])]
  <2>1. swept \in [Entries -> Row] /\ UNCHANGED <<wire, held, forgot, account>>
    BY <1>1, ClaimSplit
  <2>2. CASE row' = swept /\ UNCHANGED slot
    BY <2>1, <2>2 DEF TypeOK, Decided
  <2>3. ASSUME NEW e \in Entries, NEW s \in Statuses \ Open,
               row' = [swept EXCEPT ![e] = Closed(@, s)], UNCHANGED slot
        PROVE  TypeOK' /\ Decided'
    <3> HIDE DEF swept
    <3>1. Closed(swept[e], s) \in Row
      BY <2>1, ClosedType
    <3> QED
      BY <2>1, <2>3, <3>1 DEF TypeOK, Decided
  <2>4. ASSUME NEW e \in Entries, row' = [swept EXCEPT ![e] = Leased(@, w)],
               UNCHANGED slot \/ Takes(w, e, swept[e], Expected(swept, e))
        PROVE  TypeOK' /\ Decided'
    <3> HIDE DEF swept
    <3>1. Leased(swept[e], w) \in Row
      BY <2>1, LeasedType
    <3>2. slot' \in [Workers -> Slot]
      BY <2>1, <2>4, TakesType DEF TypeOK
    <3>3. Decided'
      BY <2>4 DEF Decided, Takes, TypeOK
    <3> QED
      BY <2>1, <2>4, <3>1, <3>2, <3>3 DEF TypeOK
  <2> QED
    BY <1>1, ClaimSplit, <2>2, <2>3, <2>4
<1>2. ASSUME NEW w \in Workers, Cycle(w) \/ Drain(w) \/ Abandon(w)
      PROVE  TypeOK' /\ Decided'
  <2> DEFINE e == slot[w].entry
  <2>1. slot[w] \in Slot /\ e \in Entries /\ row[e] \in Row
    BY DEF TypeOK, Slot
  <2>2. row' \in [Entries -> Row]
    <3>1. Released(w) \in [Entries -> Row]
      BY RefundedType DEF Released, TypeOK
    <3>2. CASE Settle(w)
      <4>1. slot[w].verdict \in Statuses
        BY <2>1, <3>2 DEF Settle, Decided, Slot, Statuses
      <4>2. Closed(row[e], slot[w].verdict) \in Row
        BY <2>1, <4>1, ClosedType
      <4> QED
        BY <2>1, <3>2, <4>2 DEF TypeOK, Settle
    <3>3. CASE Unsend(w)
      <4>1. UnsentReleased(row[e]) \in Row
        BY <2>1, UnsentReleasedType
      <4> QED
        BY <2>1, <3>3, <4>1 DEF TypeOK, Unsend
    <3>4. CASE Begin(w)
      <4>1. Marked(row[e]) \in Row
        BY <2>1, MarkedType
      <4> QED
        BY <2>1, <3>4, <4>1 DEF TypeOK, Begin
    <3>5. CASE Abandon(w)
      <4>1. ASSUME NEW d \in Entries
            PROVE  [row[d] EXCEPT !.owner = IF @ = w THEN Gone ELSE @] \in Row
        BY DEF TypeOK, Row
      <4> QED
        BY <3>5, <4>1 DEF TypeOK, Abandon
    <3>6. CASE \/ Reconcile(w) \/ Validate(w) \/ Send(w) \/ Answer(w)
               \/ Recheck(w) \/ Drain(w)
      BY <3>1, <3>6 DEF TypeOK, Reconcile, Validate, Send, Answer, Recheck, Drain
    <3> QED
      BY <1>2, <3>2, <3>3, <3>4, <3>5, <3>6 DEF Cycle
  <2>3. slot' \in [Workers -> Slot] /\ Decided'
    <3>1. CASE UNCHANGED slot
      BY <3>1 DEF TypeOK, Decided
    <3>2. CASE ~UNCHANGED slot
      <4>1. \/ \E p \in Places \ {"settle"} : Goes(w, p)
            \/ \E v \in {"reported", "review", "dead"} : Settles(w, v)
            \/ Rests(w)
        BY <1>2, <3>2
        DEF Cycle, Reconcile, Validate, Begin, Send, Answer, Recheck, Unsend,
            Settle, Drain, Abandon, Places
      <4>2. "idle" \in Places \ {"settle"} /\ "dead" \in {"reported", "review", "dead"}
        BY DEF Places
      <4> QED
        BY <4>1, <4>2, SlotMoves, DecidedMoves
    <3> QED
      BY <3>1, <3>2
  <2>4. wire' \subseteq Workers \X Entries
    BY <1>2, <2>1
    DEF TypeOK, Cycle, Reconcile, Validate, Begin, Send, Answer, Recheck, Unsend,
        Settle, Drain, Abandon
  <2>5. UNCHANGED <<held, forgot, account>>
    BY <1>2
    DEF Cycle, Reconcile, Validate, Begin, Send, Answer, Recheck, Unsend,
        Settle, Drain, Abandon
  <2> QED
    BY <2>2, <2>3, <2>4, <2>5 DEF TypeOK
<1>3. ASSUME NEW e \in Entries, Resolve(e)
      PROVE  TypeOK' /\ Decided'
  <2>1. row[e] \in Row
    BY DEF TypeOK
  <2>2. \/ row' = [row EXCEPT ![e] = Closed(@, "reported")]
        \/ row' = [row EXCEPT ![e] = Closed(@, "dead")]
        \/ row' = [row EXCEPT ![e] = Retried(@)]
    BY <1>3 DEF Resolve
  <2>3. row' \in [Entries -> Row]
    BY <2>1, <2>2, ClosedType, RetriedType DEF TypeOK, Statuses
  <2> QED
    BY <1>3, <2>3 DEF Resolve, TypeOK, Decided
<1>4. ASSUME NEW e \in Entries,
             Forget(e) \/ LeaseEnds(e) \/ MarkerAges(e) \/ WindowCloses(e)
      PROVE  TypeOK' /\ Decided'
  <2>1. row[e] \in Row
    BY DEF TypeOK
  <2>2. /\ [row[e] EXCEPT !.lease = "over"] \in Row
        /\ [row[e] EXCEPT !.stale = TRUE] \in Row
        /\ [row[e] EXCEPT !.reportable = FALSE] \in Row
    BY <2>1 DEF Row
  <2> QED
    BY <1>4, <2>2
    DEF TypeOK, Decided, Forget, LeaseEnds, MarkerAges, WindowCloses
<1>5. CASE Ingest
  <2>1. PICK e \in Entries : held' \in {held, [held EXCEPT ![e] = @ + 1]}
    BY <1>5 DEF Ingest
  <2>2. held' \in [Entries -> Nat]
    BY <2>1 DEF TypeOK
  <2>3. wire' \subseteq wire /\ UNCHANGED <<row, slot, forgot, account>>
    BY <1>5 DEF Ingest
  <2> QED
    BY <2>2, <2>3 DEF TypeOK, Decided
<1>7. CASE Drop \/ AccountChanges
  BY <1>7 DEF TypeOK, Decided, Drop, AccountChanges
<1>6. CASE UNCHANGED vars
  BY <1>6 DEF TypeOK, Decided, vars
<1> QED
  BY <1>1, <1>2, <1>3, <1>4, <1>5, <1>6, <1>7 DEF Next

THEOREM TypeCorrect == Spec => []TypeOK
<1>1. Init => TypeOK /\ Decided
  <2>1. Init => Decided
    BY DEF Init, Decided
  <2> QED
    BY <2>1, InitType
<1> QED
  BY <1>1, NextType, PTL DEF Spec

-----------------------------------------------------------------------------
(* What may have been sent is marked, and nothing is sent once Stripe forgot. *)

\* A worker about to send, or waiting for the answer, has persisted the marker.
MarkedInHand ==
  \A w \in Workers :
    slot[w].at \in {"post", "waiting"} => row[slot[w].entry].marked

UnsentIsLimited == \A w \in Workers : slot[w].at = "unsent" => RateLimits

\* An entry whose identifier Stripe forgot is past the 23-hour limit: no request
\* of it is under way, and no worker that could still begin one has its lease.
ForgottenIsOver ==
  \A e \in forgot :
    /\ held[e] > 0 /\ row[e].marked /\ row[e].stale
    /\ Quiet(e)
    /\ \A w \in Workers :
         slot[w].entry = e /\ slot[w].at \in {"validate", "begin"}
           => ~InHand(row[e], w)

SendFence ==
  /\ TypeOK /\ Decided
  /\ SentIsMarked /\ MarkedInHand /\ UnsentIsLimited
  /\ ForgottenIsOver
  /\ ChargedOnce

LEMMA InitFence == Init => SendFence
<1> SUFFICES ASSUME Init PROVE SendFence
  OBVIOUS
<1>1. TypeOK
  BY InitType
<1> QED
  BY <1>1
  DEF Init, SendFence, Decided, SentIsMarked, MarkedInHand, UnsentIsLimited,
      ForgottenIsOver, ChargedOnce

\* A row in a worker's hands after a claim was there before, or the claimer has
\* just leased it.
LEMMA ClaimHands ==
  ASSUME NEW r \in Row, NEW w \in Workers, NEW x \in Workers
  PROVE  /\ InHand(Swept(r), x) => InHand(r, x)
         /\ \A s \in Statuses : ~InHand(Closed(r, s), x)
         /\ ~InHand(Refunded(r), x)
         /\ x # w => ~InHand(Leased(r, w), x)
         /\ Claimable(r) => r.status \in Open
BY BillingAssumption
DEF InHand, Swept, Closed, Refunded, Leased, Row, Claimable, Open

LEMMA ClaimFence ==
  ASSUME SendFence, NEW w \in Workers, Claim(w), TypeOK', Decided'
  PROVE  SendFence'
<1> DEFINE swept == [e \in Entries |-> Swept(row[e])]
<1>1. /\ UNCHANGED <<wire, held, forgot, account>>
      /\ slot[w].at = "idle"
      /\ TypeOK
      /\ \A d \in Entries : row[d] \in Row /\ swept[d] \in Row /\ swept[d] = Swept(row[d])
  BY ClaimSplit, SweptType DEF SendFence, TypeOK
<1>2. \A d \in Entries :
        \/ row'[d] = swept[d]
        \/ \E s \in Statuses : row'[d] = Closed(swept[d], s)
        \/ row'[d] = Leased(swept[d], w)
  <2>1. swept \in [Entries -> Row]
    BY <1>1
  <2>2. \/ row' = swept
        \/ \E e \in Entries, s \in Statuses \ Open : row' = [swept EXCEPT ![e] = Closed(@, s)]
        \/ \E e \in Entries : row' = [swept EXCEPT ![e] = Leased(@, w)]
    BY <1>1, ClaimSplit, ZenonT(40)
  <2> HIDE DEF swept
  <2> QED
    BY <2>1, <2>2
<1>3. \/ UNCHANGED slot
      \/ \E e \in Entries :
           slot' = [slot EXCEPT ![w] =
             [at |-> IF swept[e].marked THEN "reconcile" ELSE "validate",
              entry |-> e, replay |-> swept[e].marked,
              expected |-> Expected(swept, e), verdict |-> "none"]]
  BY <1>1, ClaimSplit DEF Takes
<1> HIDE DEF swept
<1>4. \A d \in Entries : KeepsMarker(row[d], row'[d]) /\ KeepsMarker(row[d], swept[d])
  <2> SUFFICES ASSUME NEW d \in Entries
               PROVE  KeepsMarker(row[d], row'[d]) /\ KeepsMarker(row[d], swept[d])
    OBVIOUS
  <2>1. KeepsMarker(row[d], swept[d])
    BY <1>1, SweptKeeps
  <2>2. KeepsMarker(swept[d], row'[d])
    BY <1>1, <1>2, ReleasedKeeps DEF KeepsMarker
  <2> QED
    BY <2>1, <2>2 DEF KeepsMarker
<1>5. \A d \in Entries, x \in Workers :
        x # w /\ InHand(row'[d], x) => InHand(row[d], x)
  BY <1>1, <1>2, ClaimHands
<1>6. \A x \in Workers : x # w => slot'[x] = slot[x]
  BY <1>1, <1>3 DEF TypeOK
<1>7. \/ slot'[w] = slot[w]
      \/ /\ slot'[w].entry \in Entries
         /\ slot'[w].at = IF swept[slot'[w].entry].marked THEN "reconcile" ELSE "validate"
  BY <1>1, <1>3 DEF TypeOK
<1>8. SentIsMarked' /\ ChargedOnce'
  BY <1>1, <1>4 DEF SendFence, SentIsMarked, ChargedOnce, KeepsMarker
<1>9. MarkedInHand' /\ UnsentIsLimited'
  <2>1. \A x \in Workers : slot[x].entry \in Entries
    BY <1>1 DEF TypeOK, Slot
  <2> QED
    BY <1>1, <1>4, <1>6, <1>7, <2>1
    DEF SendFence, MarkedInHand, UnsentIsLimited, KeepsMarker
<1>10. ForgottenIsOver'
  <2> SUFFICES ASSUME NEW e \in forgot
               PROVE  /\ held[e] > 0 /\ row'[e].marked /\ row'[e].stale
                      /\ Quiet(e)'
                      /\ \A x \in Workers :
                           slot'[x].entry = e /\ slot'[x].at \in {"validate", "begin"}
                             => ~InHand(row'[e], x)
    BY <1>1 DEF ForgottenIsOver
  <2>1. e \in Entries
    BY <1>1 DEF TypeOK
  <2>2. row[e].marked /\ row[e].stale /\ swept[e].marked
    BY <1>4, <2>1 DEF SendFence, ForgottenIsOver, KeepsMarker
  <2>3. held[e] > 0 /\ row'[e].marked /\ row'[e].stale
    BY <1>4, <2>1, <2>2 DEF SendFence, ForgottenIsOver, KeepsMarker
  <2>4. Quiet(e)'
    BY <1>1, <1>6, <1>7, <2>1 DEF SendFence, ForgottenIsOver, Quiet
  <2>5. ASSUME NEW x \in Workers, slot'[x].entry = e,
               slot'[x].at \in {"validate", "begin"}
        PROVE  ~InHand(row'[e], x)
    <3>1. x # w
      BY <1>1, <1>7, <2>2, <2>5
    <3> QED
      BY <1>5, <1>6, <2>1, <2>5, <3>1 DEF SendFence, ForgottenIsOver
  <2> QED
    BY <2>3, <2>4, <2>5
<1> QED
  BY <1>8, <1>9, <1>10 DEF SendFence

\* What the worker's own steps do to the rows: no marker is lost as long as none
\* is erased, and no row comes into anyone's hands.
LEMMA CycleRows ==
  ASSUME TypeOK, UnsentIsLimited, Settlement \/ ~RateLimits, NEW w \in Workers,
         Cycle(w) \/ Drain(w) \/ Abandon(w), NEW d \in Entries
  PROVE  /\ KeepsMarker(row[d], row'[d])
         /\ \A x \in Workers : InHand(row'[d], x) => InHand(row[d], x)
<1>1. row[d] \in Row /\ slot[w] \in Slot /\ RateLimits \in BOOLEAN /\ Settlement \in BOOLEAN
  BY BillingAssumption DEF TypeOK
<1> DEFINE e == slot[w].entry
           Good(s) == /\ KeepsMarker(row[d], s)
                      /\ \A x \in Workers : InHand(s, x) => InHand(row[d], x)
<1> SUFFICES Good(row'[d])
  OBVIOUS
<1>2. Good(row[d])
  BY DEF KeepsMarker
<1>3. Good(Refunded(row[d])) /\ \A s \in Statuses : Good(Closed(row[d], s))
  BY <1>1, ReleasedKeeps, ClaimHands
<1>4. Good(Released(w)[d])
  BY <1>2, <1>3 DEF Released
<1>5. CASE Begin(w)
  <2>1. InHand(row[d], w) => Good(Marked(row[d]))
    BY <1>1, ReleasedKeeps DEF InHand, Marked, Row
  <2> HIDE DEF Good
  <2> QED
    BY <1>2, <1>5, <2>1 DEF Begin, TypeOK
<1>6. CASE Unsend(w)
  <2>1. Settlement /\ UnsentReleased(row[d]) = Refunded(row[d])
    BY <1>1, <1>6 DEF Unsend, UnsentIsLimited, UnsentReleased
  <2> HIDE DEF Good
  <2> QED
    BY <1>2, <1>3, <1>6, <2>1 DEF Unsend, TypeOK
<1>7. CASE Settle(w)
  <2>1. row'[d] # row[d] => row'[d] = Closed(row[d], slot[w].verdict)
    BY <1>7 DEF Settle, TypeOK
  <2>2. KeepsMarker(row[d], Closed(row[d], slot[w].verdict))
    BY <1>1 DEF KeepsMarker, Closed, Row
  <2>3. \A x \in Workers : ~InHand(Closed(row[d], slot[w].verdict), x)
    BY <1>1, BillingAssumption DEF InHand, Closed, Row
  <2> QED
    BY <1>2, <2>1, <2>2, <2>3
<1>8. CASE Abandon(w)
  <2>1. Good([row[d] EXCEPT !.owner = IF @ = w THEN Gone ELSE @])
    BY <1>1, BillingAssumption DEF KeepsMarker, InHand, Row
  <2> HIDE DEF Good
  <2> QED
    BY <1>2, <1>8, <2>1 DEF Abandon
<1>9. CASE Validate(w) \/ Drain(w)
  <2> HIDE DEF Good
  <2> QED
    BY <1>2, <1>4, <1>9 DEF Validate, Drain
<1>10. CASE Reconcile(w) \/ Send(w) \/ Answer(w) \/ Recheck(w)
  BY <1>2, <1>10 DEF Reconcile, Send, Answer, Recheck
<1> QED
  BY <1>5, <1>6, <1>7, <1>8, <1>9, <1>10 DEF Cycle

\* What they do to the slot and the wire: only Begin, on a row in hand, opens the
\* way to send, and only a reclaimed entry young enough comes back to it.
LEMMA CycleMoves ==
  ASSUME TypeOK, NEW w \in Workers, Cycle(w) \/ Drain(w) \/ Abandon(w)
  PROVE  /\ UNCHANGED <<held, forgot>>
         /\ \A x \in Workers : x # w => slot'[x] = slot[x]
         /\ slot'[w].entry = slot[w].entry
         /\ \/ wire' \subseteq wire
            \/ slot[w].at = "post" /\ wire' = wire \cup {<<w, slot[w].entry>>}
         /\ slot'[w].at \in {"post", "waiting"} =>
              \/ slot[w].at \in {"post", "waiting"}
              \/ /\ slot[w].at = "begin"
                 /\ InHand(row[slot[w].entry], w)
                 /\ row'[slot[w].entry].marked
         /\ slot'[w].at = "unsent" => RateLimits
         /\ slot'[w].at \in {"validate", "begin"} =>
              \/ slot[w].at \in {"validate", "begin"}
              \/ ~row[slot[w].entry].stale
<1>1. slot[w] \in Slot /\ slot \in [Workers -> Slot]
  BY DEF TypeOK
<1>2. CASE Begin(w)
  <2>1. row[slot[w].entry] \in Row
    BY <1>1 DEF TypeOK, Slot
  <2>2. Marked(row[slot[w].entry]).marked
    BY <2>1 DEF Marked, Row
  <2> QED
    BY <1>1, <1>2, <2>1, <2>2 DEF Begin, Goes, Rests, TypeOK, Slot
<1>3. CASE Settle(w) \/ Unsend(w) \/ Abandon(w) \/ Recheck(w)
  BY <1>1, <1>3 DEF Settle, Unsend, Abandon, Recheck, Rests, Settles, Slot
<1>4. CASE Reconcile(w) \/ Validate(w)
  BY <1>1, <1>4 DEF Reconcile, Validate, Rests, Settles, Goes, Slot
<1>5. CASE Send(w) \/ Answer(w)
  BY <1>1, <1>5 DEF Send, Answer, Settles, Goes, Slot
<1>6. CASE Drain(w)
  BY <1>1, <1>6 DEF Drain
<1> QED
  BY <1>2, <1>3, <1>4, <1>5, <1>6 DEF Cycle

LEMMA CycleFence ==
  ASSUME SendFence, Settlement \/ ~RateLimits, NEW w \in Workers,
         Cycle(w) \/ Drain(w) \/ Abandon(w), TypeOK', Decided'
  PROVE  SendFence'
<1> DEFINE mine == slot[w].entry
<1>1. TypeOK /\ SentIsMarked /\ MarkedInHand /\ UnsentIsLimited /\ ForgottenIsOver
  BY DEF SendFence
<1>2. mine \in Entries /\ \A x \in Workers : slot[x].entry \in Entries
  BY <1>1 DEF TypeOK, Slot
<1>3. \A d \in Entries : /\ KeepsMarker(row[d], row'[d])
                         /\ \A x \in Workers : InHand(row'[d], x) => InHand(row[d], x)
  BY <1>1, CycleRows
<1>4. /\ UNCHANGED <<held, forgot>>
      /\ \A x \in Workers : x # w => slot'[x] = slot[x]
      /\ slot'[w].entry = mine
      /\ \/ wire' \subseteq wire
         \/ slot[w].at = "post" /\ wire' = wire \cup {<<w, mine>>}
      /\ slot'[w].at \in {"post", "waiting"} =>
           \/ slot[w].at \in {"post", "waiting"}
           \/ slot[w].at = "begin" /\ InHand(row[mine], w) /\ row'[mine].marked
      /\ slot'[w].at = "unsent" => RateLimits
      /\ slot'[w].at \in {"validate", "begin"} =>
           slot[w].at \in {"validate", "begin"} \/ ~row[mine].stale
  BY <1>1, CycleMoves
<1>5. ChargedOnce'
  BY <1>4 DEF SendFence, ChargedOnce
<1>6. SentIsMarked'
  <2> SUFFICES ASSUME NEW e \in Entries,
                      held[e] > 0 \/ (\E x \in Workers : <<x, e>> \in wire')
               PROVE  row'[e].marked
    BY <1>4 DEF SentIsMarked
  <2>1. row[e].marked
    <3>1. CASE held[e] > 0 \/ (\E x \in Workers : <<x, e>> \in wire)
      BY <1>1, <3>1 DEF SentIsMarked
    <3>2. CASE slot[w].at = "post" /\ e = mine
      BY <1>1, <3>2 DEF MarkedInHand
    <3> QED
      BY <1>4, <3>1, <3>2
  <2> QED
    BY <1>3, <2>1 DEF KeepsMarker
<1>7. MarkedInHand' /\ UnsentIsLimited'
  BY <1>1, <1>2, <1>3, <1>4 DEF MarkedInHand, UnsentIsLimited, KeepsMarker
<1>8. ForgottenIsOver'
  <2> SUFFICES ASSUME NEW e \in forgot
               PROVE  /\ held[e] > 0 /\ row'[e].marked /\ row'[e].stale
                      /\ Quiet(e)'
                      /\ \A x \in Workers :
                           slot'[x].entry = e /\ slot'[x].at \in {"validate", "begin"}
                             => ~InHand(row'[e], x)
    BY <1>4 DEF ForgottenIsOver
  <2>1. /\ e \in Entries /\ held[e] > 0 /\ row[e].marked /\ row[e].stale
        /\ Quiet(e)
        /\ \A x \in Workers :
             slot[x].entry = e /\ slot[x].at \in {"validate", "begin"}
               => ~InHand(row[e], x)
    BY <1>1 DEF ForgottenIsOver, TypeOK
  <2>2. row'[e].marked /\ row'[e].stale
    BY <1>3, <2>1 DEF KeepsMarker
  <2>3. Quiet(e)'
    <3>1. \A x \in Workers :
            ~(slot'[x].entry = e /\ slot'[x].at \in {"post", "waiting"})
      BY <1>4, <2>1 DEF Quiet
    <3>2. \A x \in Workers : <<x, e>> \notin wire'
      BY <1>4, <2>1 DEF Quiet
    <3> QED
      BY <3>1, <3>2 DEF Quiet
  <2>4. \A x \in Workers :
          slot'[x].entry = e /\ slot'[x].at \in {"validate", "begin"}
            => ~InHand(row'[e], x)
    BY <1>3, <1>4, <2>1
  <2> QED
    BY <2>1, <2>2, <2>3, <2>4
<1> QED
  BY <1>5, <1>6, <1>7, <1>8 DEF SendFence

LEMMA IngestFence ==
  ASSUME SendFence, Ingest, TypeOK', Decided'
  PROVE  SendFence'
<1>1. PICK w \in Workers, e \in Entries :
        /\ <<w, e>> \in wire
        /\ wire' = wire \ {<<w, e>>}
        /\ held' = IF held[e] = 0 \/ e \in forgot
                   THEN [held EXCEPT ![e] = @ + 1] ELSE held
        /\ UNCHANGED <<row, slot, forgot, account>>
  BY DEF Ingest
<1>2. e \notin forgot
  BY <1>1 DEF SendFence, ForgottenIsOver, Quiet
<1>3. /\ held' = held \/ (held[e] = 0 /\ held' = [held EXCEPT ![e] = @ + 1])
      /\ row[e].marked
  BY <1>1, <1>2 DEF SendFence, SentIsMarked
<1>4. \A d \in Entries : held[d] \in Nat
  BY DEF SendFence, TypeOK
<1>5. SentIsMarked' /\ ChargedOnce'
  <2>1. \A d \in Entries : d # e => held'[d] = held[d]
    BY <1>3 DEF SendFence, TypeOK
  <2>2. held'[e] = held[e] \/ held'[e] = 1
    BY <1>3, <1>4 DEF SendFence, TypeOK
  <2>3. ChargedOnce'
    BY <2>1, <2>2 DEF SendFence, ChargedOnce
  <2>4. SentIsMarked'
    BY <1>1, <1>3, <2>1 DEF SendFence, SentIsMarked
  <2> QED
    BY <2>3, <2>4
<1>6. ForgottenIsOver'
  BY <1>1, <1>3, <1>4 DEF SendFence, ForgottenIsOver, Quiet, TypeOK
<1> QED
  BY <1>1, <1>5, <1>6 DEF SendFence, MarkedInHand, UnsentIsLimited

LEMMA ResolveFence ==
  ASSUME SendFence, NEW e \in Entries, Resolve(e), TypeOK', Decided'
  PROVE  SendFence'
<1>1. /\ UNCHANGED <<slot, wire, held, forgot>> /\ Quiet(e)
      /\ row[e] \in Row /\ held[e] \in Nat
      /\ \A d \in Entries : d # e => row'[d] = row[d]
  BY DEF Resolve, SendFence, TypeOK
<1>2. \/ \E s \in Statuses : row'[e] = Closed(row[e], s)
      \/ held[e] = 0 /\ row'[e] = Retried(row[e])
  BY DEF Resolve, SendFence, TypeOK, Statuses
<1>3. KeepsMarker(row[e], row'[e]) \/ held[e] = 0
  BY <1>1, <1>2, ReleasedKeeps
<1>4. \A x \in Workers : ~InHand(row'[e], x)
  <2>1. \A x \in Workers : ~InHand(Retried(row[e]), x)
    BY <1>1, BillingAssumption DEF InHand, Retried, Row
  <2>2. \A x \in Workers, s \in Statuses : ~InHand(Closed(row[e], s), x)
    BY <1>1, ClaimHands
  <2> QED
    BY <1>2, <2>1, <2>2
<1>5. SentIsMarked' /\ ChargedOnce'
  <2>1. ChargedOnce'
    BY <1>1 DEF SendFence, ChargedOnce
  <2>2. \A w \in Workers : <<w, e>> \notin wire
    BY <1>1 DEF Quiet
  <2>3. held[e] > 0 => row'[e].marked
    BY <1>1, <1>3 DEF SendFence, SentIsMarked, KeepsMarker
  <2> QED
    BY <1>1, <2>1, <2>2, <2>3 DEF SendFence, SentIsMarked
<1>6. MarkedInHand' /\ UnsentIsLimited'
  <2>1. \A w \in Workers : slot[w].entry \in Entries
    BY DEF SendFence, TypeOK, Slot
  <2> QED
    BY <1>1, <2>1 DEF SendFence, MarkedInHand, UnsentIsLimited, Quiet
<1>7. ForgottenIsOver'
  <2>1. forgot \subseteq Entries
    BY DEF SendFence, TypeOK
  <2>2. e \in forgot => held[e] > 0
    BY DEF SendFence, ForgottenIsOver
  <2> QED
    BY <1>1, <1>3, <1>4, <2>1, <2>2
    DEF SendFence, ForgottenIsOver, KeepsMarker, Quiet
<1> QED
  BY <1>5, <1>6, <1>7 DEF SendFence

\* Time: leases end, markers age, windows close, and Stripe forgets.
LEMMA TimeFence ==
  ASSUME SendFence, NEW e \in Entries,
         Forget(e) \/ LeaseEnds(e) \/ MarkerAges(e) \/ WindowCloses(e),
         TypeOK', Decided'
  PROVE  SendFence'
<1>1. UNCHANGED <<slot, wire, held>> /\ row \in [Entries -> Row]
  BY DEF Forget, LeaseEnds, MarkerAges, WindowCloses, SendFence, TypeOK
<1>2. \A d \in Entries :
        /\ row'[d].marked = row[d].marked
        /\ row[d].stale => row'[d].stale
        /\ \A x \in Workers : InHand(row'[d], x) => InHand(row[d], x)
  <2>1. row[e] \in Row
    BY <1>1
  <2>2. row'[e] \in {row[e], [row[e] EXCEPT !.lease = "over"],
                     [row[e] EXCEPT !.stale = TRUE],
                     [row[e] EXCEPT !.reportable = FALSE]}
    BY <1>1 DEF Forget, LeaseEnds, MarkerAges, WindowCloses
  <2>3. \A d \in Entries : d # e => row'[d] = row[d]
    BY <1>1 DEF Forget, LeaseEnds, MarkerAges, WindowCloses
  <2>4. /\ row'[e].marked = row[e].marked
        /\ row[e].stale => row'[e].stale
        /\ \A x \in Workers : InHand(row'[e], x) => InHand(row[e], x)
    BY <2>1, <2>2 DEF Row, InHand
  <2> QED
    BY <2>3, <2>4
<1>3. SentIsMarked' /\ ChargedOnce' /\ MarkedInHand' /\ UnsentIsLimited'
  <2>1. \A w \in Workers : slot[w].entry \in Entries
    BY DEF SendFence, TypeOK, Slot
  <2> QED
    BY <1>1, <1>2, <2>1
    DEF SendFence, SentIsMarked, ChargedOnce, MarkedInHand, UnsentIsLimited
<1>4. ForgottenIsOver'
  <2>1. forgot \subseteq Entries
    BY DEF SendFence, TypeOK
  <2>2. CASE UNCHANGED forgot
    BY <1>1, <1>2, <2>1, <2>2 DEF SendFence, ForgottenIsOver, Quiet
  <2>3. CASE Forget(e)
    <3>1. /\ held[e] > 0 /\ row[e].marked /\ row[e].stale
          /\ Quiet(e)
          /\ \A w \in Workers : ~InHand(row[e], w)
      BY <2>3 DEF SendFence, SentIsMarked, Forget, InHand
    <3>2. forgot' = forgot \cup {e} /\ UNCHANGED row
      BY <2>3 DEF Forget
    <3> QED
      BY <1>1, <3>1, <3>2 DEF SendFence, ForgottenIsOver, Quiet
  <2> QED
    BY <2>2, <2>3 DEF LeaseEnds, MarkerAges, WindowCloses
<1> QED
  BY <1>3, <1>4 DEF SendFence

LEMMA NextFence ==
  ASSUME Settlement \/ ~RateLimits
  PROVE  SendFence /\ [Next]_vars => SendFence'
<1> SUFFICES ASSUME SendFence, [Next]_vars
             PROVE  SendFence'
  OBVIOUS
<1>1. TypeOK' /\ Decided'
  BY NextType DEF SendFence
<1>2. CASE Drop \/ AccountChanges
  <2>1. wire' \subseteq wire /\ UNCHANGED <<row, slot, held, forgot>>
    BY <1>2 DEF Drop, AccountChanges
  <2> QED
    BY <1>1, <2>1
    DEF SendFence, SentIsMarked, MarkedInHand, UnsentIsLimited,
        ForgottenIsOver, Quiet, ChargedOnce
<1>3. CASE UNCHANGED vars
  BY <1>1, <1>3
  DEF vars, SendFence, SentIsMarked, MarkedInHand, UnsentIsLimited,
      ForgottenIsOver, Quiet, ChargedOnce
<1> QED
  BY <1>1, <1>2, <1>3, ClaimFence, CycleFence, IngestFence, ResolveFence, TimeFence
  DEF Next

\* The marker is persisted before anything is sent and stays while it may matter:
\* begin_send in _process_entry, and the functions of the ledger.
THEOREM MarkerCorrect ==
  ASSUME Settlement \/ ~RateLimits
  PROVE  Spec => []SentIsMarked
<1>1. SendFence => SentIsMarked
  BY DEF SendFence
<1> QED
  BY <1>1, InitFence, NextFence, PTL DEF Spec

\* Stripe counts no fee twice, whatever crashes, lapses, is lost or is replayed.
THEOREM ChargedCorrect ==
  ASSUME Settlement \/ ~RateLimits
  PROVE  Spec => []ChargedOnce
<1>1. SendFence => ChargedOnce
  BY DEF SendFence
<1> QED
  BY <1>1, InitFence, NextFence, PTL DEF Spec

-----------------------------------------------------------------------------
(* A fee Stripe holds stays accounted for. *)

\* A marked row is neither capped nor expired, and the per-row ledger returns no
\* marked row to the queue.
Spared(r) ==
  /\ r.marked => r.status \notin {"capped", "expired"}
  /\ ~Settlement /\ r.status = "pending" => ~r.marked

LedgerKept == \A e \in Entries : Spared(row[e])

LEMMA InitKept == Init => LedgerKept
BY DEF Init, LedgerKept, Spared, NewRow

\* What the functions of the ledger do to a row.
LEMMA RowSpared ==
  ASSUME NEW r \in Row, Spared(r)
  PROVE  /\ Spared(Swept(r))
         /\ \A w \in Workers : Claimable(r) => Spared(Leased(r, w))
         /\ Settlement \/ ~r.marked => Spared(Refunded(r))
         /\ \A s \in {"reported", "review", "dead"} : Spared(Closed(r, s))
         /\ ~r.marked => Spared(Closed(r, "capped"))
         /\ Spared(Marked(r))
         /\ Settlement => Spared(UnsentReleased(r))
         /\ Spared(Retried(r))
<1>1. Spared(Swept(r))
  BY BillingAssumption DEF Spared, Swept, TooOld, Closed, Row
<1>2. \A w \in Workers : Claimable(r) => Spared(Leased(r, w))
  BY BillingAssumption DEF Spared, Leased, Claimable, Row
<1>3. Settlement \/ ~r.marked => Spared(Refunded(r))
  BY DEF Spared, Refunded, Row
<1>4. /\ \A s \in {"reported", "review", "dead"} : Spared(Closed(r, s))
      /\ ~r.marked => Spared(Closed(r, "capped"))
  BY DEF Spared, Closed, Row
<1>5. Spared(Marked(r)) /\ Spared(Retried(r))
  BY DEF Spared, Marked, Retried, Row
<1>6. Settlement => UnsentReleased(r) = Refunded(r)
  BY DEF UnsentReleased
<1> QED
  BY <1>1, <1>2, <1>3, <1>4, <1>5, <1>6

\* What a claim does to the rows: one row at most is retired or leased.
LEMMA ClaimTakes ==
  ASSUME NEW w \in Workers, Claim(w)
  PROVE  LET swept == [e \in Entries |-> Swept(row[e])]
         IN \/ row' = swept
            \/ \E e \in Entries, s \in {"dead", "review", "capped"} :
                 /\ Claimable(swept[e])
                 /\ s = "capped" => OverCap(swept, e)
                 /\ row' = [swept EXCEPT ![e] = Closed(@, s)]
            \/ \E e \in Entries :
                 /\ Claimable(swept[e]) /\ ~OverCap(swept, e)
                 /\ row' = [swept EXCEPT ![e] = Leased(@, w)]
BY ZenonT(40) DEF Claim

LEMMA ClaimRows ==
  ASSUME TypeOK, LedgerKept, NEW w \in Workers, Claim(w), NEW d \in Entries
  PROVE  Spared(row'[d])
<1> DEFINE swept == [e \in Entries |-> Swept(row[e])]
<1>1. /\ swept[d] = Swept(row[d]) /\ swept[d] \in Row /\ row[d] \in Row
      /\ swept \in [Entries -> Row]
  BY SweptType DEF TypeOK
<1>2. Spared(swept[d])
  BY <1>1, RowSpared DEF LedgerKept
<1>3. \/ row' = swept
      \/ \E e \in Entries, s \in {"dead", "review", "capped"} :
           /\ Claimable(swept[e])
           /\ s = "capped" => OverCap(swept, e)
           /\ row' = [swept EXCEPT ![e] = Closed(@, s)]
      \/ \E e \in Entries :
           /\ Claimable(swept[e]) /\ ~OverCap(swept, e)
           /\ row' = [swept EXCEPT ![e] = Leased(@, w)]
  BY ClaimTakes
<1> HIDE DEF swept
<1>4. CASE row' = swept
  BY <1>2, <1>4
<1>5. ASSUME NEW e \in Entries, NEW s \in {"dead", "review", "capped"},
             s = "capped" => OverCap(swept, e),
             row' = [swept EXCEPT ![e] = Closed(@, s)]
      PROVE  Spared(row'[d])
  <2>1. CASE d # e
    BY <1>1, <1>2, <1>5, <2>1
  <2>2. CASE d = e
    <3>1. s = "capped" => ~swept[d].marked
      BY <1>2, <1>5, <2>2, BillingAssumption DEF OverCap, Spared
    <3>2. row'[d] = Closed(swept[d], s)
      BY <1>1, <1>5, <2>2
    <3> QED
      BY <1>1, <1>2, <3>1, <3>2, RowSpared
  <2> QED
    BY <2>1, <2>2
<1>6. ASSUME NEW e \in Entries, Claimable(swept[e]),
             row' = [swept EXCEPT ![e] = Leased(@, w)]
      PROVE  Spared(row'[d])
  <2>1. CASE d # e
    BY <1>1, <1>2, <1>6, <2>1
  <2>2. CASE d = e
    <3>1. row'[d] = Leased(swept[d], w)
      BY <1>1, <1>6, <2>2
    <3> QED
      BY <1>1, <1>2, <1>6, <2>2, <3>1, RowSpared
  <2> QED
    BY <2>1, <2>2
<1> QED
  BY <1>3, <1>4, <1>5, <1>6

LEMMA CycleKeptRows ==
  ASSUME TypeOK, UnsentIsLimited, Decided, LedgerKept, Settlement \/ ~RateLimits,
         NEW w \in Workers, Cycle(w) \/ Drain(w) \/ Abandon(w), NEW d \in Entries
  PROVE  Spared(row'[d])
<1>1. /\ row[d] \in Row /\ slot[w] \in Slot /\ Spared(row[d])
      /\ RateLimits \in BOOLEAN /\ Settlement \in BOOLEAN
  BY BillingAssumption DEF TypeOK, LedgerKept
<1>2. Unstarted(row[d], w) => Spared(Refunded(row[d]))
  BY <1>1, RowSpared DEF Unstarted
<1>3. Spared(Released(w)[d])
  BY <1>1, <1>2 DEF Released
<1>4. CASE Begin(w)
  <2>1. Spared(Marked(row[d]))
    BY <1>1, RowSpared
  <2> QED
    BY <1>1, <1>4, <2>1 DEF Begin, TypeOK
<1>5. CASE Unsend(w)
  <2>1. Spared(UnsentReleased(row[d]))
    BY <1>1, <1>5, RowSpared DEF Unsend, UnsentIsLimited
  <2> QED
    BY <1>1, <1>5, <2>1 DEF Unsend, TypeOK
<1>6. CASE Settle(w)
  <2>1. slot[w].verdict \in {"reported", "review", "dead"}
    BY <1>1, <1>6 DEF Settle, Decided, Slot
  <2>2. row'[d] \in {row[d], Closed(row[d], slot[w].verdict)}
    BY <1>6 DEF Settle, TypeOK
  <2> QED
    BY <1>1, <2>1, <2>2, RowSpared
<1>7. CASE Abandon(w)
  <2>1. Spared([row[d] EXCEPT !.owner = IF @ = w THEN Gone ELSE @])
    BY <1>1 DEF Spared, Row
  <2> QED
    BY <1>1, <1>7, <2>1 DEF Abandon
<1>8. CASE Validate(w) \/ Drain(w)
  BY <1>1, <1>3, <1>8 DEF Validate, Drain
<1>9. CASE Reconcile(w) \/ Send(w) \/ Answer(w) \/ Recheck(w)
  BY <1>1, <1>9 DEF Reconcile, Send, Answer, Recheck
<1> QED
  BY <1>4, <1>5, <1>6, <1>7, <1>8, <1>9 DEF Cycle

\* Time changes neither a row's status nor its marker nor its owner.
LEMMA TimeRows ==
  ASSUME TypeOK, NEW e \in Entries,
         Forget(e) \/ LeaseEnds(e) \/ MarkerAges(e) \/ WindowCloses(e),
         NEW d \in Entries
  PROVE  /\ row'[d].marked = row[d].marked /\ row'[d].status = row[d].status
         /\ row'[d].owner = row[d].owner
<1>1. row \in [Entries -> Row] /\ row[e] \in Row
  BY DEF TypeOK
<1>2. row'[e] \in {row[e], [row[e] EXCEPT !.lease = "over"],
                   [row[e] EXCEPT !.stale = TRUE],
                   [row[e] EXCEPT !.reportable = FALSE]}
  BY <1>1 DEF Forget, LeaseEnds, MarkerAges, WindowCloses
<1>3. d # e => row'[d] = row[d]
  BY <1>1 DEF Forget, LeaseEnds, MarkerAges, WindowCloses
<1> QED
  BY <1>1, <1>2, <1>3 DEF Row

LEMMA NextKept ==
  ASSUME Settlement \/ ~RateLimits
  PROVE  SendFence /\ LedgerKept /\ [Next]_vars => LedgerKept'
<1> SUFFICES ASSUME SendFence, LedgerKept, [Next]_vars
             PROVE  LedgerKept'
  OBVIOUS
<1>1. TypeOK /\ Decided /\ UnsentIsLimited
  BY DEF SendFence
<1>2. ASSUME NEW w \in Workers, Claim(w) \/ Cycle(w) \/ Drain(w) \/ Abandon(w)
      PROVE  LedgerKept'
  BY <1>1, <1>2, ClaimRows, CycleKeptRows DEF LedgerKept
<1>3. ASSUME NEW e \in Entries, Resolve(e)
      PROVE  LedgerKept'
  <2>1. /\ row[e] \in Row /\ Spared(row[e])
        /\ \A d \in Entries : d # e => row'[d] = row[d]
    BY <1>1, <1>3 DEF Resolve, TypeOK, LedgerKept
  <2>2. row'[e] \in {Closed(row[e], "reported"), Closed(row[e], "dead"),
                     Retried(row[e])}
    BY <1>1, <1>3 DEF Resolve, TypeOK
  <2>3. Spared(row'[e])
    BY <2>1, <2>2, RowSpared
  <2> QED
    BY <2>1, <2>3 DEF LedgerKept
<1>4. ASSUME NEW e \in Entries,
             Forget(e) \/ LeaseEnds(e) \/ MarkerAges(e) \/ WindowCloses(e)
      PROVE  LedgerKept'
  BY <1>1, <1>4, TimeRows DEF LedgerKept, Spared
<1>5. CASE Ingest \/ Drop \/ AccountChanges \/ UNCHANGED vars
  BY <1>5 DEF Ingest, Drop, AccountChanges, vars, LedgerKept
<1> QED
  BY <1>2, <1>3, <1>4, <1>5 DEF Next

\* Marked, and neither capped, expired nor back in the queue: committed, or dead.
LEMMA KeptAccounted == SendFence /\ LedgerKept => HeldIsAccounted
<1> SUFFICES ASSUME SendFence, LedgerKept, NEW e \in Entries, held[e] > 0
             PROVE  /\ row[e].status \notin {"capped", "expired"}
                    /\ \/ Committed(row[e])
                       \/ ~Settlement /\ row[e].status = "dead"
  BY DEF HeldIsAccounted
<1>1. row[e] \in Row /\ row[e].marked /\ Spared(row[e]) /\ Settlement \in BOOLEAN
  BY BillingAssumption DEF SendFence, SentIsMarked, TypeOK, LedgerKept
<1> QED
  BY <1>1 DEF Spared, Committed, Row, Statuses, Open

\* A fee Stripe holds stays in the sum that the cap and the expected total are
\* computed from, or, in the per-row ledger only, is on the list of dead rows;
\* it is never closed as one that was not sent: the committed sum of
\* claim_billing_ledger_entries, its sweeps, every answer of Stripe, a lapse of
\* the account and the operator's resolution.
THEOREM AccountedCorrect ==
  ASSUME Settlement \/ ~RateLimits
  PROVE  Spec => []HeldIsAccounted
<1>1. Init => SendFence /\ LedgerKept
  BY InitFence, InitKept
<1>2. SendFence /\ LedgerKept /\ [Next]_vars => (SendFence /\ LedgerKept)'
  BY NextFence, NextKept
<1> QED
  BY <1>1, <1>2, KeptAccounted, PTL DEF Spec

-----------------------------------------------------------------------------
(* Sums over finite sets.  A sum is a recursive function on the subsets;   *)
(* what is shown of it is shown of a smallest subset for which it fails.   *)

\* Among subsets of a finite set one contains no other.
LEMMA SmallestSubset ==
  ASSUME NEW E, IsFiniteSet(E), NEW T \in SUBSET SUBSET E, T # {}
  PROVE  \E s \in T : \A t \in SUBSET s : t # s => t \notin T
<1>1. IsWellFoundedOn(StrictSubsetOrdering(E), SUBSET E)
  BY FS_StrictSubsetOrderingWellFounded, FS_FiniteSubsetsOfFinite
<1>2. PICK s \in T : \A t \in T : <<t, s>> \notin StrictSubsetOrdering(E)
  BY <1>1, WFMin
<1>3. ASSUME NEW t \in SUBSET s, t # s, t \in T
      PROVE  FALSE
  <2>1. <<t, s>> \in (SUBSET E) \X (SUBSET E)
    BY <1>3
  <2>2. <<t, s>> \in StrictSubsetOrdering(E)
    BY <1>3, <2>1 DEF StrictSubsetOrdering
  <2> QED
    BY <1>2, <1>3, <2>2
<1> QED
  BY <1>3

Pick(s) == CHOOSE y \in s : TRUE

\* it[s] is the sum of f over s, for every subset s of E.
Adds(f, E, it) ==
  \A s \in SUBSET E : it[s] = IF s = {} THEN 0 ELSE f[Pick(s)] + it[s \ {Pick(s)}]

Sums(f, E, it) == it \in [SUBSET E -> Nat] /\ Adds(f, E, it)

\* The element taken out is one of the set.
LEMMA PickIsIn ==
  ASSUME NEW s, s # {}
  PROVE  Pick(s) \in s
BY DEF Pick

\* There is one sum, whatever set it is a function on.
LEMMA SumsAgree ==
  ASSUME NEW f, NEW E, IsFiniteSet(E), NEW A \in SUBSET E, NEW it, NEW jt,
         Sums(f, E, it), Adds(f, A, jt)
  PROVE  \A s \in SUBSET A : it[s] = jt[s]
<1> DEFINE T == {s \in SUBSET A : it[s] # jt[s]}
<1> SUFFICES ASSUME T # {} PROVE FALSE
  OBVIOUS
<1>1. T \in SUBSET SUBSET E
  OBVIOUS
<1> HIDE DEF T
<1>2. PICK s \in T : \A t \in SUBSET s : t # s => t \notin T
  BY <1>1, SmallestSubset
<1> USE DEF T
<1>3. s \in SUBSET A /\ it[s] # jt[s] /\ s \in SUBSET E
  BY <1>2
<1>4. s # {}
  BY <1>3 DEF Sums, Adds
<1>5. Pick(s) \in s
  BY <1>4, PickIsIn
<1>6. s \ {Pick(s)} \in SUBSET s /\ s \ {Pick(s)} # s
  BY <1>5
<1>7. it[s \ {Pick(s)}] = jt[s \ {Pick(s)}]
  BY <1>2, <1>3, <1>6
<1>8. /\ it[s] = f[Pick(s)] + it[s \ {Pick(s)}]
      /\ jt[s] = f[Pick(s)] + jt[s \ {Pick(s)}]
  BY <1>3, <1>4 DEF Sums, Adds
<1> QED
  BY <1>3, <1>7, <1>8

\* Every function to the naturals has one.
LEMMA SumsExist ==
  ASSUME NEW E, IsFiniteSet(E), NEW f \in [E -> Nat]
  PROVE  \E it : Sums(f, E, it)
<1> DEFINE T == {s \in SUBSET E : ~\E it : Sums(f, s, it)}
<1> SUFFICES ASSUME T # {} PROVE FALSE
  OBVIOUS
<1>1. T \in SUBSET SUBSET E
  OBVIOUS
<1> HIDE DEF T
<1>2. PICK s \in T : \A t \in SUBSET s : t # s => t \notin T
  BY <1>1, SmallestSubset
<1> USE DEF T
<1>3. s \in SUBSET E /\ ~\E it : Sums(f, s, it)
  BY <1>2
<1> DEFINE K(t) == CHOOSE it : Sums(f, t, it)
           V(t) == K(t)[t]
<1>4. ASSUME NEW t \in SUBSET s, t # s
      PROVE  Sums(f, t, K(t)) /\ V(t) \in Nat
  <2>1. \E it : Sums(f, t, it)
    BY <1>2, <1>3, <1>4
  <2>2. Sums(f, t, K(t))
    BY <2>1
  <2> QED
    BY <2>2 DEF Sums, Adds
<1>5. ASSUME NEW t \in SUBSET s, t # s, t # {}
      PROVE  V(t) = f[Pick(t)] + V(t \ {Pick(t)})
  <2>1. t \ {Pick(t)} \in SUBSET t /\ t \ {Pick(t)} # s
    BY <1>5
  <2>2. Sums(f, t, K(t)) /\ Sums(f, t \ {Pick(t)}, K(t \ {Pick(t)}))
    BY <1>4, <1>5, <2>1
  <2>3. V(t) = f[Pick(t)] + K(t)[t \ {Pick(t)}]
    BY <1>5, <2>2 DEF Sums, Adds
  <2>4. IsFiniteSet(t)
    BY <1>3, FS_Subset
  <2> DEFINE a == t \ {Pick(t)}
             it == K(t)
             jt == K(a)
  <2>5. it[a] = jt[a]
    <3>1. Sums(f, t, it) /\ Adds(f, a, jt) /\ a \in SUBSET t
      BY <2>1, <2>2 DEF Sums
    <3> HIDE DEF a, it, jt
    <3> QED
      BY <2>4, <3>1, SumsAgree
  <2> QED
    BY <2>3, <2>5
<1>6. s # {} => V({}) = 0
  BY <1>4 DEF Sums, Adds
<1> HIDE DEF V, K
<1> DEFINE g == [t \in SUBSET s |->
                   IF t = {} THEN 0
                   ELSE IF t = s THEN f[Pick(s)] + V(s \ {Pick(s)})
                   ELSE V(t)]
<1>7. ASSUME NEW t \in SUBSET s
      PROVE  /\ g[t] \in Nat
             /\ g[t] = IF t = {} THEN 0 ELSE f[Pick(t)] + g[t \ {Pick(t)}]
  <2>1. CASE t = {}
    BY <2>1
  <2>2. CASE t # {}
    <3>1. Pick(t) \in t /\ f[Pick(t)] \in Nat
      BY <1>3, <2>2, PickIsIn
    <3>2. t \ {Pick(t)} \in SUBSET s /\ t \ {Pick(t)} # s
      BY <3>1
    <3>3. g[t \ {Pick(t)}] = V(t \ {Pick(t)})
      BY <1>6, <3>2, <2>2
    <3>4. V(t \ {Pick(t)}) \in Nat
      BY <1>4, <3>2
    <3>5. g[t] = f[Pick(t)] + V(t \ {Pick(t)})
      BY <1>5, <2>2
    <3> QED
      BY <2>2, <3>1, <3>3, <3>4, <3>5
  <2> QED
    BY <2>1, <2>2
<1>8. g \in [SUBSET s -> Nat]
  BY <1>7
<1> HIDE DEF g
<1>9. Sums(f, s, g)
  BY <1>7, <1>8 DEF Sums, Adds
<1> QED
  BY <1>3, <1>9

\* It does not matter which element is taken out first.
LEMMA SumWithout ==
  ASSUME NEW E, IsFiniteSet(E), NEW f \in [E -> Nat], NEW it, Sums(f, E, it)
  PROVE  \A s \in SUBSET E : \A e \in s : it[s] = f[e] + it[s \ {e}]
<1> DEFINE Splits(s) == \A e \in s : it[s] = f[e] + it[s \ {e}]
           T == {s \in SUBSET E : ~Splits(s)}
<1> SUFFICES ASSUME T # {} PROVE FALSE
  OBVIOUS
<1>1. T \in SUBSET SUBSET E
  OBVIOUS
<1> HIDE DEF T
<1>2. PICK s \in T : \A t \in SUBSET s : t # s => t \notin T
  BY <1>1, SmallestSubset
<1> USE DEF T
<1>3. s \in SUBSET E /\ ~Splits(s)
  BY <1>2
<1>4. PICK e \in s : it[s] # f[e] + it[s \ {e}]
  BY <1>3
<1>5. \A t \in SUBSET s : t # s => Splits(t)
  BY <1>2, <1>3
<1> DEFINE x == Pick(s)
           u == s \ {e, x}
<1>6. x \in s /\ it[s] = f[x] + it[s \ {x}]
  BY <1>3, <1>4, PickIsIn DEF Sums, Adds
<1> HIDE DEF x
<1>7. x # e
  BY <1>4, <1>6
<1>8. it[s \ {x}] = f[e] + it[u]
  <2> DEFINE v == s \ {x}
  <2>1. v \in SUBSET s /\ v # s /\ e \in v /\ v \ {e} = u
    BY <1>6, <1>7
  <2> HIDE DEF v, u
  <2>2. it[v] = f[e] + it[u]
    BY <1>5, <2>1
  <2> QED
    BY <2>2 DEF v
<1>9. it[s \ {e}] = f[x] + it[u]
  <2> DEFINE v == s \ {e}
  <2>1. v \in SUBSET s /\ v # s /\ x \in v /\ v \ {x} = u
    BY <1>6, <1>7
  <2> HIDE DEF v, u
  <2>2. it[v] = f[x] + it[u]
    BY <1>5, <2>1
  <2> QED
    BY <2>2 DEF v
<1>10. f[x] \in Nat /\ f[e] \in Nat /\ it[u] \in Nat
  BY <1>3, <1>6 DEF Sums, Adds
<1> HIDE DEF u
<1> QED
  BY <1>4, <1>6, <1>8, <1>9, <1>10

\* Less of each element, and nothing of those outside C, is less in sum.
LEMMA SumBounded ==
  ASSUME NEW E, IsFiniteSet(E), NEW f \in [E -> Nat], NEW g \in [E -> Nat],
         NEW it, Sums(f, E, it), NEW jt, Sums(g, E, jt)
  PROVE  \A s, C \in SUBSET E :
           (\A e \in s : g[e] <= (IF e \in C THEN f[e] ELSE 0)) => jt[s] <= it[C]
<1> DEFINE Less(s, C) == \A e \in s : g[e] <= (IF e \in C THEN f[e] ELSE 0)
           T == {s \in SUBSET E : \E C \in SUBSET E : Less(s, C) /\ ~(jt[s] <= it[C])}
<1> SUFFICES ASSUME T # {} PROVE FALSE
  OBVIOUS
<1>1. T \in SUBSET SUBSET E
  OBVIOUS
<1> HIDE DEF T
<1>2. PICK s \in T : \A t \in SUBSET s : t # s => t \notin T
  BY <1>1, SmallestSubset
<1> USE DEF T
<1>3. PICK C \in SUBSET E : Less(s, C) /\ ~(jt[s] <= it[C])
  BY <1>2
<1>4. s \in SUBSET E /\ it[C] \in Nat
  BY <1>2, <1>3 DEF Sums
<1>5. s # {}
  <2>1. jt[{}] = 0
    BY DEF Sums, Adds
  <2> QED
    BY <1>3, <1>4, <2>1
<1>6. PICK x \in s : TRUE
  BY <1>5
<1> DEFINE t == s \ {x}
           D == C \ {x}
<1>7. t \in SUBSET s /\ t # s /\ t \in SUBSET E /\ x \in E /\ D \in SUBSET E
  BY <1>3, <1>4, <1>6
<1>8. Less(t, D)
  BY <1>3
<1>9. jt[t] <= it[D]
  BY <1>2, <1>7, <1>8
<1>10. jt[s] = g[x] + jt[t]
  BY <1>4, SumWithout
<1>11. it[C] = (IF x \in C THEN f[x] ELSE 0) + it[D]
  <2>1. CASE x \in C
    BY <1>3, <2>1, SumWithout
  <2>2. CASE x \notin C
    <3>1. D = C
      BY <2>2
    <3> HIDE DEF D
    <3> QED
      BY <1>4, <2>2, <3>1
  <2> QED
    BY <2>1, <2>2
<1>12. g[x] <= (IF x \in C THEN f[x] ELSE 0)
  BY <1>3
<1>13. jt[t] \in Nat /\ it[D] \in Nat /\ f[x] \in Nat /\ g[x] \in Nat
  BY <1>7 DEF Sums
<1>14. ~(jt[s] <= it[C])
  BY <1>3
<1> HIDE DEF t, D, T
<1> QED
  BY <1>9, <1>10, <1>11, <1>12, <1>13, <1>14

-----------------------------------------------------------------------------
(* What is sent fits under the weekly cap. *)

\* The sum of fees that the ledger computes is such a sum.
LEMMA FeeSums ==
  \E it : /\ Sums(Fee, Entries, it)
          /\ \A S \in SUBSET Entries : SumFees(S) = it[S]
<1>1. IsFiniteSet(Entries) /\ Fee \in [Entries -> Nat]
  BY BillingAssumption
<1>2. PICK it : Sums(Fee, Entries, it)
  BY <1>1, SumsExist
<1>3. ASSUME NEW S \in SUBSET Entries
      PROVE  SumFees(S) = it[S]
  <2> DEFINE Folds(jt) ==
               jt = [s \in SUBSET S |->
                       IF s = {} THEN 0
                       ELSE LET x == CHOOSE y \in s : TRUE IN Fee[x] + jt[s \ {x}]]
             iter == CHOOSE jt : Folds(jt)
  <2>1. SumFees(S) = iter[S]
    BY DEF SumFees, MapThenSumSet, MapThenFoldSet
  <2> DEFINE r == [s \in SUBSET S |-> it[s]]
  <2>2. Folds(r)
    <3>1. \A s \in SUBSET S :
            it[s] = IF s = {} THEN 0
                    ELSE LET x == CHOOSE y \in s : TRUE IN Fee[x] + r[s \ {x}]
      BY <1>2 DEF Sums, Adds, Pick
    <3> QED
      BY <3>1
  <2>3. Folds(iter)
    <3> HIDE DEF Folds, r
    <3> QED
      BY <2>2
  <2> HIDE DEF iter
  <2>4. Adds(Fee, S, iter)
    BY <2>3 DEF Adds, Pick
  <2>5. it[S] = iter[S]
    BY <1>1, <1>2, <2>4, SumsAgree
  <2> QED
    BY <2>1, <2>5
<1> QED
  BY <1>2, <1>3

\* A larger set of entries owes no less.
LEMMA SumFeesGrow ==
  ASSUME NEW A \in SUBSET Entries, NEW B \in SUBSET Entries, A \subseteq B
  PROVE  SumFees(A) \in Nat /\ SumFees(B) \in Nat /\ SumFees(A) <= SumFees(B)
<1>1. IsFiniteSet(Entries) /\ Fee \in [Entries -> Nat]
  BY BillingAssumption
<1>2. PICK it : /\ Sums(Fee, Entries, it)
                /\ \A S \in SUBSET Entries : SumFees(S) = it[S]
  BY FeeSums
<1>3. \A e \in A : Fee[e] <= (IF e \in B THEN Fee[e] ELSE 0)
  BY <1>1
<1>4. it[A] <= it[B]
  BY <1>1, <1>2, <1>3, SumBounded
<1> QED
  BY <1>2, <1>4 DEF Sums

\* The total with an entry is its fee and the total without it.
LEMMA SumFeesWithout ==
  ASSUME NEW A \in SUBSET Entries, NEW e \in A
  PROVE  SumFees(A) = Fee[e] + SumFees(A \ {e})
<1>1. IsFiniteSet(Entries) /\ Fee \in [Entries -> Nat]
  BY BillingAssumption
<1>2. PICK it : /\ Sums(Fee, Entries, it)
                /\ \A S \in SUBSET Entries : SumFees(S) = it[S]
  BY FeeSums
<1>3. it[A] = Fee[e] + it[A \ {e}]
  BY <1>1, <1>2, SumWithout
<1> QED
  BY <1>2, <1>3

\* A row of the settlement ledger that is committed, or that a worker's claim
\* found within the cap: its marker follows without another look at the cap.
Taken(r) == Committed(r) \/ r.owner # None

\* The settlement ledger looks at the cap when it leases the row.
CapFence == Settlement => \A e \in Entries : Taken(row[e]) => Fee[e] <= Cap

\* Nothing is taken at first.
LEMMA InitCap == Init => CapFence
BY BillingAssumption DEF Init, CapFence, Taken, Committed, NewRow

\* What the functions of the ledger take.
LEMMA RowTaken ==
  ASSUME NEW r \in Row, Settlement
  PROVE  /\ Taken(Swept(r)) => Taken(r)
         /\ Taken(Refunded(r)) => Taken(r)
         /\ \A w \in Workers : InHand(r, w) => Taken(r)
         /\ \A w \in Workers, s \in {"reported", "review", "dead"} :
              Completable(r, w) => (Taken(Closed(r, s)) => Taken(r))
         /\ \A s \in {"dead", "review", "capped"} : Taken(Closed(r, s)) => Taken(r)
         /\ \A w \in Workers :
              Taken([r EXCEPT !.owner = IF @ = w THEN Gone ELSE @]) => Taken(r)
<1>1. Taken(Swept(r)) => Taken(r)
  BY BillingAssumption
  DEF Taken, Committed, Swept, TooOld, Unreplayable, Exhausted, Closed, Row
<1>2. Taken(Refunded(r)) => Taken(r)
  BY DEF Taken, Committed, Refunded, Row
<1>3. \A w \in Workers : InHand(r, w) => Taken(r)
  BY BillingAssumption DEF Taken, Committed, InHand, Row
<1>4. \A w \in Workers, s \in {"reported", "review", "dead"} :
        Completable(r, w) => (Taken(Closed(r, s)) => Taken(r))
  BY BillingAssumption DEF Taken, Committed, Completable, Closed, Row
<1>5. \A s \in {"dead", "review", "capped"} : Taken(Closed(r, s)) => Taken(r)
  BY BillingAssumption DEF Taken, Committed, Closed, Row
<1>6. \A w \in Workers :
        Taken([r EXCEPT !.owner = IF @ = w THEN Gone ELSE @]) => Taken(r)
  BY BillingAssumption DEF Taken, Committed, Row
<1> QED
  BY <1>1, <1>2, <1>3, <1>4, <1>5, <1>6

\* The worker's own steps take nothing that it did not hold.
LEMMA CycleTaken ==
  ASSUME TypeOK, Decided, Settlement, NEW w \in Workers,
         Cycle(w) \/ Drain(w) \/ Abandon(w), NEW d \in Entries
  PROVE  Taken(row'[d]) => Taken(row[d])
<1>1. row[d] \in Row /\ slot[w] \in Slot
  BY DEF TypeOK
<1> DEFINE Good(s) == Taken(s) => Taken(row[d])
<1> SUFFICES Good(row'[d])
  OBVIOUS
<1>2. Good(row[d])
  OBVIOUS
<1>3. Good(Released(w)[d])
  BY <1>1, RowTaken DEF Released
<1>4. CASE Begin(w)
  <2>1. InHand(row[d], w) => Good(Marked(row[d]))
    BY <1>1, RowTaken
  <2> HIDE DEF Good
  <2> QED
    BY <1>2, <1>4, <2>1 DEF Begin, TypeOK
<1>5. CASE Unsend(w)
  <2>1. Good(UnsentReleased(row[d]))
    BY <1>1, RowTaken DEF UnsentReleased
  <2> HIDE DEF Good
  <2> QED
    BY <1>2, <1>5, <2>1 DEF Unsend, TypeOK
<1>6. CASE Settle(w)
  <2>1. slot[w].verdict \in {"reported", "review", "dead"}
    BY <1>1, <1>6 DEF Settle, Decided, Slot
  <2>2. \/ row'[d] = row[d]
        \/ /\ Completable(row[d], w)
           /\ row'[d] = Closed(row[d], slot[w].verdict)
    BY <1>6 DEF Settle, TypeOK
  <2> QED
    BY <1>1, <2>1, <2>2, RowTaken
<1>7. CASE Abandon(w)
  <2>1. Good([row[d] EXCEPT !.owner = IF @ = w THEN Gone ELSE @])
    BY <1>1, RowTaken
  <2> HIDE DEF Good
  <2> QED
    BY <1>2, <1>7, <2>1 DEF Abandon
<1>8. CASE Validate(w) \/ Drain(w)
  <2> HIDE DEF Good
  <2> QED
    BY <1>2, <1>3, <1>8 DEF Validate, Drain
<1>9. CASE Reconcile(w) \/ Send(w) \/ Answer(w) \/ Recheck(w)
  BY <1>2, <1>9 DEF Reconcile, Send, Answer, Recheck
<1> QED
  BY <1>4, <1>5, <1>6, <1>7, <1>8, <1>9 DEF Cycle

\* A settlement is the only one of its period: a lease found it within the cap,
\* or it was taken already.
LEMMA ClaimTaken ==
  ASSUME TypeOK, Settlement, CapFence, NEW w \in Workers, Claim(w)
  PROVE  CapFence'
<1> DEFINE swept == [e \in Entries |-> Swept(row[e])]
<1>1. /\ swept \in [Entries -> Row]
      /\ \A d \in Entries : Taken(swept[d]) => Taken(row[d])
  BY SweptType, RowTaken DEF TypeOK
<1>2. \/ row' = swept
      \/ \E e \in Entries, s \in {"dead", "review", "capped"} :
           row' = [swept EXCEPT ![e] = Closed(@, s)]
      \/ \E e \in Entries : /\ ~OverCap(swept, e)
                            /\ row' = [swept EXCEPT ![e] = Leased(@, w)]
  BY ClaimTakes
<1> HIDE DEF swept
<1>3. ASSUME NEW d \in Entries, Taken(row'[d])
      PROVE  Fee[d] <= Cap
  <2>1. CASE Taken(swept[d])
    BY <1>1, <2>1 DEF CapFence
  <2>2. CASE ~Taken(swept[d])
    <3>1. /\ ~OverCap(swept, d) /\ swept[d] \in Row
      BY <1>1, <1>2, <1>3, <2>2, RowTaken
    <3> DEFINE B == {o \in Entries \ {d} : Committed(swept[o])}
    <3>2. ~(Fee[d] + SumFees(B) > Cap)
      BY <2>2, <3>1 DEF OverCap, Expected, Taken, Committed
    <3>3. B \in SUBSET Entries
      OBVIOUS
    <3> HIDE DEF B
    <3>4. SumFees(B) \in Nat /\ Fee[d] \in Nat /\ Cap \in Nat
      BY <3>3, SumFeesGrow, BillingAssumption
    <3> QED
      BY <3>2, <3>4
  <2> QED
    BY <2>1, <2>2
<1> QED
  BY <1>3 DEF CapFence

LEMMA NextCap == SendFence /\ CapFence /\ [Next]_vars => CapFence'
<1> SUFFICES ASSUME SendFence, CapFence, [Next]_vars, Settlement
             PROVE  CapFence'
  BY DEF CapFence
<1>1. TypeOK /\ Decided
  BY DEF SendFence
<1>2. ASSUME \A d \in Entries : Taken(row'[d]) => Taken(row[d])
      PROVE  CapFence'
  BY <1>2 DEF CapFence
<1>3. ASSUME NEW w \in Workers, Cycle(w) \/ Drain(w) \/ Abandon(w)
      PROVE  CapFence'
  BY <1>1, <1>2, <1>3, CycleTaken
<1>4. ASSUME NEW e \in Entries,
             Forget(e) \/ LeaseEnds(e) \/ MarkerAges(e) \/ WindowCloses(e)
      PROVE  CapFence'
  <2>1. \A d \in Entries : Taken(row'[d]) => Taken(row[d])
    BY <1>1, <1>4, TimeRows DEF Taken, Committed
  <2> QED
    BY <1>2, <2>1
<1>5. ~\E e \in Entries : Resolve(e)
  BY DEF Resolve
<1>6. CASE Ingest \/ Drop \/ AccountChanges \/ UNCHANGED vars
  BY <1>2, <1>6 DEF Ingest, Drop, AccountChanges, vars
<1> QED
  BY <1>1, <1>3, <1>4, <1>5, <1>6, ClaimTaken DEF Next

\* What Stripe may hold and no one closed as dead is in the sum a claim reads.
LEMMA HeldIsRead ==
  ASSUME SendFence, LedgerKept, ~Settlement, NEW o \in Entries,
         MayHold(o), row[o].status # "dead"
  PROVE  Committed(Swept(row[o]))
<1>1. row[o] \in Row /\ Spared(row[o])
  BY DEF SendFence, TypeOK, LedgerKept
<1>2. row[o].marked
  BY DEF MayHold, Quiet, SendFence, SentIsMarked, MarkedInHand
<1>3. row[o].status \in {"sending", "reported", "review"}
  BY <1>1, <1>2 DEF Spared, Row, Statuses, Open
<1> QED
  BY <1>1, <1>2, <1>3 DEF Committed, Swept, TooOld, Closed, Row

\* The per-row ledger: a claim takes a pending row up when its fee fits beside the
\* committed sum.
LEMMA ClaimFits ==
  ASSUME SendFence, LedgerKept, NEW w \in Workers, Claim(w), NEW e \in Entries,
         row[e].status = "pending", row'[e].status = "sending",
         NEW H \in SUBSET (Entries \ {e}),
         \A o \in H : MayHold(o) /\ row[o].status # "dead"
  PROVE  Fee[e] + SumFees(H) <= Cap
<1> DEFINE swept == [x \in Entries |-> Swept(row[x])]
           B == {o \in Entries \ {e} : Committed(swept[o])}
<1>1. /\ swept \in [Entries -> Row] /\ row[e] \in Row
      /\ swept[e] = Swept(row[e]) /\ Settlement \in BOOLEAN
  BY SweptType, BillingAssumption DEF SendFence, TypeOK
<1>2. swept[e].status # "sending"
  BY <1>1 DEF Swept, Closed, Row
<1>3. \/ row' = swept
      \/ \E x \in Entries, s \in {"dead", "review", "capped"} :
           row' = [swept EXCEPT ![x] = Closed(@, s)]
      \/ \E x \in Entries : /\ ~OverCap(swept, x) /\ Claimable(swept[x])
                            /\ row' = [swept EXCEPT ![x] = Leased(@, w)]
  BY ClaimTakes
<1>4. \A o \in H : ~Settlement => Committed(swept[o])
  BY HeldIsRead
<1> HIDE DEF swept
<1>5. /\ ~OverCap(swept, e) /\ Claimable(swept[e])
      /\ row' = [swept EXCEPT ![e] = Leased(@, w)]
  <2>1. \A s \in {"dead", "review", "capped"} : Closed(swept[e], s).status # "sending"
    BY <1>1 DEF Closed, Row
  <2> QED
    BY <1>1, <1>2, <1>3, <2>1
<1>6. ~Settlement /\ swept[e].status = "pending"
  <2>1. row'[e] = Leased(swept[e], w)
    BY <1>1, <1>5
  <2>2. ~Settlement
    BY <1>1, <1>2, <2>1 DEF Leased, Row
  <2> QED
    BY <1>2, <1>5, <2>2 DEF Claimable
<1>7. H \subseteq B
  BY <1>4, <1>6
<1>8. ~(Fee[e] + SumFees(B) > Cap)
  BY <1>5, <1>6 DEF OverCap, Expected
<1>9. B \in SUBSET Entries /\ H \in SUBSET Entries
  OBVIOUS
<1> HIDE DEF B
<1>10. /\ SumFees(H) \in Nat /\ SumFees(B) \in Nat /\ SumFees(H) <= SumFees(B)
       /\ Fee[e] \in Nat /\ Cap \in Nat
  BY <1>7, <1>9, SumFeesGrow, BillingAssumption
<1> QED
  BY <1>8, <1>10

\* The settlement ledger: the row a worker begins is in its hands, so its claim
\* found it within the cap, and there is no other.
LEMMA BeginFits ==
  ASSUME SendFence, CapFence, NEW w \in Workers,
         Cycle(w) \/ Drain(w) \/ Abandon(w), NEW e \in Entries,
         row[e].status = "pending", row'[e].status = "sending",
         NEW H \in SUBSET (Entries \ {e})
  PROVE  Fee[e] + SumFees(H) <= Cap
<1>1. row[e] \in Row /\ slot[w] \in Slot /\ row \in [Entries -> Row] /\ Settlement \in BOOLEAN
  BY BillingAssumption DEF SendFence, TypeOK
<1>2. InHand(row[e], w)
  <2>1. CASE Begin(w)
    BY <1>1, <2>1 DEF Begin
  <2>2. CASE Settle(w)
    <3>1. slot[w].verdict \in {"reported", "review", "dead"}
      BY <1>1, <2>2 DEF Settle, SendFence, Decided, Slot
    <3>2. row'[e] \in {row[e], Closed(row[e], slot[w].verdict)}
      BY <1>1, <2>2 DEF Settle
    <3> QED
      BY <1>1, <3>1, <3>2 DEF Closed, Row
  <2>3. CASE Unsend(w)
    <3>1. row'[e] \in {row[e], UnsentReleased(row[e])}
      BY <1>1, <2>3 DEF Unsend
    <3> QED
      BY <1>1, <3>1 DEF UnsentReleased, Refunded, Row
  <2>4. CASE Abandon(w)
    <3>1. row'[e].status = row[e].status
      BY <1>1, <2>4 DEF Abandon, Row
    <3> QED
      BY <3>1
  <2>5. CASE \/ Reconcile(w) \/ Validate(w) \/ Send(w) \/ Answer(w)
             \/ Recheck(w) \/ Drain(w)
    <3>1. Released(w)[e].status # "sending"
      BY <1>1 DEF Released, Refunded, Row
    <3> QED
      BY <2>5, <3>1 DEF Reconcile, Validate, Send, Answer, Recheck, Drain
  <2> QED
    BY <2>1, <2>2, <2>3, <2>4, <2>5 DEF Cycle
<1>3. Settlement
  BY <1>1, <1>2 DEF InHand
<1>4. Fee[e] <= Cap
  BY <1>1, <1>2, <1>3, RowTaken DEF CapFence
<1>5. H = {}
  <2>1. IsFiniteSet(Entries) /\ Cardinality(Entries) = 1
    BY <1>3, BillingAssumption
  <2>2. PICK x : Entries = {x}
    BY <2>1, FS_Singleton
  <2> QED
    BY <2>2
<1>6. SumFees({}) = 0
  <2>1. PICK it : /\ Sums(Fee, Entries, it)
                  /\ \A S \in SUBSET Entries : SumFees(S) = it[S]
    BY FeeSums
  <2> QED
    BY <2>1 DEF Sums, Adds
<1>7. Fee[e] \in Nat
  BY BillingAssumption
<1> QED
  BY <1>4, <1>5, <1>6, <1>7

LEMMA StepFits ==
  SendFence /\ LedgerKept /\ CapFence /\ [Next]_vars =>
    \A e \in Entries :
      row[e].status = "pending" /\ row'[e].status = "sending" =>
        Fee[e] + SumFees({o \in Entries \ {e} : MayHold(o) /\ row[o].status # "dead"})
          <= Cap
<1> SUFFICES ASSUME SendFence, LedgerKept, CapFence, [Next]_vars, NEW e \in Entries,
                    row[e].status = "pending", row'[e].status = "sending"
             PROVE  Fee[e] + SumFees({o \in Entries \ {e} :
                                        MayHold(o) /\ row[o].status # "dead"}) <= Cap
  OBVIOUS
<1> DEFINE H == {o \in Entries \ {e} : MayHold(o) /\ row[o].status # "dead"}
<1>1. H \in SUBSET (Entries \ {e}) /\ \A o \in H : MayHold(o) /\ row[o].status # "dead"
  OBVIOUS
<1> HIDE DEF H
<1>2. ASSUME NEW w \in Workers, Claim(w)
      PROVE  Fee[e] + SumFees(H) <= Cap
  BY <1>1, <1>2, ClaimFits
<1>3. ASSUME NEW w \in Workers, Cycle(w) \/ Drain(w) \/ Abandon(w)
      PROVE  Fee[e] + SumFees(H) <= Cap
  BY <1>1, <1>3, BeginFits
<1>4. ~\E d \in Entries : Resolve(d)
  <2>1. TypeOK
    BY DEF SendFence
  <2> SUFFICES ASSUME NEW d \in Entries, Resolve(d) PROVE FALSE
    OBVIOUS
  <2>2. row'[e] = row[e] \/ d = e
    BY <2>1 DEF Resolve, TypeOK
  <2>3. row[d].status # "pending"
    BY DEF Resolve
  <2> QED
    BY <2>2, <2>3
<1>5. ~\E d \in Entries : Forget(d) \/ LeaseEnds(d) \/ MarkerAges(d) \/ WindowCloses(d)
  BY TimeRows DEF SendFence
<1>6. ~(Ingest \/ Drop \/ AccountChanges \/ UNCHANGED vars)
  BY DEF Ingest, Drop, AccountChanges, vars
<1>7. Fee[e] + SumFees(H) <= Cap
  BY <1>2, <1>3, <1>4, <1>5, <1>6 DEF Next
<1> QED
  BY <1>7 DEF H

\* No entry is taken up to be sent for the first time unless its fee fits under
\* the cap beside all that Stripe holds or may come to hold, but for rows closed
\* as dead, whichever claims race, whatever crashed or was replayed: the look at
\* the committed sum in the claims of both ledgers.
THEOREM CapCorrect ==
  ASSUME Settlement \/ ~RateLimits
  PROVE  Spec => SendsFitCap
<1>1. Init => SendFence /\ LedgerKept /\ CapFence
  BY InitFence, InitKept, InitCap
<1>2. SendFence /\ LedgerKept /\ CapFence /\ [Next]_vars =>
        (SendFence /\ LedgerKept /\ CapFence)'
  BY NextFence, NextKept, NextCap
<1>3. SendFence /\ LedgerKept /\ CapFence /\ [Next]_vars =>
        [\A e \in Entries :
           row[e].status = "pending" /\ row'[e].status = "sending" =>
             Fee[e] + SumFees({o \in Entries \ {e} : MayHold(o) /\ row[o].status # "dead"})
               <= Cap]_vars
  BY StepFits
<1> QED
  BY <1>1, <1>2, <1>3, PTL DEF Spec, SendsFitCap
=============================================================================
