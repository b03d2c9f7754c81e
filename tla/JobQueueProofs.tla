--------------------------- MODULE JobQueueProofs ---------------------------
(***************************************************************************)
(* Theorems of JobQueue for every set of jobs, slots, clients and keys and *)
(* every assignment of lease_owner values to slots: the types, the at most *)
(* one accepted provider request of a job, the finality of outcomes and    *)
(* the shape of leases.  For slots with lease_owner values of their own:   *)
(* what a slot knows of its row, and the life cycle the queue implements.  *)
(***************************************************************************)
EXTENDS JobQueue, TLAPS

LEMMA EndedType ==
  ASSUME NEW r \in Row, NEW s \in Statuses, NEW c \in Codes
  PROVE  Ended(r, s, c) \in Row
BY DEF Ended, Row

LEMMA SweptType ==
  ASSUME NEW r \in Row
  PROVE  Swept(r) \in Row
BY EndedType DEF Swept, Statuses, Terminal, Codes

LEMMA LeasedType ==
  ASSUME NEW r \in Row, NEW w \in Slots, Claimable(r)
  PROVE  Leased(r, w) \in Row
<1>1. r.attempts + 1 \in 0..MaxAttempts
  BY JobQueueAssumption DEF Claimable, Row
<1>2. SlotId[w] \in Owners
  BY JobQueueAssumption
<1>3. "leased" \in Statuses
  BY DEF Statuses, Active, Held
<1> QED
  BY <1>1, <1>2, <1>3 DEF Leased, Row

LEMMA SettledType ==
  ASSUME NEW r \in Row, NEW w \in Slots, slot[w] \in Slot
  PROVE  Settled(w, r) \in Row
<1>1. ErrorSettled(w, r) \in Row
  <2> DEFINE cleared == [r EXCEPT !.marker = IF slot[w].marked THEN 0 ELSE @]
  <2>1. cleared \in Row
    BY JobQueueAssumption DEF Row
  <2>2. Ended(cleared, "queued", "error") \in Row
    BY <2>1, EndedType DEF Statuses, Active, Codes
  <2>3. [Ended(cleared, "queued", "error") EXCEPT !.due = FALSE] \in Row
    BY <2>2 DEF Row
  <2>4. /\ Ended(cleared, "dead", "error") \in Row
        /\ Ended(cleared, "failed", "error") \in Row
        /\ Ended(r, "dead", "provider_outcome_ambiguous") \in Row
    BY <2>1, EndedType DEF Statuses, Terminal, Codes
  <2> QED
    BY <2>3, <2>4 DEF ErrorSettled
<1>2. /\ Ended(r, "succeeded", "") \in Row
      /\ Ended(r, "cancelled", "") \in Row
      /\ Ended(r, "dead", "ciphertext_unreadable") \in Row
  BY EndedType DEF Statuses, Terminal, Codes
<1> QED
  BY <1>1, <1>2 DEF Settled

LEMMA InitType == Init => TypeOK
<1> SUFFICES ASSUME Init PROVE TypeOK
  OBVIOUS
<1>1. row \in [Jobs -> Row]
  <2>1. PICK k \in Keys :
          row = [j \in Jobs |->
                [status |-> "absent", key |-> k, op |-> "chat", attempts |-> 0,
                 owner |-> NoOwner, live |-> FALSE, due |-> FALSE,
                 retained |-> FALSE, cancel |-> FALSE, marker |-> 0, code |-> ""]]
    BY DEF Init
  <2>2. 0 \in 0..MaxAttempts
    BY JobQueueAssumption
  <2> QED
    BY <2>1, <2>2 DEF Row, Statuses, Codes, Kinds
<1>2. slot \in [Slots -> Slot]
  <2>1. PICK j \in Jobs :
          slot = [w \in Slots |->
                 [at |-> "idle", job |-> j, attempt |-> 0, marked |-> FALSE,
                  taken |-> FALSE, verdict |-> "none"]]
    BY DEF Init
  <2>2. 0 \in 0..MaxAttempts
    BY JobQueueAssumption
  <2> QED
    BY <2>1, <2>2 DEF Slot, Places, Verdicts
<1>3. client \in [Clients -> Client]
  <2>1. PICK j \in Jobs, k \in Keys :
          client = [c \in Clients |->
                     [at |-> "idle", key |-> k, job |-> j, seen |-> "queued"]]
    BY DEF Init
  <2> QED
    BY <2>1 DEF Client, Active
<1> QED
  BY <1>1, <1>2, <1>3 DEF Init, TypeOK

LEMMA SlotMoves ==
  ASSUME TypeOK, NEW w \in Slots, NEW p \in Places, NEW v \in Verdicts,
         Goto(w, p) \/ Leave(w) \/ Decide(w, v)
  PROVE  slot' \in [Slots -> Slot]
<1>1. slot[w] \in Slot
  BY DEF TypeOK
<1>2. /\ [slot[w] EXCEPT !.at = p] \in Slot
      /\ [slot[w] EXCEPT !.at = "confirm", !.verdict = v] \in Slot
  BY <1>1 DEF Slot, Places
<1>3. [slot[w] EXCEPT !.at = "idle", !.attempt = 0, !.marked = FALSE,
                      !.taken = FALSE, !.verdict = "none"] \in Slot
  <2>1. 0 \in 0..MaxAttempts /\ "idle" \in Places /\ "none" \in Verdicts
    BY JobQueueAssumption DEF Places, Verdicts
  <2> QED
    BY <1>1, <2>1 DEF Slot
<1>4. CASE Goto(w, p)
  BY <1>2, <1>4 DEF TypeOK, Goto
<1>5. CASE Leave(w)
  BY <1>3, <1>5 DEF TypeOK, Leave
<1>6. CASE Decide(w, v)
  BY <1>2, <1>6 DEF TypeOK, Decide
<1> QED
  BY <1>4, <1>5, <1>6

LEMMA NextType == TypeOK /\ [Next]_vars => TypeOK'
<1> SUFFICES ASSUME TypeOK, [Next]_vars
             PROVE  TypeOK'
  OBVIOUS
<1> USE DEF TypeOK
<1>1. ASSUME NEW w \in Slots, Claim(w)
      PROVE  TypeOK'
  <2> DEFINE swept == [j \in Jobs |-> Swept(row[j])]
  <2>1. swept \in [Jobs -> Row]
    BY SweptType
  <2>2. CASE row' = swept /\ UNCHANGED slot
    BY <1>1, <2>1, <2>2 DEF Claim
  <2>3. ASSUME NEW j \in Jobs, Claimable(swept[j]),
               row' = [swept EXCEPT ![j] = Leased(@, w)],
               \/ slot' = [slot EXCEPT ![w] =
                    [at |-> "claimed", job |-> j, attempt |-> row[j].attempts + 1,
                     marked |-> FALSE, taken |-> FALSE, verdict |-> "none"]]
               \/ UNCHANGED slot
        PROVE  TypeOK'
    <3>1. row' \in [Jobs -> Row]
      BY <2>1, <2>3, LeasedType
    <3>2. row[j].attempts + 1 \in 0..MaxAttempts
      <4>1. swept[j].attempts = row[j].attempts
        BY DEF Swept, Ended, Row
      <4> QED
        BY JobQueueAssumption, <2>3, <4>1 DEF Claimable, Row
    <3>3. slot' \in [Slots -> Slot]
      <4>1. "claimed" \in Places /\ "none" \in Verdicts
        BY DEF Places, Verdicts
      <4>2. [at |-> "claimed", job |-> j, attempt |-> row[j].attempts + 1,
             marked |-> FALSE, taken |-> FALSE, verdict |-> "none"] \in Slot
        BY <3>2, <4>1 DEF Slot
      <4> QED
        BY <2>3, <4>2
    <3> QED
      BY <1>1, <3>1, <3>3 DEF Claim
  <2> QED
    BY <1>1, <2>2, <2>3 DEF Claim
<1>2. ASSUME NEW w \in Slots, Start(w)
      PROVE  TypeOK'
  <2>1. slot' \in [Slots -> Slot]
    BY <1>2, SlotMoves DEF Start, Places, Verdicts
  <2>2. row' \in [Jobs -> Row]
    BY <1>2, SMTT(30) DEF Start, Slot, Row, Statuses, Active, Held
  <2> QED
    BY <1>2, <2>1, <2>2 DEF Start
<1>3. ASSUME NEW w \in Slots,
             Decrypt(w) \/ WorkFails(w) \/ Compress(w) \/ Answer(w)
               \/ Produced(w) \/ Confirm(w) \/ Abandon(w)
      PROVE  TypeOK'
  <2>1. slot' \in [Slots -> Slot]
    BY <1>3, SlotMoves
    DEF Decrypt, WorkFails, Compress, Answer, Produced, Confirm, Abandon,
        Places, Verdicts
  <2> QED
    BY <1>3, <2>1
    DEF Decrypt, WorkFails, Compress, Answer, Produced, Confirm, Abandon
<1>4. ASSUME NEW w \in Slots, Mark(w)
      PROVE  TypeOK'
  <2>1. row' \in [Jobs -> Row]
    <3> DEFINE r == row[slot[w].job]
    <3>1. r \in Row
      BY DEF Slot
    <3>2. [r EXCEPT !.marker = r.attempts] \in Row
      BY <3>1 DEF Row
    <3> QED
      BY <1>4, <3>2 DEF Mark
  <2>2. [slot[w] EXCEPT !.at = "outbound", !.marked = TRUE] \in Slot
    BY DEF Slot, Places
  <2>3. slot' \in [Slots -> Slot]
    <3>1. CASE slot' = [slot EXCEPT ![w].at = "outbound", ![w].marked = TRUE]
      BY <2>2, <3>1
    <3>2. CASE Leave(w) \/ Decide(w, "retryable")
      BY <3>2, SlotMoves DEF Places, Verdicts
    <3> QED
      BY <1>4, <3>1, <3>2 DEF Mark
  <2> QED
    BY <1>4, <2>1, <2>3 DEF Mark
<1>5. ASSUME NEW w \in Slots, Post(w)
      PROVE  TypeOK'
  <2>1. \A taken \in BOOLEAN : [slot[w] EXCEPT !.at = "calling", !.taken = taken] \in Slot
    BY DEF Slot, Places
  <2>2. slot' \in [Slots -> Slot]
    BY <1>5, <2>1 DEF Post
  <2>3. accepted' \in [Jobs -> Nat]
    BY <1>5 DEF Post, Slot
  <2> QED
    BY <1>5, <2>2, <2>3 DEF Post
<1>6. ASSUME NEW w \in Slots, Settle(w)
      PROVE  TypeOK'
  <2>1. row' \in [Jobs -> Row]
    BY <1>6, SettledType DEF Settle, Slot
  <2>2. slot' \in [Slots -> Slot]
    BY <1>6, SlotMoves DEF Settle, Places, Verdicts
  <2> QED
    BY <1>6, <2>1, <2>2 DEF Settle
<1>7. ASSUME NEW c \in Clients, NEW k \in Keys, SubmitCheck(c, k)
      PROVE  TypeOK'
  BY <1>7 DEF SubmitCheck, Client
<1>8. ASSUME NEW c \in Clients, SubmitCreate(c)
      PROVE  TypeOK'
  <2>1. client' \in [Clients -> Client]
    BY <1>8 DEF SubmitCreate, Client
  <2>2. \A j \in Jobs, o \in Kinds, k \in Keys :
          [row[j] EXCEPT !.status = "queued", !.key = k, !.op = o,
                         !.due = TRUE, !.retained = TRUE] \in Row
    BY ZenonT(40) DEF Row, Statuses, Active
  <2>3. client[c].key \in Keys
    BY DEF Client
  <2>4. CASE UNCHANGED row
    BY <1>8, <2>1, <2>4 DEF SubmitCreate
  <2>5. ASSUME NEW j \in Jobs, NEW o \in Kinds,
               row' = [row EXCEPT ![j] =
                        [@ EXCEPT !.status = "queued", !.key = client[c].key,
                                  !.op = o, !.due = TRUE, !.retained = TRUE]]
        PROVE  row' \in [Jobs -> Row]
    BY <2>2, <2>3, <2>5
  <2> QED
    BY <1>8, <2>1, <2>4, <2>5 DEF SubmitCreate
<1>9. ASSUME NEW c \in Clients, NEW j \in Jobs, CancelRead(c, j)
      PROVE  TypeOK'
  BY <1>9, ZenonT(40) DEF CancelRead, Client
<1>10. ASSUME NEW c \in Clients, CancelWrite(c)
       PROVE  TypeOK'
  <2>1. \A j \in Jobs : Ended(row[j], "cancelled", row[j].code) \in Row
    BY EndedType DEF Row, Statuses, Terminal
  <2>2. \A j \in Jobs :
          [Ended(row[j], "cancelled", row[j].code) EXCEPT !.cancel = TRUE] \in Row
    BY <2>1 DEF Row
  <2>3. client[c].job \in Jobs
    BY DEF Client
  <2>4. \A j \in Jobs : [row[j] EXCEPT !.cancel = TRUE] \in Row
    BY DEF Row
  <2>5. row' \in [Jobs -> Row]
    BY <1>10, <2>2, <2>3, <2>4 DEF CancelWrite
  <2> QED
    BY <1>10, <2>5 DEF CancelWrite, Client
<1>11. ASSUME NEW j \in Jobs,
              LeaseEnds(j) \/ BackoffEnds(j) \/ RetentionEnds(j) \/ QuarantineResult(j)
       PROVE  TypeOK'
  <2>1. /\ [row[j] EXCEPT !.live = FALSE] \in Row
        /\ [row[j] EXCEPT !.due = TRUE] \in Row
        /\ [row[j] EXCEPT !.retained = FALSE] \in Row
    BY DEF Row
  <2>2. [row[j] EXCEPT !.status = "dead", !.code = "ciphertext_unreadable"] \in Row
    BY ZenonT(40) DEF Row, Statuses, Terminal, Codes
  <2>3. row' \in [Jobs -> Row]
    BY <1>11, <2>1, <2>2 DEF LeaseEnds, BackoffEnds, RetentionEnds, QuarantineResult
  <2> QED
    BY <1>11, <2>3 DEF LeaseEnds, BackoffEnds, RetentionEnds, QuarantineResult
<1>12. CASE Purge
  BY <1>12 DEF Purge, Row, Statuses
<1>13. CASE UNCHANGED vars
  BY <1>13 DEF vars
<1> QED
  BY <1>1, <1>2, <1>3, <1>4, <1>5, <1>6, <1>7, <1>8, <1>9, <1>10, <1>11, <1>12,
     <1>13 DEF Next, Progress

\* Every reachable row, slot and request is well typed: in particular no row is
\* claimed more often than its max_attempts.
THEOREM TypeCorrect == Spec => []TypeOK
BY InitType, NextType, PTL DEF Spec

-----------------------------------------------------------------------------
(* At most one accepted provider request. *)

\* Most steps neither mark nor send: they keep what is sealed and what is unsent.
LEMMA FenceKept ==
  ASSUME TypeOK, TypeOK', BillingFence, accepted' = accepted,
         \A j \in Jobs : Sealed(row[j]) => Sealed(row'[j]),
         \A j \in Jobs : /\ row'[j].status = "absent" => row'[j].marker = 0
                         /\ row'[j].status \in Held => row'[j].attempts # 0,
         \A w \in Slots : slot'[w].marked => slot[w].marked /\ slot'[w].job = slot[w].job,
         \A w \in Slots : slot'[w].at \in {"outbound", "calling"} => slot'[w].marked,
         \A w \in Slots : Unsent(w)' => Unsent(w)
  PROVE  BillingFence'
<1>1. \A j \in Jobs : accepted'[j] # 0 => accepted'[j] = 1 /\ Sealed(row'[j])
  BY DEF BillingFence
<1>2. \A w \in Slots : slot[w].job \in Jobs /\ slot'[w].job \in Jobs
  BY DEF TypeOK, Slot
<1>4. \A w \in Slots : slot'[w].marked => Sealed(row'[slot'[w].job])
  BY <1>2 DEF BillingFence
<1>5. \A w, x \in Slots : w # x /\ slot'[w].marked /\ slot'[x].marked
                           => slot'[w].job # slot'[x].job
  BY DEF BillingFence
<1>6. \A w \in Slots : Unsent(w)' => accepted'[slot'[w].job] = 0
  <2>1. \A w \in Slots : Unsent(w)' => slot'[w].marked
    BY DEF Unsent
  <2> QED
    BY <2>1 DEF BillingFence
<1> QED
  BY <1>1, <1>4, <1>5, <1>6 DEF BillingFence

LEMMA SweptSeals ==
  ASSUME NEW r \in Row
  PROVE  /\ Swept(r).marker = r.marker
         /\ r.status \in Terminal \cup {"purged", "absent"} => Swept(r).status = r.status
         /\ Swept(r).status = "absent" => r.status = "absent"
         /\ Swept(r).status \in Held => r.status \in Held
         /\ Swept(r).attempts = r.attempts
<1>1. /\ Ambiguous(r) \/ Expired(r) \/ Exhausted(r) => r.status \in Active
      /\ Swept(r) # r => Ambiguous(r) \/ Expired(r) \/ Exhausted(r)
  BY DEF Swept, Ambiguous, Expired, Exhausted, Abandoned, Lapsed, Active
<1>2. Swept(r) # r => /\ Swept(r).status = "dead"
                      /\ Swept(r).marker = r.marker
                      /\ Swept(r).attempts = r.attempts
  BY DEF Swept, Ended, Row
<1> QED
  BY <1>1, <1>2 DEF Active, Terminal, Held

LEMMA ClaimFence ==
  ASSUME TypeOK, TypeOK', BillingFence, NEW w \in Slots, Claim(w)
  PROVE  BillingFence'
<1> DEFINE swept == [j \in Jobs |-> Swept(row[j])]
<1>1. \A j \in Jobs :
        /\ swept[j] \in Row
        /\ swept[j].marker = row[j].marker
        /\ row[j].status \in Terminal \cup {"purged", "absent"} => swept[j].status = row[j].status
        /\ swept[j].status = "absent" => row[j].status = "absent"
        /\ swept[j].status \in Held => row[j].status \in Held
        /\ swept[j].attempts = row[j].attempts
  BY SweptSeals, SweptType DEF TypeOK
<1>2. /\ \A j \in Jobs : Sealed(row[j]) => Sealed(row'[j])
      /\ \A j \in Jobs : /\ row'[j].status = "absent" => row'[j].marker = 0
                         /\ row'[j].status \in Held => row'[j].attempts # 0
  <2>1. CASE row' = swept
    BY <1>1, <2>1 DEF Sealed, BillingFence
  <2>2. ASSUME NEW j \in Jobs, Claimable(swept[j]),
               row' = [swept EXCEPT ![j] = Leased(@, w)]
        PROVE  <1>2
    <3>1. swept[j].marker = 0 /\ swept[j].status \in Active
      BY <2>2 DEF Claimable, Lapsed, Active
    <3>2. ~Sealed(row[j])
      BY <1>1, <3>1 DEF Sealed, Active, Held, Terminal
    <3>3. /\ Leased(swept[j], w).status = "leased"
          /\ Leased(swept[j], w).attempts # 0
      BY <1>1 DEF Leased, Row
    <3>4. \A i \in Jobs : i # j => row'[i] = swept[i]
      BY <2>2
    <3>5. row'[j] = Leased(swept[j], w)
      BY <2>2
    <3> QED
      BY <1>1, <3>2, <3>3, <3>4, <3>5 DEF Sealed, BillingFence
  <2> QED
    BY <2>1, <2>2, <1>1 DEF Claim
<1>3. \A x \in Slots : \/ slot'[x] = slot[x]
                       \/ slot'[x].at = "claimed" /\ ~slot'[x].marked
  BY DEF Claim, TypeOK
<1>4. /\ \A x \in Slots : slot'[x].marked => slot[x].marked /\ slot'[x].job = slot[x].job
      /\ \A x \in Slots : slot'[x].at \in {"outbound", "calling"} => slot'[x].marked
      /\ \A x \in Slots : Unsent(x)' => Unsent(x)
  BY <1>3 DEF BillingFence, Unsent
<1> QED
  BY <1>2, <1>4, FenceKept DEF Claim

LEMMA MarkFence ==
  ASSUME TypeOK, TypeOK', BillingFence, NEW w \in Slots, Mark(w)
  PROVE  BillingFence'
<1> DEFINE job == slot[w].job
<1>0. job \in Jobs /\ slot[w] \in Slot /\ row[job] \in Row
  BY DEF TypeOK, Slot
<1>1. CASE ~CanMark(w, row[job])
  <2>1. row' = row /\ Leave(w)
    BY <1>1 DEF Mark
  <2>2. \A x \in Slots : slot'[x] = slot[x] \/ (slot'[x].at = "idle" /\ ~slot'[x].marked)
    BY <2>1, <1>0 DEF Leave, TypeOK, Slot
  <2> QED
    BY <2>1, <2>2, FenceKept DEF Mark, BillingFence, Unsent, Sealed
<1>2. CASE CanMark(w, row[job])
  <2>1. /\ row' = [row EXCEPT ![job].marker = row[job].attempts]
        /\ accepted' = accepted
    BY <1>2 DEF Mark
  <2>2. row[job].marker = 0 /\ row[job].status = "running"
    BY <1>2 DEF CanMark
  <2>3. ~Sealed(row[job]) /\ accepted[job] = 0
    BY <1>0, <2>2 DEF Sealed, Terminal, BillingFence
  <2>4. (\A j \in Jobs : Sealed(row[j]) => Sealed(row'[j])) /\ Sealed(row'[job])
    <3>1. \A j \in Jobs : j # job => row'[j] = row[j]
      BY <2>1
    <3>2. row'[job].marker = row[job].attempts /\ row[job].attempts # 0
      BY <2>1, <2>2, <1>0 DEF TypeOK, Row, BillingFence, Held
    <3> QED
      BY <2>3, <3>1, <3>2 DEF Sealed
  <2>5. \A j \in Jobs : /\ row'[j].status = "absent" => row'[j].marker = 0
                        /\ row'[j].status \in Held => row'[j].attempts # 0
    <3>1. \A j \in Jobs : j # job => row'[j] = row[j]
      BY <2>1
    <3>2. /\ row'[job].status = row[job].status
          /\ row'[job].attempts = row[job].attempts
      BY <2>1, <1>0 DEF TypeOK, Row
    <3>3. \A j \in Jobs : /\ row[j].status = "absent" => row[j].marker = 0
                          /\ row[j].status \in Held => row[j].attempts # 0
      BY DEF BillingFence
    <3>4. ASSUME NEW j \in Jobs
          PROVE  /\ row'[j].status = "absent" => row'[j].marker = 0
                 /\ row'[j].status \in Held => row'[j].attempts # 0
      <4>1. CASE j = job
        BY <2>2, <3>2, <3>3, <4>1, <1>0 DEF Held
      <4>2. CASE j # job
        BY <3>1, <3>3, <4>2
      <4> QED
        BY <4>1, <4>2
    <3> QED
      BY <3>4
  <2>6. CASE Leave(w) \/ Decide(w, "retryable")
    <3>1. \A x \in Slots : x # w => slot'[x] = slot[x]
      BY <2>6 DEF Leave, Decide, TypeOK
    <3>2. /\ slot'[w].marked => slot[w].marked
          /\ slot'[w].job = slot[w].job
          /\ slot'[w].at \in {"idle", "confirm"}
          /\ slot'[w].verdict \in {"none", "retryable"}
      <4>1. CASE Leave(w)
        BY <4>1, <1>0 DEF Leave, TypeOK, Slot
      <4>2. CASE Decide(w, "retryable")
        BY <4>2, <1>0 DEF Decide, TypeOK, Slot
      <4> QED
        BY <2>6, <4>1, <4>2
    <3> QED
      BY <2>1, <2>4, <2>5, <3>1, <3>2, FenceKept
      DEF BillingFence, Unsent, NotAcceptedVerdicts
  <2>7. CASE /\ row[job].attempts = slot[w].attempt
             /\ slot' = [slot EXCEPT ![w].at = "outbound", ![w].marked = TRUE]
    <3>1. \A x \in Slots : x # w => slot'[x] = slot[x]
      BY <2>7 DEF TypeOK
    <3>2. /\ slot'[w].marked /\ slot'[w].job = job /\ slot'[w].at = "outbound"
      BY <2>7, <1>0 DEF TypeOK, Slot
    <3>3. \A x \in Slots : slot[x].marked => slot[x].job # job
      BY <2>3 DEF BillingFence
    <3>4. \A j \in Jobs : accepted'[j] # 0 => accepted'[j] = 1 /\ Sealed(row'[j])
      BY <2>1, <2>4 DEF BillingFence
    <3>6. \A x \in Slots : slot'[x].marked => Sealed(row'[slot'[x].job])
      BY <2>4, <3>1, <3>2 DEF BillingFence, TypeOK, Slot
    <3>7. \A x, y \in Slots : x # y /\ slot'[x].marked /\ slot'[y].marked
                             => slot'[x].job # slot'[y].job
      BY <3>1, <3>2, <3>3 DEF BillingFence
    <3>8. \A x \in Slots : slot'[x].at \in {"outbound", "calling"} => slot'[x].marked
      BY <3>1, <3>2 DEF BillingFence
    <3>9. \A x \in Slots : Unsent(x)' => accepted'[slot'[x].job] = 0
      BY <2>1, <2>3, <3>1, <3>2 DEF BillingFence, Unsent
    <3> QED
      BY <2>5, <3>4, <3>6, <3>7, <3>8, <3>9 DEF BillingFence
  <2> QED
    BY <1>2, <2>6, <2>7 DEF Mark
<1> QED
  BY <1>1, <1>2

LEMMA PostFence ==
  ASSUME TypeOK, TypeOK', BillingFence, NEW w \in Slots, Post(w)
  PROVE  BillingFence'
<1> DEFINE job == slot[w].job
<1>1. job \in Jobs /\ slot[w] \in Slot
  BY DEF TypeOK, Slot
<1>2. PICK taken \in BOOLEAN :
        /\ slot' = [slot EXCEPT ![w].at = "calling", ![w].taken = taken]
        /\ accepted' = IF taken THEN [accepted EXCEPT ![job] = @ + 1] ELSE accepted
  BY DEF Post
<1>3. slot[w].at = "outbound" /\ slot[w].marked /\ accepted[job] = 0 /\ Sealed(row[job])
  BY DEF Post, BillingFence, Unsent
<1>4. /\ \A x \in Slots : x # w => slot'[x] = slot[x]
      /\ slot'[w].marked /\ slot'[w].job = job /\ slot'[w].at = "calling"
      /\ slot'[w].taken = taken
  BY <1>1, <1>2, <1>3 DEF TypeOK, Slot
<1>5. row' = row
  BY DEF Post
<1>6. /\ \A j \in Jobs : j # job => accepted'[j] = accepted[j]
      /\ accepted'[job] = IF taken THEN 1 ELSE 0
  BY <1>1, <1>2, <1>3 DEF TypeOK
<1>7. \A j \in Jobs : accepted'[j] # 0 => accepted'[j] = 1 /\ Sealed(row'[j])
  BY <1>3, <1>5, <1>6 DEF BillingFence
<1>8. \A x \in Slots : x # w /\ slot'[x].marked => slot'[x].job # job
  BY <1>3, <1>4 DEF BillingFence
<1>9. \A x \in Slots : Unsent(x)' => accepted'[slot'[x].job] = 0
  <2>1. ASSUME NEW x \in Slots, x # w, Unsent(x)'
        PROVE  accepted'[slot'[x].job] = 0
    BY <2>1, <1>4, <1>6, <1>8 DEF Unsent, BillingFence, TypeOK, Slot
  <2>2. Unsent(w)' => accepted'[slot'[w].job] = 0
    BY <1>4, <1>6 DEF Unsent
  <2> QED
    BY <2>1, <2>2
<1>10. \A x, y \in Slots : x # y /\ slot'[x].marked /\ slot'[y].marked
                          => slot'[x].job # slot'[y].job
  BY <1>3, <1>4 DEF BillingFence
<1>11. /\ \A x \in Slots : slot'[x].marked => Sealed(row'[slot'[x].job])
       /\ \A x \in Slots : slot'[x].at \in {"outbound", "calling"} => slot'[x].marked
  BY <1>3, <1>4, <1>5 DEF BillingFence
<1> QED
  BY <1>5, <1>7, <1>9, <1>10, <1>11 DEF BillingFence

\* What settling does to a row a slot owns.
LEMMA SettledSeals ==
  ASSUME NEW r \in Row, r.status \in Held, NEW w \in Slots, slot[w] \in Slot
  PROVE  /\ Settled(w, r).status \in Terminal \cup {"queued"}
         /\ \/ Sealed(Settled(w, r)) \/ ~Sealed(r)
            \/ slot[w].marked /\ slot[w].verdict \in NotAcceptedVerdicts
<1> DEFINE cleared == [r EXCEPT !.marker = IF slot[w].marked THEN 0 ELSE @]
           E       == ErrorSettled(w, r)
<1>1. cleared \in Row /\ (~slot[w].marked => cleared = r)
  BY JobQueueAssumption DEF Row
<1>2. \A q \in Row, s \in Statuses, c \in Codes :
         /\ Ended(q, s, c).status = s
         /\ Ended(q, s, c).marker = q.marker
         /\ Ended(q, s, c) \in Row
  BY EndedType DEF Ended, Row
<1>3. /\ [Ended(cleared, "queued", "error") EXCEPT !.due = FALSE].status = "queued"
      /\ [Ended(cleared, "queued", "error") EXCEPT !.due = FALSE].marker = cleared.marker
  <2>1. "queued" \in Statuses /\ "error" \in Codes
    BY DEF Statuses, Active, Codes
  <2> DEFINE q == Ended(cleared, "queued", "error")
  <2> HIDE DEF cleared
  <2>2. q \in Row /\ q.status = "queued" /\ q.marker = cleared.marker
    BY <1>1, <1>2, <2>1
  <2> HIDE DEF q
  <2>3. /\ [q EXCEPT !.due = FALSE].status = "queued"
        /\ [q EXCEPT !.due = FALSE].marker = cleared.marker
    BY <2>2 DEF Row
  <2> QED
    BY <2>3 DEF q
<1>4. /\ Ended(cleared, "dead", "error").status = "dead"
      /\ Ended(cleared, "failed", "error").status = "failed"
      /\ Ended(r, "dead", "provider_outcome_ambiguous").status = "dead"
      /\ Ended(r, "succeeded", "").status = "succeeded"
      /\ Ended(r, "cancelled", "").status = "cancelled"
      /\ Ended(r, "dead", "ciphertext_unreadable").status = "dead"
  BY <1>1 DEF Ended, Row
<1>5. E.status \in Terminal
        \/ /\ E.status = "queued"
           /\ E.marker = cleared.marker
           /\ ~(slot[w].marked /\ slot[w].verdict \notin NotAcceptedVerdicts)
  <2> DEFINE q == [Ended(cleared, "queued", "error") EXCEPT !.due = FALSE]
  <2>1. \/ E = Ended(r, "dead", "provider_outcome_ambiguous")
        \/ E = Ended(cleared, "failed", "error")
        \/ E = Ended(cleared, "dead", "error")
        \/ E = q /\ ~(slot[w].marked /\ slot[w].verdict \notin NotAcceptedVerdicts)
    BY DEF ErrorSettled
  <2> HIDE DEF q, E, cleared
  <2> QED
    BY <1>3, <1>4, <2>1 DEF q, Terminal
<1>6. \/ Settled(w, r) = E
      \/ Settled(w, r).status \in Terminal
  BY <1>4 DEF Settled, Terminal
<1>7. CASE Settled(w, r).status \in Terminal
  BY <1>7 DEF Sealed
<1>8. CASE Settled(w, r) = E /\ E.status = "queued" /\ E.marker = cleared.marker
           /\ ~(slot[w].marked /\ slot[w].verdict \notin NotAcceptedVerdicts)
  <2>1. CASE slot[w].marked
    BY <1>8, <2>1
  <2>2. CASE ~slot[w].marked
    <3>1. E.marker = r.marker
      BY <1>1, <1>8, <2>2
    <3> QED
      BY <1>8, <3>1 DEF Sealed, Held, Terminal
  <2> QED
    BY <2>1, <2>2
<1> QED
  BY <1>5, <1>6, <1>7, <1>8

LEMMA SettleFence ==
  ASSUME TypeOK, TypeOK', BillingFence, NEW w \in Slots, Settle(w)
  PROVE  BillingFence'
<1> DEFINE job == slot[w].job
<1>1. job \in Jobs /\ slot[w] \in Slot /\ row[job] \in Row
  BY DEF TypeOK, Slot
<1>2. /\ \A x \in Slots : x # w => slot'[x] = slot[x]
      /\ slot'[w].at = "idle" /\ ~slot'[w].marked
      /\ accepted' = accepted
  BY <1>1 DEF Settle, Leave, TypeOK, Slot
<1>3. \A j \in Jobs : j # job => row'[j] = row[j]
  BY DEF Settle
<1>4. CASE ~Owns(w, row[job])
  <2>1. row' = row
    BY <1>4 DEF Settle
  <2> QED
    BY <1>2, <2>1, FenceKept DEF BillingFence, Unsent
<1>5. CASE Owns(w, row[job])
  <2>1. row'[job] = Settled(w, row[job]) /\ row[job].status \in Held
    BY <1>1, <1>5 DEF Settle, TypeOK, Owns
  <2>2. /\ row'[job].status \in Terminal \cup {"queued"}
        /\ \/ Sealed(row'[job]) \/ ~Sealed(row[job])
           \/ slot[w].marked /\ slot[w].verdict \in NotAcceptedVerdicts
    BY <1>1, <2>1, SettledSeals
  <2>3. \A j \in Jobs : /\ row'[j].status = "absent" => row'[j].marker = 0
                        /\ row'[j].status \in Held => row'[j].attempts # 0
    BY <1>3, <2>2 DEF BillingFence, Terminal, Held
  <2>4. CASE Sealed(row'[job]) \/ ~Sealed(row[job])
    <3>1. \A j \in Jobs : Sealed(row[j]) => Sealed(row'[j])
      BY <1>3, <2>4
    <3> QED
      BY <1>2, <2>3, <3>1, FenceKept DEF BillingFence, Unsent
  <2>5. CASE slot[w].marked /\ slot[w].verdict \in NotAcceptedVerdicts
    <3>1. accepted[job] = 0
      BY <2>5 DEF Settle, BillingFence, Unsent
    <3>2. \A x \in Slots : x # w /\ slot[x].marked => slot[x].job # job
      BY <2>5 DEF BillingFence
    <3>3. \A j \in Jobs : accepted'[j] # 0 => accepted'[j] = 1 /\ Sealed(row'[j])
      BY <1>2, <1>3, <3>1 DEF BillingFence
    <3>4. \A x \in Slots : slot'[x].marked => Sealed(row'[slot'[x].job])
      BY <1>2, <1>3, <3>2 DEF BillingFence, TypeOK, Slot
    <3>5. /\ \A x, y \in Slots : x # y /\ slot'[x].marked /\ slot'[y].marked
                                => slot'[x].job # slot'[y].job
          /\ \A x \in Slots : slot'[x].at \in {"outbound", "calling"} => slot'[x].marked
      BY <1>2 DEF BillingFence
    <3>6. \A x \in Slots : Unsent(x)' => accepted'[slot'[x].job] = 0
      BY <1>2 DEF BillingFence, Unsent
    <3> QED
      BY <2>3, <3>3, <3>4, <3>5, <3>6 DEF BillingFence
  <2> QED
    BY <2>2, <2>4, <2>5
<1> QED
  BY <1>4, <1>5

\* The steps of a slot that leave every row alone.
LEMMA QuietFence ==
  ASSUME TypeOK, TypeOK', BillingFence, NEW w \in Slots,
         Decrypt(w) \/ WorkFails(w) \/ Compress(w) \/ Answer(w)
           \/ Produced(w) \/ Confirm(w) \/ Abandon(w)
  PROVE  BillingFence'
<1>1. slot[w] \in Slot
  BY DEF TypeOK
<1>2. row' = row /\ accepted' = accepted
  BY DEF Decrypt, WorkFails, Compress, Answer, Produced, Confirm, Abandon
<1>3. \A x \in Slots : x # w => slot'[x] = slot[x]
  BY DEF Decrypt, WorkFails, Compress, Answer, Produced, Confirm, Abandon,
         Goto, Leave, Decide, TypeOK
<1>4. /\ slot'[w].marked => slot[w].marked
      /\ slot'[w].job = slot[w].job
      /\ slot'[w].at \notin {"outbound", "calling"}
  <2>1. ASSUME NEW p \in {"work", "produced", "settle"}, Goto(w, p)
        PROVE  <1>4
    BY <1>1, <2>1 DEF Goto, TypeOK, Slot
  <2>2. CASE Leave(w)
    BY <1>1, <2>2 DEF Leave, TypeOK, Slot
  <2>3. ASSUME NEW v \in Verdicts, Decide(w, v)
        PROVE  <1>4
    BY <1>1, <2>3 DEF Decide, TypeOK, Slot
  <2> QED
    BY <2>1, <2>2, <2>3
    DEF Decrypt, WorkFails, Compress, Answer, Produced, Confirm, Abandon, Verdicts
<1>5. Unsent(w)' => Unsent(w)
  <2>1. ASSUME NEW v \in Verdicts, Decide(w, v)
        PROVE  slot'[w].verdict = v
    BY <1>1, <2>1 DEF Decide, TypeOK, Slot
  <2>2. CASE Decrypt(w) \/ WorkFails(w) \/ Produced(w)
    <3>1. \/ slot'[w].at = "work"
          \/ slot'[w].verdict \notin NotAcceptedVerdicts
      BY <1>1, <2>1, <2>2 DEF Decrypt, WorkFails, Produced, Goto, TypeOK, Slot,
                              NotAcceptedVerdicts, Verdicts
    <3> QED
      BY <1>4, <3>1 DEF Unsent
  <2>3. CASE Answer(w)
    <3>1. \/ slot'[w].at = "produced"
          \/ slot'[w].verdict \notin NotAcceptedVerdicts
          \/ ~slot[w].taken
      BY <1>1, <2>1, <2>3 DEF Answer, Goto, TypeOK, Slot, NotAcceptedVerdicts, Verdicts
    <3>2. slot[w].at = "calling"
      BY <2>3 DEF Answer
    <3> QED
      BY <1>4, <3>1, <3>2 DEF Unsent
  <2>4. CASE Compress(w) \/ Abandon(w)
    <3>1. slot'[w].at \in {"produced", "idle"}
      BY <1>1, <2>4, ZenonT(40) DEF Compress, Abandon, Goto, Leave, TypeOK, Slot
    <3> QED
      BY <3>1 DEF Unsent
  <2>5. CASE Confirm(w)
    <3>1. \/ slot'[w].at = "idle"
          \/ slot'[w].verdict = slot[w].verdict /\ slot[w].at = "confirm"
      BY <1>1, <2>5, ZenonT(40) DEF Confirm, Goto, Leave, TypeOK, Slot
    <3> QED
      BY <1>4, <3>1 DEF Unsent
  <2> QED
    BY <2>2, <2>3, <2>4, <2>5
<1> QED
  BY <1>2, <1>3, <1>4, <1>5, FenceKept DEF BillingFence, Unsent

\* Steps of the store, of time and of requests move no slot, keep every marker,
\* and open no finished row again.
LEMMA StoreFence ==
  ASSUME TypeOK, TypeOK', BillingFence, UNCHANGED <<slot, accepted>>,
         \A j \in Jobs :
           \/ row'[j].marker = row[j].marker /\ row'[j].attempts = row[j].attempts
              /\ row'[j].status = row[j].status
           \/ row'[j].marker = row[j].marker
              /\ row'[j].status \in Terminal \cup {"purged"}
           \/ row'[j].marker = row[j].marker
              /\ row[j].status = "absent" /\ row'[j].status = "queued"
           \/ row'[j].marker = row[j].marker /\ row'[j].attempts = row[j].attempts
              /\ row[j].status \in Held /\ row'[j].status = "running"
  PROVE  BillingFence'
<1>1. \A j \in Jobs : Sealed(row[j]) => Sealed(row'[j])
  BY DEF Sealed, Terminal, Held
<1>2. \A j \in Jobs : /\ row'[j].status = "absent" => row'[j].marker = 0
                      /\ row'[j].status \in Held => row'[j].attempts # 0
  BY DEF BillingFence, Terminal, Held
<1> QED
  BY <1>1, <1>2, FenceKept DEF BillingFence, Unsent

LEMMA StartFence ==
  ASSUME TypeOK, TypeOK', BillingFence, NEW w \in Slots, Start(w)
  PROVE  BillingFence'
<1>1. slot[w] \in Slot /\ slot[w].job \in Jobs
  BY DEF TypeOK, Slot
<1>2. /\ \A x \in Slots : x # w => slot'[x] = slot[x]
      /\ slot'[w].job = slot[w].job
      /\ slot'[w].marked => slot[w].marked
      /\ slot'[w].at \in {"decrypt", "idle"}
  <2>1. CASE Goto(w, "decrypt")
    BY <1>1, <2>1 DEF Goto, TypeOK, Slot
  <2>2. CASE Leave(w)
    BY <1>1, <2>2 DEF Leave, TypeOK, Slot
  <2> QED
    BY <2>1, <2>2 DEF Start
<1>3. \A j \in Jobs : /\ row'[j].marker = row[j].marker
                      /\ row'[j].attempts = row[j].attempts
                      /\ \/ row'[j].status = row[j].status
                         \/ row[j].status \in Held /\ row'[j].status = "running"
  BY <1>1 DEF Start, Owns, TypeOK, Row
<1>4. \A j \in Jobs : Sealed(row[j]) => Sealed(row'[j])
  BY <1>3 DEF Sealed, Terminal, Held
<1>5. \A j \in Jobs : /\ row'[j].status = "absent" => row'[j].marker = 0
                      /\ row'[j].status \in Held => row'[j].attempts # 0
  BY <1>3 DEF BillingFence, Held
<1> QED
  BY <1>2, <1>4, <1>5, FenceKept DEF Start, BillingFence, Unsent

LEMMA NextFence == TypeOK /\ TypeOK' /\ BillingFence /\ [Next]_vars => BillingFence'
<1> SUFFICES ASSUME TypeOK, TypeOK', BillingFence, [Next]_vars
             PROVE  BillingFence'
  OBVIOUS
<1>1. ASSUME NEW w \in Slots, Claim(w) \/ Progress(w) \/ Abandon(w)
      PROVE  BillingFence'
  BY <1>1, ClaimFence, StartFence, QuietFence, MarkFence, PostFence, SettleFence
  DEF Progress
<1>2. ASSUME NEW c \in Clients, SubmitCreate(c)
      PROVE  BillingFence'
  <2>1. CASE UNCHANGED row
    BY <1>2, <2>1, StoreFence DEF SubmitCreate
  <2>2. ASSUME NEW j \in Jobs, NEW o \in Kinds, row[j].status = "absent",
               row' = [row EXCEPT ![j] =
                        [@ EXCEPT !.status = "queued", !.key = client[c].key,
                                  !.op = o, !.due = TRUE, !.retained = TRUE]]
        PROVE  BillingFence'
    <3>1. row'[j].marker = row[j].marker /\ row'[j].status = "queued"
      BY <2>2 DEF TypeOK, Row
    <3>2. \A i \in Jobs : i # j => row'[i] = row[i]
      BY <2>2 DEF TypeOK
    <3> QED
      BY <1>2, <2>2, <3>1, <3>2, StoreFence DEF SubmitCreate
  <2> QED
    BY <1>2, <2>1, <2>2 DEF SubmitCreate
<1>3. ASSUME NEW c \in Clients, CancelWrite(c)
      PROVE  BillingFence'
  <2> DEFINE job == client[c].job
  <2>1. job \in Jobs /\ row[job] \in Row
    BY DEF TypeOK, Client
  <2>2. \A j \in Jobs : j # job => row'[j] = row[j]
    BY <1>3 DEF CancelWrite
  <2>3. /\ row'[job].marker = row[job].marker
        /\ row'[job].attempts = row[job].attempts
        /\ row'[job].status \in {row[job].status, "cancelled"}
    <3>1. /\ Ended(row[job], "cancelled", row[job].code) \in Row
          /\ Ended(row[job], "cancelled", row[job].code).status = "cancelled"
          /\ Ended(row[job], "cancelled", row[job].code).marker = row[job].marker
          /\ Ended(row[job], "cancelled", row[job].code).attempts = row[job].attempts
      BY <2>1 DEF Ended, Row, Statuses, Terminal
    <3> DEFINE q == [Ended(row[job], "cancelled", row[job].code) EXCEPT !.cancel = TRUE]
               p == [row[job] EXCEPT !.cancel = TRUE]
    <3>2. q.status = "cancelled" /\ q.marker = row[job].marker /\ q.attempts = row[job].attempts
      BY <3>1 DEF Row
    <3>3. p.status = row[job].status /\ p.marker = row[job].marker /\ p.attempts = row[job].attempts
      BY <2>1 DEF Row
    <3>4. row'[job] \in {q, p, row[job]}
      BY <1>3, <2>1 DEF CancelWrite, TypeOK
    <3> HIDE DEF q, p
    <3> QED
      BY <3>2, <3>3, <3>4
  <2> QED
    BY <1>3, <2>2, <2>3, StoreFence DEF CancelWrite, Terminal
<1>4. CASE \/ \E c \in Clients : \/ \E k \in Keys : SubmitCheck(c, k)
                                \/ \E j \in Jobs : CancelRead(c, j)
           \/ UNCHANGED vars
  <2>1. UNCHANGED <<row, slot, accepted>>
    BY <1>4 DEF SubmitCheck, CancelRead, vars
  <2> QED
    BY <2>1, StoreFence
<1>5. ASSUME NEW j \in Jobs,
             LeaseEnds(j) \/ BackoffEnds(j) \/ RetentionEnds(j) \/ QuarantineResult(j)
      PROVE  BillingFence'
  <2>1. \A i \in Jobs : i # j => row'[i] = row[i]
    BY <1>5 DEF LeaseEnds, BackoffEnds, RetentionEnds, QuarantineResult, TypeOK
  <2>2. /\ row'[j].marker = row[j].marker
        /\ row'[j].attempts = row[j].attempts
        /\ row'[j].status = row[j].status \/ row'[j].status = "dead"
    BY <1>5 DEF LeaseEnds, BackoffEnds, RetentionEnds, QuarantineResult, TypeOK, Row
  <2> QED
    BY <1>5, <2>1, <2>2, StoreFence
    DEF LeaseEnds, BackoffEnds, RetentionEnds, QuarantineResult, Terminal
<1>6. CASE Purge
  <2>1. \A j \in Jobs : /\ row'[j].marker = row[j].marker
                        /\ row'[j].attempts = row[j].attempts
                        /\ row'[j].status \in {row[j].status, "purged"}
    BY <1>6 DEF Purge, TypeOK, Row
  <2> QED
    BY <1>6, <2>1, StoreFence DEF Purge
<1> QED
  BY <1>1, <1>2, <1>3, <1>4, <1>5, <1>6 DEF Next

LEMMA InitFence == Init => BillingFence
<1> SUFFICES ASSUME Init PROVE BillingFence
  OBVIOUS
<1>1. \A j \in Jobs : /\ row[j].status = "absent" /\ row[j].marker = 0
                      /\ accepted[j] = 0
  <2>1. PICK k \in Keys :
          row = [j \in Jobs |->
                [status |-> "absent", key |-> k, op |-> "chat", attempts |-> 0,
                 owner |-> NoOwner, live |-> FALSE, due |-> FALSE,
                 retained |-> FALSE, cancel |-> FALSE, marker |-> 0, code |-> ""]]
    BY DEF Init
  <2> QED
    BY <2>1 DEF Init
<1>2. \A w \in Slots : slot[w].at = "idle" /\ ~slot[w].marked
  <2>1. PICK j \in Jobs :
          slot = [w \in Slots |->
                 [at |-> "idle", job |-> j, attempt |-> 0, marked |-> FALSE,
                  taken |-> FALSE, verdict |-> "none"]]
    BY DEF Init
  <2> QED
    BY <2>1
<1> QED
  BY <1>1, <1>2 DEF BillingFence, Unsent, Held

\* The fence around the billable call is inductive, for every assignment of
\* lease_owner values to slots, two slots with the same one included.
THEOREM FenceCorrect == Spec => []BillingFence
<1>1. Init => TypeOK /\ BillingFence
  BY InitType, InitFence
<1>2. TypeOK /\ BillingFence /\ [Next]_vars => (TypeOK /\ BillingFence)'
  BY NextType, NextFence
<1> QED
  BY <1>1, <1>2, PTL DEF Spec

\* A job is billed at most once: no crash, lost reply, lease loss, reclaim,
\* retry or cancellation makes the provider accept two of its requests.
THEOREM AtMostOnce == Spec => []AtMostOneAccepted
<1>1. TypeOK /\ BillingFence => AtMostOneAccepted
  BY DEF TypeOK, BillingFence, AtMostOneAccepted
<1> QED
  BY <1>1, TypeCorrect, FenceCorrect, PTL

-----------------------------------------------------------------------------
(* Final outcomes. *)

FinalStep(j) ==
  row[j].status \in Terminal =>
    \/ row'[j].status \in {row[j].status, "purged"}
    \/ row[j].status = "succeeded" /\ row'[j].status = "dead"

LEMMA NextFinal == TypeOK /\ [Next]_vars => \A j \in Jobs : FinalStep(j)
<1> SUFFICES ASSUME TypeOK, [Next]_vars, NEW j \in Jobs, row[j].status \in Terminal
             PROVE  row'[j] = row[j] \/ FinalStep(j)
  BY DEF FinalStep
<1> USE DEF TypeOK
<1>1. ASSUME NEW w \in Slots, Claim(w)
      PROVE  row'[j] = row[j]
  <2>1. Swept(row[j]) = row[j] /\ ~Claimable(row[j])
    BY DEF Swept, Ambiguous, Expired, Exhausted, Abandoned, Lapsed, Claimable,
           Terminal, Held
  <2> QED
    BY <1>1, <2>1 DEF Claim
<1>2. ASSUME NEW w \in Slots, Progress(w) \/ Abandon(w)
      PROVE  row'[j] = row[j]
  <2>1. CASE UNCHANGED row
    BY <2>1
  <2>2. CASE Start(w)
    BY <2>2 DEF Start, Owns, Terminal, Held
  <2>3. CASE Mark(w)
    BY <2>3 DEF Mark, CanMark, Owns, Terminal, Held
  <2>4. CASE Settle(w)
    BY <2>4 DEF Settle, Owns, Terminal, Held
  <2> QED
    BY <1>2, <2>1, <2>2, <2>3, <2>4
    DEF Progress, Decrypt, WorkFails, Compress, Post, Answer, Produced, Confirm, Abandon
<1>3. ASSUME NEW c \in Clients, SubmitCreate(c)
      PROVE  row'[j] = row[j]
  BY <1>3 DEF SubmitCreate, Terminal
<1>4. ASSUME NEW c \in Clients, CancelWrite(c)
      PROVE  row'[j] = row[j]
  BY <1>4 DEF CancelWrite, Terminal, Active, Held
<1>5. CASE \/ \E c \in Clients : \/ \E k \in Keys : SubmitCheck(c, k)
                                \/ \E i \in Jobs : CancelRead(c, i)
           \/ UNCHANGED vars
  BY <1>5 DEF SubmitCheck, CancelRead, vars
<1>6. ASSUME NEW i \in Jobs,
             LeaseEnds(i) \/ BackoffEnds(i) \/ RetentionEnds(i) \/ QuarantineResult(i)
      PROVE  FinalStep(j)
  BY <1>6 DEF LeaseEnds, BackoffEnds, RetentionEnds, QuarantineResult, FinalStep, Row
<1>7. CASE Purge
  BY <1>7 DEF Purge, FinalStep, Row
<1> QED
  BY <1>1, <1>2, <1>3, <1>4, <1>5, <1>6, <1>7 DEF Next

\* Once the tenant can read a final outcome, no late worker, sweep or
\* cancellation replaces it.
THEOREM FinalityCorrect == Spec => TerminalIsFinal
<1>1. TypeOK /\ [Next]_vars =>
        [\A j \in Jobs : row[j].status \in Terminal =>
           \/ row'[j].status \in {row[j].status, "purged"}
           \/ row[j].status = "succeeded" /\ row'[j].status = "dead"]_vars
  BY NextFinal DEF FinalStep
<1> QED
  BY <1>1, TypeCorrect, PTL DEF Spec, TerminalIsFinal
-----------------------------------------------------------------------------
(* Who holds a row, and what a slot knows of it.  The fence compares the     *)
(* lease owner only, so this part needs what generated worker ids give: no   *)
(* two slots write the same lease_owner.                                     *)

OwnersDistinct == \A w, x \in Slots : SlotId[w] = SlotId[x] => w = x

\* A row: exactly a leased or running one has an owner, only such a one a live
\* lease, and only a chat row an outbound marker.
Shaped(r) == /\ r.owner # NoOwner <=> r.status \in Held
             /\ r.live => r.status \in Held
             /\ r.marker # 0 => r.op = "chat"

\* A row of which the provider accepted n requests: how it may have ended.
Labelled(r, n) ==
  n # 0 /\ r.status \in Terminal =>
    \/ r.status \in {"succeeded", "cancelled"}
    \/ r.code \in {"provider_outcome_ambiguous", "ciphertext_unreadable"}

\* A slot whose locals are s, working on row r with n accepted requests.
Knows(w, s, r, n) ==
  /\ s.marked => s.at # "idle"
  /\ s.at # "idle" =>
       /\ r.status # "absent"
       /\ r.owner = SlotId[w] => s.attempt = r.attempts /\ (n # 0 => s.marked)
       /\ s.marked => /\ r.op = "chat"
                      /\ \/ r.status = "running" /\ r.owner = SlotId[w] /\ r.marker # 0
                         \/ r.status = "dead" /\ r.code = "provider_outcome_ambiguous"
                         \/ r.status = "purged"
       /\ s.at = "calling" /\ s.taken => n # 0
       /\ s.at = "produced" \/ s.verdict = "ok" => r.op = "compress" \/ n # 0

RowsShaped == \A j \in Jobs : Shaped(row[j])
Ownership  == /\ \A j \in Jobs : Labelled(row[j], accepted[j])
              /\ \A w \in Slots :
                   Knows(w, slot[w], row[slot[w].job], accepted[slot[w].job])

\* The ways a row changes: by the store, by time and by requests; ...
Changed(r, s) ==
  /\ s.attempts = r.attempts
  /\ s.marker = r.marker
  /\ r.status # "absent" => s.op = r.op
  /\ \/ /\ s.status = r.status /\ s.owner = r.owner /\ s.code = r.code /\ s.op = r.op
        /\ s.live => r.live
     \/ r.status = "absent" /\ s.status = "queued" /\ s.owner = r.owner /\ s.live = r.live
     \/ /\ s.owner = NoOwner /\ ~s.live
        /\ \/ r.status \in {"queued", "leased"} /\ s.status = "cancelled"
           \/ /\ r.status \in Active /\ s.status = "dead"
              /\ Ambiguous(r) => s.code = "provider_outcome_ambiguous"
              /\ Abandoned(r)
     \/ /\ s.owner = r.owner /\ s.live = r.live
        /\ \/ r.status \in Terminal /\ s.status = "purged" /\ s.code = r.code
           \/ r.status = "succeeded" /\ s.status = "dead" /\ s.code = "ciphertext_unreadable"

\* ... by a claim of slot w; ...
Claimed(w, r, s) ==
  /\ r.status \in Active /\ r.marker = 0
  /\ RetentionApplies(r) => r.retained
  /\ s.status = "leased" /\ s.owner = SlotId[w] /\ s.attempts = r.attempts + 1
  /\ s.op = r.op /\ s.marker = r.marker

\* ... and by the fenced writes of the slot that owns it: it becomes running, is
\* marked, or is settled with the label its verdict v and marker m give.
Written(w, r, s) ==
  /\ Owns(w, r)
  /\ s.attempts = r.attempts /\ s.op = r.op
  /\ s.owner = r.owner /\ s.status = "running"
  /\ \/ s.marker = r.marker
     \/ CanMark(w, r) /\ s.marker = r.attempts

Finished(w, v, m, r, s) ==
  /\ Owns(w, r)
  /\ s.attempts = r.attempts /\ s.op = r.op
  /\ s.owner = NoOwner /\ ~s.live
  /\ s.marker \in {0, r.marker}
  /\ \/ s.status = "succeeded" /\ v = "ok"
     \/ s.status = "cancelled" /\ v = "cancelled"
     \/ s.status = "dead" /\ s.code \in {"provider_outcome_ambiguous", "ciphertext_unreadable"}
     \/ s.status \in {"queued", "failed", "dead"} /\ v \notin {"ok", "cancelled"}
        /\ (m => v \in NotAcceptedVerdicts)


LEMMA ShapedKept ==
  ASSUME NEW r \in Row, NEW s \in Row, NEW w \in Slots, NEW v, NEW m, Shaped(r),
         Claimed(w, r, s) \/ Written(w, r, s) \/ Finished(w, v, m, r, s)
  PROVE  Shaped(s)
<1>1. SlotId[w] # NoOwner
  BY JobQueueAssumption
<1>3. CASE Claimed(w, r, s)
  BY <1>1, <1>3 DEF Claimed, Shaped, Held
<1>4. CASE Written(w, r, s)
  BY <1>4 DEF Written, CanMark, Owns, Shaped, Held
<1>5. CASE Finished(w, v, m, r, s)
  BY <1>5 DEF Finished, Owns, Shaped, Held
<1> QED
  BY <1>3, <1>4, <1>5

LEMMA ShapedChanged ==
  ASSUME NEW r \in Row, NEW s \in Row, Shaped(r), Changed(r, s),
         r.status = "absent" => r.marker = 0
  PROVE  Shaped(s)
BY DEF Changed, Shaped, Held, Terminal, Active

\* The store and the other slots take nothing from what slot x knows.
LEMMA KnowsKept ==
  ASSUME NEW x \in Slots, NEW l \in Slot, NEW r \in Row, NEW s \in Row, NEW n \in Nat,
         Shaped(r), Knows(x, l, r, n), Changed(r, s)
  PROVE  Knows(x, l, s, n)
<1>1. SlotId[x] # NoOwner
  BY JobQueueAssumption
<1> SUFFICES ASSUME l.at # "idle", r.status # "absent"
             PROVE  Knows(x, l, s, n)
  BY DEF Knows
<1>2. s.status # "absent" /\ s.op = r.op
  BY DEF Changed, Terminal
<1>3. s.owner = SlotId[x] => r.owner = SlotId[x] /\ s.attempts = r.attempts
  BY <1>1 DEF Changed
<1>4. ASSUME l.marked
      PROVE  \/ s.status = "running" /\ s.owner = SlotId[x] /\ s.marker # 0
             \/ s.status = "dead" /\ s.code = "provider_outcome_ambiguous"
             \/ s.status = "purged"
  <2>1. CASE r.status = "running" /\ r.owner = SlotId[x] /\ r.marker # 0 /\ r.op = "chat"
    BY <2>1 DEF Changed, Ambiguous, Terminal
  <2>2. CASE r.status = "dead" /\ r.code = "provider_outcome_ambiguous"
    BY <2>2 DEF Changed, Active, Held
  <2>3. CASE r.status = "purged"
    BY <2>3 DEF Changed, Active, Held, Terminal
  <2> QED
    BY <1>4, <2>1, <2>2, <2>3 DEF Knows
<1> QED
  BY <1>2, <1>3, <1>4 DEF Knows

LEMMA OthersKnow ==
  ASSUME NEW w \in Slots, NEW x \in Slots, SlotId[w] # SlotId[x], NEW v, NEW m,
         NEW l \in Slot, NEW r \in Row, NEW s \in Row, NEW n \in Nat,
         Shaped(r), Knows(x, l, r, n),
         Claimed(w, r, s) \/ Written(w, r, s) \/ Finished(w, v, m, r, s)
  PROVE  Knows(x, l, s, n)
<1>1. SlotId[x] # NoOwner
  BY JobQueueAssumption
<1> SUFFICES ASSUME l.at # "idle", r.status # "absent"
             PROVE  Knows(x, l, s, n)
  BY DEF Knows
<1>2. s.status # "absent" /\ s.op = r.op
  BY DEF Claimed, Written, Finished
<1>3. s.owner # SlotId[x]
  BY <1>1 DEF Claimed, Written, Finished, Owns
<1>4. r.status \in Active /\ (r.status = "running" => r.owner # SlotId[x] \/ r.marker = 0)
  BY DEF Claimed, Written, Finished, Owns, Active
<1>5. ~l.marked
  BY <1>4 DEF Knows, Active, Held
<1> QED
  BY <1>2, <1>3, <1>5 DEF Knows

-----------------------------------------------------------------------------
(* Every step moves the rows in one of these ways. *)

LEMMA SweptChanged ==
  ASSUME NEW r \in Row
  PROVE  Changed(r, Swept(r))
<1>1. CASE Ambiguous(r) \/ Expired(r) \/ Exhausted(r)
  <2>1. Abandoned(r) /\ r.status \in Active
    BY <1>1 DEF Ambiguous, Expired, Exhausted, Abandoned, Lapsed, Active
  <2>2. /\ Swept(r).status = "dead" /\ Swept(r).owner = NoOwner /\ ~Swept(r).live
        /\ Swept(r).attempts = r.attempts /\ Swept(r).marker = r.marker
        /\ Swept(r).op = r.op
        /\ Ambiguous(r) => Swept(r).code = "provider_outcome_ambiguous"
    BY <1>1 DEF Swept, Ended, Row
  <2> QED
    BY <2>1, <2>2 DEF Changed
<1>2. CASE ~(Ambiguous(r) \/ Expired(r) \/ Exhausted(r))
  <2>1. Swept(r) = r
    BY <1>2 DEF Swept
  <2> QED
    BY <2>1 DEF Changed
<1> QED
  BY <1>1, <1>2

LEMMA ClaimMoves ==
  ASSUME TypeOK, NEW w \in Slots, Claim(w)
  PROVE  /\ accepted' = accepted
         /\ slot[w].at = "idle"
         /\ \A x \in Slots : x # w => slot'[x] = slot[x]
         /\ \A j \in Jobs : Changed(row[j], row'[j]) \/ Claimed(w, row[j], row'[j])
         /\ \/ slot'[w] = slot[w]
            \/ \E j \in Jobs :
                 /\ Claimed(w, row[j], row'[j])
                 /\ slot'[w] = [at |-> "claimed", job |-> j, attempt |-> row'[j].attempts,
                                marked |-> FALSE, taken |-> FALSE, verdict |-> "none"]
<1> USE DEF TypeOK
<1> DEFINE swept == [j \in Jobs |-> Swept(row[j])]
<1>1. \A j \in Jobs : Changed(row[j], swept[j])
  BY SweptChanged
<1>2. accepted' = accepted /\ slot[w].at = "idle"
  BY DEF Claim
<1>3. CASE row' = swept /\ UNCHANGED slot
  BY <1>1, <1>2, <1>3
<1>4. ASSUME NEW j \in Jobs, Claimable(swept[j]),
             row' = [swept EXCEPT ![j] = Leased(@, w)],
             \/ slot' = [slot EXCEPT ![w] =
                  [at |-> "claimed", job |-> j, attempt |-> row[j].attempts + 1,
                   marked |-> FALSE, taken |-> FALSE, verdict |-> "none"]]
             \/ UNCHANGED slot
      PROVE  /\ \A x \in Slots : x # w => slot'[x] = slot[x]
             /\ \A i \in Jobs : Changed(row[i], row'[i]) \/ Claimed(w, row[i], row'[i])
             /\ \/ slot'[w] = slot[w]
                \/ \E i \in Jobs :
                     /\ Claimed(w, row[i], row'[i])
                     /\ slot'[w] = [at |-> "claimed", job |-> i,
                                    attempt |-> row'[i].attempts,
                                    marked |-> FALSE, taken |-> FALSE, verdict |-> "none"]
  <2>1. swept[j] = row[j]
    <3>1. swept[j].status # "dead"
      BY <1>4 DEF Claimable, Lapsed, Held
    <3>2. Swept(row[j]) = row[j] \/ Swept(row[j]).status = "dead"
      BY DEF Swept, Ended, Row
    <3> QED
      BY <3>1, <3>2
  <2>2. row'[j] = Leased(row[j], w) /\ \A i \in Jobs : i # j => row'[i] = swept[i]
    BY <1>4, <2>1
  <2>3. /\ Leased(row[j], w).status = "leased" /\ Leased(row[j], w).owner = SlotId[w]
        /\ Leased(row[j], w).attempts = row[j].attempts + 1
        /\ Leased(row[j], w).op = row[j].op /\ Leased(row[j], w).marker = row[j].marker
    BY DEF Leased, Row
  <2>4. /\ row[j].status \in Active /\ row[j].marker = 0
        /\ RetentionApplies(row[j]) => row[j].retained
    BY <1>4, <2>1 DEF Claimable, Lapsed, Active
  <2>5. Claimed(w, row[j], row'[j])
    BY <2>2, <2>3, <2>4 DEF Claimed
  <2>6. \A i \in Jobs : Changed(row[i], row'[i]) \/ Claimed(w, row[i], row'[i])
    BY <1>1, <2>2, <2>5
  <2>7. row'[j].attempts = row[j].attempts + 1
    BY <2>2, <2>3
  <2> QED
    BY <1>4, <2>5, <2>6, <2>7
<1> QED
  BY <1>2, <1>3, <1>4 DEF Claim

\* The steps that no slot takes.
StoreStep == \/ \E c \in Clients : \/ \E k \in Keys : SubmitCheck(c, k)
                                   \/ \E j \in Jobs : CancelRead(c, j)
                                   \/ SubmitCreate(c) \/ CancelWrite(c)
             \/ \E j \in Jobs : \/ LeaseEnds(j) \/ BackoffEnds(j)
                                \/ RetentionEnds(j) \/ QuarantineResult(j)
             \/ Purge
             \/ UNCHANGED vars

LEMMA StoreMoves ==
  ASSUME TypeOK, StoreStep
  PROVE  /\ UNCHANGED <<slot, accepted>>
         /\ \A j \in Jobs : Changed(row[j], row'[j])
<1> USE DEF TypeOK
<1>0. \A j \in Jobs : Changed(row[j], row[j])
  BY DEF Changed
<1>1. UNCHANGED <<slot, accepted>>
  BY DEF StoreStep, SubmitCheck, CancelRead, SubmitCreate, CancelWrite, LeaseEnds,
         BackoffEnds, RetentionEnds, QuarantineResult, Purge, vars
<1> SUFFICES ASSUME NEW j \in Jobs PROVE Changed(row[j], row'[j])
  BY <1>1
<1>2. CASE row'[j] = row[j]
  BY <1>0, <1>2
<1>3. ASSUME NEW c \in Clients, SubmitCreate(c), row'[j] # row[j]
      PROVE  Changed(row[j], row'[j])
  <2>1. PICK o \in Kinds :
          /\ row[j].status = "absent"
          /\ row'[j] = [row[j] EXCEPT !.status = "queued", !.key = client[c].key,
                                      !.op = o, !.due = TRUE, !.retained = TRUE]
    BY <1>3 DEF SubmitCreate
  <2> QED
    BY <2>1 DEF Changed, Row
<1>4. ASSUME NEW c \in Clients, CancelWrite(c), row'[j] # row[j]
      PROVE  Changed(row[j], row'[j])
  <2>1. CASE /\ row[j].status \in {"queued", "leased"}
             /\ row'[j] = [Ended(row[j], "cancelled", row[j].code) EXCEPT !.cancel = TRUE]
    <3> DEFINE e == Ended(row[j], "cancelled", row[j].code)
    <3>1. e \in Row
      BY EndedType DEF Row, Statuses, Terminal
    <3>2. /\ e.status = "cancelled" /\ e.owner = NoOwner /\ ~e.live
          /\ e.attempts = row[j].attempts /\ e.marker = row[j].marker
          /\ e.op = row[j].op
      BY DEF Ended, Row
    <3>3. row'[j] = [e EXCEPT !.cancel = TRUE]
      BY <2>1
    <3> HIDE DEF e
    <3>4. /\ row'[j].status = "cancelled" /\ row'[j].owner = NoOwner /\ ~row'[j].live
          /\ row'[j].attempts = row[j].attempts /\ row'[j].marker = row[j].marker
          /\ row'[j].op = row[j].op
      BY <3>1, <3>2, <3>3 DEF Row
    <3> QED
      BY <2>1, <3>4 DEF Changed
  <2>2. CASE row'[j] = [row[j] EXCEPT !.cancel = TRUE]
    BY <2>2 DEF Changed, Row
  <2> QED
    BY <1>4, <2>1, <2>2 DEF CancelWrite, Client
<1>5. ASSUME NEW i \in Jobs, row'[j] # row[j],
             LeaseEnds(i) \/ BackoffEnds(i) \/ RetentionEnds(i) \/ QuarantineResult(i)
      PROVE  Changed(row[j], row'[j])
  <2>1. i = j
    BY <1>5 DEF LeaseEnds, BackoffEnds, RetentionEnds, QuarantineResult
  <2>2. CASE LeaseEnds(j) \/ BackoffEnds(j) \/ RetentionEnds(j)
    BY <2>2 DEF LeaseEnds, BackoffEnds, RetentionEnds, Changed, Row
  <2>3. CASE QuarantineResult(j)
    BY <2>3 DEF QuarantineResult, Changed, Row
  <2> QED
    BY <1>5, <2>1, <2>2, <2>3
<1>6. ASSUME Purge, row'[j] # row[j]
      PROVE  Changed(row[j], row'[j])
  <2>1. row[j].status \in Terminal /\ row'[j] = [row[j] EXCEPT !.status = "purged"]
    BY <1>6 DEF Purge
  <2> QED
    BY <2>1 DEF Changed, Row
<1> QED
  BY <1>2, <1>3, <1>4, <1>5, <1>6
  DEF StoreStep, SubmitCheck, CancelRead, vars

\* r was ended with status s and code c, giving e.
EndsAs(r, e, s, c) ==
  /\ e.status = s /\ e.code = c /\ e.owner = NoOwner /\ e.live = FALSE
  /\ e.attempts = r.attempts /\ e.op = r.op /\ e.marker = r.marker

LEMMA EndedFields ==
  ASSUME NEW r \in Row, NEW s, NEW c
  PROVE  EndsAs(r, Ended(r, s, c), s, c)
<1>1. /\ Ended(r, s, c).status = s /\ Ended(r, s, c).code = c
      /\ Ended(r, s, c).owner = NoOwner /\ Ended(r, s, c).live = FALSE
  BY DEF Ended, Row
<1>2. /\ Ended(r, s, c).attempts = r.attempts /\ Ended(r, s, c).op = r.op
      /\ Ended(r, s, c).marker = r.marker
  BY DEF Ended, Row
<1> QED
  BY <1>1, <1>2 DEF EndsAs

LEMMA SettledFinishes ==
  ASSUME NEW r \in Row, NEW w \in Slots, slot[w] \in Slot, Owns(w, r)
  PROVE  Finished(w, slot[w].verdict, slot[w].marked, r, Settled(w, r))
<1> DEFINE v == slot[w].verdict
           cleared == [r EXCEPT !.marker = IF slot[w].marked THEN 0 ELSE @]
<1>1. /\ cleared \in Row
      /\ cleared.attempts = r.attempts /\ cleared.op = r.op
      /\ cleared.marker \in {0, r.marker}
  BY JobQueueAssumption DEF Row
<1>2. \A q \in Row, s \in Statuses, c \in Codes :
         Ended(q, s, c) \in Row /\ EndsAs(q, Ended(q, s, c), s, c)
  BY EndedType, EndedFields
<1>3. /\ "queued" \in Statuses /\ "succeeded" \in Statuses /\ "failed" \in Statuses
      /\ "cancelled" \in Statuses /\ "dead" \in Statuses
      /\ "" \in Codes /\ "error" \in Codes /\ "provider_outcome_ambiguous" \in Codes
      /\ "ciphertext_unreadable" \in Codes
  BY DEF Statuses, Active, Terminal, Codes
<1>4. ASSUME v \notin {"ok", "cancelled", "unreadable"}
      PROVE  Finished(w, v, slot[w].marked, r, ErrorSettled(w, r))
  <2> DEFINE q == Ended(cleared, "queued", "error")
             back == [q EXCEPT !.due = FALSE]
  <2> HIDE DEF cleared
  <2>1. q \in Row /\ q.status = "queued" /\ q.owner = NoOwner /\ ~q.live
        /\ q.attempts = r.attempts /\ q.op = r.op /\ q.marker \in {0, r.marker}
    <3>1. q \in Row /\ EndsAs(cleared, q, "queued", "error")
      BY <1>1, <1>2, <1>3
    <3> HIDE DEF q
    <3> QED
      BY <1>1, <3>1 DEF EndsAs
  <2> HIDE DEF q
  <2>2. /\ back.status = "queued" /\ back.owner = NoOwner /\ ~back.live
        /\ back.attempts = r.attempts /\ back.op = r.op /\ back.marker \in {0, r.marker}
    BY <2>1 DEF Row
  <2> HIDE DEF back
  <2>3. \/ ErrorSettled(w, r) = Ended(r, "dead", "provider_outcome_ambiguous")
        \/ /\ slot[w].marked => v \in NotAcceptedVerdicts
           /\ ErrorSettled(w, r) \in {back, Ended(cleared, "failed", "error"),
                                      Ended(cleared, "dead", "error")}
    BY DEF ErrorSettled, back, q, cleared
  <2>4. CASE ErrorSettled(w, r) = Ended(r, "dead", "provider_outcome_ambiguous")
    <3> DEFINE e == ErrorSettled(w, r)
    <3>1. EndsAs(r, e, "dead", "provider_outcome_ambiguous")
      BY <1>2, <1>3, <2>4
    <3> HIDE DEF e
    <3>2. Finished(w, v, slot[w].marked, r, e)
      BY <3>1 DEF Finished, EndsAs
    <3> QED
      BY <3>2 DEF e
  <2>5. CASE ErrorSettled(w, r) = back /\ (slot[w].marked => v \in NotAcceptedVerdicts)
    BY <1>4, <2>2, <2>5 DEF Finished
  <2>6. CASE /\ ErrorSettled(w, r) \in {Ended(cleared, "failed", "error"),
                                        Ended(cleared, "dead", "error")}
             /\ slot[w].marked => v \in NotAcceptedVerdicts
    <3> DEFINE e == ErrorSettled(w, r)
    <3>1. EndsAs(cleared, e, "failed", "error") \/ EndsAs(cleared, e, "dead", "error")
      BY <1>1, <1>2, <1>3, <2>6
    <3> HIDE DEF e
    <3>2. Finished(w, v, slot[w].marked, r, e)
      BY <1>1, <1>4, <2>6, <3>1 DEF Finished, EndsAs
    <3> QED
      BY <3>2 DEF e
  <2> QED
    BY <2>3, <2>4, <2>5, <2>6
<1>5. CASE v \in {"ok", "cancelled", "unreadable"}
  <2>1. /\ v = "ok" => Settled(w, r) = Ended(r, "succeeded", "")
        /\ v = "cancelled" => Settled(w, r) = Ended(r, "cancelled", "")
        /\ v = "unreadable" => Settled(w, r) = Ended(r, "dead", "ciphertext_unreadable")
    BY DEF Settled
  <2> QED
    <3> DEFINE e == Settled(w, r)
    <3>1. \/ v = "ok" /\ EndsAs(r, e, "succeeded", "")
          \/ v = "cancelled" /\ EndsAs(r, e, "cancelled", "")
          \/ v = "unreadable" /\ EndsAs(r, e, "dead", "ciphertext_unreadable")
      BY <1>2, <1>3, <1>5, <2>1
    <3> HIDE DEF e
    <3>2. Finished(w, v, slot[w].marked, r, e)
      BY <3>1 DEF Finished, EndsAs
    <3> QED
      BY <3>2 DEF e
<1>6. CASE v \notin {"ok", "cancelled", "unreadable"}
  <2>1. Settled(w, r) = ErrorSettled(w, r)
    BY <1>6 DEF Settled
  <2> QED
    BY <1>4, <1>6, <2>1
<1> QED
  BY <1>5, <1>6

\* A slot works on one row; it moves that row by a fenced write or not at all.
LEMMA ProgressMoves ==
  ASSUME TypeOK, NEW w \in Slots, Progress(w) \/ Abandon(w)
  PROVE  /\ slot[w].at # "idle"
         /\ \A x \in Slots : x # w => slot'[x] = slot[x]
         /\ \A j \in Jobs : j # slot[w].job => row'[j] = row[j]
         /\ LET r == row[slot[w].job]  s == row'[slot[w].job] IN
              \/ s = r
              \/ Written(w, r, s) /\ slot[w].at # "settle"
              \/ Finished(w, slot[w].verdict, slot[w].marked, r, s) /\ slot[w].at = "settle"
<1> DEFINE job == slot[w].job
<1>1. job \in Jobs /\ slot[w] \in Slot /\ row[job] \in Row
  BY DEF TypeOK, Slot
<1>2. /\ slot[w].at # "idle"
      /\ \A x \in Slots : x # w => slot'[x] = slot[x]
      /\ \A j \in Jobs : j # job => row'[j] = row[j]
  <2>1. slot[w].at # "idle"
    BY DEF Progress, Abandon, Start, Decrypt, WorkFails, Compress, Mark, Post, Answer,
           Produced, Confirm, Settle
  <2>2. \A x \in Slots : x # w => slot'[x] = slot[x]
    BY DEF Progress, Abandon, Start, Decrypt, WorkFails, Compress, Mark, Post, Answer,
           Produced, Confirm, Settle, Goto, Leave, Decide, TypeOK
  <2>3. \A j \in Jobs : j # job => row'[j] = row[j]
    BY DEF Progress, Abandon, Start, Decrypt, WorkFails, Compress, Mark, Post, Answer,
           Produced, Confirm, Settle, TypeOK
  <2> QED
    BY <2>1, <2>2, <2>3
<1>3. CASE row'[job] = row[job]
  BY <1>2, <1>3
<1>4. CASE Start(w) /\ row'[job] # row[job]
  <2>1. /\ Owns(w, row[job]) /\ slot[w].at = "claimed"
        /\ row'[job] = [row[job] EXCEPT !.status = "running"]
    BY <1>1, <1>4 DEF Start, TypeOK
  <2>2. Written(w, row[job], row'[job])
    BY <1>1, <2>1 DEF Written, Row
  <2> QED
    BY <1>2, <2>1, <2>2
<1>5. CASE Mark(w) /\ row'[job] # row[job]
  <2>1. /\ CanMark(w, row[job]) /\ slot[w].at = "work"
        /\ row'[job] = [row[job] EXCEPT !.marker = row[job].attempts]
    BY <1>1, <1>5 DEF Mark, TypeOK
  <2>2. Written(w, row[job], row'[job])
    BY <1>1, <2>1 DEF Written, CanMark, Row
  <2> QED
    BY <1>2, <2>1, <2>2
<1>6. CASE Settle(w) /\ row'[job] # row[job]
  <2>1. /\ Owns(w, row[job]) /\ slot[w].at = "settle"
        /\ row'[job] = Settled(w, row[job])
    BY <1>1, <1>6 DEF Settle, TypeOK
  <2> QED
    BY <1>1, <1>2, <2>1, SettledFinishes
<1>7. CASE Decrypt(w) \/ WorkFails(w) \/ Compress(w) \/ Post(w) \/ Answer(w)
             \/ Produced(w) \/ Confirm(w) \/ Abandon(w)
  BY <1>3, <1>7 DEF Decrypt, WorkFails, Compress, Post, Answer, Produced, Confirm, Abandon
<1> QED
  BY <1>3, <1>4, <1>5, <1>6, <1>7 DEF Progress

LEMMA NextSteps ==
  [Next]_vars => StoreStep \/ \E w \in Slots : Claim(w) \/ Progress(w) \/ Abandon(w)
BY DEF Next, StoreStep

-----------------------------------------------------------------------------
(* The shape of the rows, whatever the lease_owner values. *)

LEMMA NextShaped ==
  ASSUME TypeOK, TypeOK', BillingFence, RowsShaped, [Next]_vars
  PROVE  RowsShaped'
<1> SUFFICES ASSUME NEW j \in Jobs PROVE Shaped(row'[j])
  BY DEF RowsShaped
<1>1. /\ row[j] \in Row /\ row'[j] \in Row /\ Shaped(row[j])
      /\ row[j].status = "absent" => row[j].marker = 0
  BY DEF TypeOK, RowsShaped, BillingFence
<1>2. CASE StoreStep
  BY <1>1, <1>2, StoreMoves, ShapedChanged
<1>3. ASSUME NEW w \in Slots, Claim(w)
      PROVE  Shaped(row'[j])
  <2>1. Changed(row[j], row'[j]) \/ Claimed(w, row[j], row'[j])
    BY <1>3, ClaimMoves
  <2> QED
    BY <1>1, <2>1, ShapedChanged, ShapedKept
<1>4. ASSUME NEW w \in Slots, Progress(w) \/ Abandon(w)
      PROVE  Shaped(row'[j])
  <2>1. \/ row'[j] = row[j]
        \/ Written(w, row[j], row'[j])
        \/ Finished(w, slot[w].verdict, slot[w].marked, row[j], row'[j])
    BY <1>4, ProgressMoves
  <2> QED
    BY <1>1, <2>1, ShapedKept
<1> QED
  BY <1>2, <1>3, <1>4, NextSteps

LEMMA InitRows ==
  Init => /\ \A j \in Jobs : /\ row[j].status = "absent" /\ row[j].owner = NoOwner
                             /\ ~row[j].live /\ row[j].marker = 0 /\ accepted[j] = 0
          /\ \A w \in Slots : slot[w].at = "idle" /\ ~slot[w].marked
<1> SUFFICES ASSUME Init
             PROVE  /\ \A j \in Jobs : /\ row[j].status = "absent" /\ row[j].owner = NoOwner
                                       /\ ~row[j].live /\ row[j].marker = 0
                                       /\ accepted[j] = 0
                    /\ \A w \in Slots : slot[w].at = "idle" /\ ~slot[w].marked
  OBVIOUS
<1>1. PICK k \in Keys :
          row = [j \in Jobs |->
                [status |-> "absent", key |-> k, op |-> "chat", attempts |-> 0,
                 owner |-> NoOwner, live |-> FALSE, due |-> FALSE,
                 retained |-> FALSE, cancel |-> FALSE, marker |-> 0, code |-> ""]]
  BY DEF Init
<1>2. PICK i \in Jobs :
          slot = [w \in Slots |->
                 [at |-> "idle", job |-> i, attempt |-> 0, marked |-> FALSE,
                  taken |-> FALSE, verdict |-> "none"]]
  BY DEF Init
<1>3. \A j \in Jobs : accepted[j] = 0
  BY DEF Init
<1> QED
  BY <1>1, <1>2, <1>3

LEMMA ShapedInvariant == Spec => []RowsShaped
<1>1. Init => RowsShaped
  BY InitRows DEF RowsShaped, Shaped, Held
<1>2. TypeOK /\ TypeOK' /\ BillingFence /\ RowsShaped /\ [Next]_vars => RowsShaped'
  BY NextShaped
<1> QED
  BY <1>1, <1>2, TypeCorrect, FenceCorrect, PTL DEF Spec

\* Owner, status and lease of a row agree at every moment, also when two worker
\* processes write the same lease_owner: a finished row keeps no live lease.
THEOREM LeaseShapeCorrect == Spec => []LeaseShape
<1>1. RowsShaped => LeaseShape
  BY DEF RowsShaped, Shaped, LeaseShape
<1> QED
  BY <1>1, ShapedInvariant, PTL

-----------------------------------------------------------------------------
(* What slots know is kept: every step of theirs, then of the others. *)

LEMMA IdleKnows ==
  ASSUME NEW w, NEW l, NEW r, NEW n, l.at = "idle", ~l.marked
  PROVE  Knows(w, l, r, n)
BY DEF Knows

LEMMA LeaveIdle ==
  ASSUME TypeOK, NEW w \in Slots, Leave(w)
  PROVE  slot'[w].at = "idle" /\ ~slot'[w].marked
BY DEF TypeOK, Slot, Leave

\* Slot w goes on: what it knows of an unchanged row, from what it knew.
LEMMA GoesOn ==
  ASSUME TypeOK, NEW w \in Slots, NEW p \in Places, NEW v \in Verdicts,
         NEW r \in Row, NEW n \in Nat,
         slot[w].at # "idle", Knows(w, slot[w], r, n),
         \/ Goto(w, p) /\ p \in {"decrypt", "work", "settle"}
         \/ Goto(w, p) /\ p = "produced" /\ (r.op = "compress" \/ n # 0)
         \/ Decide(w, v) /\ (v = "ok" => slot[w].at = "produced")
  PROVE  slot'[w].job = slot[w].job /\ Knows(w, slot'[w], r, n)
<1>1. slot[w] \in Slot
  BY DEF TypeOK
<1>2. /\ slot'[w].job = slot[w].job /\ slot'[w].attempt = slot[w].attempt
      /\ slot'[w].marked = slot[w].marked /\ slot'[w].taken = slot[w].taken
      /\ \/ slot'[w].at = p /\ slot'[w].verdict = slot[w].verdict
            /\ \/ p \in {"decrypt", "work", "settle"}
               \/ p = "produced" /\ (r.op = "compress" \/ n # 0)
         \/ slot'[w].at = "confirm" /\ slot'[w].verdict = v
            /\ (v = "ok" => slot[w].at = "produced")
  <2>1. CASE Goto(w, p) /\ \/ p \in {"decrypt", "work", "settle"}
                           \/ p = "produced" /\ (r.op = "compress" \/ n # 0)
    BY <1>1, <2>1 DEF TypeOK, Slot, Goto
  <2>2. CASE Decide(w, v) /\ (v = "ok" => slot[w].at = "produced")
    BY <1>1, <2>2 DEF TypeOK, Slot, Decide
  <2> QED
    BY <2>1, <2>2
<1> QED
  BY <1>1, <1>2 DEF Knows

LEMMA OwnKnows ==
  ASSUME TypeOK, TypeOK', BillingFence, RowsShaped, Ownership, NEW w \in Slots,
         Progress(w) \/ Abandon(w)
  PROVE  Knows(w, slot'[w], row'[slot'[w].job], accepted'[slot'[w].job])
<1> DEFINE job == slot[w].job
           r == row[job]
           n == accepted[job]
<1>1. /\ job \in Jobs /\ slot[w] \in Slot /\ r \in Row /\ n \in Nat
      /\ Knows(w, slot[w], r, n) /\ Shaped(r)
      /\ n # 0 => Sealed(r)
      /\ r.status \in Held => r.attempts # 0
  BY DEF TypeOK, Slot, Ownership, RowsShaped, BillingFence
<1>2. CASE Leave(w)
  BY <1>2, LeaveIdle, IdleKnows
<1>3. CASE Start(w) /\ ~Leave(w)
  <2>1. /\ Owns(w, r) /\ Goto(w, "decrypt") /\ slot[w].at = "claimed"
        /\ row' = [row EXCEPT ![job].status = "running"] /\ accepted' = accepted
    BY <1>3 DEF Start
  <2>2. slot'[w].job = job /\ Knows(w, slot'[w], r, n)
    BY <1>1, <2>1, GoesOn DEF Places, Verdicts
  <2>3. /\ row'[job].status = "running" /\ row'[job].owner = r.owner
        /\ row'[job].attempts = r.attempts /\ row'[job].op = r.op
        /\ row'[job].marker = r.marker
    BY <1>1, <2>1 DEF TypeOK, Row
  <2>4. r.status \notin {"absent", "dead", "purged"}
    BY <2>1 DEF Owns, Held
  <2> QED
    BY <2>1, <2>2, <2>3, <2>4 DEF Knows
<1>4. CASE Mark(w) /\ ~Leave(w)
  <2>1. /\ CanMark(w, r) /\ slot[w].at = "work"
        /\ row' = [row EXCEPT ![job].marker = r.attempts] /\ accepted' = accepted
    BY <1>4 DEF Mark
  <2>2. /\ r.marker = 0 /\ r.status = "running" /\ r.owner = SlotId[w] /\ r.op = "chat"
        /\ n = 0 /\ r.attempts # 0
    BY <1>1, <2>1 DEF CanMark, Owns, Sealed, Terminal, Held
  <2>3. /\ row'[job].status = "running" /\ row'[job].owner = SlotId[w]
        /\ row'[job].attempts = r.attempts /\ row'[job].op = "chat"
        /\ row'[job].marker # 0
    BY <1>1, <2>1, <2>2 DEF TypeOK, Row
  <2>4. ~slot[w].marked
    BY <1>1, <2>1, <2>2 DEF Knows
  <2>5. CASE /\ r.attempts = slot[w].attempt
             /\ slot' = [slot EXCEPT ![w].at = "outbound", ![w].marked = TRUE]
    <3>1. /\ slot'[w].job = job /\ slot'[w].at = "outbound" /\ slot'[w].marked
          /\ slot'[w].attempt = r.attempts /\ slot'[w].verdict = slot[w].verdict
      BY <1>1, <2>5 DEF TypeOK, Slot
    <3> QED
      BY <1>1, <2>1, <2>2, <2>3, <3>1 DEF Knows
  <2>6. CASE Decide(w, "retryable")
    <3>1. "confirm" \in Places /\ "retryable" \in Verdicts
      BY DEF Places, Verdicts
    <3>2. slot'[w].job = job /\ Knows(w, slot'[w], r, n)
      BY <1>1, <2>1, <2>6, <3>1, GoesOn
    <3>3. slot'[w].marked = slot[w].marked
      BY <1>1, <2>6 DEF Decide, TypeOK, Slot
    <3> QED
      BY <2>1, <2>2, <2>3, <2>4, <3>2, <3>3 DEF Knows
  <2> QED
    BY <1>4, <2>1, <2>5, <2>6 DEF Mark
<1>5. CASE Post(w)
  <2>1. PICK taken \in BOOLEAN :
          /\ slot' = [slot EXCEPT ![w].at = "calling", ![w].taken = taken]
          /\ accepted' = IF taken THEN [accepted EXCEPT ![job] = @ + 1] ELSE accepted
    BY <1>5 DEF Post
  <2>2. slot[w].at = "outbound" /\ slot[w].marked /\ row' = row
    BY <1>5 DEF Post, BillingFence
  <2>3. /\ slot'[w].job = job /\ slot'[w].at = "calling" /\ slot'[w].marked
        /\ slot'[w].attempt = slot[w].attempt /\ slot'[w].verdict = slot[w].verdict
        /\ slot'[w].taken = taken
    BY <1>1, <2>1, <2>2 DEF TypeOK, Slot
  <2>4. /\ accepted'[job] = IF taken THEN n + 1 ELSE n
        /\ n # 0 => accepted'[job] # 0
        /\ taken => accepted'[job] # 0
    BY <1>1, <2>1 DEF TypeOK
  <2> QED
    BY <1>1, <2>2, <2>3, <2>4 DEF Knows
<1>6. CASE (Decrypt(w) \/ WorkFails(w) \/ Compress(w) \/ Answer(w) \/ Produced(w)
              \/ Confirm(w)) /\ ~Leave(w)
  <2>1. row' = row /\ accepted' = accepted /\ slot[w].at # "idle"
    BY <1>6 DEF Decrypt, WorkFails, Compress, Answer, Produced, Confirm
  <2>2. \/ \E p \in Places : \/ Goto(w, p) /\ p \in {"decrypt", "work", "settle"}
                             \/ Goto(w, p) /\ p = "produced" /\ (r.op = "compress" \/ n # 0)
        \/ \E v \in Verdicts : Decide(w, v) /\ (v = "ok" => slot[w].at = "produced")
    <3>1. CASE Decrypt(w)
      BY <3>1 DEF Decrypt, Places, Verdicts
    <3>2. CASE WorkFails(w)
      BY <3>2 DEF WorkFails, Verdicts
    <3>3. CASE Compress(w)
      BY <3>3 DEF Compress, Places
    <3>4. CASE Answer(w)
      <4>1. slot[w].taken => n # 0
        BY <1>1, <3>4 DEF Answer, Knows
      <4> QED
        BY <3>4, <4>1 DEF Answer, Places, Verdicts
    <3>5. CASE Produced(w)
      BY <3>5 DEF Produced, Verdicts
    <3>6. CASE Confirm(w)
      BY <1>6, <3>6 DEF Confirm, Places
    <3> QED
      BY <1>6, <3>1, <3>2, <3>3, <3>4, <3>5, <3>6
  <2>3. "confirm" \in Places /\ "ok" \in Verdicts
    BY DEF Places, Verdicts
  <2>4. slot'[w].job = job /\ Knows(w, slot'[w], r, n)
    BY <1>1, <2>1, <2>2, <2>3, GoesOn
  <2> QED
    BY <2>1, <2>4
<1>7. Settle(w) \/ Abandon(w) => Leave(w)
  BY DEF Settle, Abandon
<1> QED
  BY <1>2, <1>3, <1>4, <1>5, <1>6, <1>7 DEF Progress

\* What becomes of a label: by the store, ...
LEMMA LabelKept ==
  ASSUME NEW r \in Row, NEW s \in Row, NEW n \in Nat, Shaped(r), Labelled(r, n),
         n # 0 => Sealed(r), Changed(r, s)
  PROVE  Labelled(s, n)
<1> SUFFICES ASSUME n # 0, Sealed(r), s.status \in Terminal
             PROVE  Labelled(s, n)
  BY DEF Labelled
<1>1. CASE r.status \in Active
  <2>1. r.marker # 0 /\ r.op = "chat"
    BY <1>1 DEF Sealed, Shaped, Active, Held, Terminal
  <2> QED
    BY <1>1, <2>1 DEF Changed, Labelled, Ambiguous, Active, Held, Terminal
<1>2. CASE r.status \in Terminal
  BY <1>2 DEF Changed, Labelled, Active, Held, Terminal
<1>3. CASE r.status \notin Active \cup Terminal
  BY <1>3 DEF Changed, Sealed, Active, Held, Terminal
<1> QED
  BY <1>1, <1>2, <1>3

\* ... and by the step of a slot, which settles as a failure only what it knows
\* was not accepted.
LEMMA OwnLabel ==
  ASSUME TypeOK, BillingFence, RowsShaped, Ownership, NEW w \in Slots,
         Progress(w) \/ Abandon(w), NEW j \in Jobs
  PROVE  Labelled(row'[j], accepted'[j])
<1> DEFINE job == slot[w].job
<1>1. /\ job \in Jobs /\ Labelled(row[j], accepted[j])
      /\ Knows(w, slot[w], row[job], accepted[job])
  BY DEF TypeOK, Slot, Ownership
<1>2. CASE Post(w)
  <2>1. row' = row /\ slot[w].at = "outbound" /\ slot[w].marked
        /\ (j # job => accepted'[j] = accepted[j])
    BY <1>2 DEF Post, BillingFence, TypeOK
  <2>2. CASE j = job
    BY <1>1, <2>1, <2>2 DEF Knows, Labelled, Terminal
  <2> QED
    BY <1>1, <2>1, <2>2
<1>3. CASE ~Post(w)
  <2>1. accepted' = accepted
    BY <1>3 DEF Progress, Abandon, Start, Decrypt, WorkFails, Compress, Mark, Answer,
                Produced, Confirm, Settle
  <2>2. CASE row'[j] = row[j]
    BY <1>1, <2>1, <2>2
  <2>3. CASE Written(w, row[j], row'[j])
    BY <2>3 DEF Written, Labelled, Terminal
  <2>4. CASE /\ j = job /\ slot[w].at = "settle"
             /\ Finished(w, slot[w].verdict, slot[w].marked, row[j], row'[j])
    <3>1. accepted[j] # 0 => slot[w].marked /\ slot[w].verdict \notin NotAcceptedVerdicts
      BY <1>1, <2>4 DEF Finished, Owns, Knows, BillingFence, Unsent
    <3> QED
      BY <2>1, <2>4, <3>1 DEF Finished, Labelled, Terminal
  <2> QED
    BY <2>2, <2>3, <2>4, ProgressMoves
<1> QED
  BY <1>2, <1>3

LEMMA NextOwnership ==
  ASSUME OwnersDistinct, TypeOK, TypeOK', BillingFence, RowsShaped, Ownership, [Next]_vars
  PROVE  Ownership'
<1> USE DEF TypeOK
<1>1. /\ \A j \in Jobs : /\ Shaped(row[j]) /\ Labelled(row[j], accepted[j])
                         /\ accepted[j] # 0 => Sealed(row[j])
      /\ \A x \in Slots : /\ slot[x] \in Slot /\ slot[x].job \in Jobs
                          /\ Knows(x, slot[x], row[slot[x].job], accepted[slot[x].job])
  BY DEF RowsShaped, Ownership, BillingFence, Slot
<1>2. CASE StoreStep
  <2>1. /\ slot' = slot /\ accepted' = accepted
        /\ \A j \in Jobs : Changed(row[j], row'[j])
    BY <1>2, StoreMoves
  <2>2. \A j \in Jobs : Labelled(row'[j], accepted'[j])
    BY <1>1, <2>1, LabelKept
  <2>3. \A x \in Slots : Knows(x, slot'[x], row'[slot'[x].job], accepted'[slot'[x].job])
    BY <1>1, <2>1, KnowsKept
  <2> QED
    BY <2>2, <2>3 DEF Ownership
<1>3. ASSUME NEW w \in Slots, Claim(w)
      PROVE  Ownership'
  <2>1. /\ accepted' = accepted /\ slot[w].at = "idle"
        /\ \A x \in Slots : x # w => slot'[x] = slot[x]
        /\ \A j \in Jobs : Changed(row[j], row'[j]) \/ Claimed(w, row[j], row'[j])
        /\ \/ slot'[w] = slot[w]
           \/ \E j \in Jobs :
                /\ Claimed(w, row[j], row'[j])
                /\ slot'[w] = [at |-> "claimed", job |-> j, attempt |-> row'[j].attempts,
                               marked |-> FALSE, taken |-> FALSE, verdict |-> "none"]
    BY <1>3, ClaimMoves
  <2>2. \A j \in Jobs : Labelled(row'[j], accepted'[j])
    <3>1. ASSUME NEW j \in Jobs, Claimed(w, row[j], row'[j])
          PROVE  Labelled(row'[j], accepted'[j])
      BY <3>1 DEF Claimed, Labelled, Terminal
    <3> QED
      BY <1>1, <2>1, <3>1, LabelKept
  <2>3. ASSUME NEW x \in Slots, x # w
        PROVE  Knows(x, slot'[x], row'[slot'[x].job], accepted'[slot'[x].job])
    <3>1. SlotId[w] # SlotId[x]
      BY <2>3 DEF OwnersDistinct
    <3> QED
      BY <1>1, <2>1, <2>3, <3>1, KnowsKept, OthersKnow
  <2>4. Knows(w, slot'[w], row'[slot'[w].job], accepted'[slot'[w].job])
    <3>1. CASE slot'[w] = slot[w]
      <4>1. ~slot[w].marked
        BY <1>1, <2>1 DEF Knows
      <4> QED
        BY <2>1, <3>1, <4>1, IdleKnows
    <3>2. ASSUME NEW j \in Jobs, Claimed(w, row[j], row'[j]),
                 slot'[w] = [at |-> "claimed", job |-> j, attempt |-> row'[j].attempts,
                             marked |-> FALSE, taken |-> FALSE, verdict |-> "none"]
          PROVE  Knows(w, slot'[w], row'[slot'[w].job], accepted'[slot'[w].job])
      <4>1. accepted'[j] = 0
        BY <1>1, <2>1, <3>2 DEF Claimed, Sealed, Active, Held, Terminal
      <4>2. row'[j].status = "leased"
        BY <3>2 DEF Claimed
      <4> QED
        BY <3>2, <4>1, <4>2 DEF Knows
    <3> QED
      BY <2>1, <3>1, <3>2
  <2> QED
    BY <2>2, <2>3, <2>4 DEF Ownership
<1>4. ASSUME NEW w \in Slots, Progress(w) \/ Abandon(w)
      PROVE  Ownership'
  <2> DEFINE job == slot[w].job
  <2>1. /\ \A x \in Slots : x # w => slot'[x] = slot[x]
        /\ \A j \in Jobs : j # job => row'[j] = row[j]
        /\ \/ row'[job] = row[job]
           \/ Written(w, row[job], row'[job])
           \/ Finished(w, slot[w].verdict, slot[w].marked, row[job], row'[job])
    BY <1>4, ProgressMoves
  <2>2. \A j \in Jobs : Labelled(row'[j], accepted'[j])
    BY <1>4, OwnLabel
  <2>3. Knows(w, slot'[w], row'[slot'[w].job], accepted'[slot'[w].job])
    BY <1>4, OwnKnows
  <2>4. ASSUME NEW x \in Slots, x # w
        PROVE  Knows(x, slot'[x], row'[slot'[x].job], accepted'[slot'[x].job])
    <3>1. SlotId[w] # SlotId[x]
      BY <2>4 DEF OwnersDistinct
    <3>2. CASE accepted' = accepted /\ slot[x].job # job
      BY <1>1, <2>1, <2>4, <3>2
    <3>3. CASE accepted' = accepted /\ slot[x].job = job
      BY <1>1, <2>1, <2>4, <3>1, <3>3, OthersKnow
    <3>4. CASE Post(w)
      <4>1. /\ row' = row /\ slot[w].at = "outbound" /\ slot[w].marked
            /\ \A j \in Jobs : j # job => accepted'[j] = accepted[j]
            /\ accepted[job] # 0 => accepted'[job] # 0
        BY <3>4 DEF Post, BillingFence
      <4>2. row[job].owner # SlotId[x]
        <5>1. SlotId[x] # NoOwner
          BY JobQueueAssumption
        <5>2. Shaped(row[job]) /\ Knows(w, slot[w], row[job], accepted[job])
          BY <1>1
        <5> QED
          BY <3>1, <4>1, <5>1, <5>2 DEF Knows, Shaped, Held
      <4>3. CASE slot[x].job # job
        BY <1>1, <2>1, <2>4, <4>1, <4>3
      <4>4. CASE slot[x].job = job
        BY <1>1, <2>1, <2>4, <4>1, <4>2, <4>4 DEF Knows
      <4> QED
        BY <4>3, <4>4
    <3>5. accepted' = accepted \/ Post(w)
      BY <1>4 DEF Progress, Abandon, Start, Decrypt, WorkFails, Compress, Mark, Answer,
                  Produced, Confirm, Settle
    <3> QED
      BY <3>2, <3>3, <3>4, <3>5
  <2> QED
    BY <2>2, <2>3, <2>4 DEF Ownership
<1> QED
  BY <1>2, <1>3, <1>4, NextSteps

\* What every slot knows of its row is inductive.
LEMMA OwnershipInvariant ==
  ASSUME OwnersDistinct
  PROVE  Spec => []Ownership
<1>1. Init => Ownership
  <2> SUFFICES ASSUME Init PROVE Ownership
    OBVIOUS
  <2>1. \A j \in Jobs : Labelled(row[j], accepted[j])
    BY InitRows DEF Labelled
  <2> QED
    BY <2>1, InitRows, IdleKnows DEF Ownership
<1>2. TypeOK /\ TypeOK' /\ BillingFence /\ RowsShaped /\ Ownership /\ [Next]_vars
        => Ownership'
  BY NextOwnership
<1> QED
  BY <1>1, <1>2, TypeCorrect, FenceCorrect, ShapedInvariant, PTL DEF Spec

\* The fence compares the lease owner, not the attempt: with one lease_owner per
\* slot, a slot that passes it is on the row's current attempt, so no write of an
\* earlier attempt gets through, however late the slot wakes up.
THEOREM CurrentCorrect == ASSUME OwnersDistinct PROVE Spec => []OwnedMeansCurrent
<1>1. Ownership => OwnedMeansCurrent
  BY DEF Ownership, OwnedMeansCurrent, Knows, Owns
<1> QED
  BY <1>1, OwnershipInvariant, PTL

\* A billed job never ends as an ordinary failure or expiry, whichever of its
\* slots, the sweeps of another claim and the tenant's cancellation comes first.
THEOREM BilledOutcomeCorrect == ASSUME OwnersDistinct PROVE Spec => []BilledOutcome
<1>1. Ownership => BilledOutcome
  BY DEF Ownership, BilledOutcome, Labelled
<1> QED
  BY <1>1, OwnershipInvariant, PTL

LEMMA PostedRow ==
  ASSUME TypeOK, BillingFence, Ownership, NEW w \in Slots, Post(w)
  PROVE  /\ row' = row
         /\ \A j \in Jobs : j # slot[w].job => accepted'[j] = accepted[j]
         /\ accepted[slot[w].job] = 0 /\ accepted'[slot[w].job] \in {0, 1}
         /\ row[slot[w].job].op = "chat"
         /\ row[slot[w].job].status \in {"running", "dead", "purged"}
<1>1. slot[w].at = "outbound" /\ slot[w].marked /\ accepted[slot[w].job] = 0
  BY DEF Post, BillingFence, Unsent
<1>2. Knows(w, slot[w], row[slot[w].job], accepted[slot[w].job]) /\ slot[w].job \in Jobs
  BY DEF Ownership, TypeOK, Slot
<1> QED
  BY <1>1, <1>2 DEF Post, Knows, TypeOK

LEMMA OnlyPostBills ==
  ASSUME TypeOK, [Next]_vars
  PROVE  accepted' = accepted \/ \E w \in Slots : Post(w)
<1>1. CASE StoreStep
  BY <1>1, StoreMoves
<1>2. ASSUME NEW w \in Slots, Claim(w) \/ Progress(w) \/ Abandon(w)
      PROVE  accepted' = accepted \/ Post(w)
  BY <1>2 DEF Claim, Progress, Abandon, Start, Decrypt, WorkFails, Compress, Mark,
              Answer, Produced, Confirm, Settle
<1> QED
  BY <1>1, <1>2, NextSteps

\* A tenant that reads "cancelled" is never billed afterwards: no slot that may
\* still send a request of the job exists then.
THEOREM CancelledCorrect == ASSUME OwnersDistinct PROVE Spec => CancelledNeverBilled
<1>1. TypeOK /\ BillingFence /\ Ownership /\ [Next]_vars =>
        [\A j \in Jobs : row[j].status = "cancelled" => accepted'[j] = accepted[j]]_vars
  <2> SUFFICES ASSUME TypeOK, BillingFence, Ownership, [Next]_vars,
                      NEW j \in Jobs, row[j].status = "cancelled"
               PROVE  accepted'[j] = accepted[j]
    OBVIOUS
  <2> QED
    BY OnlyPostBills, PostedRow
<1> QED
  BY <1>1, TypeCorrect, FenceCorrect, OwnershipInvariant, PTL
  DEF Spec, CancelledNeverBilled

\* With the fence of 202607280020, no row is leased again once its retention
\* window has closed: only a claim counts an attempt, and it looks at expires_at.
THEOREM ExpiredCorrect == ASSUME RetentionFence PROVE Spec => ExpiredNeverRuns
<1>1. TypeOK /\ [Next]_vars =>
        [\A j \in Jobs : ~row[j].retained => row'[j].attempts = row[j].attempts]_vars
  <2> SUFFICES ASSUME TypeOK, [Next]_vars, NEW j \in Jobs, ~row[j].retained
               PROVE  row'[j].attempts = row[j].attempts
    OBVIOUS
  <2>1. CASE StoreStep
    BY <2>1, StoreMoves DEF Changed
  <2>2. ASSUME NEW w \in Slots, Claim(w)
        PROVE  row'[j].attempts = row[j].attempts
    BY <2>2, ClaimMoves DEF Changed, Claimed, RetentionApplies
  <2>3. ASSUME NEW w \in Slots, Progress(w) \/ Abandon(w)
        PROVE  row'[j].attempts = row[j].attempts
    BY <2>3, ProgressMoves DEF Written, Finished
  <2> QED
    BY <2>1, <2>2, <2>3, NextSteps
<1> QED
  BY <1>1, TypeCorrect, PTL DEF Spec, ExpiredNeverRuns

-----------------------------------------------------------------------------
(* The queue implements the life cycle the tenant sees. *)

LEMMA RowEvolves ==
  ASSUME TypeOK, TypeOK', BillingFence, RowsShaped, Ownership, [Next]_vars, NEW j \in Jobs
  PROVE  Lifecycle!Evolves(j)
<1> DEFINE phase(r) == IF r.status \in Active THEN "open" ELSE r.status
<1>1. /\ row[j] \in Row /\ row'[j] \in Row /\ accepted[j] \in Nat
      /\ accepted[j] # 0 => accepted[j] = 1
  BY DEF TypeOK, BillingFence
<1>2. ASSUME accepted'[j] = accepted[j],
             \/ phase(row'[j]) = phase(row[j]) /\ row'[j].op = row[j].op
             \/ row[j].status = "absent" /\ row'[j].status = "queued"
             \/ /\ row[j].status \in Active /\ row'[j].status \in Terminal
                /\ row'[j].op = row[j].op
                /\ row'[j].status = "succeeded" /\ row[j].op = "chat" => accepted[j] = 1
                /\ row'[j].status = "failed" => accepted[j] = 0
             \/ /\ row'[j].op = row[j].op
                /\ \/ row[j].status = "succeeded" /\ row'[j].status = "dead"
                   \/ row[j].status \in Terminal /\ row'[j].status = "purged"
      PROVE  Lifecycle!Evolves(j)
  BY <1>2
  DEF Lifecycle!Evolves, Lifecycle!Same, Lifecycle!Submitted, Lifecycle!Settled,
      Lifecycle!Buried, Lifecycle!Purged, Lifecycle!Outcomes, Active, Held, Terminal
<1>3. ASSUME Changed(row[j], row'[j]), accepted'[j] = accepted[j]
      PROVE  Lifecycle!Evolves(j)
  BY <1>2, <1>3 DEF Changed, Active, Held, Terminal
<1>4. CASE StoreStep
  BY <1>3, <1>4, StoreMoves
<1>5. ASSUME NEW w \in Slots, Claim(w)
      PROVE  Lifecycle!Evolves(j)
  <2>1. accepted' = accepted /\ (Changed(row[j], row'[j]) \/ Claimed(w, row[j], row'[j]))
    BY <1>5, ClaimMoves
  <2>2. CASE Claimed(w, row[j], row'[j])
    BY <1>2, <2>1, <2>2 DEF Claimed, Active, Held
  <2> QED
    BY <1>3, <2>1, <2>2
<1>6. ASSUME NEW w \in Slots, Progress(w) \/ Abandon(w), ~Post(w)
      PROVE  Lifecycle!Evolves(j)
  <2>1. accepted' = accepted
    BY <1>6 DEF Progress, Abandon, Start, Decrypt, WorkFails, Compress, Mark, Answer,
                Produced, Confirm, Settle
  <2>2. \/ row'[j] = row[j]
        \/ Written(w, row[j], row'[j])
        \/ /\ j = slot[w].job /\ slot[w].at = "settle"
           /\ Finished(w, slot[w].verdict, slot[w].marked, row[j], row'[j])
    BY <1>6, ProgressMoves
  <2>3. CASE row'[j] = row[j]
    BY <1>2, <2>1, <2>3
  <2>4. CASE Written(w, row[j], row'[j])
    BY <1>2, <2>1, <2>4 DEF Written, Owns, Active, Held
  <2>5. CASE /\ j = slot[w].job /\ slot[w].at = "settle"
             /\ Finished(w, slot[w].verdict, slot[w].marked, row[j], row'[j])
    <3>1. Knows(w, slot[w], row[j], accepted[j])
      BY <2>5 DEF Ownership
    <3>2. accepted[j] # 0 => slot[w].marked /\ slot[w].verdict \notin NotAcceptedVerdicts
      BY <2>5, <3>1 DEF Finished, Owns, Knows, BillingFence, Unsent
    <3>3. slot[w].verdict = "ok" => row[j].op = "compress" \/ accepted[j] # 0
      BY <2>5, <3>1 DEF Knows
    <3>4. row[j].status \in Active /\ row'[j].op = row[j].op
      BY <2>5 DEF Finished, Owns, Active
    <3>5. /\ row'[j].status = "succeeded" /\ row[j].op = "chat" => accepted[j] = 1
          /\ row'[j].status = "failed" => accepted[j] = 0
      BY <1>1, <2>5, <3>2, <3>3 DEF Finished
    <3>6. row'[j].status \in Terminal \cup {"queued"}
      BY <2>5 DEF Finished, Terminal
    <3>7. CASE row'[j].status = "queued"
      BY <1>2, <2>1, <3>4, <3>7 DEF Active
    <3> QED
      BY <1>2, <2>1, <3>4, <3>5, <3>6, <3>7
  <2> QED
    BY <2>2, <2>3, <2>4, <2>5
<1>7. ASSUME NEW w \in Slots, Post(w)
      PROVE  Lifecycle!Evolves(j)
  <2>1. CASE accepted'[j] = accepted[j]
    BY <1>2, <1>7, <2>1, PostedRow
  <2>2. CASE accepted'[j] # accepted[j]
    <3>1. /\ row' = row /\ accepted[j] = 0 /\ accepted'[j] = 1
          /\ row[j].op = "chat" /\ row[j].status \in {"running", "dead", "purged"}
      BY <1>7, <2>2, PostedRow
    <3> QED
      BY <3>1 DEF Lifecycle!Evolves, Lifecycle!Billed, Active, Held
  <2> QED
    BY <2>1, <2>2
<1> QED
  BY <1>4, <1>5, <1>6, <1>7, NextSteps

\* Slots, leases, sweeps, lost replies and reclaims implement JobLifecycle: for a
\* reader of the rows and of the provider's bill each job is open until one final
\* outcome, is billed at most once, and succeeds only after it was billed.
THEOREM LifecycleCorrect == ASSUME OwnersDistinct PROVE Spec => ImplementsLifecycle
<1>1. Init => Lifecycle!Init
  <2> SUFFICES ASSUME Init PROVE Lifecycle!Init
    OBVIOUS
  <2>1. \A j \in Jobs : row[j].status = "absent" /\ accepted[j] = 0
    BY InitRows
  <2>2. row \in [Jobs -> Row]
    BY InitType DEF TypeOK
  <2>3. [j \in Jobs |-> row[j].op] \in [Jobs -> Lifecycle!Kinds]
    BY <2>2 DEF Row, Kinds, Lifecycle!Kinds
  <2> QED
    BY <2>1, <2>3 DEF Lifecycle!Init, Init, Active, Held
<1>2. TypeOK /\ TypeOK' /\ BillingFence /\ RowsShaped /\ Ownership /\ [Next]_vars
        => [Lifecycle!Next]_(Lifecycle!vars)
  BY RowEvolves DEF Lifecycle!Next
<1> QED
  BY <1>1, <1>2, TypeCorrect, FenceCorrect, ShapedInvariant, OwnershipInvariant, PTL
  DEF Spec, ImplementsLifecycle, Lifecycle!Spec
=============================================================================
