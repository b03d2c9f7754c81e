------------------------- MODULE WebhookInboxProofs -------------------------
(***************************************************************************)
(* Theorems of WebhookInbox, for any number of versions, attempts, faults  *)
(* and invocations: when the account differs from Stripe, an event is left *)
(* that will be applied again.                                             *)
(*                                                                         *)
(* BehindIsPending alone is not inductive: the pending event might be one  *)
(* that an invocation is about to complete without looking again.  Inv     *)
(* asks for an open event, pending and not about to be completed.          *)
(***************************************************************************)
EXTENDS WebhookInbox, TLAPS

\* The invocation will complete its event without looking at Stripe again, or
\* would if it looked now.
Finishing(w) ==
  /\ Owned(w)
  /\ \/ call[w].at = "complete"
     \/ call[w].at = "confirm" /\ call[w].seen = Content[stripe]

\* A pending event that no invocation is about to close.
Open(e) ==
  /\ Pending(e)
  /\ \A w \in Invocations : Finishing(w) => call[w].event # e

\* An invocation works on an announced event, with attempts left, and has
\* retrieved what it is going to write.
CallsFit ==
  \A w \in Invocations : call[w].at # "idle" =>
    /\ call[w].event \in Announced
    /\ call[w].at = "answer" => inbox[call[w].event].status = "processed"
    /\ call[w].at \in Busy => call[w].tries < MaxAttempts
    /\ call[w].at \in {"revision", "write"} => call[w].seen \in Contents

\* Only announced events have a row, only processed ones an acknowledgement.
RowsFit ==
  \A e \in Events :
    /\ e \notin Announced => inbox[e].status = "absent" /\ e \notin acked
    /\ e \in acked => inbox[e].status = "processed"

LastWordIsOpen == account # Content[stripe] => \E e \in Announced : Open(e)

Inv == TypeOK /\ CallsFit /\ RowsFit /\ LastWordIsOpen

-----------------------------------------------------------------------------
(* Types, and which events and rows are in use. *)

LEMMA ContentType == ASSUME NEW v \in Versions PROVE Content[v] \in Contents
BY DEF Contents

LEMMA EventsAreNat == Events \subseteq Nat /\ \A v \in Versions : 1 .. v \subseteq Events
BY WebhookAssumption DEF Events, Versions

LEMMA InitInv == Init => Inv
<1> SUFFICES ASSUME Init PROVE Inv
  OBVIOUS
<1>1. 0 \in Versions
  BY WebhookAssumption DEF Versions
<1>2. TypeOK
  BY <1>1, WebhookAssumption, ContentType DEF Init, TypeOK, Idle
<1>3. CallsFit
  BY DEF Init, CallsFit, Idle
<1>4. RowsFit
  BY DEF Init, RowsFit
<1>5. LastWordIsOpen
  BY DEF Init, LastWordIsOpen
<1> QED
  BY <1>2, <1>3, <1>4, <1>5 DEF Inv

CallType == [at : Busy \cup {"idle", "fail", "answer"},
             event : Events \cup {None}, seen : Contents \cup {None},
             current : BOOLEAN, tries : 0 .. MaxAttempts]

LEMMA NextAttemptType ==
  ASSUME TypeOK, NEW w \in Invocations, call[w].tries < MaxAttempts
  PROVE  /\ NextAttempt(w) \in CallType
         /\ NextAttempt(w).event = call[w].event
         /\ NextAttempt(w).at \in {"fail", "retrieve"}
         /\ NextAttempt(w).at = "retrieve" => NextAttempt(w).tries < MaxAttempts
<1> DEFINE tries == call[w].tries + 1
<1>1. call[w] \in CallType
  BY DEF TypeOK, CallType
<1>2. tries \in 0 .. MaxAttempts /\ (tries # MaxAttempts => tries < MaxAttempts)
  BY <1>1, WebhookAssumption DEF CallType
<1>3. NextAttempt(w) = [call[w] EXCEPT !.tries = tries, !.current = FALSE,
                          !.at = IF tries = MaxAttempts THEN "fail" ELSE "retrieve"]
  BY DEF NextAttempt
<1> HIDE DEF tries
<1> QED
  BY <1>1, <1>2, <1>3 DEF CallType, Busy

LEMMA MovedType ==
  ASSUME NEW r \in CallType, NEW at \in Busy \cup {"idle", "fail", "answer"},
         NEW q, q = [r EXCEPT !.at = at]
  PROVE  /\ q \in CallType /\ q.at = at /\ q.event = r.event /\ q.seen = r.seen
         /\ q.current = r.current /\ q.tries = r.tries
BY DEF CallType

LEMMA OutdatedType ==
  ASSUME NEW r \in CallType, NEW q, q = [r EXCEPT !.current = FALSE]
  PROVE  /\ q \in CallType /\ q.at = r.at /\ q.event = r.event /\ q.seen = r.seen
         /\ q.tries = r.tries
BY DEF CallType

LEMMA StartedType ==
  ASSUME NEW e \in Events
  PROVE  /\ Started(e) \in CallType
         /\ Started(e).at = "retrieve" /\ Started(e).event = e /\ Started(e).tries = 0
<1>1. 0 \in 0 .. MaxAttempts
  BY WebhookAssumption
<1> QED
  BY <1>1 DEF Started, CallType, Busy

\* A step of one invocation that keeps the rest of the state in its types.
LEMMA OneCallType ==
  ASSUME TypeOK, NEW w \in Invocations, NEW c \in CallType,
         call' = [call EXCEPT ![w] = c],
         stripe' \in Versions, account' \in Contents, acked' \subseteq Events,
         inbox' \in [Events -> [status : {"absent", "processing", "processed"},
                                owner : Invocations \cup {None}, live : BOOLEAN]],
         faults' \in 0 .. MaxFaults
  PROVE  TypeOK'
BY DEF TypeOK, CallType

-----------------------------------------------------------------------------
(* One lemma per action. *)

LEMMA ChangeInv == ASSUME Inv, Change PROVE Inv'
<1> USE DEF Inv, Change
<1>1. TypeOK'
  BY WebhookAssumption DEF TypeOK, Versions
<1>2. CallsFit' /\ RowsFit'
  BY WebhookAssumption DEF TypeOK, CallsFit, RowsFit, Announced, Versions, Events
<1>3. LastWordIsOpen'
  <2>1. PICK e \in Events : e = stripe'
    BY WebhookAssumption DEF TypeOK, Versions, Events
  <2>2. e \in Announced' /\ e \notin Announced
    BY <2>1, WebhookAssumption DEF TypeOK, Announced, Versions, Events
  <2>3. Pending(e)'
    BY <2>2 DEF RowsFit, Pending
  <2>4. \A w \in Invocations : Finishing(w)' => call'[w].event # e
    BY <2>2 DEF CallsFit, Finishing, Owned
  <2> QED
    BY <2>2, <2>3, <2>4 DEF Open, LastWordIsOpen
<1> QED
  BY <1>1, <1>2, <1>3

\* What a step that neither moves Stripe nor writes has to keep.
LEMMA OpenKept ==
  ASSUME LastWordIsOpen, stripe' = stripe, account' = account,
         \A e \in Announced : Open(e) => Open(e)'
  PROVE  LastWordIsOpen'
BY DEF LastWordIsOpen, Announced

LEMMA DuplicateInv == ASSUME Inv, NEW e \in Events, Duplicate(e) PROVE Inv'
<1> USE DEF Inv, Duplicate
<1>1. TypeOK' /\ CallsFit' /\ RowsFit'
  BY DEF TypeOK, CallsFit, RowsFit, Announced
<1>2. \A f \in Announced : Open(f) => Open(f)'
  BY DEF Open, Pending, Finishing, Owned
<1> QED
  BY <1>1, <1>2, OpenKept

LEMMA ClaimInv ==
  ASSUME Inv, NEW w \in Invocations, NEW e \in Events, Claim(w, e)
  PROVE  Inv'
<1> USE DEF Inv
<1> DEFINE c == Started(e)
<1>1. c \in CallType /\ c.at = "retrieve" /\ c.event = e /\ c.tries = 0
  BY StartedType
<1>2. call' = [call EXCEPT ![w] = c]
  BY DEF Claim
<1> HIDE DEF c
<1>3. inbox' = [inbox EXCEPT ![e] = [status |-> "processing", owner |-> w, live |-> TRUE]]
      /\ UNCHANGED <<stripe, account, acked, faults>>
      /\ e \in Announced /\ e \notin acked
  BY DEF Claim
<1>4. inbox[e].status # "processed" /\ call[w].at = "idle"
  BY DEF Claim, Claimable
<1>5. TypeOK'
  BY <1>1, <1>2, <1>3, OneCallType DEF TypeOK
<1>6. CallsFit'
  BY <1>1, <1>2, <1>3, <1>4, WebhookAssumption DEF CallsFit, TypeOK, Announced
<1>7. RowsFit'
  BY <1>3 DEF RowsFit, TypeOK, Announced
<1>8. ASSUME NEW f \in Announced, Open(f) PROVE Open(f)'
  <2>1. Pending(f)'
    BY <1>3, <1>8, EventsAreNat DEF Open, Pending, TypeOK, Announced
  <2>2. ASSUME NEW v \in Invocations, Finishing(v)', call'[v].event = f PROVE FALSE
    <3>1. v # w
      BY <1>1, <1>2, <2>2 DEF Finishing, TypeOK
    <3>2. call'[v] = call[v] /\ f # e
      BY <1>2, <1>3, <2>2, <3>1 DEF Finishing, Owned, TypeOK
    <3>3. Finishing(v)
      BY <1>3, <2>2, <3>2 DEF Finishing, Owned, TypeOK
    <3> QED
      BY <1>8, <2>2, <3>2, <3>3 DEF Open
  <2> QED
    BY <2>1, <2>2 DEF Open
<1> QED
  BY <1>3, <1>5, <1>6, <1>7, <1>8, OpenKept

\* Steps in which an invocation goes on or gives up, and nothing else moves.
LEMMA GoesOnInv ==
  ASSUME Inv, NEW w \in Invocations, NEW c \in CallType,
         call' = [call EXCEPT ![w] = c],
         UNCHANGED <<stripe, account, inbox, acked>>, faults' \in 0 .. MaxFaults,
         call[w].at # "idle",
         c.at \notin {"answer", "confirm"},
         c.at # "idle" => c.event = call[w].event,
         c.at \in Busy => c.tries < MaxAttempts,
         c.at \in {"revision", "write"} => c.seen \in Contents,
         c.at = "complete" => call[w].at = "confirm" /\ call[w].seen = Content[stripe]
  PROVE  Inv'
<1> USE DEF Inv
<1>1. TypeOK'
  BY OneCallType DEF TypeOK
<1>2. CallsFit' /\ RowsFit'
  BY DEF CallsFit, RowsFit, TypeOK, Announced
<1>3. ASSUME NEW f \in Announced, Open(f) PROVE Open(f)'
  <2>1. ASSUME NEW v \in Invocations, Finishing(v)', call'[v].event = f PROVE FALSE
    <3>1. Finishing(v) /\ call[v].event = f
      <4>1. CASE v = w
        BY <2>1, <4>1 DEF Finishing, Owned, TypeOK
      <4>2. CASE v # w
        BY <2>1, <4>2 DEF Finishing, Owned, TypeOK
      <4> QED
        BY <4>1, <4>2
    <3> QED
      BY <1>3, <3>1 DEF Open
  <2> QED
    BY <1>3, <2>1 DEF Open, Pending
<1> QED
  BY <1>1, <1>2, <1>3, OpenKept

\* The compare-and-set: what was written is open until it is confirmed.
LEMMA WroteInv ==
  ASSUME Inv, NEW w \in Invocations, NEW at \in {"confirm", "fail"},
         Owned(w), call[w].at = "write", call[w].current,
         account' = call[w].seen, call' = [Wrote(w) EXCEPT ![w].at = at],
         UNCHANGED <<stripe, inbox, acked>>, faults' \in 0 .. MaxFaults,
         call[w].seen \in Contents
  PROVE  Inv'
<1> USE DEF Inv
<1>1. \A v \in Invocations : v # w => call'[v] = [call[v] EXCEPT !.current = FALSE]
  BY DEF Wrote
<1>2. call'[w] = [call[w] EXCEPT !.at = at]
  BY DEF Wrote, TypeOK
<1>3. \A v \in Invocations : call[v] \in CallType
  BY DEF TypeOK, CallType
<1>4. at \in Busy \cup {"idle", "fail", "answer"} /\ call[w] \in CallType
  BY <1>3 DEF Busy
<1>5. \A v \in Invocations : call'[v] \in CallType
  <2>1. call'[w] \in CallType
    BY <1>2, <1>4, MovedType
  <2>2. ASSUME NEW v \in Invocations, v # w PROVE call'[v] \in CallType
    BY <1>1, <1>3, <2>2, OutdatedType
  <2> QED
    BY <2>1, <2>2
<1>6. TypeOK'
  <2>1. call' = [v \in Invocations |-> call'[v]]
    BY DEF Wrote
  <2> QED
    BY <1>5, <2>1 DEF TypeOK, CallType
<1>7. /\ \A v \in Invocations : call'[v].event = call[v].event /\ call'[v].seen = call[v].seen
                                /\ call'[v].tries = call[v].tries
      /\ \A v \in Invocations : v # w => call'[v].at = call[v].at
      /\ call'[w].at = at
  <2>1. /\ call'[w].at = at /\ call'[w].event = call[w].event
        /\ call'[w].seen = call[w].seen /\ call'[w].tries = call[w].tries
    <3> DEFINE r == call[w]
               q == call'[w]
    <3>1. r \in CallType /\ q = [r EXCEPT !.at = at]
      BY <1>2, <1>4
    <3> HIDE DEF r, q
    <3>2. q.at = at /\ q.event = r.event /\ q.seen = r.seen /\ q.tries = r.tries
      BY <1>4, <3>1, MovedType
    <3> QED
      BY <3>2 DEF r, q
  <2>2. ASSUME NEW v \in Invocations, v # w
        PROVE  /\ call'[v].at = call[v].at /\ call'[v].event = call[v].event
               /\ call'[v].seen = call[v].seen /\ call'[v].tries = call[v].tries
    BY <1>1, <1>3, <2>2, OutdatedType, ZenonT(40)
  <2> QED
    BY <2>1, <2>2
<1>8. CallsFit' /\ RowsFit'
  BY <1>7 DEF CallsFit, RowsFit, TypeOK, Announced, Busy
<1>9. \A v \in Invocations : Finishing(v)' => \/ v = w /\ call[w].seen = Content[stripe]
                                              \/ v # w /\ Owned(v)
  BY <1>7 DEF Finishing, Owned
<1>10. ASSUME account' # Content[stripe'] PROVE \E e \in Announced' : Open(e)'
  <2>1. PICK e \in Announced : e = call[w].event
    BY DEF CallsFit
  <2>2. e \in Announced' /\ Pending(e)'
    BY <2>1, EventsAreNat DEF Owned, RowsFit, Pending, Announced, TypeOK
  <2>3. ASSUME NEW v \in Invocations, Finishing(v)' PROVE call'[v].event # e
    BY <1>7, <1>9, <1>10, <2>1, <2>3 DEF Owned
  <2> QED
    BY <2>2, <2>3 DEF Open
<1> QED
  BY <1>6, <1>8, <1>10 DEF LastWordIsOpen

\* The completion closes an event that was not the open one.
LEMMA ClosedInv ==
  ASSUME Inv, NEW w \in Invocations, NEW at \in {"answer", "fail"},
         Owned(w), call[w].at = "complete",
         inbox' = [inbox EXCEPT ![call[w].event] =
                     [status |-> "processed", owner |-> None, live |-> FALSE]],
         call' = [call EXCEPT ![w].at = at],
         UNCHANGED <<stripe, account, acked>>, faults' \in 0 .. MaxFaults
  PROVE  Inv'
<1> USE DEF Inv
<1>1. PICK e \in Announced : e = call[w].event
  BY DEF CallsFit
<1>2. e \in Events
  BY EventsAreNat DEF Announced, TypeOK
<1>3. inbox' = [inbox EXCEPT ![e] = [status |-> "processed", owner |-> None, live |-> FALSE]]
  BY <1>1
<1>4. TypeOK'
  <2>1. inbox' \in [Events -> [status : {"absent", "processing", "processed"},
                               owner : Invocations \cup {None}, live : BOOLEAN]]
    <3>1. inbox \in [Events -> [status : {"absent", "processing", "processed"},
                                owner : Invocations \cup {None}, live : BOOLEAN]]
      BY DEF TypeOK
    <3>2. [status |-> "processed", owner |-> None, live |-> FALSE]
            \in [status : {"absent", "processing", "processed"},
                 owner : Invocations \cup {None}, live : BOOLEAN]
      OBVIOUS
    <3> QED
      BY <1>2, <1>3, <3>1, <3>2
  <2>2. call' \in [Invocations -> CallType]
    <3>1. call \in [Invocations -> CallType]
      BY DEF TypeOK, CallType
    <3>2. call' = [call EXCEPT ![w] = [call[w] EXCEPT !.at = at]]
      OBVIOUS
    <3>3. [call[w] EXCEPT !.at = at] \in CallType
      <4>1. call[w] \in CallType /\ at \in Busy \cup {"idle", "fail", "answer"}
        BY <3>1 DEF Busy
      <4> QED
        BY <4>1, MovedType
    <3> QED
      BY <3>1, <3>2, <3>3
  <2> QED
    BY <2>1, <2>2 DEF TypeOK, CallType
<1>5. CallsFit' /\ RowsFit'
  BY <1>1, <1>2, <1>3, EventsAreNat DEF CallsFit, RowsFit, TypeOK, Announced, Busy
<1>6. ASSUME NEW f \in Announced, Open(f) PROVE Open(f)'
  <2>1. f # e
    BY <1>1, <1>6 DEF Open, Finishing
  <2>2. Pending(f)'
    BY <1>2, <1>3, <1>6, <2>1, EventsAreNat DEF Open, Pending, TypeOK, Announced
  <2>3. ASSUME NEW v \in Invocations, Finishing(v)', call'[v].event = f PROVE FALSE
    <3>1. Finishing(v) /\ call[v].event = f
      BY <1>1, <1>2, <1>3, <2>1, <2>3 DEF Finishing, Owned, TypeOK
    <3> QED
      BY <1>6, <3>1 DEF Open
  <2> QED
    BY <2>2, <2>3 DEF Open
<1> QED
  BY <1>4, <1>5, <1>6, OpenKept

LEMMA AnswerInv == ASSUME Inv, NEW w \in Invocations, Answer(w) PROVE Inv'
<1> USE DEF Inv, Answer
<1>1. PICK e \in Announced : e = call[w].event /\ inbox[e].status = "processed"
  BY DEF CallsFit
<1>2. e \in Events
  BY EventsAreNat DEF Announced, TypeOK
<1>3. acked' = acked \cup {e} /\ call' = [call EXCEPT ![w] = Idle]
  BY <1>1
<1>4. TypeOK'
  BY <1>2, <1>3, WebhookAssumption DEF TypeOK, Idle
<1>5. CallsFit' /\ RowsFit'
  BY <1>1, <1>2, <1>3 DEF CallsFit, RowsFit, TypeOK, Announced, Idle
<1>6. ASSUME NEW f \in Announced, Open(f) PROVE Open(f)'
  BY <1>1, <1>3, <1>6 DEF Open, Pending, Finishing, Owned, TypeOK, Idle
<1> QED
  BY <1>4, <1>5, <1>6, OpenKept

\* A lease that ends, or that fail_stripe_webhook_event gives up.
LEMMA ReleasedInv ==
  ASSUME Inv, NEW e \in Events, NEW o \in {inbox[e].owner, None},
         inbox' = [inbox EXCEPT ![e].owner = o, ![e].live = FALSE],
         UNCHANGED <<stripe, account, acked, call>>, faults' \in 0 .. MaxFaults
  PROVE  Inv'
<1> USE DEF Inv
<1>1. TypeOK'
  BY ZenonT(40) DEF TypeOK
<1>2. \A f \in Events : inbox'[f].status = inbox[f].status
  BY DEF TypeOK
<1>3. CallsFit' /\ RowsFit'
  BY <1>2, EventsAreNat DEF CallsFit, RowsFit, TypeOK, Announced
<1>4. \A v \in Invocations : Owned(v)' => Owned(v)
  BY EventsAreNat DEF Owned, CallsFit, TypeOK, Announced
<1>5. ASSUME NEW f \in Announced, Open(f) PROVE Open(f)'
  BY <1>2, <1>4, <1>5, EventsAreNat DEF Open, Pending, Finishing, TypeOK, Announced
<1> QED
  BY <1>1, <1>3, <1>5, OpenKept

-----------------------------------------------------------------------------
(* The actions, one by one. *)

LEMMA CallFacts ==
  ASSUME Inv, NEW w \in Invocations, call[w].at \in Busy
  PROVE  /\ call[w] \in CallType /\ call[w].at # "idle"
         /\ call[w].tries < MaxAttempts /\ faults \in 0 .. MaxFaults
BY DEF Inv, TypeOK, CallsFit, CallType, Busy

LEMMA MovesOn ==
  ASSUME Inv, NEW w \in Invocations, call[w].at \in Busy,
         NEW at \in {"complete", "fail"},
         call' = [call EXCEPT ![w].at = at],
         UNCHANGED <<stripe, account, inbox, acked>>, faults' \in 0 .. MaxFaults,
         at = "complete" => call[w].at = "confirm" /\ call[w].seen = Content[stripe]
  PROVE  Inv'
<1> DEFINE c == [call[w] EXCEPT !.at = at]
<1>1. call' = [call EXCEPT ![w] = c]
  OBVIOUS
<1>2. at \in Busy \cup {"idle", "fail", "answer"} /\ call[w] \in CallType
  BY CallFacts DEF Busy
<1>3. c = [call[w] EXCEPT !.at = at]
  OBVIOUS
<1> HIDE DEF c
<1>4. c \in CallType /\ c.at = at /\ c.event = call[w].event /\ c.tries = call[w].tries
  BY <1>2, <1>3, MovedType
<1> QED
  BY <1>1, <1>4, CallFacts, GoesOnInv

LEMMA TriesAgain ==
  ASSUME Inv, NEW w \in Invocations, call[w].at \in Busy,
         call' = [call EXCEPT ![w] = NextAttempt(w)],
         UNCHANGED <<stripe, account, inbox, acked, faults>>
  PROVE  Inv'
<1>1. /\ NextAttempt(w) \in CallType /\ NextAttempt(w).event = call[w].event
      /\ NextAttempt(w).at \in {"fail", "retrieve"}
      /\ NextAttempt(w).at = "retrieve" => NextAttempt(w).tries < MaxAttempts
  BY CallFacts, NextAttemptType DEF Inv
<1> DEFINE c == NextAttempt(w)
<1> HIDE DEF c
<1>2. c \in CallType /\ c.event = call[w].event /\ c.at \in {"fail", "retrieve"}
      /\ (c.at = "retrieve" => c.tries < MaxAttempts) /\ call' = [call EXCEPT ![w] = c]
  BY <1>1 DEF c
<1> QED
  BY <1>2, CallFacts, GoesOnInv DEF Busy

LEMMA RetrieveInv == ASSUME Inv, NEW w \in Invocations, Retrieve(w) PROVE Inv'
<1> DEFINE c == [call[w] EXCEPT !.seen = Content[stripe], !.at = "revision"]
<1>1. call[w].at \in Busy /\ call[w].at = "retrieve"
  BY DEF Retrieve, Busy
<1>2. call' = [call EXCEPT ![w] = c]
  BY DEF Retrieve
<1>3. Content[stripe] \in Contents
  BY ContentType DEF Inv, TypeOK
<1>4. c \in CallType /\ c.at = "revision" /\ c.event = call[w].event /\ c.tries = call[w].tries
      /\ c.seen \in Contents
  <2>1. call[w] \in CallType
    BY <1>1, CallFacts
  <2> QED
    BY <1>3, <2>1 DEF CallType, Busy
<1>5. UNCHANGED <<stripe, account, inbox, acked, faults>>
  BY DEF Retrieve
<1> HIDE DEF c
<1> QED
  BY <1>1, <1>2, <1>4, <1>5, CallFacts, GoesOnInv

LEMMA ReadRevisionInv == ASSUME Inv, NEW w \in Invocations, ReadRevision(w) PROVE Inv'
<1> DEFINE c == [call[w] EXCEPT !.current = TRUE, !.at = "write"]
<1>1. call[w].at \in Busy /\ call[w].at = "revision"
  BY DEF ReadRevision, Busy
<1>2. call' = [call EXCEPT ![w] = c]
  BY DEF ReadRevision
<1>3. c \in CallType /\ c.at = "write" /\ c.event = call[w].event /\ c.tries = call[w].tries
      /\ c.seen \in Contents
  <2>1. call[w] \in CallType /\ call[w].seen \in Contents
    BY <1>1, CallFacts DEF Inv, CallsFit
  <2> QED
    BY <2>1 DEF CallType, Busy
<1>4. UNCHANGED <<stripe, account, inbox, acked, faults>>
  BY DEF ReadRevision
<1> HIDE DEF c
<1> QED
  BY <1>1, <1>2, <1>3, <1>4, CallFacts, GoesOnInv

LEMMA IdleType == Idle \in CallType /\ Idle.at = "idle"
BY WebhookAssumption DEF Idle, CallType

LEMMA WriteInv == ASSUME Inv, NEW w \in Invocations, Write(w) PROVE Inv'
<1>1. call[w].at \in Busy /\ call[w].at = "write" /\ UNCHANGED <<stripe, inbox, acked, faults>>
  BY DEF Write, Busy
<1>2. call[w].seen \in Contents /\ faults' \in 0 .. MaxFaults
  BY <1>1, CallFacts DEF Inv, CallsFit
<1>3. CASE ~Owned(w) /\ call' = [call EXCEPT ![w].at = "fail"] /\ UNCHANGED account
  BY <1>1, <1>2, <1>3, MovesOn
<1>4. CASE Owned(w) /\ call[w].current /\ account' = call[w].seen /\ call' = Wrote(w)
  <2>1. Wrote(w) = [Wrote(w) EXCEPT ![w].at = "confirm"]
    BY <1>1, CallFacts DEF Wrote, CallType
  <2> QED
    BY <1>1, <1>2, <1>4, <2>1, WroteInv
<1>5. CASE call' = [call EXCEPT ![w] = NextAttempt(w)] /\ UNCHANGED account
  BY <1>1, <1>5, TriesAgain
<1> QED
  BY <1>3, <1>4, <1>5 DEF Write

LEMMA ConfirmInv == ASSUME Inv, NEW w \in Invocations, Confirm(w) PROVE Inv'
<1>1. /\ call[w].at \in Busy /\ call[w].at = "confirm"
      /\ UNCHANGED <<stripe, account, inbox, acked, faults>>
  BY DEF Confirm, Busy
<1>2. CASE Content[stripe] = call[w].seen
  <2>1. call' = [call EXCEPT ![w].at = "complete"]
    BY <1>2 DEF Confirm
  <2> QED
    BY <1>1, <1>2, <2>1, CallFacts, MovesOn
<1>3. CASE Content[stripe] # call[w].seen
  <2>1. call' = [call EXCEPT ![w] = NextAttempt(w)]
    BY <1>3 DEF Confirm
  <2> QED
    BY <1>1, <2>1, TriesAgain
<1> QED
  BY <1>2, <1>3

LEMMA CompleteInv == ASSUME Inv, NEW w \in Invocations, Complete(w) PROVE Inv'
<1>1. /\ call[w].at \in Busy /\ call[w].at = "complete"
      /\ UNCHANGED <<stripe, account, acked, faults>>
  BY DEF Complete, Busy
<1>2. faults' \in 0 .. MaxFaults
  BY <1>1, CallFacts
<1>3. CASE Owned(w)
  BY <1>1, <1>2, <1>3, ClosedInv DEF Complete
<1>4. CASE ~Owned(w)
  BY <1>1, <1>2, <1>4, MovesOn DEF Complete
<1> QED
  BY <1>3, <1>4

LEMMA CallFailsInv == ASSUME Inv, NEW w \in Invocations, CallFails(w) PROVE Inv'
<1>1. /\ call[w].at \in Busy /\ call' = [call EXCEPT ![w].at = "fail"]
      /\ UNCHANGED <<stripe, account, inbox, acked>>
      /\ faults < MaxFaults /\ faults' = faults + 1
  BY DEF CallFails
<1>2. faults' \in 0 .. MaxFaults
  BY <1>1, WebhookAssumption DEF Inv, TypeOK
<1> QED
  BY <1>1, <1>2, MovesOn

LEMMA ReplyLostInv == ASSUME Inv, NEW w \in Invocations, ReplyLost(w) PROVE Inv'
<1>1. faults' \in 0 .. MaxFaults
  BY WebhookAssumption DEF ReplyLost, Inv, TypeOK
<1>2. CASE call[w].at = "write"
  <2>1. call[w].seen \in Contents
    BY <1>2 DEF Inv, CallsFit
  <2> QED
    BY <1>1, <1>2, <2>1, WroteInv DEF ReplyLost
<1>3. CASE call[w].at = "complete"
  BY <1>1, <1>3, ClosedInv DEF ReplyLost
<1> QED
  BY <1>2, <1>3 DEF ReplyLost

LEMMA GivesUp ==
  ASSUME Inv, NEW w \in Invocations, call[w].at # "idle",
         call' = [call EXCEPT ![w] = Idle],
         UNCHANGED <<stripe, account, inbox, acked>>, faults' \in 0 .. MaxFaults
  PROVE  Inv'
<1> DEFINE c == Idle
<1>1. c \in CallType /\ c.at = "idle" /\ call' = [call EXCEPT ![w] = c]
  BY IdleType
<1> HIDE DEF c
<1> QED
  BY <1>1, GoesOnInv DEF Busy

LEMMA CrashInv == ASSUME Inv, NEW w \in Invocations, Crash(w) PROVE Inv'
<1>1. faults' \in 0 .. MaxFaults
  BY WebhookAssumption DEF Crash, Inv, TypeOK
<1> QED
  BY <1>1, GivesUp DEF Crash

LEMMA LeaseEndsInv == ASSUME Inv, NEW e \in Events, LeaseEnds(e) PROVE Inv'
<1>1. inbox' = [inbox EXCEPT ![e].owner = inbox[e].owner, ![e].live = FALSE]
  BY DEF LeaseEnds, Inv, TypeOK
<1> QED
  BY <1>1, ReleasedInv DEF LeaseEnds, Inv, TypeOK

LEMMA SuspendedInv == ASSUME Inv, NEW e \in Events, Suspended(e) PROVE Inv'
<1>1. inbox' = [inbox EXCEPT ![e].owner = inbox[e].owner, ![e].live = FALSE]
  BY DEF Suspended, Inv, TypeOK
<1>2. faults' \in 0 .. MaxFaults
  BY WebhookAssumption DEF Suspended, Inv, TypeOK
<1> QED
  BY <1>1, <1>2, ReleasedInv DEF Suspended

LEMMA FailInv == ASSUME Inv, NEW w \in Invocations, Fail(w) PROVE Inv'
<1> USE DEF Inv
<1>1. /\ call[w].at = "fail" /\ call' = [call EXCEPT ![w] = Idle]
      /\ UNCHANGED <<stripe, account, acked, faults>>
  BY DEF Fail
<1>2. faults' \in 0 .. MaxFaults
  BY <1>1 DEF TypeOK
<1>3. CASE ~Owned(w)
  BY <1>1, <1>2, <1>3, GivesUp DEF Fail
<1>4. CASE Owned(w)
  <2>1. PICK e \in Announced : e = call[w].event
    BY <1>1 DEF CallsFit
  <2>2. e \in Events
    BY EventsAreNat DEF Announced, TypeOK
  <2>3. inbox' = [inbox EXCEPT ![e].owner = None, ![e].live = FALSE]
    BY <1>4, <2>1 DEF Fail
  <2>4. \A f \in Events : inbox'[f].status = inbox[f].status
    BY <2>3 DEF TypeOK
  <2>5. TypeOK'
    BY <1>1, <2>3, IdleType, ZenonT(40) DEF TypeOK, CallType
  <2>6. CallsFit'
    BY <1>1, <2>4, EventsAreNat, IdleType, SMTT(30) DEF CallsFit, TypeOK, Announced, Busy
  <2>9. RowsFit'
    BY <1>1, <2>4, EventsAreNat, SMTT(30) DEF RowsFit, TypeOK, Announced
  <2>7. \A v \in Invocations : Owned(v)' => Owned(v) /\ v # w /\ call'[v] = call[v]
    BY <1>1, <2>3, EventsAreNat, IdleType DEF Owned, CallsFit, TypeOK, Announced
  <2>8. ASSUME NEW f \in Announced, Open(f) PROVE Open(f)'
    BY <1>1, <2>4, <2>7, <2>8, EventsAreNat DEF Open, Pending, Finishing, TypeOK, Announced
  <2> QED
    BY <1>1, <2>5, <2>6, <2>8, <2>9, OpenKept
<1> QED
  BY <1>3, <1>4

-----------------------------------------------------------------------------
(* The theorems. *)

\* Every action keeps the types, the rows, and the openness of an event.
LEMMA StepInv == Inv /\ [Next]_vars => Inv'
<1> SUFFICES ASSUME Inv, [Next]_vars PROVE Inv'
  OBVIOUS
<1>1. CASE Change
  BY <1>1, ChangeInv
<1>2. ASSUME NEW e \in Events, Delivered(e) PROVE Inv'
  BY <1>2, DuplicateInv, ClaimInv DEF Delivered
<1>3. ASSUME NEW e \in Events, LeaseEnds(e) \/ Suspended(e) PROVE Inv'
  BY <1>3, LeaseEndsInv, SuspendedInv
<1>4. ASSUME NEW w \in Invocations, Step(w) PROVE Inv'
  BY <1>4, RetrieveInv, ReadRevisionInv, WriteInv, ConfirmInv, CompleteInv, AnswerInv,
     FailInv DEF Step
<1>5. ASSUME NEW w \in Invocations, CallFails(w) \/ ReplyLost(w) \/ Crash(w) PROVE Inv'
  BY <1>5, CallFailsInv, ReplyLostInv, CrashInv
<1>6. CASE UNCHANGED vars
  BY <1>6 DEF vars, Inv, TypeOK, CallsFit, RowsFit, LastWordIsOpen, Open, Pending,
     Finishing, Owned, Announced
<1> QED
  BY <1>1, <1>2, <1>3, <1>4, <1>5, <1>6 DEF Next, AllQuiet

\* The types, the budget of faults and the attempts hold in every state.
THEOREM InboxTypeCorrect == Spec => []TypeOK
<1>1. Inv => TypeOK
  BY DEF Inv
<1> QED
  BY InitInv, StepInv, <1>1, PTL DEF Spec

\* The account never shows something else than Stripe with no event left that
\* Stripe sends again and the inbox would apply again.
THEOREM NeverBehindForGood == Spec => []BehindIsPending
<1>1. Inv => BehindIsPending
  BY DEF Inv, LastWordIsOpen, Open, BehindIsPending
<1> QED
  BY InitInv, StepInv, <1>1, PTL DEF Spec
=============================================================================
