-------------------------- MODULE ProviderCircuitProofs --------------------------
(***************************************************************************)
(* Theorems of ProviderCircuit for every set of providers, tenants and     *)
(* requests in flight, every threshold and every size of the two tables:   *)
(* the permits are counted, at most one request probes a circuit that is   *)
(* not closed, stale answers change nothing and one tenant opens nothing.  *)
(***************************************************************************)
EXTENDS ProviderCircuit, FiniteSetTheorems, TLAPS

\* The permits of p, and how the circuit s of p fits the permits cl and the
\* history f: its count, its token, and what is left to believe of a tenant.
Mine(p, cl) == {c \in Calls : cl[c].held /\ cl[c].provider = p}

Fits(p, s, f, cl) ==
  /\ s.inflight = Cardinality(Mine(p, cl))
  /\ s.inflight > 0 => s.present
  /\ \A c \in Mine(p, cl) : cl[c].half <=> c = s.token
  /\ s.token # None => s.token \in Mine(p, cl) /\ s.until = "due"
  /\ s.until # "closed" => \A c \in Mine(p, cl) : cl[c].current <=> c = s.token
  /\ f # NoTenant => s.until = "closed" /\ s.streak \subseteq {f} \ {None}

\* The types, with a count that is only a number.
Counting == [present : BOOLEAN, failures : 0..Threshold, until : Windows,
             token : Calls \cup {None}, inflight : Nat, old : BOOLEAN,
             streak : SUBSET Tenants]

Typed == /\ state \in [Providers -> Counting]
         /\ scope \in [Keys -> Scope]
         /\ call \in [Calls -> Call]
         /\ failed \in [Providers -> Tenants \cup {None, NoTenant}]
         /\ \A k \in Keys : scope[k].until = "closed" => scope[k].failures < Threshold
         /\ \A c \in Calls : call[c].held => call[c].provider \in Providers

Circuits == \A p \in Providers : Fits(p, state[p], failed[p], call)

LEMMA MineFinite ==
  ASSUME NEW p, NEW cl
  PROVE  /\ IsFiniteSet(Mine(p, cl))
         /\ Cardinality(Mine(p, cl)) \in Nat
         /\ Cardinality(Mine(p, cl)) <= Cardinality(Calls)
         /\ Cardinality(Mine(p, cl)) = 0 => Mine(p, cl) = {}
<1>1. IsFiniteSet(Calls) /\ Mine(p, cl) \in SUBSET Calls
  BY CircuitAssumption DEF Mine
<1>2. IsFiniteSet(Mine(p, cl)) /\ Cardinality(Mine(p, cl)) <= Cardinality(Calls)
  BY <1>1, FS_Subset
<1> QED
  BY <1>2, FS_CardinalityType, FS_EmptySet

\* The circuit is the same, but for its age and a streak that may be smaller.
Alike(a, b) == /\ b.present = a.present /\ b.until = a.until /\ b.token = a.token
               /\ b.inflight = a.inflight /\ b.streak \subseteq a.streak

LEMMA AlikeFits ==
  ASSUME NEW p, NEW a, NEW b, NEW f, NEW cl, Fits(p, a, f, cl), Alike(a, b)
  PROVE  Fits(p, b, f, cl)
BY DEF Fits, Alike

\* A circuit nobody has a permit of may be replaced by a new one.
LEMMA NewFits ==
  ASSUME NEW p, NEW a \in Counting, NEW f, NEW cl, Fits(p, a, f, cl),
         a.inflight = 0, NEW b \in {NoState, NewState}
  PROVE  Fits(p, b, f, cl)
<1>1. Mine(p, cl) = {} /\ Cardinality(Mine(p, cl)) = 0
  BY MineFinite DEF Fits
<1>2. /\ b.until = "closed" /\ b.token = None /\ b.inflight = 0 /\ b.streak = {}
  BY DEF NoState, NewState
<1> QED
  BY <1>1, <1>2 DEF Fits

LEMMA NewTyped == NoState \in Counting /\ NewState \in Counting
<1>1. 0 \in 0..Threshold
  BY CircuitAssumption
<1>2. NewState \in Counting
  BY <1>1 DEF NewState, Counting, Windows
<1>3. NoState \in Counting
  BY <1>2 DEF NoState, Counting
<1> QED
  BY <1>2, <1>3

LEMMA FreshFits ==
  ASSUME NEW st \in [Providers -> Counting], NEW cl, NEW fl,
         \A p \in Providers : Fits(p, st[p], fl[p], cl)
  PROVE  /\ FreshStates(st) \in [Providers -> Counting]
         /\ \A p \in Providers : Fits(p, FreshStates(st)[p], fl[p], cl)
<1>1. FreshStates(st) \in [Providers -> Counting]
  BY NewTyped DEF FreshStates
<1>2. ASSUME NEW p \in Providers
      PROVE  Fits(p, FreshStates(st)[p], fl[p], cl)
  <2>1. CASE FreshStates(st)[p] = st[p]
    BY <2>1
  <2>2. CASE FreshStates(st)[p] = NoState /\ ~Protected(st[p])
    <3>1. st[p].inflight = 0
      BY <2>2 DEF Protected, Counting
    <3> QED
      BY <2>2, <3>1, NewFits
  <2> QED
    BY <2>1, <2>2 DEF FreshStates
<1> QED
  BY <1>1, <1>2

LEMMA TableFits ==
  ASSUME NEW st \in [Providers -> Counting], NEW cl, NEW fl,
         \A q \in Providers : Fits(q, st[q], fl[q], cl),
         NEW p \in Providers, NEW table \in StateTables(st, p)
  PROVE  /\ table \in [Providers -> Counting]
         /\ \A q \in Providers : Fits(q, table[q], fl[q], cl)
<1>1. CASE st[p].present /\ table = [st EXCEPT ![p].old = FALSE]
  <2>1. table \in [Providers -> Counting]
    BY <1>1 DEF Counting
  <2>2. \A q \in Providers : Alike(st[q], table[q])
    BY <1>1 DEF Alike, Counting
  <2> QED
    BY <2>1, <2>2, AlikeFits
<1>2. CASE ~st[p].present /\ table = [st EXCEPT ![p] = NewState]
  <2>1. st[p].inflight = 0
    BY <1>2 DEF Fits, Counting
  <2> QED
    BY <1>2, <2>1, NewTyped, NewFits
<1>3. CASE table = st
  BY <1>3
<1>4. ASSUME NEW o \in Providers, ~st[p].present, st[o].present, ~Protected(st[o]),
             table = [st EXCEPT ![o] = NoState, ![p] = NewState]
      PROVE  /\ table \in [Providers -> Counting]
             /\ \A q \in Providers : Fits(q, table[q], fl[q], cl)
  <2>1. st[p].inflight = 0 /\ st[o].inflight = 0
    BY <1>4 DEF Fits, Counting, Protected
  <2> QED
    BY <1>4, <2>1, NewTyped, NewFits
<1> QED
  BY <1>1, <1>2, <1>3, <1>4 DEF StateTables

-----------------------------------------------------------------------------
(* A request takes a permit, and gives it back. *)

\* The permits of q and what they say are as before.
SameFor(q, cl, new) ==
  \A o \in Calls : \/ new[o] = cl[o]
                   \/ /\ ~(cl[o].held /\ cl[o].provider = q)
                      /\ ~(new[o].held /\ new[o].provider = q)

LEMMA OthersFit ==
  ASSUME NEW q, NEW s, NEW f, NEW cl, NEW new, Fits(q, s, f, cl), SameFor(q, cl, new)
  PROVE  Fits(q, s, f, new)
<1>1. Mine(q, new) = Mine(q, cl)
  BY DEF Mine, SameFor
<1>2. \A c \in Mine(q, cl) : new[c] = cl[c]
  BY DEF Mine, SameFor
<1> QED
  BY <1>1, <1>2 DEF Fits

LEMMA AdmittedFits ==
  ASSUME NEW p \in Providers, NEW t \in Tenants \cup {NoTenant}, NEW c \in Calls,
         NEW st \in [Providers -> Counting], NEW f, ~call[c].held,
         call \in [Calls -> Call],
         Fits(p, st[p], f, call), st[p].present, ~Rejects(st[p]), Admitted(c, p, t, st)
  PROVE  Fits(p, state'[p], f, call')
<1> DEFINE a == st[p]
           b == state'[p]
<1>1. /\ b.inflight = a.inflight + 1 /\ b.until = a.until /\ b.streak = a.streak
      /\ b.present = a.present
      /\ b.token = IF a.until = "due" THEN c ELSE a.token
  BY DEF Admitted, Counting
<1>2. /\ call'[c].held /\ call'[c].provider = p /\ call'[c].current
      /\ call'[c].half <=> a.until = "due"
      /\ \A o \in Calls : o # c => call'[o] = call[o]
  BY DEF Admitted, Permit
<1>3. Mine(p, call') = Mine(p, call) \cup {c} /\ c \notin Mine(p, call)
  BY <1>2 DEF Mine
<1>4. b.inflight = Cardinality(Mine(p, call')) /\ a.inflight \in Nat
  <2>1. IsFiniteSet(Mine(p, call))
    BY MineFinite
  <2>2. Cardinality(Mine(p, call) \cup {c}) = Cardinality(Mine(p, call)) + 1
    BY <1>3, <2>1, FS_AddElement
  <2>3. a.inflight = Cardinality(Mine(p, call)) /\ a.inflight \in Nat
    BY DEF Fits, Counting
  <2> QED
    BY <1>1, <1>3, <2>2, <2>3
<1>5. a.until # "open" /\ (a.until = "due" => a.token = None) /\ a.until \in Windows
  BY DEF Rejects, Counting
<1>6. \A o \in Mine(p, call) : o # c /\ o # None /\ call'[o] = call[o]
  BY <1>2, <1>3, CircuitAssumption DEF Mine
<1>7. /\ \A o \in Mine(p, call') : call'[o].half <=> o = b.token
      /\ b.until # "closed" => \A o \in Mine(p, call') : call'[o].current <=> o = b.token
      /\ b.token # None => b.token \in Mine(p, call') /\ b.until = "due"
  <2>1. CASE a.until = "due"
    <3>1. \A o \in Mine(p, call) : ~call[o].half /\ ~call[o].current
      BY <1>5, <1>6, <2>1 DEF Fits
    <3> QED
      BY <1>1, <1>2, <1>3, <1>6, <2>1, <3>1
  <2>2. CASE a.until = "closed"
    <3>1. a.token = None /\ b.token = None /\ b.until = "closed"
      BY <1>1, <2>2 DEF Fits
    <3>2. \A o \in Mine(p, call) : ~call[o].half
      BY <1>6, <3>1 DEF Fits
    <3> QED
      BY <1>2, <1>3, <1>6, <2>2, <3>1, <3>2, CircuitAssumption
  <2> QED
    BY <1>5, <2>1, <2>2 DEF Windows
<1> QED
  BY <1>1, <1>4, <1>7 DEF Fits

\* A circuit a of p whose permit c is given back, and becomes b.
LEMMA ReturnFits ==
  ASSUME NEW p \in Providers, NEW a \in Counting, NEW b \in Counting, NEW f, NEW g,
         NEW c \in Calls, NEW cl \in [Calls -> Call], NEW new,
         Fits(p, a, f, cl), c \in Mine(p, cl), new = [cl EXCEPT ![c] = NoPermit],
         b.inflight = a.inflight - 1, b.present = a.present,
         \/ a.token = c /\ b.token = None /\ b.until \in {"closed", a.until}
         \/ a.token # c /\ b.token = a.token /\ b.until = a.until,
         g # NoTenant => b.until = "closed" /\ b.streak \subseteq {g} \ {None}
  PROVE  Fits(p, b, g, new)
<1>1. /\ \A o \in Calls : o # c => new[o] = cl[o]
      /\ ~new[c].held
  BY DEF NoPermit
<1>2. Mine(p, new) = Mine(p, cl) \ {c}
  BY <1>1 DEF Mine
<1>3. a.present /\ b.inflight = Cardinality(Mine(p, new))
  <2>1. a.inflight = Cardinality(Mine(p, cl)) /\ (a.inflight > 0 => a.present)
    BY DEF Fits
  <2>2. IsFiniteSet(Mine(p, cl)) /\ a.inflight \in Nat /\ a.inflight # 0
    <3>1. /\ IsFiniteSet(Mine(p, cl)) /\ Cardinality(Mine(p, cl)) \in Nat
          /\ Cardinality(Mine(p, cl)) = 0 => Mine(p, cl) = {}
      BY MineFinite
    <3>2. Mine(p, cl) # {}
      OBVIOUS
    <3> QED
      BY <2>1, <3>1, <3>2
  <2>3. Cardinality(Mine(p, cl) \ {c}) = Cardinality(Mine(p, cl)) - 1
    BY <2>2, FS_RemoveElement
  <2>4. a.inflight > 0
    BY <2>2
  <2>5. b.inflight = Cardinality(Mine(p, new))
    BY <1>2, <2>1, <2>3
  <2> QED
    BY <2>1, <2>4, <2>5
<1>4. \A o \in Mine(p, new) : o # c /\ o # None /\ o \in Mine(p, cl) /\ new[o] = cl[o]
  BY <1>1, <1>2, CircuitAssumption DEF Mine
<1>5. /\ \A o \in Mine(p, new) : new[o].half <=> o = b.token
      /\ b.until # "closed" => \A o \in Mine(p, new) : new[o].current <=> o = b.token
      /\ b.token # None => b.token \in Mine(p, new) /\ b.until = "due"
  <2>1. CASE a.token = c /\ b.token = None /\ b.until \in {"closed", a.until}
    BY <1>4, <2>1 DEF Fits
  <2>2. CASE a.token # c /\ b.token = a.token /\ b.until = a.until
    BY <1>2, <1>4, <2>2 DEF Fits
  <2> QED
    BY <2>1, <2>2
<1> QED
  BY <1>3, <1>5 DEF Fits

\* The same when the answer opens the circuit: every other permit is stale.
LEMMA ReopenFits ==
  ASSUME NEW p \in Providers, NEW a \in Counting, NEW b \in Counting, NEW f,
         NEW c \in Calls, NEW cl \in [Calls -> Call], NEW new,
         Fits(p, a, f, cl), c \in Mine(p, cl),
         new = [o \in Calls |-> IF o = c THEN NoPermit
                                ELSE IF cl[o].provider = p
                                     THEN [cl[o] EXCEPT !.current = FALSE] ELSE cl[o]],
         b.inflight = a.inflight - 1, b.present = a.present,
         b.until = "open", b.token = None, a.token \in {None, c}
  PROVE  Fits(p, b, NoTenant, new)
<1>1. /\ \A o \in Calls : o # c => /\ new[o].held = cl[o].held
                                   /\ new[o].provider = cl[o].provider
                                   /\ new[o].half = cl[o].half
                                   /\ cl[o].provider = p => ~new[o].current
      /\ ~new[c].held
  BY DEF NoPermit, Call
<1>2. Mine(p, new) = Mine(p, cl) \ {c}
  BY <1>1 DEF Mine
<1>3. a.present /\ b.inflight = Cardinality(Mine(p, new))
  <2>1. a.inflight = Cardinality(Mine(p, cl)) /\ (a.inflight > 0 => a.present)
    BY DEF Fits
  <2>2. IsFiniteSet(Mine(p, cl)) /\ a.inflight \in Nat /\ a.inflight # 0
    <3>1. /\ IsFiniteSet(Mine(p, cl)) /\ Cardinality(Mine(p, cl)) \in Nat
          /\ Cardinality(Mine(p, cl)) = 0 => Mine(p, cl) = {}
      BY MineFinite
    <3>2. Mine(p, cl) # {}
      OBVIOUS
    <3> QED
      BY <2>1, <3>1, <3>2
  <2>3. Cardinality(Mine(p, cl) \ {c}) = Cardinality(Mine(p, cl)) - 1
    BY <2>2, FS_RemoveElement
  <2>4. a.inflight > 0
    BY <2>2
  <2>5. b.inflight = Cardinality(Mine(p, new))
    BY <1>2, <2>1, <2>3
  <2> QED
    BY <2>1, <2>4, <2>5
<1>4. \A o \in Mine(p, new) :
        /\ o # c /\ o # None /\ o \in Mine(p, cl)
        /\ new[o].half = cl[o].half /\ ~new[o].current
  BY <1>1, <1>2, CircuitAssumption DEF Mine
<1>5. \A o \in Mine(p, new) : ~new[o].half
  BY <1>4 DEF Fits
<1> QED
  BY <1>3, <1>4, <1>5 DEF Fits

-----------------------------------------------------------------------------
(* The answers: success, failure and abandonment. *)

\* What resolving permit c of the circuit a leaves: b, with the permit given
\* back, or b opened and every permit of p stale.
GivenBack(c, p, a, b) ==
  /\ call' = [call EXCEPT ![c] = NoPermit]
  /\ \/ a.token = c /\ b.token = None /\ b.until \in {"closed", a.until}
     \/ a.token # c /\ b.token = a.token /\ b.until = a.until
  /\ failed'[p] # NoTenant => b.until = "closed" /\ b.streak \subseteq {failed'[p]} \ {None}

Opened(c, p, a, b) ==
  /\ call' = [o \in Calls |-> IF o = c THEN NoPermit
                              ELSE IF call[o].provider = p
                                   THEN [call[o] EXCEPT !.current = FALSE] ELSE call[o]]
  /\ b.until = "open" /\ b.token = None /\ a.token \in {None, c}
  /\ failed'[p] = NoTenant

Unmoved(a, b) == /\ b.until = a.until /\ b.failures = a.failures
                 /\ b.token = a.token /\ b.streak = a.streak

Answered(c, p, a, b) ==
  /\ state' = [state EXCEPT ![p] = b]
  /\ b \in Counting
  /\ b.present = a.present /\ b.inflight = a.inflight - 1
  /\ GivenBack(c, p, a, b) \/ Opened(c, p, a, b)
  /\ ~call[c].current => Unmoved(a, b)

\* A permit is current only if it is the token, once the circuit is not closed.
LEMMA PermitFacts ==
  ASSUME Typed, Circuits, NEW c \in Calls, call[c].held
  PROVE  LET p == call[c].provider
             a == state[p]
             s == Resolved(c)
         IN /\ p \in Providers /\ c \in Mine(p, call)
            /\ a \in Counting /\ s \in Counting
            /\ Known(c)
            /\ s.present = a.present /\ s.failures = a.failures /\ s.until = a.until
            /\ s.token = a.token /\ s.streak = a.streak /\ s.inflight = a.inflight - 1
            /\ OwnProbe(s, c) <=> a.token = c
            /\ a.token = c => call[c].current /\ a.until = "due"
            /\ Counts(s, c) => a.until = "closed" /\ a.token = None /\ call[c].current
<1> DEFINE p == call[c].provider
           a == state[p]
           s == Resolved(c)
<1>1. p \in Providers /\ c \in Mine(p, call) /\ a \in Counting /\ Fits(p, a, failed[p], call)
  BY DEF Typed, Circuits, Mine
<1>2. a.inflight # 0 /\ a.inflight \in Nat
  <2>1. /\ a.inflight = Cardinality(Mine(p, call)) /\ a.inflight \in Nat
    BY <1>1 DEF Fits, Counting
  <2>2. Cardinality(Mine(p, call)) = 0 => Mine(p, call) = {}
    BY MineFinite
  <2> QED
    BY <1>1, <2>1, <2>2
<1>3. a.present
  BY <1>1, <1>2 DEF Fits
<1>4. a.inflight > 0 /\ a.inflight - 1 \in Nat
  BY <1>2
<1>5. s = [a EXCEPT !.inflight = a.inflight - 1, !.old = FALSE]
  BY <1>1, <1>4 DEF Resolved, Seen, Counting
<1>6. /\ s \in Counting
      /\ s.present = a.present /\ s.failures = a.failures /\ s.until = a.until
      /\ s.token = a.token /\ s.streak = a.streak /\ s.inflight = a.inflight - 1
  BY <1>1, <1>4, <1>5 DEF Counting
<1>7. (call[c].half <=> a.token = c) /\ c # None
  BY <1>1, CircuitAssumption DEF Fits
<1>8. a.token = c => call[c].current /\ a.until = "due"
  BY <1>1, <1>7 DEF Fits
<1>9. Counts(s, c) => a.until = "closed" /\ a.token = None /\ call[c].current
  BY <1>1, <1>6 DEF Counts, Fits
<1>10. OwnProbe(s, c) <=> a.token = c
  BY <1>6, <1>7 DEF OwnProbe
<1> QED
  BY <1>1, <1>3, <1>6, <1>8, <1>9, <1>10 DEF Known

LEMMA SuccessAnswers ==
  ASSUME Typed, Circuits, NEW c \in Calls, Success(c)
  PROVE  \E b : Answered(c, call[c].provider, state[call[c].provider], b)
<1> DEFINE p == call[c].provider
           a == state[p]
           s == Resolved(c)
<1>1. /\ p \in Providers /\ a \in Counting /\ s \in Counting /\ Known(c)
      /\ s.present = a.present /\ s.failures = a.failures /\ s.until = a.until
      /\ s.token = a.token /\ s.streak = a.streak /\ s.inflight = a.inflight - 1
      /\ OwnProbe(s, c) <=> a.token = c
      /\ a.token = c => call[c].current /\ a.until = "due"
      /\ Counts(s, c) => a.until = "closed" /\ a.token = None /\ call[c].current
  BY PermitFacts DEF Success
<1>2. /\ Succeeded(c, s) /\ failed' = failed
      /\ failed[p] # NoTenant => a.until = "closed" /\ a.streak \subseteq {failed[p]} \ {None}
  BY <1>1 DEF Success, Circuits, Fits
<1> HIDE DEF s
<1> DEFINE b == IF OwnProbe(s, c)
                THEN [s EXCEPT !.token = None, !.failures = 0, !.until = "closed", !.streak = {}]
                ELSE IF Counts(s, c)
                THEN [s EXCEPT !.failures = 0,
                               !.streak = IF call[c].tenant = NoTenant THEN {} ELSE @]
                ELSE s
<1>3. state' = [state EXCEPT ![p] = b] /\ call' = [call EXCEPT ![c] = NoPermit]
  BY <1>2 DEF Succeeded, Kept, Returned
<1>4. 0 \in 0..Threshold
  BY CircuitAssumption
<1>5. CASE a.token = c
  <2>1. b = [s EXCEPT !.token = None, !.failures = 0, !.until = "closed", !.streak = {}]
    BY <1>1, <1>5
  <2>2. /\ b \in Counting /\ b.token = None /\ b.until = "closed" /\ b.streak = {}
        /\ b.present = s.present /\ b.inflight = s.inflight
    BY <1>1, <1>4, <2>1 DEF Counting, Windows
  <2> HIDE DEF b
  <2>3. Answered(c, p, a, b)
    BY <1>1, <1>2, <1>3, <1>5, <2>2 DEF Answered, GivenBack
  <2> QED
    BY <2>3
<1>6. CASE a.token # c /\ Counts(s, c)
  <2>1. /\ b \in Counting /\ b.token = s.token /\ b.until = s.until
        /\ b.streak \subseteq s.streak
        /\ b.present = s.present /\ b.inflight = s.inflight
    BY <1>1, <1>4, <1>6 DEF Counting
  <2> HIDE DEF b
  <2>2. Answered(c, p, a, b)
    BY <1>1, <1>2, <1>3, <1>6, <2>1 DEF Answered, GivenBack
  <2> QED
    BY <2>2
<1>7. CASE a.token # c /\ ~Counts(s, c)
  <2>1. b = s
    BY <1>1, <1>7
  <2> HIDE DEF b
  <2>2. Answered(c, p, a, b)
    BY <1>1, <1>2, <1>3, <1>7, <2>1 DEF Answered, GivenBack, Unmoved
  <2> QED
    BY <2>2
<1> QED
  BY <1>5, <1>6, <1>7

LEMMA AbandonAnswers ==
  ASSUME Typed, Circuits, NEW c \in Calls, Abandon(c)
  PROVE  \E b : Answered(c, call[c].provider, state[call[c].provider], b)
<1> DEFINE p == call[c].provider
           a == state[p]
           s == Resolved(c)
           b == [s EXCEPT !.token = IF @ = c THEN None ELSE @]
<1>1. /\ p \in Providers /\ a \in Counting /\ s \in Counting /\ Known(c)
      /\ s.present = a.present /\ s.failures = a.failures /\ s.until = a.until
      /\ s.token = a.token /\ s.streak = a.streak /\ s.inflight = a.inflight - 1
      /\ a.token = c => call[c].current /\ a.until = "due"
  BY PermitFacts DEF Abandon
<1>2. /\ state' = [state EXCEPT ![p] = b] /\ call' = [call EXCEPT ![c] = NoPermit]
      /\ failed' = failed
      /\ failed[p] # NoTenant => a.until = "closed" /\ a.streak \subseteq {failed[p]} \ {None}
  BY <1>1 DEF Abandon, Abandoned, Kept, Returned, Circuits, Fits
<1> HIDE DEF s
<1>3. /\ b \in Counting /\ b.until = s.until /\ b.streak = s.streak /\ b.failures = s.failures
      /\ b.present = s.present /\ b.inflight = s.inflight
      /\ b.token = IF s.token = c THEN None ELSE s.token
  BY <1>1 DEF Counting
<1> HIDE DEF b
<1>4. Answered(c, p, a, b)
  BY <1>1, <1>2, <1>3 DEF Answered, GivenBack, Unmoved
<1> QED
  BY <1>4

LEMMA BumpedFacts ==
  ASSUME NEW s \in Counting
  PROVE  /\ Bumped(s) \in Counting
         /\ Bumped(s).present = s.present /\ Bumped(s).until = s.until
         /\ Bumped(s).token = s.token /\ Bumped(s).inflight = s.inflight
         /\ Bumped(s).streak = s.streak
<1>1. (IF s.failures < Threshold THEN s.failures + 1 ELSE s.failures) \in 0..Threshold
  BY CircuitAssumption DEF Counting
<1> QED
  BY <1>1 DEF Bumped, Counting

\* While one tenant alone failed, an answer of its adds no other one to the streak.
LEMMA FailedTenant ==
  ASSUME Typed, Circuits, NEW c \in Calls, Failure(c)
  PROVE  LET p == call[c].provider IN
         /\ failed'[p] # NoTenant =>
              /\ failed'[p] = call[c].tenant /\ call[c].tenant \in Tenants
              /\ state[p].until = "closed" /\ state[p].streak \subseteq {call[c].tenant}
         /\ call[c].tenant \in Tenants \cup {NoTenant}
         /\ call[c].tenant # None
<1> DEFINE p == call[c].provider
           t == call[c].tenant
<1>1. p \in Providers /\ t \in Tenants \cup {NoTenant} /\ t # None /\ NoTenant # None
  BY CircuitAssumption DEF Typed, Call, Failure
<1>2. failed'[p] = IF failed[p] \in {None, t} THEN t ELSE NoTenant
  BY <1>1 DEF Failure, Typed
<1>3. failed[p] # NoTenant =>
        state[p].until = "closed" /\ state[p].streak \subseteq {failed[p]} \ {None}
  BY <1>1 DEF Circuits, Fits
<1> HIDE DEF p, t
<1>4. ASSUME failed'[p] # NoTenant
      PROVE  /\ failed'[p] = t /\ t \in Tenants
             /\ state[p].until = "closed" /\ state[p].streak \subseteq {t}
  BY <1>1, <1>2, <1>3, <1>4
<1> QED
  BY <1>1, <1>4 DEF p, t

LEMMA FailureAnswers ==
  ASSUME Typed, Circuits, NEW c \in Calls, Failure(c)
  PROVE  \E b : Answered(c, call[c].provider, state[call[c].provider], b)
<1> DEFINE p == call[c].provider
           t == call[c].tenant
           a == state[p]
           s == Resolved(c)
<1>1. /\ p \in Providers /\ a \in Counting /\ s \in Counting /\ Known(c)
      /\ s.present = a.present /\ s.failures = a.failures /\ s.until = a.until
      /\ s.token = a.token /\ s.streak = a.streak /\ s.inflight = a.inflight - 1
      /\ OwnProbe(s, c) <=> a.token = c
      /\ a.token = c => call[c].current /\ a.until = "due"
      /\ Counts(s, c) => a.until = "closed" /\ a.token = None /\ call[c].current
  BY PermitFacts DEF Failure
<1>2. /\ Failed(c, s) /\ c # None
      /\ t \in Tenants \cup {NoTenant} /\ t # None
      /\ failed'[p] # NoTenant => /\ failed'[p] = t /\ t \in Tenants
                                  /\ a.until = "closed" /\ a.streak \subseteq {t}
  BY <1>1, FailedTenant, CircuitAssumption DEF Failure
<1> DEFINE u == Bumped(s)
<1>3. /\ u \in Counting
      /\ u.present = s.present /\ u.until = s.until /\ u.token = s.token
      /\ u.inflight = s.inflight /\ u.streak = s.streak
  BY <1>1, BumpedFacts
<1> HIDE DEF s
<1>4. ASSUME NEW d \in Counting, d.present = a.present, d.inflight = a.inflight - 1,
             d.token = None, a.token \in {None, c}, failed'[p] = NoTenant,
             Reopened(c, d), call[c].current
      PROVE  \E b : Answered(c, p, a, b)
  <2> DEFINE b == [d EXCEPT !.until = "open"]
  <2>1. /\ state' = [state EXCEPT ![p] = b]
        /\ call' = [o \in Calls |-> IF o = c THEN NoPermit
                                    ELSE IF call[o].provider = p
                                         THEN [call[o] EXCEPT !.current = FALSE] ELSE call[o]]
    BY <1>4 DEF Reopened
  <2>2. /\ b \in Counting /\ b.until = "open" /\ b.token = d.token
        /\ b.present = d.present /\ b.inflight = d.inflight
    BY <1>4 DEF Counting, Windows
  <2> HIDE DEF b
  <2>3. Answered(c, p, a, b)
    BY <1>4, <2>1, <2>2 DEF Answered, Opened
  <2> QED
    BY <2>3
<1>5. ASSUME NEW b \in Counting, b.present = a.present, b.inflight = a.inflight - 1,
             b.token = a.token, b.until = a.until, a.token # c, Kept(c, b),
             failed'[p] # NoTenant => b.streak \subseteq {t},
             call[c].current \/ Unmoved(a, b)
      PROVE  \E d : Answered(c, p, a, d)
  <2>1. Answered(c, p, a, b)
    BY <1>2, <1>5 DEF Answered, GivenBack, Kept, Returned
  <2> QED
    BY <2>1
<1>6. CASE a.token = c
  <2> DEFINE d == [u EXCEPT !.token = None, !.streak = {}]
  <2>1. Reopened(c, d)
    BY <1>1, <1>2, <1>6 DEF Failed, ProbeFailed
  <2> HIDE DEF u
  <2>2. /\ d \in Counting /\ d.present = u.present /\ d.inflight = u.inflight
        /\ d.token = None
    BY <1>3 DEF Counting
  <2> HIDE DEF d
  <2> QED
    BY <1>1, <1>2, <1>3, <1>4, <1>6, <2>1, <2>2
<1>7. CASE a.token # c /\ Counts(s, c)
  <2>1. Counted(c, s)
    BY <1>1, <1>2, <1>7 DEF Failed
  <2>2. CASE t = NoTenant
    <3>1. Reopened(c, u) \/ Kept(c, u)
      BY <2>1, <2>2 DEF Counted
    <3> HIDE DEF u
    <3>2. failed'[p] = NoTenant
      BY <1>2, <2>2, CircuitAssumption
    <3> QED
      BY <1>1, <1>3, <1>4, <1>5, <1>7, <3>1, <3>2
  <2>3. CASE t # NoTenant
    <3> DEFINE streak == s.streak \cup (IF Tripping(scope[Key(c)]) THEN {t} ELSE {})
               e == [s EXCEPT !.streak = {}]
               k == [s EXCEPT !.streak = streak]
    <3>1. \/ Cardinality(streak) >= 2 /\ Reopened(c, e)
          \/ Kept(c, k)
      BY <2>1, <2>3 DEF Counted
    <3>2. streak \subseteq Tenants
      BY <1>1, <1>2, <2>3 DEF Counting
    <3>3. a.streak \subseteq {t} => streak \subseteq {t}
      BY <1>1
    <3>4. streak \subseteq {t} => ~(Cardinality(streak) >= 2)
      <4> SUFFICES ASSUME streak \subseteq {t} PROVE ~(Cardinality(streak) >= 2)
        OBVIOUS
      <4> HIDE DEF streak
      <4>1. IsFiniteSet({t}) /\ Cardinality({t}) = 1
        BY FS_Singleton
      <4>2. IsFiniteSet(streak) /\ Cardinality(streak) <= Cardinality({t})
        BY <4>1, FS_Subset
      <4>3. Cardinality(streak) \in Nat
        BY <4>2, FS_CardinalityType
      <4> QED
        BY <4>1, <4>2, <4>3
    <3> HIDE DEF streak
    <3>5. /\ e \in Counting /\ e.present = s.present /\ e.inflight = s.inflight
          /\ e.token = s.token
      BY <1>1 DEF Counting
    <3>6. /\ k \in Counting /\ k.present = s.present /\ k.inflight = s.inflight
          /\ k.token = s.token /\ k.until = s.until /\ k.streak = streak
      BY <1>1, <3>2 DEF Counting
    <3> HIDE DEF e, k
    <3>7. CASE Cardinality(streak) >= 2 /\ Reopened(c, e)
      <4>1. failed'[p] = NoTenant
        BY <1>2, <3>3, <3>4, <3>7
      <4> QED
        BY <1>1, <1>4, <1>7, <3>5, <3>7, <4>1
    <3>8. CASE Kept(c, k)
      BY <1>1, <1>2, <1>5, <1>7, <3>3, <3>6, <3>8
    <3> QED
      BY <3>1, <3>7, <3>8
  <2> QED
    BY <2>2, <2>3
<1>8. CASE a.token # c /\ ~Counts(s, c)
  <2>1. Kept(c, s)
    BY <1>1, <1>2, <1>8 DEF Failed
  <2> QED
    BY <1>1, <1>2, <1>5, <1>8, <2>1 DEF Unmoved
<1> QED
  BY <1>6, <1>7, <1>8

-----------------------------------------------------------------------------
(* Every step. *)

\* The tenants' own circuits: closed ones are below the threshold.
ScopesFine(sc) == /\ sc \in [Keys -> Scope]
                  /\ \A k \in Keys : sc[k].until = "closed" => sc[k].failures < Threshold

LEMMA NewScopeFine ==
  /\ NewScope \in Scope /\ NewScope.failures < Threshold
  /\ NoScope \in Scope /\ NoScope.failures < Threshold
<1>1. 0 \in 0..Threshold /\ 0 < Threshold
  BY CircuitAssumption
<1>2. NewScope \in Scope /\ NewScope.failures < Threshold
  BY <1>1 DEF NewScope, Scope, Windows
<1> QED
  BY <1>1, <1>2 DEF NoScope, NewScope, Scope

LEMMA FreshScopesFine ==
  ASSUME NEW sc, ScopesFine(sc)
  PROVE  ScopesFine(FreshScopes(sc))
BY NewScopeFine DEF ScopesFine, FreshScopes

LEMMA ScopeTablesFine ==
  ASSUME ScopesFine(scope), NEW k \in Keys, NEW sc \in ScopeTables(k)
  PROVE  ScopesFine(sc)
<1>1. [scope[k] EXCEPT !.old = FALSE] \in Scope
  BY DEF ScopesFine, Scope
<1>2. [scope[k] EXCEPT !.old = FALSE].until = scope[k].until
      /\ [scope[k] EXCEPT !.old = FALSE].failures = scope[k].failures
  BY DEF ScopesFine, Scope
<1>3. CASE sc = [scope EXCEPT ![k].old = FALSE]
  BY <1>1, <1>2, <1>3 DEF ScopesFine
<1>4. CASE sc = [scope EXCEPT ![k] = NewScope]
  BY <1>4, NewScopeFine DEF ScopesFine
<1>5. CASE sc = scope
  BY <1>5
<1>6. ASSUME NEW o \in Keys, sc = [scope EXCEPT ![o] = NoScope, ![k] = NewScope]
      PROVE  ScopesFine(sc)
  BY <1>6, NewScopeFine DEF ScopesFine
<1> QED
  BY <1>3, <1>4, <1>5, <1>6 DEF ScopeTables

LEMMA ScopeSetFine ==
  ASSUME ScopesFine(scope), NEW c \in Calls,
         \/ ScopeSet(c, scope[Key(c)])
         \/ ScopeSet(c, Healed(scope[Key(c)]))
         \/ ScopeSet(c, Hurt(scope[Key(c)]))
  PROVE  ScopesFine(scope')
<1> DEFINE k == Key(c)
           z == scope[k]
<1>1. CASE scope' = scope
  BY <1>1
<1>2. CASE k \in Keys /\ z.present /\ scope' # scope
  <2>1. z \in Scope /\ (z.until = "closed" => z.failures < Threshold)
    BY <1>2 DEF ScopesFine
  <2>2. Healed(z) \in Scope /\ (Healed(z).until = "closed" => Healed(z).failures < Threshold)
    <3>1. 0 \in 0..Threshold /\ 0 < Threshold
      BY CircuitAssumption
    <3> QED
      BY <2>1, <3>1 DEF Healed, Scope
  <2>3. Hurt(z) \in Scope /\ (Hurt(z).until = "closed" => Hurt(z).failures < Threshold)
    <3>1. CASE z.until # "closed"
      BY <2>1, <3>1 DEF Hurt
    <3>2. CASE z.until = "closed"
      <4>1. z.failures + 1 \in 0..Threshold
        BY <2>1, <3>2, CircuitAssumption DEF Scope
      <4>2. CASE Tripping(z)
        BY <2>1, <3>2, <4>1, <4>2 DEF Hurt, Scope, Windows
      <4>3. CASE ~Tripping(z)
        <5>1. z.failures + 1 < Threshold
          BY <1>2, <3>2, <4>1, <4>3, CircuitAssumption DEF Tripping
        <5> QED
          BY <2>1, <3>2, <4>1, <4>3, <5>1 DEF Hurt, Scope
      <4> QED
        BY <4>2, <4>3
    <3> QED
      BY <3>1, <3>2
  <2>4. PICK y \in Scope : /\ scope' = [scope EXCEPT ![k] = [y EXCEPT !.old = FALSE]]
                           /\ y.until = "closed" => y.failures < Threshold
    BY <1>2, <2>1, <2>2, <2>3 DEF ScopeSet
  <2> DEFINE x == [y EXCEPT !.old = FALSE]
  <2>5. x \in Scope /\ (x.until = "closed" => x.failures < Threshold)
    BY <2>4 DEF Scope
  <2> HIDE DEF x
  <2> QED
    BY <1>2, <2>4, <2>5 DEF ScopesFine, x
<1> QED
  BY <1>1, <1>2 DEF ScopeSet

LEMMA TypedScopes == Typed => ScopesFine(scope)
BY DEF Typed, ScopesFine

LEMMA NoPermitTyped == NoPermit \in Call /\ ~NoPermit.held
BY DEF NoPermit, Call

LEMMA ResolveStep ==
  ASSUME Typed, Circuits, NEW c \in Calls, Resolve(c)
  PROVE  Typed' /\ Circuits'
<1> DEFINE p == call[c].provider
           a == state[p]
<1>1. p \in Providers /\ c \in Mine(p, call) /\ a \in Counting
      /\ Known(c) /\ Fits(p, a, failed[p], call)
  BY PermitFacts DEF Resolve, Success, Failure, Abandon, Circuits
<1>2. PICK b : Answered(c, p, a, b)
  BY SuccessAnswers, FailureAnswers, AbandonAnswers DEF Resolve
<1>3. \A q \in Providers : q # p => failed'[q] = failed[q]
  BY DEF Resolve, Success, Failure, Abandon, Typed
<1>4. failed' \in [Providers -> Tenants \cup {None, NoTenant}]
  BY DEF Resolve, Success, Failure, Abandon, Typed, Call
<1>5. ScopesFine(scope')
  <2>1. Succeeded(c, Resolved(c)) \/ Failed(c, Resolved(c)) \/ Abandoned(c, Resolved(c))
    BY <1>1 DEF Resolve, Success, Failure, Abandon
  <2> QED
    BY <2>1, TypedScopes, ScopeSetFine DEF Succeeded, Failed, Abandoned
<1>6. /\ call' \in [Calls -> Call]
      /\ \A o \in Calls : call'[o].held => call'[o].provider \in Providers
      /\ \A q \in Providers : q # p => SameFor(q, call, call')
  <2>1. CASE call' = [call EXCEPT ![c] = NoPermit]
    <3>1. \A o \in Calls : call'[o] = IF o = c THEN NoPermit ELSE call[o]
      BY <2>1 DEF Typed
    <3>2. call' \in [Calls -> Call]
      BY <2>1, NoPermitTyped DEF Typed
    <3> QED
      BY <3>1, <3>2, NoPermitTyped DEF Typed, SameFor
  <2>2. CASE call' = [o \in Calls |-> IF o = c THEN NoPermit
                              ELSE IF call[o].provider = p
                                   THEN [call[o] EXCEPT !.current = FALSE] ELSE call[o]]
    <3>1. \A o \in Calls : LET d == [call[o] EXCEPT !.current = FALSE] IN
            d \in Call /\ d.held = call[o].held /\ d.provider = call[o].provider
      BY DEF Typed, Call
    <3>2. call' \in [Calls -> Call]
      BY <2>2, <3>1, NoPermitTyped DEF Typed
    <3>3. \A o \in Calls : /\ call'[o].held => call[o].held
                           /\ call'[o].held => call'[o].provider = call[o].provider
                           /\ call'[o] # call[o] => call[o].provider = p
      BY <2>2, <3>1, NoPermitTyped
    <3>4. \A o \in Calls : call'[o].held => call'[o].provider \in Providers
      BY <3>3 DEF Typed
    <3> QED
      BY <3>2, <3>3, <3>4 DEF SameFor
  <2> QED
    BY <1>2, <2>1, <2>2 DEF Answered, GivenBack, Opened
<1>7. state' = [state EXCEPT ![p] = b] /\ b \in Counting
  BY <1>2 DEF Answered
<1>8. Typed'
  BY <1>4, <1>5, <1>6, <1>7 DEF Typed, ScopesFine
<1>9. Fits(p, b, failed'[p], call')
  <2>1. call \in [Calls -> Call]
    BY DEF Typed
  <2>2. b \in Counting /\ b.present = a.present /\ b.inflight = a.inflight - 1
    BY <1>2 DEF Answered
  <2>3. CASE GivenBack(c, p, a, b)
    <3> DEFINE g == failed'[p]
               new == call'
    <3>1. /\ new = [call EXCEPT ![c] = NoPermit]
          /\ \/ a.token = c /\ b.token = None /\ b.until \in {"closed", a.until}
             \/ a.token # c /\ b.token = a.token /\ b.until = a.until
          /\ g # NoTenant => b.until = "closed" /\ b.streak \subseteq {g} \ {None}
      BY <2>3 DEF GivenBack
    <3> HIDE DEF a, g, new, p
    <3> QED
      BY <1>1, <2>1, <2>2, <3>1, ReturnFits DEF g, new
  <2>4. CASE Opened(c, p, a, b)
    BY <1>1, <2>1, <2>2, <2>4, ReopenFits DEF Opened
  <2> QED
    BY <1>2, <2>3, <2>4 DEF Answered
<1>10. ASSUME NEW q \in Providers, q # p
       PROVE  Fits(q, state[q], failed[q], call')
  BY <1>6, <1>10, OthersFit DEF Circuits
<1>11. Circuits'
  BY <1>1, <1>3, <1>7, <1>9, <1>10 DEF Circuits, Typed
<1> QED
  BY <1>8, <1>11

\* The shared part of before_request.
LEMMA SharedStep ==
  ASSUME Typed, Circuits, NEW c \in Calls, ~call[c].held, NEW p \in Providers,
         NEW t \in Tenants \cup {NoTenant}, NEW r \in BOOLEAN,
         BeforeShared(c, p, t, r), failed' = failed
  PROVE  /\ state' \in [Providers -> Counting]
         /\ call' \in [Calls -> Call]
         /\ \A o \in Calls : call'[o].held => call'[o].provider \in Providers
         /\ Circuits'
<1>1. PICK table \in StateTables(FreshStates(state), p) :
        LET st == [table EXCEPT ![p].streak = IF r THEN @ \ {t} ELSE @]
        IN IF st[p].present /\ ~Rejects(st[p])
           THEN Admitted(c, p, t, st)
           ELSE state' = st /\ UNCHANGED call
  BY DEF BeforeShared
<1> DEFINE st == [table EXCEPT ![p].streak = IF r THEN @ \ {t} ELSE @]
<1>2. /\ table \in [Providers -> Counting]
      /\ \A q \in Providers : Fits(q, table[q], failed[q], call)
  <2>1. /\ FreshStates(state) \in [Providers -> Counting]
        /\ \A q \in Providers : Fits(q, FreshStates(state)[q], failed[q], call)
    BY FreshFits DEF Typed, Circuits
  <2> QED
    BY <2>1, TableFits
<1>3. st \in [Providers -> Counting] /\ \A q \in Providers : Alike(table[q], st[q])
  <2> DEFINE x == [table[p] EXCEPT !.streak = IF r THEN @ \ {t} ELSE @]
  <2>1. x \in Counting /\ Alike(table[p], x)
    BY <1>2 DEF Alike, Counting
  <2>2. \A q \in Providers : Alike(table[q], table[q])
    BY DEF Alike
  <2>3. st = [table EXCEPT ![p] = x]
    BY <1>2
  <2> HIDE DEF x, st
  <2> QED
    BY <1>2, <2>1, <2>2, <2>3
<1>4. \A q \in Providers : Fits(q, st[q], failed[q], call)
  BY <1>2, <1>3, AlikeFits
<1> HIDE DEF st
<1>5. CASE state' = st /\ call' = call
  BY <1>3, <1>4, <1>5 DEF Typed, Circuits
<1>6. CASE st[p].present /\ ~Rejects(st[p]) /\ Admitted(c, p, t, st)
  <2>1. Permit(p, t, st[p]) \in Call /\ Permit(p, t, st[p]).provider = p
    BY DEF Permit, Call
  <2>2. /\ call' \in [Calls -> Call]
        /\ \A o \in Calls : o # c => call'[o] = call[o]
        /\ call'[c].provider = p
    BY <1>6, <2>1 DEF Admitted, Typed
  <2>3. \A o \in Calls : call'[o].held => call'[o].provider \in Providers
    BY <2>2 DEF Typed
  <2>4. state' \in [Providers -> Counting] /\ \A q \in Providers : q # p => state'[q] = st[q]
    <3> DEFINE x == [st[p] EXCEPT !.inflight = @ + 1,
                                  !.token = IF st[p].until = "due" THEN c ELSE @]
    <3>1. x \in Counting
      <4>1. /\ st[p] \in Counting
            /\ st[p].inflight + 1 \in Nat
            /\ (IF st[p].until = "due" THEN c ELSE st[p].token) \in Calls \cup {None}
        BY <1>3 DEF Counting
      <4> QED
        BY <4>1, ZenonT(40) DEF Counting
    <3>2. state' = [st EXCEPT ![p] = x]
      BY <1>3, <1>6 DEF Admitted
    <3> HIDE DEF x
    <3> QED
      BY <1>3, <3>1, <3>2
  <2>5. Fits(p, state'[p], failed[p], call')
    BY <1>3, <1>4, <1>6, AdmittedFits DEF Typed
  <2>6. ASSUME NEW q \in Providers, q # p
        PROVE  Fits(q, state'[q], failed[q], call')
    <3>1. SameFor(q, call, call')
      BY <2>2, <2>6 DEF SameFor
    <3> QED
      BY <1>4, <2>4, <2>6, <3>1, OthersFit
  <2> QED
    BY <2>2, <2>3, <2>4, <2>5, <2>6 DEF Circuits
<1> QED
  BY <1>1, <1>5, <1>6 DEF st

LEMMA BeforeStep ==
  ASSUME Typed, Circuits, NEW c \in Calls, NEW p \in Providers,
         BeforeUnscoped(c, p) \/ \E t \in Tenants : BeforeScoped(c, p, t)
  PROVE  Typed' /\ Circuits'
<1>1. CASE BeforeUnscoped(c, p)
  <2>1. /\ state' \in [Providers -> Counting]
        /\ call' \in [Calls -> Call]
        /\ \A o \in Calls : call'[o].held => call'[o].provider \in Providers
        /\ Circuits'
    BY <1>1, SharedStep DEF BeforeUnscoped
  <2>2. ScopesFine(scope')
    BY <1>1, TypedScopes, FreshScopesFine DEF BeforeUnscoped
  <2> QED
    BY <1>1, <2>1, <2>2 DEF Typed, ScopesFine, BeforeUnscoped
<1>2. ASSUME NEW t \in Tenants, BeforeScoped(c, p, t)
      PROVE  Typed' /\ Circuits'
  <2>1. PICK scopes \in ScopeTables(<<p, t>>) :
          IF scopes[<<p, t>>].until = "open"
          THEN scope' = scopes /\ UNCHANGED <<state, call>>
          ELSE /\ scope' = FreshScopes(
                    IF scopes[<<p, t>>].until = "due"
                    THEN [scopes EXCEPT ![<<p, t>>] = NewScope] ELSE scopes)
               /\ BeforeShared(c, p, t, scopes[<<p, t>>].until = "due")
    BY <1>2 DEF BeforeScoped
  <2>2. <<p, t>> \in Keys /\ ScopesFine(scopes)
    BY TypedScopes, ScopeTablesFine DEF Keys
  <2>3. ScopesFine([scopes EXCEPT ![<<p, t>>] = NewScope])
    BY <2>2, NewScopeFine DEF ScopesFine
  <2>4. ScopesFine(scope')
    BY <2>1, <2>2, <2>3, FreshScopesFine
  <2>5. ~call[c].held /\ failed' = failed
    BY <1>2 DEF BeforeScoped
  <2>6. CASE UNCHANGED <<state, call>>
    BY <2>4, <2>5, <2>6 DEF Typed, Circuits, ScopesFine
  <2>7. CASE BeforeShared(c, p, t, scopes[<<p, t>>].until = "due")
    <3>1. (scopes[<<p, t>>].until = "due") \in BOOLEAN
      OBVIOUS
    <3>2. /\ state' \in [Providers -> Counting]
          /\ call' \in [Calls -> Call]
          /\ \A o \in Calls : call'[o].held => call'[o].provider \in Providers
          /\ Circuits'
      BY <2>5, <2>7, <3>1, SharedStep
    <3> QED
      BY <2>4, <2>5, <3>2 DEF Typed, ScopesFine
  <2> QED
    BY <2>1, <2>6, <2>7
<1> QED
  BY <1>1, <1>2

LEMMA TimeStep ==
  ASSUME Typed, Circuits,
         \/ \E p \in Providers : WindowEnds(p) \/ StateAges(p)
         \/ \E k \in Keys : ScopeWindowEnds(k) \/ ScopeAges(k)
         \/ Cleanup
         \/ UNCHANGED vars
  PROVE  Typed' /\ Circuits'
<1>1. ASSUME NEW p \in Providers, WindowEnds(p)
      PROVE  Typed' /\ Circuits'
  <2> DEFINE b == [state[p] EXCEPT !.until = "due"]
  <2>1. /\ b \in Counting /\ b.until = "due" /\ b.present = state[p].present
        /\ b.inflight = state[p].inflight /\ b.token = state[p].token
    BY DEF Typed, Counting, Windows
  <2>2. state' = [state EXCEPT ![p] = b] /\ UNCHANGED <<scope, call, failed>>
    BY <1>1 DEF WindowEnds
  <2>3. state[p].until = "open" /\ Fits(p, state[p], failed[p], call)
    BY <1>1 DEF WindowEnds, Circuits
  <2> HIDE DEF b
  <2>4. Fits(p, b, failed[p], call)
    BY <2>1, <2>3 DEF Fits
  <2> QED
    BY <2>1, <2>2, <2>4 DEF Typed, Circuits
<1>2. ASSUME NEW p \in Providers, StateAges(p)
      PROVE  Typed' /\ Circuits'
  <2> DEFINE b == [state[p] EXCEPT !.old = TRUE]
  <2>0. state[p] \in Counting
    BY DEF Typed
  <2>1. b \in Counting /\ Alike(state[p], b)
    BY <2>0 DEF Counting, Alike
  <2>2. state' = [state EXCEPT ![p] = b] /\ UNCHANGED <<scope, call, failed>>
    BY <1>2 DEF StateAges
  <2> HIDE DEF b
  <2>3. Fits(p, b, failed[p], call)
    BY <2>1, AlikeFits DEF Circuits
  <2> QED
    BY <2>1, <2>2, <2>3 DEF Typed, Circuits
<1>3. ASSUME NEW k \in Keys, ScopeWindowEnds(k) \/ ScopeAges(k)
      PROVE  Typed' /\ Circuits'
  <2> DEFINE y == [scope[k] EXCEPT !.until = "due"]
             z == [scope[k] EXCEPT !.old = TRUE]
  <2>1. /\ y \in Scope /\ y.until = "due"
        /\ z \in Scope /\ z.until = scope[k].until /\ z.failures = scope[k].failures
    BY DEF Typed, Scope, Windows
  <2>2. /\ scope' = [scope EXCEPT ![k] = y] \/ scope' = [scope EXCEPT ![k] = z]
        /\ UNCHANGED <<state, call, failed>>
    BY <1>3 DEF ScopeWindowEnds, ScopeAges
  <2> HIDE DEF y, z
  <2> QED
    BY <2>1, <2>2 DEF Typed, Circuits
<1>4. CASE Cleanup
  <2>1. /\ state' \in [Providers -> Counting]
        /\ \A q \in Providers : Fits(q, state'[q], failed[q], call)
    BY <1>4, FreshFits DEF Typed, Circuits, Cleanup
  <2>2. ScopesFine(scope')
    BY <1>4, TypedScopes, FreshScopesFine DEF Cleanup
  <2> QED
    BY <1>4, <2>1, <2>2 DEF Cleanup, Typed, Circuits, ScopesFine
<1>5. CASE UNCHANGED vars
  BY <1>5 DEF vars, Typed, Circuits
<1> QED
  BY <1>1, <1>2, <1>3, <1>4, <1>5

LEMMA CircuitInvariant == Spec => [](Typed /\ Circuits)
<1>1. Init => Typed /\ Circuits
  <2> SUFFICES ASSUME Init PROVE Typed /\ Circuits
    OBVIOUS
  <2>1. Typed
    BY NewTyped, NewScopeFine, NoPermitTyped DEF Init, Typed
  <2>2. ASSUME NEW p \in Providers
        PROVE  Fits(p, state[p], failed[p], call)
    <3>1. Mine(p, call) = {}
      BY NoPermitTyped DEF Init, Mine
    <3>2. Cardinality({}) = 0
      BY FS_EmptySet
    <3>3. /\ NoState.inflight = 0 /\ NoState.token = None /\ NoState.until = "closed"
          /\ NoState.streak = {}
      BY DEF NoState, NewState
    <3>4. state[p] = NoState
      BY DEF Init
    <3> QED
      BY <3>1, <3>2, <3>3, <3>4 DEF Fits
  <2> QED
    BY <2>1, <2>2 DEF Circuits
<1>2. Typed /\ Circuits /\ [Next]_vars => (Typed /\ Circuits)'
  <2> SUFFICES ASSUME Typed, Circuits, [Next]_vars PROVE (Typed /\ Circuits)'
    OBVIOUS
  <2> QED
    BY BeforeStep, ResolveStep, TimeStep DEF Next
<1> QED
  BY <1>1, <1>2, PTL DEF Spec

\* The breaker's states, tenant circuits and permits stay well typed; no count of
\* permits exceeds the requests in flight.
THEOREM CircuitTypeCorrect == Spec => []TypeOK
<1>1. Typed /\ Circuits => TypeOK
  <2> SUFFICES ASSUME Typed, Circuits, NEW p \in Providers PROVE state[p] \in State
    BY DEF Typed, TypeOK
  <2>1. /\ state[p].inflight = Cardinality(Mine(p, call))
        /\ Cardinality(Mine(p, call)) <= Cardinality(Calls)
        /\ Cardinality(Calls) \in Nat
    BY MineFinite, FS_CardinalityType, CircuitAssumption DEF Circuits, Fits
  <2> QED
    BY <2>1 DEF Typed, Counting, State
<1> QED
  BY <1>1, CircuitInvariant, PTL

\* The permits of a provider are counted exactly, and its state outlives them: no
\* eviction or expiry drops an outcome, whatever the sizes of the tables.
THEOREM PermitsCorrect == Spec => []PermitsCounted
<1>1. Circuits => PermitsCounted
  BY DEF Circuits, Fits, Mine, PermitsCounted
<1> QED
  BY <1>1, CircuitInvariant, PTL

\* While a circuit is not closed, the one current permit is its probe.
THEOREM ProbeCorrect == Spec => []OneProbe
<1>1. Circuits => OneProbe
  <2> SUFFICES ASSUME Circuits, NEW p \in Providers
               PROVE  /\ {c \in Mine(p, call) : call[c].half} = {state[p].token} \ {None}
                      /\ state[p].until # "closed" =>
                           {c \in Mine(p, call) : call[c].current} = {state[p].token} \ {None}
    BY DEF OneProbe, Mine
  <2>1. /\ \A c \in Mine(p, call) : c # None /\ (call[c].half <=> c = state[p].token)
        /\ state[p].token # None => state[p].token \in Mine(p, call)
        /\ state[p].until # "closed" =>
             \A c \in Mine(p, call) : call[c].current <=> c = state[p].token
    <3>1. None \notin Calls
      BY CircuitAssumption
    <3>2. Fits(p, state[p], failed[p], call)
      BY DEF Circuits
    <3> QED
      BY <3>1, <3>2 DEF Fits, Mine
  <2> QED
    BY <2>1
<1> QED
  BY <1>1, CircuitInvariant, PTL

\* However many of its requests fail, a single tenant opens no shared circuit.
THEOREM TenantCorrect == Spec => []OneTenantNeverOpens
<1>1. Circuits => OneTenantNeverOpens
  BY DEF Circuits, Fits, OneTenantNeverOpens
<1> QED
  BY <1>1, CircuitInvariant, PTL

\* An answer to a request of an earlier generation changes neither window,
\* counter, token nor streak.
THEOREM StaleCorrect == Spec => StaleIsIgnored
<1>1. Typed /\ Circuits /\ [Next]_vars =>
        [\A c \in Calls :
           LET before == state[call[c].provider]
               after  == state'[call[c].provider]
           IN call[c].held /\ ~call[c].current /\ ~call'[c].held =>
                /\ after.until = before.until
                /\ after.failures = before.failures
                /\ after.token = before.token
                /\ after.streak = before.streak]_vars
  <2> SUFFICES ASSUME Typed, Circuits, [Next]_vars, NEW c \in Calls,
                      call[c].held, ~call[c].current, ~call'[c].held
               PROVE  Unmoved(state[call[c].provider], state'[call[c].provider])
    BY DEF Unmoved
  <2>1. ASSUME NEW o \in Calls, Resolve(o)
        PROVE  Unmoved(state[call[c].provider], state'[call[c].provider])
    <3>1. PICK b : Answered(o, call[o].provider, state[call[o].provider], b)
      BY <2>1, SuccessAnswers, FailureAnswers, AbandonAnswers DEF Resolve
    <3>2. o = c
      BY <3>1, NoPermitTyped DEF Answered, GivenBack, Opened, Typed, Call
    <3>3. call[c].provider \in Providers
      BY DEF Typed
    <3> QED
      BY <3>1, <3>2, <3>3 DEF Answered, Typed
  <2>2. ASSUME NEW o \in Calls, NEW p \in Providers,
               BeforeUnscoped(o, p) \/ \E t \in Tenants : BeforeScoped(o, p, t)
        PROVE  FALSE
    <3>1. ~call[o].held /\ (call' = call \/ \E x \in Call : call' = [call EXCEPT ![o] = x])
      <4>1. \A t \in Tenants \cup {NoTenant} : \A z : Permit(p, t, z) \in Call
        BY DEF Permit, Call
      <4> QED
        BY <2>2, <4>1 DEF BeforeUnscoped, BeforeScoped, BeforeShared, Admitted
    <3>2. o # c
      BY <3>1
    <3> QED
      BY <3>1, <3>2 DEF Typed
  <2>3. CASE \/ \E p \in Providers : WindowEnds(p) \/ StateAges(p)
             \/ \E k \in Keys : ScopeWindowEnds(k) \/ ScopeAges(k)
             \/ Cleanup
             \/ UNCHANGED vars
    BY <2>3 DEF WindowEnds, StateAges, ScopeWindowEnds, ScopeAges, Cleanup, vars
  <2> QED
    BY <2>1, <2>2, <2>3 DEF Next
<1> QED
  BY <1>1, CircuitInvariant, PTL DEF Spec, StaleIsIgnored
=============================================================================
