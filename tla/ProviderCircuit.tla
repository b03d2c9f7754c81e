---------------------------- MODULE ProviderCircuit ----------------------------
(***************************************************************************)
(* The circuit breaker in front of the model providers: the class          *)
(* ProviderCircuitBreaker of brevitas/provider_reliability.py.  A request  *)
(* takes a permit (before_request) and gives it back once, as a success, a *)
(* failure or abandoned.  Enough failures open the provider's circuit; when*)
(* its window is over one request probes the provider.  A tenant (a scope) *)
(* has a circuit of its own, and only two tripped tenants open the shared  *)
(* one.  Both tables are bounded: states are evicted and expire.           *)
(***************************************************************************)
EXTENDS Naturals, FiniteSets

CONSTANTS
  Providers,   \* provider names
  Tenants,     \* circuit scopes
  NoTenant,    \* the scope of an unscoped caller (worker, playground, SDK)
  Calls,       \* requests in flight at one time: finitely many
  Streams,     \* those whose answer is streamed
  None,        \* no half-open token, and no provider of a call without a permit
  Threshold,   \* circuit_failure_threshold
  MaxStates,   \* max_provider_states
  MaxScopes    \* max_scope_states

ASSUME CircuitAssumption ==
  /\ {Threshold, MaxStates, MaxScopes} \subseteq Nat \ {0}
  /\ IsFiniteSet(Calls) /\ Streams \subseteq Calls
  /\ NoTenant \notin Tenants
  /\ None \notin Calls \cup Providers \cup Tenants \cup {NoTenant}

VARIABLES
  state,    \* state[p]: the shared circuit of p (_states)
  scope,    \* scope[<<p, t>>]: the circuit of tenant t for p (_scopes)
  call,     \* call[c]: the permit request c holds
  failed    \* history: None, the one tenant that ever failed while calling p, or
            \* NoTenant when an unscoped caller or two tenants did

vars == <<state, scope, call, failed>>

\* opened_until: 0.0, in the future, or in the past.
Windows == {"closed", "open", "due"}

State == [present : BOOLEAN, failures : 0..Threshold, until : Windows,
          token : Calls \cup {None}, inflight : 0..Cardinality(Calls),
          old : BOOLEAN,    \* last_seen is circuit_state_ttl_s ago
          streak : SUBSET Tenants]

Scope == [present : BOOLEAN, failures : 0..Threshold, until : Windows, old : BOOLEAN]

\* A permit; current: its generation is the state's.
Call == [held : BOOLEAN, provider : Providers \cup {None}, tenant : Tenants \cup {NoTenant},
         half : BOOLEAN, current : BOOLEAN]

NoPermit == [held |-> FALSE, provider |-> None, tenant |-> NoTenant,
             half |-> FALSE, current |-> FALSE]

Keys == Providers \X Tenants

TypeOK == /\ state \in [Providers -> State]
          /\ scope \in [Keys -> Scope]
          /\ call \in [Calls -> Call]
          /\ failed \in [Providers -> Tenants \cup {None, NoTenant}]

NewState == [present |-> TRUE, failures |-> 0, until |-> "closed", token |-> None,
             inflight |-> 0, old |-> FALSE, streak |-> {}]
NewScope == [present |-> TRUE, failures |-> 0, until |-> "closed", old |-> FALSE]
NoState  == [NewState EXCEPT !.present = FALSE]
NoScope  == [NewScope EXCEPT !.present = FALSE]

Init == /\ state = [p \in Providers |-> NoState]
        /\ scope = [k \in Keys |-> NoScope]
        /\ call = [c \in Calls |-> NoPermit]
        /\ failed = [p \in Providers |-> None]

-----------------------------------------------------------------------------
(* The bounded tables. *)

\* Defect: a request in flight does not protect its state.
ProtectedIfProbed(s) == s.token # None \/ s.until = "open"

Protected(s) == s.inflight > 0 \/ s.token # None \/ s.until = "open"

\* _cleanup_locked.
FreshStates(states) ==
  [p \in Providers |->
     IF states[p].present /\ states[p].old /\ ~Protected(states[p])
     THEN NoState ELSE states[p]]
FreshScopes(scopes) ==
  [k \in Keys |->
     IF scopes[k].present /\ scopes[k].old /\ scopes[k].until # "open"
     THEN NoScope ELSE scopes[k]]

\* _scope_state_locked: the tables it may leave; the oldest entry that is not
\* open makes room, and without one the tenant gets no circuit.
ScopeTables(k) ==
  LET stored    == {o \in Keys : scope[o].present}
      evictable == {o \in stored : scope[o].until # "open"}
  IN IF scope[k].present THEN {[scope EXCEPT ![k].old = FALSE]}
     ELSE IF Cardinality(stored) < MaxScopes THEN {[scope EXCEPT ![k] = NewScope]}
     ELSE IF evictable = {} THEN {scope}
     ELSE {[scope EXCEPT ![o] = NoScope, ![k] = NewScope] : o \in evictable}

\* _state_locked, after the cleanup; without room the request is refused.
StateTables(states, p) ==
  LET stored    == {o \in Providers : states[o].present}
      evictable == {o \in stored : ~Protected(states[o])}
  IN IF states[p].present THEN {[states EXCEPT ![p].old = FALSE]}
     ELSE IF Cardinality(stored) < MaxStates THEN {[states EXCEPT ![p] = NewState]}
     ELSE IF evictable = {} THEN {states}
     ELSE {[states EXCEPT ![o] = NoState, ![p] = NewState] : o \in evictable}

-----------------------------------------------------------------------------
(* before_request. *)

Rejects(s) == s.until = "open" \/ (s.until = "due" /\ s.token # None)

Permit(p, t, s) == [held |-> TRUE, provider |-> p, tenant |-> t,
                    half |-> s.until = "due", current |-> TRUE]

\* Defect: the probe leaves no token.
AdmittedUntold(c, p, t, states) ==
  /\ state' = [states EXCEPT ![p].inflight = @ + 1]
  /\ call' = [call EXCEPT ![c] = Permit(p, t, states[p])]

\* The first request after the window is the half-open probe.
Admitted(c, p, t, states) ==
  /\ state' = [states EXCEPT ![p].inflight = @ + 1,
                             ![p].token = IF states[p].until = "due" THEN c ELSE @]
  /\ call' = [call EXCEPT ![c] = Permit(p, t, states[p])]

\* The shared circuit, once the tenant's own lets the request pass. A tenant whose
\* own window is over is no longer evidence against the provider.
BeforeShared(c, p, t, reopened) ==
  \E states \in
      {[table EXCEPT ![p].streak = IF reopened THEN @ \ {t} ELSE @] :
         table \in StateTables(FreshStates(state), p)} :
    IF states[p].present /\ ~Rejects(states[p])
    THEN Admitted(c, p, t, states)
    ELSE state' = states /\ UNCHANGED call   \* ProviderCircuitOpen

BeforeUnscoped(c, p) ==
  /\ ~call[c].held
  /\ scope' = FreshScopes(scope)
  /\ BeforeShared(c, p, NoTenant, FALSE)
  /\ UNCHANGED failed

BeforeScoped(c, p, t) ==
  /\ ~call[c].held
  /\ \E scopes \in ScopeTables(<<p, t>>) :
       LET reopened == scopes[<<p, t>>].until = "due"
       IN IF scopes[<<p, t>>].until = "open"
          THEN scope' = scopes /\ UNCHANGED <<state, call>>
          ELSE /\ scope' = FreshScopes(
                    IF reopened THEN [scopes EXCEPT ![<<p, t>>] = NewScope] ELSE scopes)
               /\ BeforeShared(c, p, t, reopened)
  /\ UNCHANGED failed

-----------------------------------------------------------------------------
(* record_success, record_failure and abandon. *)

\* The permit is resolved: the state it was counted in, and its tenant's circuit.
Returned(c) == call' = [call EXCEPT ![c] = NoPermit]

\* _take_permit_locked without a state: the outcome is dropped.
Lost(c) == Returned(c) /\ UNCHANGED <<state, scope>>

Seen(s, c) == [s EXCEPT !.inflight = IF @ > 0 THEN @ - 1 ELSE 0, !.old = FALSE]
OwnProbe(s, c) == call[c].half /\ s.token = c
Counts(s, c) == call[c].current /\ s.until = "closed"

\* _resolve_scope_locked: the tenant's circuit of the permit, if it is still kept.
Key(c) == <<call[c].provider, call[c].tenant>>
ScopeSet(c, s) ==
  scope' = IF Key(c) \in Keys /\ scope[Key(c)].present
           THEN [scope EXCEPT ![Key(c)] = [s EXCEPT !.old = FALSE]] ELSE scope

Kept(c, s) == state' = [state EXCEPT ![call[c].provider] = s] /\ Returned(c)

Healed(s) == IF s.until = "closed" THEN [s EXCEPT !.failures = 0] ELSE s

\* Defect: one failure too late.
TrippingLate(s) == s.present /\ s.until = "closed" /\ s.failures >= Threshold

Tripping(s) == s.present /\ s.until = "closed" /\ s.failures + 1 >= Threshold
Hurt(s) == IF s.until # "closed" THEN s
           ELSE [s EXCEPT !.failures = @ + 1,
                          !.until = IF Tripping(s) THEN "open" ELSE @]

Succeeded(c, s) ==
  /\ ScopeSet(c, Healed(scope[Key(c)]))
  /\ Kept(c, IF OwnProbe(s, c)
             THEN [s EXCEPT !.token = None, !.failures = 0, !.until = "closed", !.streak = {}]
             ELSE IF Counts(s, c)
             THEN [s EXCEPT !.failures = 0,
                            !.streak = IF call[c].tenant = NoTenant THEN {} ELSE @]
             ELSE s)

\* Opening starts a new generation: the permits handed out before are stale.
Reopened(c, s) ==
  /\ state' = [state EXCEPT ![call[c].provider] = [s EXCEPT !.until = "open"]]
  /\ call' = [o \in Calls |->
       IF o = c THEN NoPermit
       ELSE IF call[o].provider = call[c].provider THEN [call[o] EXCEPT !.current = FALSE]
       ELSE call[o]]

\* One more failure; failures are counted up to Threshold.
Bumped(s) == [s EXCEPT !.failures = IF @ < Threshold THEN @ + 1 ELSE @]

\* Defect: the failures of the tenants are added up.
CountedTogether(c, s) ==
  IF Bumped(s).failures >= Threshold THEN Reopened(c, Bumped(s)) ELSE Kept(c, Bumped(s))

\* A failure of the closed circuit: two tripped tenants open it, an unscoped
\* caller counts against it directly.
Counted(c, s) ==
  IF call[c].tenant = NoTenant
  THEN IF Bumped(s).failures >= Threshold THEN Reopened(c, Bumped(s)) ELSE Kept(c, Bumped(s))
  ELSE LET streak == s.streak \cup
                       (IF Tripping(scope[Key(c)]) THEN {call[c].tenant} ELSE {})
       IN IF Cardinality(streak) >= 2
          THEN Reopened(c, [s EXCEPT !.streak = {}])
          ELSE Kept(c, [s EXCEPT !.streak = streak])

\* The half-open probe failed.
ProbeFailed(c, s) == Reopened(c, [Bumped(s) EXCEPT !.token = None, !.streak = {}])

\* Defect: the generation is not compared.
FailedUnfenced(c, s) ==
  /\ ScopeSet(c, Hurt(scope[Key(c)]))
  /\ IF OwnProbe(s, c) THEN ProbeFailed(c, s)
     ELSE IF s.until = "closed" THEN Counted(c, s)
     ELSE Kept(c, s)

Failed(c, s) ==
  /\ ScopeSet(c, Hurt(scope[Key(c)]))
  /\ IF OwnProbe(s, c) THEN ProbeFailed(c, s)
     ELSE IF Counts(s, c) THEN Counted(c, s)
     ELSE Kept(c, s)

\* Defect: a cancelled probe keeps its token.
AbandonedAsProbe(c, s) == ScopeSet(c, scope[Key(c)]) /\ Kept(c, s)

Abandoned(c, s) ==
  /\ ScopeSet(c, scope[Key(c)])
  /\ Kept(c, [s EXCEPT !.token = IF @ = c THEN None ELSE @])

Resolved(c) == Seen(state[call[c].provider], c)
Known(c) == state[call[c].provider].present

Success(c) ==
  /\ call[c].held
  /\ IF Known(c) THEN Succeeded(c, Resolved(c)) ELSE Lost(c)
  /\ UNCHANGED failed

Failure(c) ==
  /\ call[c].held
  /\ IF Known(c) THEN Failed(c, Resolved(c)) ELSE Lost(c)
  /\ failed' = [failed EXCEPT ![call[c].provider] =
                               IF @ \in {None, call[c].tenant} THEN call[c].tenant
                               ELSE NoTenant]

Abandon(c) ==
  /\ call[c].held
  /\ IF Known(c) THEN Abandoned(c, Resolved(c)) ELSE Lost(c)
  /\ UNCHANGED failed

-----------------------------------------------------------------------------
(* Time, and the metrics that also clean up (state_count, scope_state_count). An   *)
(* entry ages only when it could expire: until then its age decides nothing.      *)

WindowEnds(p) ==
  /\ state[p].until = "open"
  /\ state' = [state EXCEPT ![p].until = "due"]
  /\ UNCHANGED <<scope, call, failed>>

ScopeWindowEnds(k) ==
  /\ scope[k].until = "open"
  /\ scope' = [scope EXCEPT ![k].until = "due"]
  /\ UNCHANGED <<state, call, failed>>

StateAges(p) ==
  /\ state[p].present /\ ~state[p].old /\ ~Protected(state[p])
  /\ state' = [state EXCEPT ![p].old = TRUE]
  /\ UNCHANGED <<scope, call, failed>>

ScopeAges(k) ==
  /\ scope[k].present /\ ~scope[k].old /\ scope[k].until # "open"
  /\ scope' = [scope EXCEPT ![k].old = TRUE]
  /\ UNCHANGED <<state, call, failed>>

Cleanup ==
  /\ state' = FreshStates(state)
  /\ scope' = FreshScopes(scope)
  /\ UNCHANGED <<call, failed>>

Resolve(c) == Success(c) \/ Failure(c) \/ Abandon(c)

Next == \/ \E c \in Calls : \/ \E p \in Providers :
                                 \/ BeforeUnscoped(c, p)
                                 \/ \E t \in Tenants : BeforeScoped(c, p, t)
                            \/ Resolve(c)
        \/ \E p \in Providers : WindowEnds(p) \/ StateAges(p)
        \/ \E k \in Keys : ScopeWindowEnds(k) \/ ScopeAges(k)
        \/ Cleanup

Spec == Init /\ [][Next]_vars

\* A request that is not streamed ends (by its timeouts, and its permit is resolved on
\* every path out of the client pools), and windows run out. A managed stream resolves
\* its permit at its end or its close, which is up to whoever reads it: it owes nothing.
Fairness == /\ \A c \in Calls \ Streams : WF_vars(Resolve(c))
            /\ \A p \in Providers : WF_vars(WindowEnds(p))

FairSpec == Spec /\ Fairness

-----------------------------------------------------------------------------
\* "Active permits are never evicted": the state a permit was counted in is still
\* there, with its count, when the permit is resolved (_take_permit_locked would
\* otherwise drop the outcome silently).
PermitsCounted ==
  \A p \in Providers :
    /\ state[p].inflight = Cardinality({c \in Calls : call[c].held /\ call[c].provider = p})
    /\ state[p].inflight > 0 => state[p].present

\* While the circuit is not closed the only permit of its generation is the probe,
\* and the token is that permit's: no second request slips through half-open.
OneProbe ==
  \A p \in Providers :
    LET mine == {c \in Calls : call[c].held /\ call[c].provider = p}
    IN /\ {c \in mine : call[c].half} = {state[p].token} \ {None}
       /\ state[p].until # "closed" =>
            {c \in mine : call[c].current} = {state[p].token} \ {None}

\* The answer to a request that was admitted before the circuit last opened moves
\* neither its window, its counter nor its streak (generation).
StaleIsIgnored ==
  [][\A c \in Calls :
       LET before == state[call[c].provider]
           after  == state'[call[c].provider]
       IN call[c].held /\ ~call[c].current /\ ~call'[c].held =>
            /\ after.until = before.until
            /\ after.failures = before.failures
            /\ after.token = before.token
            /\ after.streak = before.streak]_vars

\* "A handful of engineered timeouts from one low-value account" does not open the
\* shared circuit: while a single tenant ever failed, it stays closed.
OneTenantNeverOpens ==
  \A p \in Providers :
    failed[p] # NoTenant => state[p].until = "closed"

\* A circuit does not refuse requests for ever: the window ends and the probe gives its
\* token back, answered, failed or cancelled. Only a probe that is a stream nobody
\* reads to its end or closes (_ManagedAsyncStreamResponse) keeps the token.
RejectionEnds ==
  \A p \in Providers :
     \/ []<>~Rejects(state[p])
     \/ <>[](\E c \in Streams : call[c].held /\ state[p].token = c)
=============================================================================
