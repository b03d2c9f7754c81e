--------------------------- MODULE ResponseCache ---------------------------
(***************************************************************************)
(* The hosted response cache and the consent it depends on: the policy     *)
(* rows of one organization and of its customers (api/store.py), each      *)
(* server's short-lived copy of a decision and PUT /v1/cache-policy        *)
(* (api/server.py), the shared table of answers                            *)
(* (brevitas/semantic_cache.py) and the path of a request through lookup,  *)
(* provider call and store (brevitas/proxy.py).                            *)
(*                                                                         *)
(* All requests of a tenant ask the same cacheable question, so its        *)
(* namespace holds one answer. An expired row is a row nobody reads; here  *)
(* it is gone.                                                             *)
(***************************************************************************)
EXTENDS Integers, FiniteSets

CONSTANTS
  Requests,
  Customers,
  Org,          \* the organization: its flag, and the namespace of its own calls
  TenantOf,     \* the tenant of a request: a customer, or Org when unattributed
  Replicas,     \* server processes
  ReplicaOf,    \* the server a request arrives at
  PolicyTTL,    \* _CACHE_ENABLED_TTL_S
  EntryTTL,     \* semantic_cache_ttl_s, jitter included
  MaxEntries,   \* semantic_cache_max_entries
  ReadTime,     \* how long a read of the policy rows may take
  LookTime,     \* how long a request may take from its decision to its lookup
  CallTime,     \* how long a provider call may take
  MaxPuts,      \* bound: policy changes
  None

Tenants == Customers \cup {Org}

ASSUME CacheAssumption ==
  /\ Org \notin Customers
  /\ TenantOf \in [Requests -> Tenants] /\ ReplicaOf \in [Requests -> Replicas]
  /\ {PolicyTTL, EntryTTL, MaxEntries} \subseteq Nat \ {0}
  /\ {ReadTime, LookTime, CallTime, MaxPuts} \subseteq Nat
  /\ None \notin Requests

VARIABLES
  flag,      \* cache_enabled of the customers' rows and of the organization's
  policy,    \* _cache_enabled_cache[server][key]: a decision and its time left
  anchored,  \* _anchor_supported of the server's cache object
  cache,     \* the rows of semantic_cache
  req,       \* the requests' local state
  put,       \* the policy change a server is working on
  puts,      \* how many changes have been made
  since,     \* history: time since the tenant's consent ended, 0 while it holds
  whole      \* history: requests the provider answered completely

vars == <<flag, policy, anchored, cache, req, put, puts, since, whole>>

\* A decision outlives the consent it was read from by less than DecisionAge, and a
\* replay by less than Staleness.
DecisionAge == ReadTime + PolicyTTL
Staleness == DecisionAge + LookTime

Unknown == [on |-> FALSE, left |-> 0]
NewRequest == [phase |-> "new", on |-> FALSE, age |-> 0, answer |-> None, origin |-> None]
Idle == [step |-> "idle", tenant |-> Org, on |-> FALSE, todo |-> {}, old |-> {}]

TypeOK ==
  /\ flag \in [Tenants -> BOOLEAN]
  /\ policy \in [Replicas -> [Tenants -> [on : BOOLEAN, left : 0 .. PolicyTTL]]]
  /\ anchored \in [Replicas -> BOOLEAN]
  /\ cache \subseteq [tenant : Tenants, answer : Requests,
                      origin : Requests \cup {None}, age : 0 .. EntryTTL - 1]
  /\ IsFiniteSet(cache) /\ Cardinality(cache) <= MaxEntries
  /\ req \in [Requests ->
       [phase : {"new", "deciding", "decided", "looking", "calling", "storing", "ended",
                 "replayed"},
        on : BOOLEAN, age : 0 .. ReadTime + LookTime + CallTime, answer : Requests \cup {None},
        origin : Requests \cup {None}]]
  /\ put \in [Replicas ->
       [step : {"idle", "written", "purging", "answered"}, tenant : Tenants, on : BOOLEAN,
        todo : SUBSET Tenants, old : SUBSET Requests]]
  /\ puts \in 0 .. MaxPuts
  /\ since \in [Tenants -> 0 .. Staleness]
  /\ whole \subseteq Requests

\* New organizations start with the cache on, older ones off; a customer's row may
\* say either.
Init ==
  /\ flag \in [Tenants -> BOOLEAN]
  /\ policy = [p \in Replicas |-> [t \in Tenants |-> Unknown]]
  /\ anchored = [p \in Replicas |-> TRUE]
  /\ cache = {}
  /\ req = [r \in Requests |-> NewRequest]
  /\ put = [p \in Replicas |-> Idle] /\ puts = 0
  /\ since = [t \in Tenants |-> IF flag[t] \/ flag[Org] THEN 0 ELSE Staleness]
  /\ whole = {}

\* cache_enabled: a customer's TRUE, and otherwise the organization's flag. (Two
\* reads; the second decides only when the first said FALSE.)
Enabled(t) == flag[t] \/ flag[Org]

Goes(r, phase) == req' = [req EXCEPT ![r].phase = phase, ![r].age = 0]
requestVars == <<flag, put, puts, since>>

-----------------------------------------------------------------------------
(* The decision. *)

\* _cache_policy_cache_key: one decision per organization and customer.
PolicyKey(t) == t

Decision(r) == policy[ReplicaOf[r]][PolicyKey(TenantOf[r])]

Admitted(r, on) == req' = [req EXCEPT ![r].phase = IF on THEN "looking" ELSE "calling",
                                      ![r].on = on, ![r].age = 0]

Arrive(r) ==
  /\ req[r].phase = "new"
  /\ IF Decision(r).left > 0 THEN Admitted(r, Decision(r).on) ELSE Goes(r, "deciding")
  /\ UNCHANGED <<requestVars, policy, anchored, cache, whole>>

\* A store that cannot be read decides for the cache.
OnFailureOpen == TRUE
OnFailure == FALSE

\* The store is read, or it fails: then the request goes on without a cache and
\* nothing is kept.
ReadPolicy(r) ==
  /\ req[r].phase = "deciding"
  /\ \/ req' = [req EXCEPT ![r].phase = "decided", ![r].on = Enabled(TenantOf[r])]
     \/ Admitted(r, OnFailure)
  /\ UNCHANGED <<requestVars, policy, anchored, cache, whole>>

\* The decision is put with a full life of its own, however old the read is.
KeepPolicy(r) ==
  /\ req[r].phase = "decided"
  /\ policy' = [policy EXCEPT ![ReplicaOf[r]][PolicyKey(TenantOf[r])] =
                  [on |-> req[r].on, left |-> PolicyTTL]]
  /\ Admitted(r, req[r].on)
  /\ UNCHANGED <<requestVars, anchored, cache, whole>>

-----------------------------------------------------------------------------
(* Lookup, call and store. *)

\* An expired row is not read (expires_at > now), nor another namespace's.
Rows(t) == {e \in cache : e.tenant = t}

\* A server whose cache object has once met an error reads no anchors. Any failure
\* of the read or of the decryption is a miss.
Lookup(r) ==
  LET p == ReplicaOf[r] IN
  /\ req[r].phase = "looking"
  /\ \/ \E e \in Rows(TenantOf[r]), named \in {TRUE, FALSE} :
           /\ named => anchored[p]
           /\ req' = [req EXCEPT ![r].phase = "replayed", ![r].answer = e.answer,
                                 ![r].origin = IF named THEN e.origin ELSE None]
           /\ anchored' = [anchored EXCEPT ![p] = named]
     \/ Goes(r, "calling") /\ anchored' \in {anchored, [anchored EXCEPT ![p] = FALSE]}
  /\ UNCHANGED <<requestVars, policy, cache, whole>>

Oldest(rows) == {o \in rows : \A e \in rows : e.age <= o.age}

\* One write of the bounded table: the tenant's row is replaced, and what exceeds
\* the bound goes, oldest first; of two rows of one moment either may be the older.
Stored(rows, e) ==
  LET others == {o \in rows : o.tenant # e.tenant}
      all == others \cup {e}
  IN IF Cardinality(all) <= MaxEntries THEN {all} ELSE {all \ {o} : o \in Oldest(others)}

Row(r, origin) == [tenant |-> TenantOf[r], answer |-> r, origin |-> origin, age |-> 0]

\* semantic_cache_store_bounded with an origin, and the overload without one, whose
\* ON CONFLICT leaves the origin of a row it replaces alone.
WithAnchor(r) == Stored(cache, Row(r, r))
WithoutAnchor(r) ==
  LET replaced == Rows(TenantOf[r])
      origins == IF replaced = {} THEN {None} ELSE {e.origin : e \in replaced}
  IN UNION {Stored(cache, Row(r, origin)) : origin \in origins}

\* Nothing of the request but its answer is left to keep.
Settles(r, phase) == req' = [req EXCEPT ![r] = [NewRequest EXCEPT !.phase = phase]]

\* The first write names the anchor, unless the server's cache object once met an
\* error; after an error of it, of which it may have been done, another follows.
FirstStore(r) ==
  LET p == ReplicaOf[r] IN
  \/ anchored[p] /\ cache' \in WithAnchor(r) /\ UNCHANGED anchored /\ Settles(r, "ended")
  \/ /\ anchored' = [anchored EXCEPT ![p] = FALSE]
     /\ cache' \in {cache} \cup (IF anchored[p] THEN WithAnchor(r) ELSE {})
     /\ Settles(r, "storing")

\* A response that was cut at the token limit is stored like any other.
StoresAny(r, complete) == req[r].on
Stores(r, complete) == req[r].on /\ complete

\* The call ends: refused, cut short or pruned, or complete and faithful. The store
\* comes before the receipt and whatever becomes of it the answer is delivered.
CallEnds(r) ==
  /\ req[r].phase = "calling"
  /\ \E complete \in BOOLEAN :
        /\ whole' = IF complete THEN whole \cup {r} ELSE whole
        /\ IF Stores(r, complete) THEN FirstStore(r)
           ELSE Settles(r, "ended") /\ UNCHANGED <<cache, anchored>>
  /\ UNCHANGED <<requestVars, policy>>

\* The write without an anchor; its error is swallowed, done or not.
StoreAgain(r) ==
  /\ req[r].phase = "storing"
  /\ cache' \in {cache} \cup WithoutAnchor(r)
  /\ Settles(r, "ended")
  /\ UNCHANGED <<requestVars, policy, anchored, whole>>

-----------------------------------------------------------------------------
(* PUT /v1/cache-policy. *)

\* The organization's flag decides for all its customers.
PurgedOwn(t) == {t}
Purged(t) == IF t = Org THEN Tenants ELSE {t}

\* Since when a tenant's consent is over, once the flags are f.
SinceWith(f) ==
  [t \in Tenants |-> IF f[t] \/ f[Org] THEN 0 ELSE since[t]]

WritePolicy(p, t, on) ==
  /\ put[p].step \in {"idle", "answered"} /\ puts < MaxPuts
  /\ flag' = [flag EXCEPT ![t] = on]
  /\ since' = SinceWith(flag')
  /\ put' = [put EXCEPT ![p] = [step |-> "written", tenant |-> t, on |-> on, todo |-> {},
                                old |-> {q \in whole : req[q].phase = "ended"}]]
  /\ puts' = puts + 1
  /\ UNCHANGED <<policy, anchored, cache, req, whole>>

\* _invalidate_cache_policy: every decision this server holds on the organization.
InvalidatePolicy(p) ==
  /\ put[p].step = "written"
  /\ policy' = [policy EXCEPT ![p] = [t \in Tenants |-> Unknown]]
  /\ put' = [put EXCEPT ![p].step = "purging",
                        ![p].todo = IF put[p].on THEN {} ELSE Purged(put[p].tenant)]
  /\ UNCHANGED <<flag, anchored, cache, req, puts, since, whole>>

\* One namespace after the other; a failure (done or not) is answered with a 503
\* and the rest stays.
Purge(p, t) ==
  /\ put[p].step = "purging" /\ t \in put[p].todo
  /\ \/ /\ cache' = cache \ Rows(t)
        /\ put' = [put EXCEPT ![p].todo = @ \ {t}]
     \/ /\ cache' \in {cache, cache \ Rows(t)}
        /\ put' = [put EXCEPT ![p] = Idle]
  /\ UNCHANGED <<flag, policy, anchored, req, puts, since, whole>>

AnswerPut(p) ==
  /\ put[p].step = "purging" /\ put[p].todo = {}
  /\ put' = [put EXCEPT ![p] = IF put[p].on THEN Idle ELSE [@ EXCEPT !.step = "answered"]]
  /\ UNCHANGED <<flag, policy, anchored, cache, req, puts, since, whole>>

-----------------------------------------------------------------------------
\* A server restarts: its decisions, requests and policy change are gone. A second
\* write may be on its way.
Restart(p) ==
  /\ \E r \in Requests : ReplicaOf[r] = p /\ req[r].phase \notin {"new", "ended", "replayed"}
  /\ policy' = [policy EXCEPT ![p] = [t \in Tenants |-> Unknown]]
  /\ anchored' = [anchored EXCEPT ![p] = TRUE]
  /\ req' = [r \in Requests |->
               IF ReplicaOf[r] = p /\ req[r].phase \notin {"new", "storing", "replayed"}
               THEN [NewRequest EXCEPT !.phase = "ended"] ELSE req[r]]
  /\ put' = [put EXCEPT ![p] = IF @.step = "answered" THEN @ ELSE Idle]
  /\ UNCHANGED <<flag, cache, puts, since, whole>>

\* A read of the policy, the way from there to the cache (a read of the warm policy,
\* the body, the limiter's places) and a call end in time.
Urgent(r) ==
  \/ req[r].phase = "looking" /\ req[r].age = LookTime
  \/ req[r].phase \in {"deciding", "decided"} /\ req[r].age = ReadTime
  \/ req[r].phase = "calling" /\ req[r].age = CallTime

Tick ==
  /\ \A r \in Requests : ~Urgent(r)
  /\ policy' = [p \in Replicas |-> [t \in Tenants |->
                  IF policy[p][t].left > 1 THEN [policy[p][t] EXCEPT !.left = @ - 1]
                  ELSE Unknown]]
  /\ cache' = {[e EXCEPT !.age = @ + 1] : e \in {o \in cache : o.age < EntryTTL - 1}}
  /\ req' = [r \in Requests |->
               IF req[r].phase \in {"deciding", "decided", "looking", "calling"}
               THEN [req[r] EXCEPT !.age = @ + 1] ELSE req[r]]
  /\ since' = [t \in Tenants |->
                 IF Enabled(t) THEN 0
                 ELSE IF since[t] < Staleness THEN since[t] + 1 ELSE since[t]]
  /\ UNCHANGED <<flag, anchored, put, puts, whole>>

Next ==
  \/ \E r \in Requests :
        Arrive(r) \/ ReadPolicy(r) \/ KeepPolicy(r) \/ Lookup(r) \/ CallEnds(r)
        \/ StoreAgain(r)
  \/ \E p \in Replicas :
        \/ \E t \in Tenants : Purge(p, t) \/ \E on \in BOOLEAN : WritePolicy(p, t, on)
        \/ InvalidatePolicy(p) \/ AnswerPut(p) \/ Restart(p)
  \/ Tick

Spec == Init /\ [][Next]_vars

-----------------------------------------------------------------------------
(* Properties. *)

\* An answer is replayed only to a tenant that has consented, or had until a read,
\* a decision's life and the way to the lookup ago: through the organization's
\* fallback, a customer's own choice, two servers' copies, restarts and reads that
\* race the change ("it can never serve a cached answer the tenant did not consent
\* to", _cache_enabled_cached). The window of _CACHE_ENABLED_TTL_S alone is not kept.
ServedWithConsent ==
  [][\A r \in Requests :
       req'[r].phase = "replayed" /\ req[r].phase # "replayed"
         => since[TenantOf[r]] < Staleness]_vars

\* What is replayed is a complete answer given to the same tenant, and the anchor
\* that makes the saving billable is a complete, paid call of that tenant and never
\* the replay itself (_cache_store, _report_cache_hit, _decide_savings_anchor).
ReplayIsOwnPaid ==
  \A r \in Requests : req[r].phase = "replayed" =>
     \A q \in {req[r].answer, req[r].origin} \ {None} :
        q # r /\ q \in whole /\ TenantOf[q] = TenantOf[r]

\* Once "purged": true has been answered, nothing is left, in any namespace the
\* change covers, of an answer whose request was over when the policy was changed
\* (set_cache_policy: "every writer must be purgeable here"). A request between its
\* two writes may still put its answer back.
PurgedIsGone ==
  \A p \in Replicas : put[p].step = "answered" =>
     \A e \in cache :
        put[p].tenant \in {Org, e.tenant} => e.answer \notin put[p].old
=============================================================================
