---------------------------- MODULE LimitLeases ----------------------------
(***************************************************************************)
(* The concurrency leases of the distributed limiter                       *)
(* (api/distributed_limits.py): the three Redis scripts and the sorted     *)
(* sets they keep. A request takes one place in each set of its path       *)
(* (organization, customer, key, provider). Redis runs a script as one     *)
(* step; the caller brings its own clock.                                  *)
(*                                                                         *)
(* A score is kept as the time left until it is reached on the slowest     *)
(* clock of the fleet; 0 is a member that has expired for every caller, or *)
(* none. The fixed-window counters only refuse (see Acquire's callers).    *)
(***************************************************************************)
EXTENDS Integers, Sequences, FiniteSets

CONSTANTS
  Requests,   \* request ids: acquire mints one uuid per admission, never reused
  Scopes,     \* names of the sorted sets
  Path,       \* Path[r]: the sets of r, in the order the script checks them
  Places,     \* Places[s]: the concurrency limit of a set
  Lease,      \* lease_seconds
  MaxSkew     \* how far a caller's clock may be ahead of the slowest one

ASSUME LeaseAssumption ==
  /\ IsFiniteSet(Requests)
  /\ Path \in [Requests -> Seq(Scopes)]
  /\ Places \in [Scopes -> Nat \ {0}]
  /\ Lease \in Nat \ {0}
  /\ MaxSkew \in Nat

VARIABLE left    \* left[s][r]: time until r's score in set s is reached

Skews == 0 .. MaxSkew

LeaseTypeOK == left \in [Scopes -> [Requests -> 0 .. Lease + MaxSkew]]

NoMembers == [s \in Scopes |-> [r \in Requests |-> 0]]
LeaseInit == left = NoMembers

SetsOf(r) == {Path[r][i] : i \in DOMAIN Path[r]}
Members(s) == {q \in Requests : left[s][q] > 0}
Present(r) == \E s \in Scopes : left[s][r] > 0

\* ZREMRANGEBYSCORE -inf now, by a caller whose clock is d ahead.
Unexpired(s, d) == {q \in Requests : left[s][q] > d}
Swept(s, d) == [q \in Requests |-> IF left[s][q] > d THEN left[s][q] ELSE 0]

\* current > limit refuses.
HasRoomForOneMore(s, d) == Cardinality(Unexpired(s, d)) <= Places[s]
HasRoom(s, d) == Cardinality(Unexpired(s, d)) < Places[s]
Granted(r, d) == \A s \in SetsOf(r) : HasRoom(s, d)

\* Every set is swept and checked before any is written: a caller refused by one
\* set takes no place in another.
AcquireGranted(r, d) ==
  /\ Granted(r, d)
  /\ left' = [s \in Scopes |->
                IF s \in SetsOf(r) THEN [Swept(s, d) EXCEPT ![r] = Lease + d]
                ELSE left[s]]

\* The script returns at the first full set: the sets up to it have been swept.
AcquireRefused(r, d) ==
  \E i \in DOMAIN Path[r] :
     LET checked == {Path[r][k] : k \in 1 .. i} IN
     /\ ~HasRoom(Path[r][i], d)
     /\ \A k \in 1 .. i - 1 : HasRoom(Path[r][k], d)
     /\ left' = [s \in Scopes |-> IF s \in checked THEN Swept(s, d) ELSE left[s]]

ReleaseScript(r) ==
  left' = [s \in Scopes |->
             IF s \in SetsOf(r) THEN [left[s] EXCEPT ![r] = 0] ELSE left[s]]

\* A lease is owned only while its member is unexpired in every set of the path.
Owned(r, d) == \A s \in SetsOf(r) : left[s][r] > d

\* ZADD without the check of the hierarchy.
RenewScriptBlind(r, d) ==
  left' = [s \in Scopes |->
             IF s \in SetsOf(r) THEN [left[s] EXCEPT ![r] = Lease + d] ELSE left[s]]

RenewScript(r, d) ==
  left' = IF Owned(r, d)
          THEN [s \in Scopes |->
                  IF s \in SetsOf(r) THEN [left[s] EXCEPT ![r] = Lease + d] ELSE left[s]]
          ELSE left

Elapse == left' = [s \in Scopes |-> [r \in Requests |->
                     IF left[s][r] > 0 THEN left[s][r] - 1 ELSE 0]]

\* Redis may lose its keys (a restart or a failover without the last writes).
Lose == left' = NoMembers

\* What the sets do whoever calls the scripts, in whatever order.
LeaseNext ==
  \/ \E r \in Requests, d \in Skews :
        \/ ~Present(r) /\ AcquireGranted(r, d)
        \/ AcquireRefused(r, d)
        \/ RenewScript(r, d)
  \/ \E r \in Requests : ReleaseScript(r)
  \/ Elapse
  \/ Lose

LeaseSpec == LeaseInit /\ [][LeaseNext]_left

\* No set ever has more unexpired members than its limit, whichever replicas,
\* clocks, lost replies and late renewals drive the scripts (_ACQUIRE and _RENEW
\* of api/distributed_limits.py; admission is what stands between one tenant and
\* everybody's provider budget).
PlacesBounded == \A s \in Scopes : Cardinality(Members(s)) <= Places[s]
=============================================================================
