------------------------- MODULE CacheWarmingProofs -------------------------
(***************************************************************************)
(* Theorems of CacheWarming for any prefixes and customers, any workers,   *)
(* days, leases, reservations and budgets: a claim within its lease is the *)
(* row's, and what answered pings cost is covered by the day's ledger.     *)
(*                                                                         *)
(* The sums over claims are counted as sets of pairs: the dollars a claim  *)
(* reserved, and those of them it has not booked.                          *)
(***************************************************************************)
EXTENDS CacheWarming, FiniteSetTheorems, WellFoundedInduction, TLAPS

Stages == {"none", "claimed", "pinging", "settling"}
Outcomes == {"warmed", "release", "prefix_invalid", "auth_failed"}

ClaimType ==
  [by : Workers \cup {"nobody"}, prefix : Prefixes \cup {"none"}, day : 0 .. Days,
   left : 0 .. Lease, stage : Stages, outcome : Outcomes, spent : 0 .. Reserve,
   orphan : BOOLEAN]

ClaimTable == [Tokens -> ClaimType]

Longest == IF Lease > Due THEN Lease ELSE Due

RowType ==
  [here : BOOLEAN, active : BOOLEAN, due : 0 .. Longest, token : 0 .. MaxClaims,
   misses : 0 .. StopLoss, pings : Nat, on : 0 .. Days]

LedgerType == [reserved : Nat, spent : Nat]

CredType ==
  [here : BOOLEAN, enabled : BOOLEAN, active : BOOLEAN, terms : Terms \cup {NoTerms}]

Typed ==
  /\ cred \in CredType
  /\ row \in [Prefixes -> RowType]
  /\ ledger \in [1 .. Days -> LedgerType]
  /\ claim \in ClaimTable
  /\ tokens \in 0 .. MaxClaims /\ day \in 1 .. Days
  /\ charged \in [1 .. Days -> Nat] /\ granted \in [1 .. Days -> Budgets \cup {0}]

\* What the settlement of a claim will book.
Booking(c) == IF c.stage = "settling" /\ c.outcome = "warmed" THEN c.spent ELSE 0

\* The claims of table c budgeted on day d, the dollars they reserved, and those of
\* them no booking accounts for.
HeldIn(c, d) == {t \in Tokens : c[t].by \in Workers /\ c[t].day = d}
ReservedIn(c, d) == HeldIn(c, d) \X (1 .. Reserve)
OwedIn(c, d) == {o \in ReservedIn(c, d) : o[2] > Booking(c[o[1]])}

\* A claim within its lease has its row, and both run out together.
Agrees(c, t, r) ==
  c.left > 0 /\ ~c.orphan => r.here /\ r.token = t /\ r.due = c.left

ClaimInv ==
  /\ \A t \in Tokens : t > tokens => claim[t] = NoClaim
  /\ \A t \in Tokens : claim[t].by \notin Workers => claim[t] = NoClaim
  /\ \A t \in Tokens : claim[t].by \in Workers =>
        /\ claim[t].prefix \in Prefixes /\ claim[t].day \in 1 .. Days
        /\ claim[t].stage # "none"
        /\ Agrees(claim[t], t, row[claim[t].prefix])

\* A row with a claim is below the stop-loss, so that its ping may miss once more.
StopInv == \A x \in Prefixes : row[x].token # 0 => row[x].misses < StopLoss

\* What is reserved covers the claims that are held, and with what is spent, the
\* charges together with whatever the held claims may still turn out to have cost; g is
\* the budget of the day's last claim.
Covered(l, paid, g, c, d) ==
  /\ Cardinality(ReservedIn(c, d)) <= l.reserved
  /\ paid + Cardinality(OwedIn(c, d)) <= l.reserved + l.spent
  /\ l.reserved + l.spent <= g

MoneyInv == \A d \in 1 .. Days : Covered(ledger[d], charged[d], granted[d], claim, d)

Inv == Typed /\ ClaimInv /\ StopInv /\ MoneyInv

-----------------------------------------------------------------------------
(* Counting the dollars of claims. *)

LEMMA NumbersArePositive ==
  /\ Days \in Nat \ {0} /\ Lease \in Nat \ {0} /\ Due \in Nat \ {0} /\ Reserve \in Nat \ {0}
  /\ Budgets \subseteq Nat /\ MaxClaims \in Nat \ {0} /\ StopLoss \in Nat \ {0}
BY WarmingAssumption

LEMMA LongestOfBoth == Longest \in Nat /\ Lease \in 0 .. Longest /\ Due \in 0 .. Longest
BY NumbersArePositive DEF Longest

LEMMA TokensFinite == IsFiniteSet(Tokens) /\ Tokens \subseteq Nat
<1>1. MaxClaims \in Nat
  BY NumbersArePositive
<1>2. IsFiniteSet(1 .. MaxClaims)
  BY <1>1, FS_Interval
<1> QED
  BY <1>1, <1>2 DEF Tokens

LEMMA BookingType ==
  ASSUME NEW c \in ClaimType
  PROVE  Booking(c) \in 0 .. Reserve
BY NumbersArePositive DEF Booking, ClaimType

\* The pairs of one claim, from its dollar a to its dollar b.
LEMMA PairsOfOne ==
  ASSUME NEW t, NEW a \in Nat, NEW b \in Nat, a <= b + 1
  PROVE  /\ IsFiniteSet({t} \X (a .. b))
         /\ Cardinality({t} \X (a .. b)) = b + 1 - a
<1>1. IsFiniteSet({t}) /\ Cardinality({t}) = 1
  BY FS_Singleton
<1>2. IsFiniteSet(a .. b) /\ Cardinality(a .. b) = b + 1 - a
  BY FS_Interval
<1>3. /\ IsFiniteSet({t} \X (a .. b))
      /\ Cardinality({t} \X (a .. b)) = Cardinality({t}) * Cardinality(a .. b)
  BY <1>1, <1>2, FS_Product
<1> QED
  BY <1>1, <1>2, <1>3

LEMMA ReservedFinite ==
  ASSUME NEW c, NEW d
  PROVE  /\ IsFiniteSet(ReservedIn(c, d)) /\ Cardinality(ReservedIn(c, d)) \in Nat
         /\ IsFiniteSet(OwedIn(c, d)) /\ Cardinality(OwedIn(c, d)) \in Nat
<1>1. IsFiniteSet(HeldIn(c, d))
  BY TokensFinite, FS_Subset DEF HeldIn
<1>2. IsFiniteSet(1 .. Reserve)
  BY NumbersArePositive, FS_Interval
<1>3. IsFiniteSet(ReservedIn(c, d))
  BY <1>1, <1>2, FS_Product DEF ReservedIn
<1>4. OwedIn(c, d) \in SUBSET ReservedIn(c, d)
  BY DEF OwedIn
<1>5. IsFiniteSet(OwedIn(c, d))
  BY <1>3, <1>4, FS_Subset
<1> QED
  BY <1>3, <1>5, FS_CardinalityType

\* Taking pairs out of a set that has them.
LEMMA TakeOut ==
  ASSUME NEW S, IsFiniteSet(S), NEW P \in SUBSET S
  PROVE  Cardinality(S \ P) = Cardinality(S) - Cardinality(P)
<1>1. S \cap P = P
  OBVIOUS
<1> QED
  BY <1>1, FS_Difference

\* Table e is table c with q for the claim of token t.
Changes(c, e, t, q) == \A u \in Tokens : e[u] = IF u = t THEN q ELSE c[u]

\* Steps that move no claim and change no booking.
LEMMA SameDollars ==
  ASSUME NEW c, NEW e, NEW d,
         \A t \in Tokens : e[t].by = c[t].by /\ e[t].day = c[t].day
                           /\ Booking(e[t]) = Booking(c[t])
  PROVE  ReservedIn(e, d) = ReservedIn(c, d) /\ OwedIn(e, d) = OwedIn(c, d)
<1>1. HeldIn(e, d) = HeldIn(c, d)
  BY DEF HeldIn
<1>2. ReservedIn(e, d) = ReservedIn(c, d)
  BY <1>1 DEF ReservedIn
<1>3. \A o \in ReservedIn(c, d) : o[1] \in Tokens
  BY DEF ReservedIn, HeldIn
<1> QED
  BY <1>2, <1>3 DEF OwedIn

LEMMA NobodyHolds ==
  ASSUME NEW c, NEW t, NEW d, c[t] = NoClaim
  PROVE  t \notin HeldIn(c, d)
BY WarmingAssumption DEF HeldIn, NoClaim

\* Steps that drop claims.
LEMMA FewerDollars ==
  ASSUME NEW c, NEW e, NEW d, \A t \in Tokens : e[t] = c[t] \/ e[t] = NoClaim
  PROVE  /\ Cardinality(ReservedIn(e, d)) <= Cardinality(ReservedIn(c, d))
         /\ Cardinality(OwedIn(e, d)) <= Cardinality(OwedIn(c, d))
<1>1. \A t \in HeldIn(e, d) : t \in Tokens /\ e[t] = c[t]
  BY NobodyHolds DEF HeldIn
<1>2. HeldIn(e, d) \subseteq HeldIn(c, d)
  BY <1>1 DEF HeldIn
<1>3. ReservedIn(e, d) \in SUBSET ReservedIn(c, d)
  BY <1>2 DEF ReservedIn
<1>4. OwedIn(e, d) \in SUBSET OwedIn(c, d)
  BY <1>1, <1>3 DEF OwedIn, ReservedIn
<1> QED
  BY <1>3, <1>4, ReservedFinite, FS_Subset

\* The answer of a ping books b dollars of its claim.
LEMMA BookedDollars ==
  ASSUME NEW c \in ClaimTable, NEW t \in Tokens, NEW q, NEW d,
         c[t].by \in Workers, Booking(c[t]) = 0, Booking(q) \in 0 .. Reserve,
         q.by = c[t].by, q.day = c[t].day, NEW e, Changes(c, e, t, q)
  PROVE  /\ ReservedIn(e, d) = ReservedIn(c, d)
         /\ Cardinality(OwedIn(e, d)) =
              Cardinality(OwedIn(c, d)) - IF c[t].day = d THEN Booking(q) ELSE 0
<1> DEFINE P == {t} \X (1 .. Booking(q))
<1>1. \A u \in Tokens : e[u] = IF u = t THEN q ELSE c[u]
  BY DEF Changes
<1>2. HeldIn(e, d) = HeldIn(c, d)
  BY <1>1 DEF HeldIn
<1>3. ReservedIn(e, d) = ReservedIn(c, d)
  BY <1>2 DEF ReservedIn
<1>4. \A o \in ReservedIn(c, d) : o[1] \in Tokens /\ o[2] \in 1 .. Reserve
  BY DEF ReservedIn, HeldIn
<1>5. CASE c[t].day = d
  <2>1. t \in HeldIn(c, d)
    BY <1>5 DEF HeldIn
  <2>2. \A o \in P : o[1] = t /\ o[2] \in 1 .. Reserve
    BY NumbersArePositive
  <2>3. P \subseteq OwedIn(c, d)
    BY <2>1, <2>2 DEF OwedIn, ReservedIn
  <2>4. OwedIn(e, d) = OwedIn(c, d) \ P
    <3>1. ASSUME NEW o \in ReservedIn(c, d)
          PROVE  o[2] > Booking(e[o[1]]) <=> o[2] > Booking(c[o[1]]) /\ o \notin P
      <4>1. CASE o[1] # t
        BY <1>1, <1>4, <4>1
      <4>2. CASE o[1] = t
        <5>1. e[o[1]] = q /\ Booking(c[o[1]]) = 0 /\ o[2] \in 1 .. Reserve
          BY <1>1, <1>4, <4>2
        <5>2. o \in P <=> o[2] \in 1 .. Booking(q)
          BY <4>2 DEF ReservedIn
        <5>3. o[2] \in 1 .. Booking(q) <=> ~(o[2] > Booking(q))
          BY <5>1, NumbersArePositive
        <5>4. o[2] > 0
          BY <5>1, NumbersArePositive
        <5> QED
          BY <5>1, <5>2, <5>3, <5>4
      <4> QED
        BY <4>1, <4>2
    <3> QED
      BY <1>3, <3>1 DEF OwedIn
  <2>5. Booking(q) \in Nat /\ 1 <= Booking(q) + 1
    BY NumbersArePositive
  <2>6. IsFiniteSet(OwedIn(c, d)) /\ Cardinality(OwedIn(c, d)) \in Nat
    BY ReservedFinite
  <2>7. Cardinality(P) = Booking(q)
    <3> DEFINE a == 1
               b == Booking(q)
    <3>1. a \in Nat /\ b \in Nat /\ a <= b + 1 /\ b + 1 - a = b
      BY <2>5
    <3> HIDE DEF a, b
    <3>2. Cardinality({t} \X (a .. b)) = b + 1 - a
      BY <3>1, PairsOfOne
    <3> QED
      BY <3>1, <3>2 DEF a, b
  <2>8. Cardinality(OwedIn(e, d)) = Cardinality(OwedIn(c, d)) - Booking(q)
    <3> HIDE DEF P
    <3> QED
      BY <2>3, <2>4, <2>6, <2>7, TakeOut
  <2> QED
    BY <1>3, <1>5, <2>8
<1>6. CASE c[t].day # d
  <2>1. \A o \in ReservedIn(c, d) : o[1] # t
    BY <1>6 DEF ReservedIn, HeldIn
  <2>2. OwedIn(e, d) = OwedIn(c, d)
    BY <1>1, <1>3, <1>4, <2>1 DEF OwedIn
  <2> QED
    BY <1>3, <1>6, <2>2, ReservedFinite
<1> QED
  BY <1>5, <1>6

\* The settlement of a claim ends its reservation and what was left to book.
LEMMA SettledDollars ==
  ASSUME NEW c \in ClaimTable, NEW t \in Tokens, NEW d, c[t].by \in Workers,
         NEW e, Changes(c, e, t, NoClaim)
  PROVE  /\ Cardinality(ReservedIn(e, d)) =
              Cardinality(ReservedIn(c, d)) - IF c[t].day = d THEN Reserve ELSE 0
         /\ Cardinality(OwedIn(e, d)) =
              Cardinality(OwedIn(c, d)) - IF c[t].day = d THEN Reserve - Booking(c[t]) ELSE 0
<1> DEFINE b == Booking(c[t])
           P == {t} \X (1 .. Reserve)
           Q == {t} \X (b + 1 .. Reserve)
<1>1. \A u \in Tokens : e[u] = IF u = t THEN NoClaim ELSE c[u]
  BY DEF Changes
<1>2. HeldIn(e, d) = HeldIn(c, d) \ {t}
  BY <1>1, NobodyHolds DEF HeldIn
<1>3. ReservedIn(e, d) = {o \in ReservedIn(c, d) : o[1] # t}
  BY <1>2 DEF ReservedIn
<1>4. \A o \in ReservedIn(c, d) : o[1] \in Tokens /\ o[2] \in 1 .. Reserve
                                  /\ o = <<o[1], o[2]>>
  BY DEF ReservedIn, HeldIn
<1>5. OwedIn(e, d) = {o \in OwedIn(c, d) : o[1] # t}
  <2>1. \A o \in ReservedIn(c, d) : o[1] # t => e[o[1]] = c[o[1]]
    BY <1>1, <1>4
  <2> QED
    BY <1>3, <2>1 DEF OwedIn
<1>6. /\ IsFiniteSet(ReservedIn(c, d)) /\ Cardinality(ReservedIn(c, d)) \in Nat
      /\ IsFiniteSet(OwedIn(c, d)) /\ Cardinality(OwedIn(c, d)) \in Nat
  BY ReservedFinite
<1>7. CASE c[t].day = d
  <2>1. t \in HeldIn(c, d)
    BY <1>7 DEF HeldIn
  <2>2. b \in 0 .. Reserve /\ Reserve \in Nat
    BY BookingType, NumbersArePositive DEF ClaimTable
  <2>3. P \subseteq ReservedIn(c, d)
    BY <2>1 DEF ReservedIn
  <2>4. Q \subseteq OwedIn(c, d)
    <3>1. \A k \in b + 1 .. Reserve : k \in 1 .. Reserve /\ k > b
      BY <2>2
    <3>2. \A k \in b + 1 .. Reserve : <<t, k>> \in ReservedIn(c, d)
      BY <2>1, <3>1 DEF ReservedIn
    <3> QED
      BY <3>1, <3>2 DEF OwedIn
  <2>5. ReservedIn(e, d) = ReservedIn(c, d) \ P
    <3>1. \A o \in ReservedIn(c, d) : o \in P <=> o[1] = t
      BY <1>4
    <3> QED
      BY <1>3, <3>1
  <2>6. OwedIn(e, d) = OwedIn(c, d) \ Q
    <3>1. ASSUME NEW o \in OwedIn(c, d)
          PROVE  o \in Q <=> o[1] = t
      <4>1. /\ o[1] \in Tokens /\ o[2] \in 1 .. Reserve /\ o = <<o[1], o[2]>>
            /\ o[2] > Booking(c[o[1]])
        BY <1>4 DEF OwedIn
      <4>2. o[1] = t => o[2] \in b + 1 .. Reserve
        BY <2>2, <4>1
      <4> QED
        BY <4>1, <4>2
    <3> QED
      BY <1>5, <3>1
  <2> HIDE DEF b
  <2>7. Cardinality(P) = Reserve
    <3> DEFINE a == 1
    <3>1. a \in Nat /\ a <= Reserve + 1 /\ Reserve + 1 - a = Reserve
      BY <2>2
    <3> HIDE DEF a
    <3>2. Cardinality({t} \X (a .. Reserve)) = Reserve + 1 - a
      BY <2>2, <3>1, PairsOfOne
    <3> QED
      BY <3>1, <3>2 DEF a
  <2>8. Cardinality(Q) = Reserve - b
    <3> DEFINE a == b + 1
    <3>1. a \in Nat /\ a <= Reserve + 1 /\ Reserve + 1 - a = Reserve - b
      BY <2>2
    <3> HIDE DEF a
    <3>2. Cardinality({t} \X (a .. Reserve)) = Reserve + 1 - a
      BY <2>2, <3>1, PairsOfOne
    <3> QED
      BY <3>1, <3>2 DEF a
  <2> HIDE DEF P, Q
  <2>9. Cardinality(ReservedIn(e, d)) = Cardinality(ReservedIn(c, d)) - Reserve
    BY <1>6, <2>3, <2>5, <2>7, TakeOut
  <2>10. Cardinality(OwedIn(e, d)) = Cardinality(OwedIn(c, d)) - (Reserve - b)
    BY <1>6, <2>4, <2>6, <2>8, TakeOut
  <2> QED
    BY <1>7, <2>9, <2>10 DEF b
<1>8. CASE c[t].day # d
  <2>1. \A o \in ReservedIn(c, d) : o[1] # t
    BY <1>8 DEF ReservedIn, HeldIn
  <2>2. ReservedIn(e, d) = ReservedIn(c, d) /\ OwedIn(e, d) = OwedIn(c, d)
    BY <1>3, <1>5, <2>1 DEF OwedIn
  <2> QED
    BY <1>6, <1>8, <2>2
<1> QED
  BY <1>7, <1>8

\* Table e is table c and n new claims, after the k tokens given so far.
Adds(c, e, k, n, today) ==
  /\ \A t \in Tokens : t > k => c[t] = NoClaim
  /\ \A t \in k + 1 .. k + n :
        e[t].by \in Workers /\ e[t].day = today /\ Booking(e[t]) = 0
  /\ \A t \in Tokens : t \notin k + 1 .. k + n => e[t] = c[t]

\* A batch of n claims reserves n times what a ping may cost, and owes all of it.
LEMMA ClaimedDollars ==
  ASSUME NEW c \in ClaimTable, NEW e, NEW k \in Nat, NEW n \in Nat, k + n <= MaxClaims,
         NEW today, NEW d, Adds(c, e, k, n, today)
  PROVE  /\ n * Reserve \in Nat
         /\ Cardinality(ReservedIn(e, d)) =
              Cardinality(ReservedIn(c, d)) + IF d = today THEN n * Reserve ELSE 0
         /\ Cardinality(OwedIn(e, d)) =
              Cardinality(OwedIn(c, d)) + IF d = today THEN n * Reserve ELSE 0
<1> USE DEF Adds
<1> DEFINE N == k + 1 .. k + n
           P == N \X (1 .. Reserve)
<1>0. Reserve \in Nat /\ n * Reserve \in Nat /\ MaxClaims \in Nat
  BY NumbersArePositive
<1>1. N \subseteq Tokens /\ \A t \in N : t > k
  BY <1>0 DEF Tokens
<1>2. \A t \in N : t \notin HeldIn(c, d)
  BY <1>1, NobodyHolds
<1>3. /\ IsFiniteSet(ReservedIn(c, d)) /\ Cardinality(ReservedIn(c, d)) \in Nat
      /\ IsFiniteSet(OwedIn(c, d)) /\ Cardinality(OwedIn(c, d)) \in Nat
  BY ReservedFinite
<1>4. \A o \in ReservedIn(c, d) : o[1] \in HeldIn(c, d) /\ o[1] \notin N /\ e[o[1]] = c[o[1]]
  BY <1>2 DEF ReservedIn, HeldIn
<1>5. CASE d = today
  <2>1. HeldIn(e, d) = HeldIn(c, d) \cup N
    BY <1>1, <1>2, <1>5 DEF HeldIn
  <2>2. ReservedIn(e, d) = ReservedIn(c, d) \cup P
    BY <2>1 DEF ReservedIn
  <2>3. \A o \in P : o[1] \in N /\ Booking(e[o[1]]) = 0 /\ o[2] > 0
    BY <1>0
  <2>4. OwedIn(e, d) = OwedIn(c, d) \cup P
    BY <1>4, <2>2, <2>3 DEF OwedIn
  <2>5. ReservedIn(c, d) \cap P = {} /\ OwedIn(c, d) \cap P = {}
    BY <1>4, <2>3 DEF OwedIn
  <2>6. IsFiniteSet(P) /\ Cardinality(P) = n * Reserve
    <3>1. IsFiniteSet(N) /\ Cardinality(N) = n
      <4> DEFINE a == k + 1
                 b == k + n
      <4>1. a \in Int /\ b \in Int /\ (IF a > b THEN 0 ELSE b - a + 1) = n
        OBVIOUS
      <4> HIDE DEF a, b
      <4>2. IsFiniteSet(a .. b) /\ Cardinality(a .. b) = n
        BY <4>1, FS_Interval
      <4> QED
        BY <4>2 DEF a, b
    <3>2. IsFiniteSet(1 .. Reserve) /\ Cardinality(1 .. Reserve) = Reserve
      BY NumbersArePositive, FS_Interval
    <3> HIDE DEF N
    <3> QED
      BY <3>1, <3>2, FS_Product
  <2> HIDE DEF P
  <2>7. /\ Cardinality(ReservedIn(c, d) \cup P) =
              Cardinality(ReservedIn(c, d)) + Cardinality(P) - Cardinality({})
        /\ Cardinality(OwedIn(c, d) \cup P) =
              Cardinality(OwedIn(c, d)) + Cardinality(P) - Cardinality({})
    BY <1>3, <2>5, <2>6, FS_Union
  <2>8. Cardinality({}) = 0
    BY FS_EmptySet
  <2> QED
    BY <1>0, <1>3, <1>5, <2>2, <2>4, <2>6, <2>7, <2>8
<1>6. CASE d # today
  <2>1. HeldIn(e, d) = HeldIn(c, d)
    BY <1>1, <1>2, <1>6 DEF HeldIn
  <2>2. ReservedIn(e, d) = ReservedIn(c, d)
    BY <2>1 DEF ReservedIn
  <2>3. OwedIn(e, d) = OwedIn(c, d)
    BY <1>4, <2>2 DEF OwedIn
  <2> QED
    BY <1>0, <1>3, <1>6, <2>2, <2>3
<1> QED
  BY <1>5, <1>6

-----------------------------------------------------------------------------
(* Claims and rows as records. *)

LEMMA ClaimFields ==
  ASSUME NEW c \in ClaimType
  PROVE  /\ c.day \in 0 .. Days /\ c.left \in 0 .. Lease /\ c.spent \in 0 .. Reserve
         /\ c.stage \in Stages /\ c.outcome \in Outcomes
         /\ c.by \in Workers \cup {"nobody"} /\ c.prefix \in Prefixes \cup {"none"}
BY DEF ClaimType

LEMMA ClaimOrphaned ==
  ASSUME NEW c \in ClaimType
  PROVE  [c EXCEPT !.orphan = TRUE] \in ClaimType
BY ZenonT(40) DEF ClaimType

LEMMA ClaimAges ==
  ASSUME NEW c \in ClaimType, NEW n \in 0 .. Lease
  PROVE  [c EXCEPT !.left = n] \in ClaimType
BY ZenonT(40) DEF ClaimType

LEMMA ClaimMoves ==
  ASSUME NEW c \in ClaimType, NEW s \in Stages
  PROVE  [c EXCEPT !.stage = s] \in ClaimType
BY ZenonT(40) DEF ClaimType

LEMMA ClaimSettles ==
  ASSUME NEW c \in ClaimType, NEW o \in Outcomes, NEW n \in 0 .. Reserve
  PROVE  [c EXCEPT !.stage = "settling", !.outcome = o, !.spent = n] \in ClaimType
<1>1. "settling" \in Stages
  BY DEF Stages
<1> QED
  BY <1>1, ZenonT(40) DEF ClaimType

\* What the updates leave alone.
LEMMA ClaimRest ==
  ASSUME NEW c \in ClaimType, NEW x, NEW o, NEW n
  PROVE  /\ LET q == [c EXCEPT !.orphan = TRUE] IN
            /\ q.by = c.by /\ q.prefix = c.prefix /\ q.day = c.day /\ q.left = c.left
            /\ q.stage = c.stage /\ q.outcome = c.outcome /\ q.spent = c.spent
         /\ LET q == [c EXCEPT !.left = x] IN
            /\ q.by = c.by /\ q.prefix = c.prefix /\ q.day = c.day /\ q.left = x
            /\ q.stage = c.stage /\ q.outcome = c.outcome /\ q.spent = c.spent
         /\ LET q == [c EXCEPT !.stage = x] IN
            /\ q.by = c.by /\ q.prefix = c.prefix /\ q.day = c.day /\ q.left = c.left
            /\ q.stage = x /\ q.outcome = c.outcome /\ q.spent = c.spent
         /\ LET q == [c EXCEPT !.stage = "settling", !.outcome = o, !.spent = n] IN
            /\ q.by = c.by /\ q.prefix = c.prefix /\ q.day = c.day /\ q.left = c.left
            /\ q.stage = "settling" /\ q.outcome = o /\ q.spent = n
BY DEF ClaimType

LEMMA OrphanRest ==
  ASSUME NEW c \in ClaimType, NEW x, NEW o, NEW n
  PROVE  /\ [c EXCEPT !.orphan = TRUE].orphan
         /\ [c EXCEPT !.left = x].orphan = c.orphan
         /\ [c EXCEPT !.stage = x].orphan = c.orphan
         /\ [c EXCEPT !.stage = "settling", !.outcome = o, !.spent = n].orphan = c.orphan
BY ZenonT(40) DEF ClaimType

LEMMA NoClaimType == NoClaim \in ClaimType
BY NumbersArePositive DEF NoClaim, ClaimType, Stages, Outcomes

\* A claim as warm_due_claim makes it.
NewClaim(w, d, x) == [NoClaim EXCEPT !.by = w, !.day = d, !.left = Lease,
                                     !.stage = "claimed", !.prefix = x]

LEMMA NewClaimType ==
  ASSUME NEW w \in Workers, NEW d \in 1 .. Days, NEW x \in Prefixes
  PROVE  /\ NewClaim(w, d, x) \in ClaimType
         /\ NewClaim(w, d, x).by = w /\ NewClaim(w, d, x).day = d
         /\ NewClaim(w, d, x).left = Lease /\ NewClaim(w, d, x).prefix = x
         /\ NewClaim(w, d, x).stage # "none" /\ Booking(NewClaim(w, d, x)) = 0
<1> DEFINE q == [NoClaim EXCEPT !.by = w, !.day = d, !.left = Lease,
                                !.stage = "claimed", !.prefix = x]
<1>1. "claimed" \in Stages /\ Lease \in 0 .. Lease /\ d \in 0 .. Days
  BY NumbersArePositive DEF Stages
<1>2. q \in ClaimType
  BY <1>1, NoClaimType, ZenonT(40) DEF ClaimType
<1>3. q.by = w /\ q.day = d /\ q.left = Lease /\ q.prefix = x /\ q.stage = "claimed"
  BY NoClaimType DEF ClaimType
<1> QED
  BY <1>2, <1>3 DEF Booking, NewClaim

LEMMA RowFields ==
  ASSUME NEW r \in RowType
  PROVE  /\ r.due \in 0 .. Longest /\ r.token \in 0 .. MaxClaims /\ r.misses \in 0 .. StopLoss
         /\ r.pings \in Nat /\ r.on \in 0 .. Days
BY DEF RowType

LEMMA NoRowType == NoRow \in RowType /\ ~NoRow.here /\ NoRow.token = 0
BY NumbersArePositive, LongestOfBoth DEF NoRow, RowType

LEMMA RowObserved ==
  ASSUME NEW r \in RowType, NEW n \in 0 .. Longest, NEW m \in 0 .. StopLoss
  PROVE  /\ [r EXCEPT !.active = TRUE, !.due = n, !.misses = m] \in RowType
         /\ [NoRow EXCEPT !.here = TRUE, !.active = TRUE, !.due = n] \in RowType
         /\ [NoRow EXCEPT !.here = TRUE, !.active = TRUE, !.due = n].token = 0
<1>1. [r EXCEPT !.active = TRUE, !.due = n, !.misses = m] \in RowType
  BY ZenonT(40) DEF RowType
<1>2. [NoRow EXCEPT !.here = TRUE, !.active = TRUE, !.due = n] \in RowType
  BY NoRowType, ZenonT(40) DEF RowType
<1>3. [NoRow EXCEPT !.here = TRUE, !.active = TRUE, !.due = n].token = 0
  BY NoRowType DEF RowType
<1> QED
  BY <1>1, <1>2, <1>3

LEMMA RowClaimed ==
  ASSUME NEW r \in RowType, NEW n \in 0 .. Longest, NEW t \in 0 .. MaxClaims
  PROVE  [r EXCEPT !.due = n, !.token = t] \in RowType
BY ZenonT(40) DEF RowType

LEMMA RowAges ==
  ASSUME NEW r \in RowType, NEW n \in 0 .. Longest
  PROVE  [r EXCEPT !.due = n] \in RowType
BY ZenonT(40) DEF RowType

LEMMA RowSettled ==
  ASSUME NEW r \in RowType, NEW n \in 0 .. Longest, NEW m \in 0 .. StopLoss, NEW k \in Nat,
         NEW d \in 0 .. Days
  PROVE  /\ [r EXCEPT !.misses = m, !.due = n, !.token = 0, !.pings = k, !.on = d] \in RowType
         /\ [r EXCEPT !.token = 0] \in RowType
         /\ [r EXCEPT !.token = 0, !.active = FALSE] \in RowType
<1>1. 0 \in 0 .. MaxClaims
  BY NumbersArePositive
<1>2. [r EXCEPT !.misses = m, !.due = n, !.token = 0, !.pings = k, !.on = d] \in RowType
  BY <1>1, ZenonT(40) DEF RowType
<1>3. [r EXCEPT !.token = 0] \in RowType
  BY <1>1, ZenonT(40) DEF RowType
<1>4. [r EXCEPT !.token = 0, !.active = FALSE] \in RowType
  BY <1>1, ZenonT(40) DEF RowType
<1> QED
  BY <1>2, <1>3, <1>4

\* What the row of a claim is after live traffic, a claim and the clock.
LEMMA RowRest ==
  ASSUME NEW r \in RowType, NEW n, NEW m, NEW t
  PROVE  /\ LET q == [r EXCEPT !.active = TRUE, !.due = n, !.misses = m] IN
            q.due = n /\ q.token = r.token /\ q.misses = m /\ (q.here <=> r.here)
         /\ LET q == [r EXCEPT !.due = n, !.token = t] IN
            q.due = n /\ q.token = t /\ q.misses = r.misses /\ (q.here <=> r.here)
         /\ LET q == [r EXCEPT !.due = n] IN
            q.due = n /\ q.token = r.token /\ (q.here <=> r.here)
<1>1. \A q : /\ q = [r EXCEPT !.active = TRUE, !.due = n, !.misses = m]
                => q.due = n /\ q.token = r.token /\ q.misses = m
             /\ q = [r EXCEPT !.due = n, !.token = t]
                => q.due = n /\ q.token = t /\ q.misses = r.misses
             /\ q = [r EXCEPT !.due = n] => q.due = n /\ q.token = r.token
  BY DEF RowType
<1>2. /\ [r EXCEPT !.active = TRUE, !.due = n, !.misses = m].here = r.here
      /\ [r EXCEPT !.due = n, !.token = t].here = r.here
      /\ [r EXCEPT !.due = n].here = r.here
  BY ZenonT(40) DEF RowType
<1> QED
  BY <1>1, <1>2

-----------------------------------------------------------------------------
(* The inductive invariant. *)

LEMMA LeastToken ==
  ASSUME NEW T \in SUBSET Nat, T # {}
  PROVE  Min(T) \in T
<1> DEFINE Less == {ss \in Nat \X Nat : ss[1] < ss[2]}
<1>1. IsWellFoundedOn(Less, Nat)
  BY NatLessThanWellFounded DEF OpToRel
<1>2. \A y, m \in Nat : <<y, m>> \notin Less => m <= y
  OBVIOUS
<1>3. PICK m \in T : \A y \in T : <<y, m>> \notin Less
  <2> HIDE DEF Less
  <2> QED
    BY <1>1, WFMin
<1>4. \E z \in T : \A y \in T : z =< y
  BY <1>2, <1>3
<1> QED
  BY <1>4 DEF Min

LEMMA CurrentHeld ==
  ASSUME NEW w \in Workers, Batch(w) # {}
  PROVE  Current(w) \in Tokens /\ claim[Current(w)].by = w
<1>1. Batch(w) \in SUBSET Nat
  BY TokensFinite DEF Batch
<1>2. Min(Batch(w)) \in Batch(w)
  BY <1>1, LeastToken
<1> QED
  BY <1>2 DEF Batch, Current

\* Steps that leave the money and every booking alone, or that drop claims.
LEMMA MoneyKept ==
  ASSUME MoneyInv, UNCHANGED <<ledger, charged, granted>>,
         \A t \in Tokens : claim'[t].by = claim[t].by /\ claim'[t].day = claim[t].day
                           /\ Booking(claim'[t]) = Booking(claim[t])
  PROVE  MoneyInv'
<1>1. \A d \in 1 .. Days : /\ ReservedIn(claim', d) = ReservedIn(claim, d)
                           /\ OwedIn(claim', d) = OwedIn(claim, d)
  BY SameDollars
<1> QED
  BY <1>1 DEF MoneyInv, Covered

LEMMA MoneyDropped ==
  ASSUME Typed, MoneyInv, UNCHANGED <<ledger, charged, granted>>,
         \A t \in Tokens : claim'[t] = claim[t] \/ claim'[t] = NoClaim
  PROVE  MoneyInv'
<1> SUFFICES ASSUME NEW d \in 1 .. Days
             PROVE  Covered(ledger[d], charged[d], granted[d], claim', d)
  BY DEF MoneyInv
<1>1. /\ Cardinality(ReservedIn(claim', d)) <= Cardinality(ReservedIn(claim, d))
      /\ Cardinality(OwedIn(claim', d)) <= Cardinality(OwedIn(claim, d))
  BY FewerDollars
<1>2. /\ Cardinality(ReservedIn(claim, d)) \in Nat /\ Cardinality(OwedIn(claim, d)) \in Nat
      /\ Cardinality(ReservedIn(claim', d)) \in Nat /\ Cardinality(OwedIn(claim', d)) \in Nat
  BY ReservedFinite
<1>3. Covered(ledger[d], charged[d], granted[d], claim, d)
  BY DEF MoneyInv
<1>4. charged[d] \in Nat /\ ledger[d].reserved \in Nat /\ ledger[d].spent \in Nat
  BY DEF Typed, LedgerType
<1> QED
  BY <1>1, <1>2, <1>3, <1>4 DEF Covered

\* A step of a ping changes what its claim will book and nothing of whose it is.
LEMMA PingMoves ==
  ASSUME Inv, NEW t \in Tokens, claim[t].by \in Workers, NEW q \in ClaimType,
         q.by = claim[t].by, q.prefix = claim[t].prefix, q.day = claim[t].day,
         q.left = claim[t].left, q.orphan = claim[t].orphan, q.stage # "none",
         claim' = [claim EXCEPT ![t] = q], UNCHANGED <<cred, row, tokens, day, ledger>>
  PROVE  claim' \in ClaimTable /\ ClaimInv'
<1>1. claim \in ClaimTable
  BY DEF Inv, Typed
<1>2. \A u \in Tokens : claim'[u] = IF u = t THEN q ELSE claim[u]
  BY <1>1 DEF ClaimTable
<1>3. claim' \in ClaimTable
  BY <1>1 DEF ClaimTable
<1>4. ~(t > tokens)
  BY WarmingAssumption DEF Inv, ClaimInv, NoClaim
<1>5. Agrees(claim[t], t, row[claim[t].prefix]) => Agrees(q, t, row[q.prefix])
  BY DEF Agrees
<1> QED
  BY <1>2, <1>3, <1>4, <1>5 DEF Inv, ClaimInv

LEMMA InitInv == Init => Inv
<1> SUFFICES ASSUME Init PROVE Inv
  OBVIOUS
<1>1. Typed
  <2>1. cred \in CredType
    <3>1. PICK terms \in Terms :
            cred = [here |-> TRUE, enabled |-> terms.budget > 0, active |-> TRUE, terms |-> terms]
      BY DEF Init
    <3>2. CASE terms.budget > 0
      <4>1. (terms.budget > 0) = TRUE
        BY <3>2
      <4> QED
        BY <3>1, <4>1, ZenonT(40) DEF CredType
    <3>3. CASE ~(terms.budget > 0)
      <4>1. (terms.budget > 0) = FALSE
        BY <3>3
      <4> QED
        BY <3>1, <4>1, ZenonT(40) DEF CredType
    <3> QED
      BY <3>2, <3>3
  <2>2. row \in [Prefixes -> RowType]
    BY NoRowType DEF Init
  <2>3. claim \in ClaimTable
    BY NoClaimType DEF Init, ClaimTable
  <2>4. ledger \in [1 .. Days -> LedgerType] /\ charged \in [1 .. Days -> Nat]
        /\ granted \in [1 .. Days -> Budgets \cup {0}] /\ tokens \in 0 .. MaxClaims /\ day \in 1 .. Days
    BY NumbersArePositive DEF Init, LedgerType
  <2> QED
    BY <2>1, <2>2, <2>3, <2>4 DEF Typed
<1>2. ClaimInv
  BY WarmingAssumption DEF Init, ClaimInv, NoClaim
<1>3. ASSUME NEW d \in 1 .. Days
      PROVE  Covered(ledger[d], charged[d], granted[d], claim, d)
  <2>1. HeldIn(claim, d) = {}
    BY WarmingAssumption DEF Init, HeldIn, NoClaim
  <2>2. ReservedIn(claim, d) = {} /\ OwedIn(claim, d) = {}
    BY <2>1 DEF ReservedIn, OwedIn
  <2>3. Cardinality({}) = 0
    BY FS_EmptySet
  <2>4. charged[d] = 0 /\ granted[d] = 0 /\ ledger[d].reserved = 0 /\ ledger[d].spent = 0
    BY DEF Init
  <2> QED
    BY <2>2, <2>3, <2>4, NumbersArePositive DEF Covered
<1>4. StopInv
  BY DEF Init, StopInv, NoRow
<1> QED
  BY <1>1, <1>2, <1>3, <1>4 DEF Inv, MoneyInv

LEMMA ObserveInv ==
  ASSUME Inv, NEW x \in Prefixes, NEW cacheRead \in BOOLEAN, Observe(x, cacheRead)
  PROVE  Inv'
<1> DEFINE m == IF cacheRead THEN 0 ELSE row[x].misses
           old == [row[x] EXCEPT !.active = TRUE, !.due = NextDue(x), !.misses = m]
           new == [NoRow EXCEPT !.here = TRUE, !.active = TRUE, !.due = NextDue(x)]
           r == IF row[x].here THEN old ELSE new
<1>1. row \in [Prefixes -> RowType] /\ row[x] \in RowType
  BY DEF Inv, Typed
<1>2. row' = [row EXCEPT ![x] = r] /\ UNCHANGED <<cred, ledger, claim, tokens, day, charged, granted>>
  BY DEF Observe, histories
<1>3. NextDue(x) \in 0 .. Longest /\ m \in 0 .. StopLoss
  BY <1>1, RowFields, NumbersArePositive, LongestOfBoth DEF NextDue
<1>4. r \in RowType
  <2>1. old \in RowType /\ new \in RowType
    <3> HIDE DEF m
    <3> QED
      BY <1>1, <1>3, RowObserved
  <2> HIDE DEF old, new
  <2> QED
    BY <2>1
<1>5. row[x].here => (r.here /\ r.token = row[x].token /\ r.due = NextDue(x))
  <2> HIDE DEF m
  <2>1. old.due = NextDue(x) /\ old.token = row[x].token /\ (old.here <=> row[x].here)
    BY <1>1, RowRest
  <2> HIDE DEF old, new
  <2> QED
    BY <2>1
<1>6. StopInv'
  <2>1. old.token = row[x].token /\ old.misses = m
    <3> HIDE DEF m
    <3> QED
      BY <1>1, RowRest
  <2>2. new.token = 0
    BY <1>1, <1>3, RowObserved
  <2>3. row[x].token # 0 => m < StopLoss
    BY NumbersArePositive DEF Inv, StopInv
  <2> HIDE DEF old, new, m
  <2>4. r.token # 0 => r.misses < StopLoss
    BY <2>1, <2>2, <2>3
  <2> HIDE DEF r
  <2> QED
    BY <1>1, <1>2, <2>4 DEF Inv, StopInv
<1> HIDE DEF r
<1>7. \A y \in Prefixes : row'[y] = IF y = x THEN r ELSE row[y]
  BY <1>1, <1>2
<1>8. Typed'
  <2>1. row' \in [Prefixes -> RowType]
    BY <1>1, <1>2, <1>4
  <2> QED
    BY <1>2, <2>1 DEF Inv, Typed
<1>9. ASSUME NEW t \in Tokens, claim[t].by \in Workers
      PROVE  Agrees(claim[t], t, row'[claim[t].prefix])
  <2>1. claim[t].prefix \in Prefixes /\ Agrees(claim[t], t, row[claim[t].prefix])
    BY <1>9 DEF Inv, ClaimInv
  <2>2. t # 0
    BY NumbersArePositive DEF Tokens
  <2>3. CASE claim[t].prefix = x
    BY <1>5, <1>7, <2>1, <2>2, <2>3 DEF Agrees, NextDue
  <2>4. CASE claim[t].prefix # x
    BY <1>7, <2>1, <2>4
  <2> QED
    BY <2>3, <2>4
<1>10. ClaimInv'
  BY <1>2, <1>9 DEF Inv, ClaimInv
<1>11. MoneyInv'
  BY <1>2, MoneyKept DEF Inv
<1> QED
  BY <1>6, <1>8, <1>10, <1>11 DEF Inv

LEMMA SaveInv ==
  ASSUME Inv, NEW enabled \in BOOLEAN, NEW new \in BOOLEAN,
         NEW terms \in Terms, SaveCredential(enabled, new, terms)
  PROVE  Inv'
<1>1. /\ cred' = [here |-> TRUE, enabled |-> enabled, active |-> new \/ cred.active,
                   terms |-> terms]
      /\ UNCHANGED <<row, ledger, claim, tokens, day, charged, granted>>
  BY DEF SaveCredential, histories
<1>2. PICK b \in BOOLEAN : b = (new \/ cred.active)
  OBVIOUS
<1>3. cred' \in CredType
  BY <1>1, <1>2, ZenonT(40) DEF CredType
<1>4. MoneyInv'
  BY <1>1, MoneyKept DEF Inv
<1> QED
  BY <1>1, <1>3, <1>4 DEF Inv, Typed, ClaimInv, StopInv

LEMMA PurgeInv ==
  ASSUME Inv, PurgeCredential
  PROVE  Inv'
<1>1. /\ cred' = NoCredential
      /\ row' = [x \in Prefixes |-> NoRow]
      /\ claim' = [t \in Tokens |-> IF claim[t].by \in Workers
                                    THEN [claim[t] EXCEPT !.orphan = TRUE] ELSE claim[t]]
      /\ UNCHANGED <<ledger, tokens, day, charged, granted>>
  BY DEF PurgeCredential, histories
<1>2. claim \in ClaimTable /\ \A t \in Tokens : claim[t] \in ClaimType
  BY DEF Inv, Typed, ClaimTable
<1>3. Typed'
  <2>1. cred' \in CredType
    BY <1>1, ZenonT(40) DEF CredType, NoCredential
  <2>2. row' \in [Prefixes -> RowType]
    BY <1>1, NoRowType
  <2>3. claim' \in ClaimTable
    BY <1>1, <1>2, ClaimOrphaned DEF ClaimTable
  <2> QED
    BY <1>1, <2>1, <2>2, <2>3 DEF Inv, Typed
<1>4. ASSUME NEW t \in Tokens, claim[t].by \in Workers
      PROVE  claim'[t].orphan
  BY <1>1, <1>2, <1>4, OrphanRest
<1>5. \A t \in Tokens : /\ claim'[t].by = claim[t].by /\ claim'[t].prefix = claim[t].prefix
                        /\ claim'[t].day = claim[t].day
                        /\ Booking(claim'[t]) = Booking(claim[t])
                        /\ claim[t].by \notin Workers => claim'[t] = claim[t]
  BY <1>1, <1>2, ClaimRest DEF Booking
<1>6. ClaimInv'
  <2>1. \A t \in Tokens : t > tokens => claim[t].by \notin Workers
    BY WarmingAssumption DEF Inv, ClaimInv, NoClaim
  <2>2. \A t \in Tokens : t > tokens => claim'[t] = NoClaim
    BY <1>5, <2>1 DEF Inv, ClaimInv
  <2> QED
    BY <1>1, <1>4, <1>5, <2>2 DEF Inv, ClaimInv, Agrees
<1>7. MoneyInv'
  BY <1>1, <1>5, MoneyKept DEF Inv
<1>8. StopInv'
  BY <1>1, NoRowType DEF StopInv
<1> QED
  BY <1>3, <1>6, <1>7, <1>8 DEF Inv

LEMMA GrantedType ==
  ASSUME Typed, NEW d \in 1 .. Days
  PROVE  granted[d] \in Nat
<1>1. granted[d] \in Budgets \cup {0}
  BY DEF Typed
<1>2. \A g \in Budgets \cup {0} : g \in Nat
  BY NumbersArePositive
<1> QED
  BY <1>1, <1>2

LEMMA BudgetType ==
  ASSUME Typed
  PROVE  cred.terms.budget \in Budgets \cup {0}
<1>1. cred.terms \in Terms \cup {NoTerms}
  BY DEF Typed, CredType
<1> QED
  BY <1>1 DEF Terms, NoTerms

LEMMA ClaimKeepsInv ==
  ASSUME Inv, NEW w \in Workers, Claim(w)
  PROVE  Inv'
<1>1. PICK xs \in (SUBSET Candidates) \ {{}} :
        /\ tokens + Cardinality(xs) <= MaxClaims
        /\ HasBudget(Cardinality(xs))
        /\ \E name \in Bijection(xs, tokens + 1 .. tokens + Cardinality(xs)) :
              /\ row' = [x \in Prefixes |->
                           IF x \in xs
                           THEN [row[x] EXCEPT !.due = Lease, !.token = name[x]]
                           ELSE row[x]]
              /\ claim' = [t \in Tokens |->
                             IF \E x \in xs : name[x] = t
                             THEN [NoClaim EXCEPT !.by = w, !.day = day, !.left = Lease,
                                     !.stage = "claimed",
                                     !.prefix = CHOOSE x \in xs : name[x] = t]
                             ELSE claim[t]]
        /\ ledger' = [ledger EXCEPT ![day].reserved = @ + Cardinality(xs) * Reserve]
        /\ tokens' = tokens + Cardinality(xs)
  BY DEF Claim
<1> DEFINE n == Cardinality(xs)
           N == tokens + 1 .. tokens + n
<1>2. PICK name \in Bijection(xs, N) :
        /\ row' = [x \in Prefixes |->
                     IF x \in xs
                     THEN [row[x] EXCEPT !.due = Lease, !.token = name[x]]
                     ELSE row[x]]
        /\ claim' = [t \in Tokens |->
                       IF \E x \in xs : name[x] = t
                       THEN [NoClaim EXCEPT !.by = w, !.day = day, !.left = Lease,
                               !.stage = "claimed",
                               !.prefix = CHOOSE x \in xs : name[x] = t]
                       ELSE claim[t]]
  BY <1>1
<1>3. /\ UNCHANGED <<cred, day, charged>>
      /\ granted' = [granted EXCEPT ![day] = cred.terms.budget]
      /\ tokens + n <= MaxClaims /\ HasBudget(n)
      /\ ledger' = [ledger EXCEPT ![day].reserved = @ + n * Reserve]
      /\ tokens' = tokens + n
  BY <1>1 DEF Claim
<1>4. /\ row \in [Prefixes -> RowType] /\ claim \in ClaimTable
      /\ ledger \in [1 .. Days -> LedgerType] /\ charged \in [1 .. Days -> Nat]
      /\ tokens \in Nat /\ day \in 1 .. Days /\ MaxClaims \in Nat
  BY NumbersArePositive DEF Inv, Typed
<1>5. /\ xs \subseteq Prefixes
      /\ \A x \in xs : row[x].here /\ row[x].due = 0 /\ row[x].misses < StopLoss
  BY DEF Candidates
<1>6. n \in Nat
  BY <1>5, WarmingAssumption, FS_Subset, FS_CardinalityType
<1> HIDE DEF n
<1>7. N \subseteq Tokens /\ \A t \in N : t \in Nat /\ t > tokens
  BY <1>3, <1>4, <1>6 DEF Tokens
<1>8. /\ \A x \in xs : name[x] \in N
      /\ \A t \in N : \E x \in xs : name[x] = t
  BY <1>2 DEF Bijection, Injection, Surjection
<1>9. ASSUME NEW t \in N
      PROVE  \E x \in xs :
               /\ name[x] = t
               /\ claim'[t] = [NoClaim EXCEPT !.by = w, !.day = day, !.left = Lease,
                                             !.stage = "claimed", !.prefix = x]
  <2>1. (CHOOSE x \in xs : name[x] = t) \in xs /\ name[CHOOSE x \in xs : name[x] = t] = t
    BY <1>8
  <2> QED
    BY <1>2, <1>7, <1>8, <2>1
<1>10. ASSUME NEW t \in N
       PROVE  /\ claim'[t] \in ClaimType
              /\ claim'[t].by = w /\ claim'[t].day = day /\ claim'[t].left = Lease
              /\ claim'[t].prefix \in xs /\ name[claim'[t].prefix] = t
              /\ claim'[t].stage # "none" /\ Booking(claim'[t]) = 0
  <2>1. PICK x \in xs :
          /\ name[x] = t
          /\ claim'[t] = [NoClaim EXCEPT !.by = w, !.day = day, !.left = Lease,
                                        !.stage = "claimed", !.prefix = x]
    BY <1>9
  <2>2. x \in Prefixes /\ day \in 1 .. Days
    BY <1>4, <1>5
  <2>3. claim'[t] = NewClaim(w, day, x)
    BY <2>1 DEF NewClaim
  <2> QED
    BY <2>1, <2>2, <2>3, NewClaimType
<1>11. \A t \in Tokens : t \notin N => claim'[t] = claim[t]
  BY <1>2, <1>8
<1>12. \A x \in xs : row'[x] \in RowType /\ row'[x].due = Lease /\ row'[x].token = name[x]
                    /\ row'[x].misses = row[x].misses /\ row'[x].here
  <2> SUFFICES ASSUME NEW x \in xs
               PROVE  row'[x] \in RowType /\ row'[x].due = Lease /\ row'[x].token = name[x]
                      /\ row'[x].misses = row[x].misses /\ row'[x].here
    OBVIOUS
  <2>1. row'[x] = [row[x] EXCEPT !.due = Lease, !.token = name[x]] /\ row[x] \in RowType
    BY <1>2, <1>4, <1>5
  <2>2. Lease \in 0 .. Longest /\ name[x] \in 0 .. MaxClaims
    BY <1>7, <1>8, NumbersArePositive, LongestOfBoth DEF Tokens
  <2> DEFINE r == row[x]
             q == [r EXCEPT !.due = Lease, !.token = name[x]]
  <2>3. q \in RowType
    BY <2>1, <2>2, RowClaimed
  <2>4. q.due = Lease /\ q.token = name[x] /\ q.misses = r.misses /\ (q.here <=> r.here)
    BY <2>1, RowRest
  <2>5. row'[x] = q /\ r.here
    BY <1>5, <2>1
  <2> HIDE DEF q
  <2> QED
    BY <2>3, <2>4, <2>5
<1>13. \A x \in Prefixes \ xs : row'[x] = row[x]
  BY <1>2
<1>14. Typed'
  <2>0. cred.terms.budget \in Budgets \cup {0} /\ granted' \in [1 .. Days -> Budgets \cup {0}]
    BY <1>3, BudgetType DEF Inv, Typed
  <2>1. row' \in [Prefixes -> RowType]
    <3>1. \A x \in Prefixes : row'[x] \in RowType
      BY <1>4, <1>12, <1>13
    <3> QED
      BY <1>2, <3>1
  <2>2. claim' \in ClaimTable
    <3>1. \A t \in Tokens : claim'[t] \in ClaimType
      BY <1>4, <1>10, <1>11 DEF ClaimTable
    <3> QED
      BY <1>2, <3>1 DEF ClaimTable
  <2>3. n * Reserve \in Nat
    BY <1>6, NumbersArePositive
  <2>4. ledger' \in [1 .. Days -> LedgerType]
    <3> DEFINE k == n * Reserve
    <3>1. ledger' = [ledger EXCEPT ![day].reserved = @ + k] /\ k \in Nat
      BY <1>3, <2>3
    <3> HIDE DEF k
    <3> QED
      BY <1>4, <3>1 DEF LedgerType
  <2>5. tokens' \in 0 .. MaxClaims
    BY <1>3, <1>4, <1>6
  <2> QED
    BY <1>3, <2>0, <2>1, <2>2, <2>4, <2>5 DEF Inv, Typed
<1>15. ClaimInv'
  <2>1. tokens' = tokens + n
    BY <1>3
  <2>2. ASSUME NEW t \in Tokens, t > tokens'
        PROVE  claim'[t] = NoClaim
    <3>1. t \in Nat /\ t > tokens /\ t \notin N
      BY <1>4, <1>6, <2>1, <2>2, TokensFinite
    <3> QED
      BY <1>11, <3>1 DEF Inv, ClaimInv
  <2>3. ASSUME NEW t \in Tokens, claim'[t].by \in Workers
        PROVE  /\ claim'[t].prefix \in Prefixes /\ claim'[t].day \in 1 .. Days
               /\ claim'[t].stage # "none" /\ Agrees(claim'[t], t, row'[claim'[t].prefix])
    <3>1. CASE t \in N
      BY <1>4, <1>5, <1>10, <1>12, <3>1 DEF Agrees
    <3>2. CASE t \notin N
      <4>1. claim'[t] = claim[t]
        BY <1>11, <3>2
      <4>2. /\ claim[t].prefix \in Prefixes /\ claim[t].day \in 1 .. Days
            /\ claim[t].stage # "none" /\ Agrees(claim[t], t, row[claim[t].prefix])
        BY <2>3, <4>1 DEF Inv, ClaimInv
      <4>3. CASE claim[t].prefix \in xs
        BY <1>5, <4>1, <4>2, <4>3 DEF Agrees
      <4>4. CASE claim[t].prefix \notin xs
        BY <1>13, <4>1, <4>2, <4>4
      <4> QED
        BY <4>3, <4>4
    <3> QED
      BY <3>1, <3>2
  <2>4. \A t \in Tokens : claim'[t].by \notin Workers => claim'[t] = NoClaim
    BY <1>10, <1>11 DEF Inv, ClaimInv
  <2> QED
    BY <2>2, <2>3, <2>4 DEF ClaimInv
<1>16. ASSUME NEW d \in 1 .. Days
       PROVE  Covered(ledger'[d], charged'[d], granted'[d], claim', d)
  <2>1. /\ n * Reserve \in Nat
        /\ Cardinality(ReservedIn(claim', d)) =
              Cardinality(ReservedIn(claim, d)) + IF d = day THEN n * Reserve ELSE 0
        /\ Cardinality(OwedIn(claim', d)) =
              Cardinality(OwedIn(claim, d)) + IF d = day THEN n * Reserve ELSE 0
    <3>1. \A t \in Tokens : t > tokens => claim[t] = NoClaim
      BY DEF Inv, ClaimInv
    <3>2. tokens + n <= MaxClaims
      BY <1>3
    <3>3. \A t \in tokens + 1 .. tokens + n :
             claim'[t].by \in Workers /\ claim'[t].day = day /\ Booking(claim'[t]) = 0
      BY <1>10
    <3>4. \A t \in Tokens : t \notin tokens + 1 .. tokens + n => claim'[t] = claim[t]
      BY <1>11
    <3>5. Adds(claim, claim', tokens, n, day)
      BY <3>1, <3>3, <3>4 DEF Adds
    <3> DEFINE e == claim'
               c == claim
               k == tokens
               today == day
    <3>6. c \in ClaimTable /\ k \in Nat /\ k + n <= MaxClaims /\ Adds(c, e, k, n, today)
      BY <1>4, <3>2, <3>5
    <3> HIDE DEF e, c, k, today, N
    <3>7. /\ n * Reserve \in Nat
          /\ Cardinality(ReservedIn(e, d)) =
                Cardinality(ReservedIn(c, d)) + IF d = today THEN n * Reserve ELSE 0
          /\ Cardinality(OwedIn(e, d)) =
                Cardinality(OwedIn(c, d)) + IF d = today THEN n * Reserve ELSE 0
      BY <1>6, <3>6, ClaimedDollars
    <3> QED
      BY <3>7 DEF e, c, k, today
  <2>2. Cardinality(ReservedIn(claim, d)) \in Nat /\ Cardinality(OwedIn(claim, d)) \in Nat
    BY ReservedFinite
  <2>3. Covered(ledger[d], charged[d], granted[d], claim, d)
    BY DEF Inv, MoneyInv
  <2>4. charged[d] \in Nat /\ ledger[d].reserved \in Nat /\ ledger[d].spent \in Nat
    BY <1>4 DEF LedgerType
  <2> DEFINE k == n * Reserve
  <2>5. /\ ledger'[d].spent = ledger[d].spent
        /\ ledger'[d].reserved = ledger[d].reserved + IF d = day THEN k ELSE 0
    <3>1. ledger' = [ledger EXCEPT ![day].reserved = @ + k]
      BY <1>3
    <3> HIDE DEF k
    <3> QED
      BY <1>4, <2>4, <3>1 DEF LedgerType
  <2>6. d = day => ledger[d].reserved + ledger[d].spent + k <= granted'[d]
    <3>1. granted \in [1 .. Days -> Budgets \cup {0}]
      BY DEF Inv, Typed
    <3> QED
      BY <1>3, <3>1 DEF HasBudget
  <2>7. /\ k \in Nat /\ granted'[d] \in Nat /\ charged'[d] = charged[d]
        /\ d # day => granted'[d] = granted[d]
    <3>1. granted' \in [1 .. Days -> Budgets \cup {0}] /\ granted \in [1 .. Days -> Budgets \cup {0}]
      BY <1>14 DEF Inv, Typed
    <3> QED
      BY <1>3, <2>1, <3>1, NumbersArePositive
  <2>8. /\ Cardinality(ReservedIn(claim', d)) =
              Cardinality(ReservedIn(claim, d)) + IF d = day THEN k ELSE 0
        /\ Cardinality(OwedIn(claim', d)) =
              Cardinality(OwedIn(claim, d)) + IF d = day THEN k ELSE 0
    BY <2>1
  <2>9. /\ Cardinality(ReservedIn(claim, d)) <= ledger[d].reserved
        /\ charged[d] + Cardinality(OwedIn(claim, d)) <= ledger[d].reserved + ledger[d].spent
        /\ ledger[d].reserved + ledger[d].spent <= granted[d]
    BY <2>3 DEF Covered
  <2> HIDE DEF k
  <2>10. /\ Cardinality(ReservedIn(claim', d)) <= ledger'[d].reserved
         /\ charged'[d] + Cardinality(OwedIn(claim', d)) <= ledger'[d].reserved + ledger'[d].spent
         /\ ledger'[d].reserved + ledger'[d].spent <= granted'[d]
    <3>1. PICK a \in {0, k} :
            /\ ledger'[d].reserved = ledger[d].reserved + a
            /\ Cardinality(ReservedIn(claim', d)) = Cardinality(ReservedIn(claim, d)) + a
            /\ Cardinality(OwedIn(claim', d)) = Cardinality(OwedIn(claim, d)) + a
            /\ ledger[d].reserved + ledger[d].spent + a <= granted'[d]
      <4>1. CASE d = day
        BY <2>5, <2>6, <2>8, <4>1
      <4>2. CASE d # day
        BY <2>4, <2>5, <2>7, <2>8, <2>9, <4>2
      <4> QED
        BY <4>1, <4>2
    <3>2. a \in Nat
      BY <2>7
    <3> DEFINE R == Cardinality(ReservedIn(claim, d))
               O == Cardinality(OwedIn(claim, d))
               r == ledger[d].reserved
               s == ledger[d].spent
               paid == charged[d]
               g == granted'[d]
    <3>3. /\ R \in Nat /\ O \in Nat /\ r \in Nat /\ s \in Nat /\ paid \in Nat
          /\ R <= r /\ paid + O <= r + s /\ r + s + a <= g /\ g \in Nat
      BY <2>2, <2>4, <2>7, <2>9, <3>1
    <3>4. /\ ledger'[d].reserved = r + a /\ ledger'[d].spent = s /\ charged'[d] = paid
          /\ granted'[d] = g
          /\ Cardinality(ReservedIn(claim', d)) = R + a
          /\ Cardinality(OwedIn(claim', d)) = O + a
      BY <2>5, <2>7, <3>1
    <3> HIDE DEF R, O, r, s, paid, g
    <3>5. /\ R + a <= r + a /\ paid + (O + a) <= (r + a) + s /\ (r + a) + s <= g
      BY <3>2, <3>3
    <3> QED
      BY <3>4, <3>5
  <2> QED
    BY <2>10 DEF Covered
<1>17. StopInv'
  <2>1. \A x \in xs : row'[x].misses = row[x].misses /\ row[x].misses < StopLoss
    BY <1>5, <1>12
  <2> QED
    BY <1>12, <1>13, <2>1 DEF Inv, StopInv
<1> QED
  BY <1>14, <1>15, <1>16, <1>17 DEF Inv, MoneyInv

\* The claim of a ping that has been settled in memory.
Settled(c, o, n) == [c EXCEPT !.stage = "settling", !.outcome = o, !.spent = n]

LEMMA SettledFields ==
  ASSUME NEW c \in ClaimType, NEW o \in Outcomes, NEW n \in 0 .. Reserve
  PROVE  /\ Settled(c, o, n) \in ClaimType
         /\ Settled(c, o, n).by = c.by /\ Settled(c, o, n).prefix = c.prefix
         /\ Settled(c, o, n).day = c.day /\ Settled(c, o, n).left = c.left
         /\ Settled(c, o, n).orphan = c.orphan /\ Settled(c, o, n).stage # "none"
         /\ Booking(Settled(c, o, n)) = IF o = "warmed" THEN n ELSE 0
<1> DEFINE q == [c EXCEPT !.stage = "settling", !.outcome = o, !.spent = n]
<1>1. q \in ClaimType
  BY ClaimSettles
<1>2. /\ q.by = c.by /\ q.prefix = c.prefix /\ q.day = c.day /\ q.left = c.left
      /\ q.stage = "settling" /\ q.outcome = o /\ q.spent = n
  BY ClaimRest
<1>3. q.orphan = c.orphan
  BY OrphanRest
<1>4. Booking(q) = IF o = "warmed" THEN n ELSE 0
  <2> HIDE DEF q
  <2> QED
    BY <1>2 DEF Booking
<1>5. Settled(c, o, n) = q
  BY DEF Settled
<1> HIDE DEF q
<1> QED
  BY <1>1, <1>2, <1>3, <1>4, <1>5

LEMMA SettlesClaim ==
  ASSUME Inv, NEW t \in Tokens, claim[t].by \in Workers,
         NEW o \in Outcomes, NEW n \in 0 .. Reserve, Settles(t, o, n),
         UNCHANGED <<cred, row, ledger, tokens, day>>
  PROVE  /\ claim' = [claim EXCEPT ![t] = Settled(claim[t], o, n)]
         /\ claim' \in ClaimTable /\ ClaimInv'
<1>1. claim[t] \in ClaimType
  BY DEF Inv, Typed, ClaimTable
<1>2. claim' = [claim EXCEPT ![t] = Settled(claim[t], o, n)]
  BY DEF Settles, Settled
<1> DEFINE q == Settled(claim[t], o, n)
<1>3. /\ q \in ClaimType
      /\ q.by = claim[t].by /\ q.prefix = claim[t].prefix /\ q.day = claim[t].day
      /\ q.left = claim[t].left /\ q.orphan = claim[t].orphan /\ q.stage # "none"
  BY <1>1, SettledFields
<1>4. claim' = [claim EXCEPT ![t] = q]
  BY <1>2
<1> HIDE DEF q
<1>5. claim' \in ClaimTable /\ ClaimInv'
  BY <1>3, <1>4, PingMoves
<1> QED
  BY <1>4, <1>5 DEF q

\* A ping that costs nothing leaves the money alone.
LEMMA SettlesNothing ==
  ASSUME Inv, NEW t \in Tokens, claim[t].by \in Workers, claim[t].stage # "settling",
         NEW o \in Outcomes, o # "warmed", Settles(t, o, 0),
         UNCHANGED <<cred, row, ledger, tokens, day, charged, granted>>
  PROVE  Inv'
<1>1. 0 \in 0 .. Reserve
  BY NumbersArePositive
<1>2. /\ claim' = [claim EXCEPT ![t] = Settled(claim[t], o, 0)]
      /\ claim' \in ClaimTable /\ ClaimInv'
  BY <1>1, SettlesClaim
<1>3. claim \in ClaimTable /\ claim[t] \in ClaimType
  BY DEF Inv, Typed, ClaimTable
<1>4. \A u \in Tokens : claim'[u] = IF u = t THEN Settled(claim[t], o, 0) ELSE claim[u]
  BY <1>2, <1>3 DEF ClaimTable
<1>5. /\ Booking(claim[t]) = 0 /\ Booking(Settled(claim[t], o, 0)) = 0
      /\ Settled(claim[t], o, 0).by = claim[t].by /\ Settled(claim[t], o, 0).day = claim[t].day
  <2>1. Booking(claim[t]) = 0
    BY DEF Booking
  <2> QED
    BY <1>1, <1>3, <2>1, SettledFields
<1>6. \A u \in Tokens : claim'[u].by = claim[u].by /\ claim'[u].day = claim[u].day
                        /\ Booking(claim'[u]) = Booking(claim[u])
  BY <1>4, <1>5
<1>7. MoneyInv'
  BY <1>6, MoneyKept DEF Inv
<1>8. Typed'
  BY <1>2 DEF Inv, Typed
<1> QED
  BY <1>2, <1>7, <1>8 DEF Inv, StopInv

LEMMA SkipInv ==
  ASSUME Inv, NEW w \in Workers, SkipPing(w)
  PROVE  Inv'
<1>1. /\ Current(w) \in Tokens /\ claim[Current(w)].by \in Workers
      /\ claim[Current(w)].stage # "settling"
  BY CurrentHeld DEF SkipPing, First, Current
<1>2. PICK o \in {"release", "prefix_invalid"} : Settles(Current(w), o, 0)
  BY DEF SkipPing
<1>3. o \in Outcomes /\ o # "warmed"
  BY DEF Outcomes
<1>4. UNCHANGED <<cred, row, ledger, tokens, day, charged, granted>>
  BY DEF SkipPing, histories
<1> QED
  BY <1>1, <1>2, <1>3, <1>4, SettlesNothing

LEMMA SendInv ==
  ASSUME Inv, NEW w \in Workers, SendPing(w)
  PROVE  Inv'
<1> DEFINE t == Current(w)
           q == [claim[t] EXCEPT !.stage = "pinging"]
<1>1. /\ t \in Tokens /\ claim[t].by \in Workers /\ claim[t].stage = "claimed"
      /\ UNCHANGED <<cred, row, ledger, tokens, day, charged, granted>>
      /\ claim' = [claim EXCEPT ![t] = q]
  BY CurrentHeld DEF SendPing, First, Current, histories
<1>2. claim \in ClaimTable /\ claim[t] \in ClaimType
  BY <1>1 DEF Inv, Typed, ClaimTable
<1>3. q \in ClaimType
  BY <1>2, ClaimMoves DEF Stages
<1>4. /\ q.by = claim[t].by /\ q.prefix = claim[t].prefix /\ q.day = claim[t].day
      /\ q.left = claim[t].left /\ q.stage = "pinging"
  BY <1>2, ClaimRest
<1>5. q.orphan = claim[t].orphan
  BY <1>2, OrphanRest
<1> HIDE DEF t, q
<1>6. claim' \in ClaimTable /\ ClaimInv'
  BY <1>1, <1>3, <1>4, <1>5, PingMoves
<1>7. \A u \in Tokens : claim'[u] = IF u = t THEN q ELSE claim[u]
  BY <1>1, <1>2 DEF ClaimTable
<1>8. Booking(claim[t]) = 0 /\ Booking(q) = 0
  BY <1>1, <1>4 DEF Booking
<1>9. MoneyInv'
  BY <1>1, <1>4, <1>7, <1>8, MoneyKept DEF Inv
<1>10. Typed'
  BY <1>1, <1>6 DEF Inv, Typed
<1> QED
  BY <1>1, <1>6, <1>9, <1>10 DEF Inv, StopInv

LEMMA AnswerInv ==
  ASSUME Inv, NEW w \in Workers, PingAnswered(w)
  PROVE  Inv'
<1> DEFINE t == Current(w)
<1>1. /\ t \in Tokens /\ claim[t].by \in Workers /\ claim[t].stage = "pinging"
      /\ UNCHANGED <<cred, row, ledger, tokens, day, granted>>
  BY CurrentHeld DEF PingAnswered
<1>2. \/ \E o \in {"release", "prefix_invalid", "auth_failed"} :
           Settles(t, o, 0) /\ UNCHANGED charged
      \/ \E cost \in 1 .. Reserve :
           /\ charged' = [charged EXCEPT ![claim[t].day] = @ + cost]
           /\ Settles(t, "warmed", cost) \/ Settles(t, Booked.outcome, Booked.spent)
  BY DEF PingAnswered
<1> HIDE DEF t
<1>3. CASE \E o \in {"release", "prefix_invalid", "auth_failed"} :
              Settles(t, o, 0) /\ UNCHANGED charged
  <2>1. PICK o \in {"release", "prefix_invalid", "auth_failed"} :
          Settles(t, o, 0) /\ UNCHANGED charged
    BY <1>3
  <2>2. o \in Outcomes /\ o # "warmed" /\ claim[t].stage # "settling"
    BY <1>1 DEF Outcomes
  <2> QED
    BY <1>1, <2>1, <2>2, SettlesNothing
<1>4. CASE \E cost \in 1 .. Reserve :
              /\ charged' = [charged EXCEPT ![claim[t].day] = @ + cost]
              /\ Settles(t, "warmed", cost) \/ Settles(t, Booked.outcome, Booked.spent)
  <2>1. PICK cost \in 1 .. Reserve :
           /\ charged' = [charged EXCEPT ![claim[t].day] = @ + cost]
           /\ Settles(t, "warmed", cost) \/ Settles(t, Booked.outcome, Booked.spent)
    BY <1>4
  <2>2. PICK n \in {cost, Reserve} : Settles(t, "warmed", n)
    BY <2>1 DEF Booked
  <2>3. n \in 0 .. Reserve /\ cost \in Nat /\ n \in Nat /\ cost <= n /\ "warmed" \in Outcomes
    BY NumbersArePositive DEF Outcomes
  <2> DEFINE q == Settled(claim[t], "warmed", n)
  <2>4. /\ claim' = [claim EXCEPT ![t] = q]
        /\ claim' \in ClaimTable /\ ClaimInv'
    BY <1>1, <2>2, <2>3, SettlesClaim
  <2>5. claim \in ClaimTable /\ claim[t] \in ClaimType /\ claim[t].day \in 1 .. Days
    BY <1>1 DEF Inv, Typed, ClaimTable, ClaimInv
  <2>6. q.by = claim[t].by /\ q.day = claim[t].day /\ Booking(q) = n
    BY <2>3, <2>5, SettledFields
  <2>7. Booking(claim[t]) = 0
    BY <1>1 DEF Booking
  <2>8. charged \in [1 .. Days -> Nat]
    BY DEF Inv, Typed
  <2>9. Typed'
    <3>1. charged' \in [1 .. Days -> Nat]
      BY <2>1, <2>3, <2>5, <2>8
    <3> QED
      BY <1>1, <2>4, <3>1 DEF Inv, Typed
  <2>10. ASSUME NEW d \in 1 .. Days
         PROVE  Covered(ledger'[d], charged'[d], granted'[d], claim', d)
    <3> HIDE DEF q
    <3>1. /\ ReservedIn(claim', d) = ReservedIn(claim, d)
          /\ Cardinality(OwedIn(claim', d)) =
               Cardinality(OwedIn(claim, d)) - IF claim[t].day = d THEN Booking(q) ELSE 0
      <4> DEFINE c == claim
                 e == claim'
      <4>1. /\ c \in ClaimTable /\ t \in Tokens /\ c[t].by \in Workers /\ Booking(c[t]) = 0
            /\ Booking(q) \in 0 .. Reserve /\ q.by = c[t].by /\ q.day = c[t].day
            /\ Changes(c, e, t, q)
        BY <1>1, <2>3, <2>4, <2>5, <2>6, <2>7 DEF Changes, ClaimTable
      <4> HIDE DEF c, e
      <4>2. /\ ReservedIn(e, d) = ReservedIn(c, d)
            /\ Cardinality(OwedIn(e, d)) =
                 Cardinality(OwedIn(c, d)) - IF c[t].day = d THEN Booking(q) ELSE 0
        BY <4>1, BookedDollars
      <4> QED
        BY <4>2 DEF c, e
    <3>2. Covered(ledger[d], charged[d], granted[d], claim, d)
      BY DEF Inv, MoneyInv
    <3>3. charged'[d] = IF claim[t].day = d THEN charged[d] + cost ELSE charged[d]
      BY <2>1, <2>8
    <3>4. /\ charged[d] \in Nat /\ ledger[d].reserved \in Nat /\ ledger[d].spent \in Nat
          /\ Cardinality(OwedIn(claim, d)) \in Nat
      BY <2>8, ReservedFinite DEF Inv, Typed, LedgerType
    <3>5. charged'[d] + Cardinality(OwedIn(claim', d)) <= charged[d] + Cardinality(OwedIn(claim, d))
      <4> DEFINE O == Cardinality(OwedIn(claim, d))
                 paid == charged[d]
      <4>1. CASE claim[t].day = d
        <5>1. charged'[d] = paid + cost /\ Cardinality(OwedIn(claim', d)) = O - n
          BY <2>6, <3>1, <3>3, <4>1
        <5>2. O \in Nat /\ paid \in Nat
          BY <3>4
        <5> HIDE DEF O, paid
        <5>3. charged'[d] + Cardinality(OwedIn(claim', d)) <= paid + O
          BY <2>3, <5>1, <5>2
        <5> QED
          BY <5>3 DEF O, paid
      <4>2. CASE claim[t].day # d
        <5>1. charged'[d] = charged[d] /\ Cardinality(OwedIn(claim', d)) = Cardinality(OwedIn(claim, d)) - 0
          BY <3>1, <3>3, <4>2
        <5> QED
          BY <3>4, <5>1
      <4> QED
        BY <4>1, <4>2
    <3>6. Cardinality(OwedIn(claim', d)) \in Nat /\ charged'[d] \in Nat
      BY <2>9, ReservedFinite DEF Typed
    <3> QED
      BY <1>1, <3>1, <3>2, <3>4, <3>5, <3>6 DEF Covered
  <2> QED
    BY <1>1, <2>4, <2>9, <2>10 DEF Inv, StopInv, MoneyInv
<1> QED
  BY <1>2, <1>3, <1>4

\* A claim that ends leaves the others with their rows, if a row changed it was its own.
LEMMA ClaimEnds ==
  ASSUME Inv, NEW t \in Tokens, claim' = [claim EXCEPT ![t] = NoClaim], tokens' = tokens,
         \A x \in Prefixes : row'[x] = row[x] \/ row[x].token = t
  PROVE  claim' \in ClaimTable /\ ClaimInv'
<1>1. claim \in ClaimTable
  BY DEF Inv, Typed
<1>2. claim' \in ClaimTable
  BY <1>1, NoClaimType DEF ClaimTable
<1>3. \A u \in Tokens : claim'[u] = IF u = t THEN NoClaim ELSE claim[u]
  BY <1>1 DEF ClaimTable
<1>4. NoClaim.by \notin Workers
  BY WarmingAssumption DEF NoClaim
<1>5. ASSUME NEW u \in Tokens, claim'[u].by \in Workers
      PROVE  /\ claim'[u].prefix \in Prefixes /\ claim'[u].day \in 1 .. Days
             /\ claim'[u].stage # "none" /\ Agrees(claim'[u], u, row'[claim'[u].prefix])
  <2>1. u # t /\ claim'[u] = claim[u]
    BY <1>3, <1>4, <1>5
  <2>2. /\ claim[u].prefix \in Prefixes /\ claim[u].day \in 1 .. Days
        /\ claim[u].stage # "none" /\ Agrees(claim[u], u, row[claim[u].prefix])
    BY <1>5, <2>1 DEF Inv, ClaimInv
  <2> QED
    BY <2>1, <2>2 DEF Agrees
<1>6. \A u \in Tokens : u > tokens => claim'[u] = NoClaim
  BY <1>3 DEF Inv, ClaimInv
<1>7. \A u \in Tokens : claim'[u].by \notin Workers => claim'[u] = NoClaim
  BY <1>3 DEF Inv, ClaimInv
<1> QED
  BY <1>2, <1>5, <1>6, <1>7 DEF ClaimInv

\* The row after the settlement of a claim it still has, or of one it lost.
LEMMA SettledRowType ==
  ASSUME Typed, StopInv, NEW x \in Prefixes, NEW t \in Tokens
  PROVE  /\ SettledRow(x, t) \in RowType
         /\ SettledRow(x, t).token = 0 \/ SettledRow(x, t) = row[x]
<1>1. row[x] \in RowType /\ day \in 0 .. Days
  BY NumbersArePositive DEF Typed
<1>2. CASE row[x].token # t
  BY <1>1, <1>2 DEF SettledRow
<1>3. CASE row[x].token = t
  <2> DEFINE k == IF row[x].on = day THEN row[x].pings + 1 ELSE 1
             m == row[x].misses + 1
             warmed == [row[x] EXCEPT !.misses = m, !.due = Due, !.token = 0,
                                      !.pings = k, !.on = day]
             released == [row[x] EXCEPT !.token = 0]
             stopped == [row[x] EXCEPT !.token = 0, !.active = FALSE]
  <2>1. row[x].misses < StopLoss
    BY <1>3, TokensFinite, NumbersArePositive DEF StopInv, Tokens
  <2>2. k \in Nat /\ m \in 0 .. StopLoss /\ Due \in 0 .. Longest
    BY <1>1, <2>1, RowFields, NumbersArePositive, LongestOfBoth
  <2>3. SettledRow(x, t) \in {row[x], warmed, released, stopped}
    BY DEF SettledRow
  <2>4. warmed.token = 0 /\ released.token = 0 /\ stopped.token = 0
    <3> HIDE DEF k, m
    <3> QED
      BY <1>1 DEF RowType
  <2>5. warmed \in RowType /\ released \in RowType /\ stopped \in RowType
    <3> HIDE DEF k, m
    <3> QED
      BY <1>1, <2>2, RowSettled
  <2> HIDE DEF warmed, released, stopped
  <2> QED
    BY <1>1, <2>3, <2>4, <2>5
<1> QED
  BY <1>2, <1>3

LEMMA SettleInv ==
  ASSUME Inv, NEW w \in Workers, SettlePing(w)
  PROVE  Inv'
<1> DEFINE t == Current(w)
<1>1. /\ t \in Tokens /\ claim[t].by \in Workers
      /\ claim[t].stage = "settling"
      /\ UNCHANGED <<tokens, day, charged, granted>>
      /\ claim' = [claim EXCEPT ![t] = NoClaim]
  BY CurrentHeld DEF SettlePing, histories
<1>2. \/ /\ ledger' = [ledger EXCEPT
                         ![claim[t].day].reserved = IF @ > Reserve THEN @ - Reserve ELSE 0,
                         ![claim[t].day].spent =
                           IF claim[t].outcome = "warmed" THEN @ + claim[t].spent ELSE @]
         /\ row' = [row EXCEPT ![claim[t].prefix] = SettledRow(claim[t].prefix, t)]
         /\ cred' = [cred EXCEPT !.active = @ /\ claim[t].outcome # "auth_failed"]
      \/ UNCHANGED <<ledger, row, cred>>
  BY DEF SettlePing
<1> HIDE DEF t
<1>3. /\ claim \in ClaimTable /\ claim[t] \in ClaimType
      /\ claim[t].day \in 1 .. Days /\ claim[t].prefix \in Prefixes
  BY <1>1 DEF Inv, Typed, ClaimTable, ClaimInv
<1>4. \A u \in Tokens : claim'[u] = IF u = t THEN NoClaim ELSE claim[u]
  BY <1>1, <1>3 DEF ClaimTable
<1>5. CASE UNCHANGED <<ledger, row, cred>>
  <2>1. claim' \in ClaimTable /\ ClaimInv'
    BY <1>1, <1>5, ClaimEnds
  <2>2. MoneyInv'
    BY <1>1, <1>4, <1>5, MoneyDropped DEF Inv
  <2>3. Typed'
    BY <1>1, <1>5, <2>1 DEF Inv, Typed
  <2> QED
    BY <1>5, <2>1, <2>2, <2>3 DEF Inv, StopInv
<1>6. CASE /\ ledger' = [ledger EXCEPT
                         ![claim[t].day].reserved = IF @ > Reserve THEN @ - Reserve ELSE 0,
                         ![claim[t].day].spent =
                           IF claim[t].outcome = "warmed" THEN @ + claim[t].spent ELSE @]
           /\ row' = [row EXCEPT ![claim[t].prefix] = SettledRow(claim[t].prefix, t)]
           /\ cred' = [cred EXCEPT !.active = @ /\ claim[t].outcome # "auth_failed"]
  <2>1. /\ row \in [Prefixes -> RowType] /\ ledger \in [1 .. Days -> LedgerType]
        /\ charged \in [1 .. Days -> Nat]
        /\ cred \in CredType
    BY DEF Inv, Typed
  <2>2. \A x \in Prefixes : row'[x] = row[x] \/ row[x].token = t
    BY <1>6, <2>1 DEF SettledRow
  <2>3. claim' \in ClaimTable /\ ClaimInv'
    BY <1>1, <2>2, ClaimEnds
  <2>4. row' \in [Prefixes -> RowType]
    <3>1. SettledRow(claim[t].prefix, t) \in RowType
      BY <1>1, <1>3, SettledRowType DEF Inv
    <3> QED
      BY <1>6, <2>1, <3>1
  <2>5. cred' \in CredType
    <3>1. PICK b \in BOOLEAN : b = (cred.active /\ claim[t].outcome # "auth_failed")
      OBVIOUS
    <3>2. cred' = [cred EXCEPT !.active = b]
      BY <1>6, <3>1
    <3> QED
      BY <2>1, <3>2, ZenonT(40) DEF CredType
  <2> DEFINE b == Booking(claim[t])
  <2>6. b \in 0 .. Reserve /\ Reserve \in Nat /\ b \in Nat
    BY <1>3, BookingType, NumbersArePositive
  <2>7. ASSUME NEW d \in 1 .. Days
        PROVE  /\ ledger'[d] \in LedgerType
               /\ claim[t].day = d =>
                    /\ ledger'[d].reserved = IF ledger[d].reserved > Reserve
                                            THEN ledger[d].reserved - Reserve ELSE 0
                    /\ ledger'[d].spent = ledger[d].spent + b
               /\ claim[t].day # d => ledger'[d] = ledger[d]
    <3> DEFINE on == claim[t].day
               l == ledger[on]
               r == IF l.reserved > Reserve THEN l.reserved - Reserve ELSE 0
               s == IF claim[t].outcome = "warmed" THEN l.spent + claim[t].spent ELSE l.spent
               q == [l EXCEPT !.reserved = r, !.spent = s]
    <3>1. l \in LedgerType /\ l.reserved \in Nat /\ l.spent \in Nat
      BY <1>3, <2>1 DEF LedgerType
    <3>2. ledger' = [ledger EXCEPT ![on] = q]
      BY <1>3, <1>6, <2>1 DEF LedgerType
    <3>3. s = l.spent + b
      BY <1>1, <3>1 DEF b, Booking
    <3>4. r \in Nat /\ s \in Nat
      BY <2>6, <3>1, <3>3
    <3> HIDE DEF r, s
    <3>5. q \in LedgerType /\ q.reserved = r /\ q.spent = s
      <4> HIDE DEF l
      <4> QED
        BY <3>1, <3>4 DEF LedgerType
    <3> HIDE DEF q
    <3>6. ledger'[d] = IF on = d THEN q ELSE ledger[d]
      BY <2>1, <3>2
    <3> QED
      BY <2>1, <3>3, <3>5, <3>6 DEF r
  <2>8. DOMAIN ledger' = 1 .. Days
    BY <1>6, <2>1
  <2> HIDE DEF b
  <2>9. ASSUME NEW d \in 1 .. Days
        PROVE  Covered(ledger'[d], charged'[d], granted'[d], claim', d)
    <3>0. Covered(ledger[d], charged[d], granted[d], claim, d)
      <4>1. MoneyInv
        BY DEF Inv
      <4> QED
        BY <4>1, Zenon DEF MoneyInv
    <3> DEFINE R == Cardinality(ReservedIn(claim, d))
               O == Cardinality(OwedIn(claim, d))
               r == ledger[d].reserved
               s == ledger[d].spent
               paid == charged[d]
               g == granted[d]
    <3>1. /\ R \in Nat /\ O \in Nat /\ r \in Nat /\ s \in Nat /\ paid \in Nat
          /\ R <= r /\ paid + O <= r + s /\ r + s <= g /\ g \in Nat
      <4>1. granted[d] \in Nat
        BY GrantedType DEF Inv
      <4> QED
        BY <2>1, <3>0, <4>1, ReservedFinite DEF LedgerType, Covered
    <3>2. /\ Cardinality(ReservedIn(claim', d)) =
               R - IF claim[t].day = d THEN Reserve ELSE 0
          /\ Cardinality(OwedIn(claim', d)) =
               O - IF claim[t].day = d THEN Reserve - b ELSE 0
      <4> DEFINE c == claim
                 e == claim'
      <4>1. /\ c \in ClaimTable /\ t \in Tokens /\ c[t].by \in Workers
            /\ Changes(c, e, t, NoClaim)
        BY <1>1, <1>3, <1>4 DEF Changes
      <4> HIDE DEF c, e
      <4>2. /\ Cardinality(ReservedIn(e, d)) =
                 Cardinality(ReservedIn(c, d)) - IF c[t].day = d THEN Reserve ELSE 0
            /\ Cardinality(OwedIn(e, d)) =
                 Cardinality(OwedIn(c, d)) - IF c[t].day = d THEN Reserve - Booking(c[t]) ELSE 0
        BY <4>1, SettledDollars
      <4> QED
        BY <4>2 DEF c, e, b
    <3>3. Cardinality(ReservedIn(claim', d)) \in Nat /\ Cardinality(OwedIn(claim', d)) \in Nat
      BY ReservedFinite
    <3>4. charged'[d] = paid /\ granted'[d] = g
      BY <1>1
    <3>5. CASE claim[t].day = d
      <4>1. /\ ledger'[d].reserved = IF r > Reserve THEN r - Reserve ELSE 0
            /\ ledger'[d].spent = s + b
            /\ Cardinality(ReservedIn(claim', d)) = R - Reserve
            /\ Cardinality(OwedIn(claim', d)) = O - (Reserve - b)
        BY <2>7, <3>2, <3>5
      <4> HIDE DEF R, O, r, s, paid, g
      <4>2. R >= Reserve
        BY <2>6, <3>1, <3>3, <4>1
      <4>3. (IF r > Reserve THEN r - Reserve ELSE 0) = r - Reserve /\ r - Reserve \in Nat
        BY <2>6, <3>1, <4>2
      <4>4. ledger'[d].reserved = r - Reserve /\ ledger'[d].spent = s + b
        BY <4>1, <4>3
      <4>5. /\ R - Reserve <= r - Reserve
            /\ paid + (O - (Reserve - b)) <= (r - Reserve) + (s + b)
            /\ (r - Reserve) + (s + b) <= g
        BY <2>6, <3>1
      <4> QED
        BY <3>4, <4>1, <4>4, <4>5 DEF Covered
    <3>6. CASE claim[t].day # d
      <4>1. ledger'[d] = ledger[d]
        BY <2>7, <3>6
      <4>2. /\ Cardinality(ReservedIn(claim', d)) = R - 0
            /\ Cardinality(OwedIn(claim', d)) = O - 0
        BY <3>2, <3>6
      <4>3. R - 0 = R /\ O - 0 = O
        <5> HIDE DEF R, O
        <5> QED
          BY <3>1
      <4> QED
        BY <2>1, <3>1, <3>4, <4>1, <4>2, <4>3 DEF Covered
    <3> QED
      BY <3>5, <3>6
  <2>10. ledger' \in [1 .. Days -> LedgerType]
    BY <1>6, <2>1, <2>7
  <2>11. Typed'
    BY <1>1, <2>3, <2>4, <2>5, <2>10 DEF Inv, Typed
  <2>12. StopInv'
    <3>1. \A x \in Prefixes : row'[x].token = 0 \/ row'[x] = row[x]
      BY <1>1, <1>3, <1>6, <2>1, SettledRowType DEF Inv
    <3> QED
      BY <3>1 DEF Inv, StopInv
  <2> QED
    BY <2>3, <2>9, <2>11, <2>12 DEF Inv, MoneyInv
<1> QED
  BY <1>2, <1>5, <1>6

LEMMA CrashInv ==
  ASSUME Inv, NEW w \in Workers, Crash(w)
  PROVE  Inv'
<1>1. /\ claim' = [t \in Tokens |-> IF t \in Batch(w) THEN NoClaim ELSE claim[t]]
      /\ UNCHANGED <<cred, row, ledger, tokens, day, charged, granted>>
  BY DEF Crash, histories
<1>2. \A t \in Tokens : claim'[t] = claim[t] \/ claim'[t] = NoClaim
  BY <1>1
<1>3. claim \in ClaimTable
  BY DEF Inv, Typed
<1>4. claim' \in ClaimTable
  BY <1>1, <1>3, NoClaimType DEF ClaimTable
<1>5. NoClaim.by \notin Workers
  BY WarmingAssumption DEF NoClaim
<1>6. ClaimInv'
  BY <1>1, <1>2, <1>5 DEF Inv, ClaimInv
<1>7. MoneyInv'
  BY <1>1, <1>2, MoneyDropped DEF Inv
<1>8. Typed'
  BY <1>1, <1>4 DEF Inv, Typed
<1> QED
  BY <1>1, <1>6, <1>7, <1>8 DEF Inv, StopInv

LEMMA TickInv ==
  ASSUME Inv, Tick
  PROVE  Inv'
<1>1. /\ row' = [x \in Prefixes |-> IF row[x].due > 0 THEN [row[x] EXCEPT !.due = @ - 1]
                                    ELSE row[x]]
      /\ claim' = [t \in Tokens |-> IF claim[t].left > 0 THEN [claim[t] EXCEPT !.left = @ - 1]
                                    ELSE claim[t]]
      /\ UNCHANGED <<cred, ledger, tokens, day, charged, granted>>
  BY DEF Tick, histories
<1>2. row \in [Prefixes -> RowType] /\ claim \in ClaimTable
  BY DEF Inv, Typed
<1>3. ASSUME NEW x \in Prefixes
      PROVE  /\ row'[x] \in RowType /\ row'[x].token = row[x].token
             /\ row'[x].misses = row[x].misses /\ row'[x].here = row[x].here
             /\ row[x].due > 0 => row'[x].due = row[x].due - 1
  <2>1. row[x] \in RowType /\ row[x].due \in 0 .. Longest /\ Longest \in Nat
    BY <1>2, RowFields, LongestOfBoth
  <2> DEFINE r == row[x]
             n == row[x].due - 1
             q == [r EXCEPT !.due = n]
  <2>2. CASE row[x].due > 0
    <3>1. row'[x] = q /\ n \in 0 .. Longest
      BY <1>1, <2>1, <2>2
    <3>2. q \in RowType
      BY <2>1, <3>1, RowAges
    <3>3. q.due = n /\ q.token = r.token /\ q.misses = r.misses
      BY <2>1 DEF RowType
    <3>4. q.here = r.here
      BY <2>1, ZenonT(40) DEF RowType
    <3> HIDE DEF q
    <3> QED
      BY <3>1, <3>2, <3>3, <3>4
  <2>3. CASE ~(row[x].due > 0)
    BY <1>1, <2>1, <2>3
  <2> QED
    BY <2>2, <2>3
<1>4. ASSUME NEW t \in Tokens
      PROVE  /\ claim'[t] \in ClaimType
             /\ claim'[t].by = claim[t].by /\ claim'[t].prefix = claim[t].prefix
             /\ claim'[t].day = claim[t].day /\ claim'[t].orphan = claim[t].orphan
             /\ claim'[t].stage = claim[t].stage
             /\ Booking(claim'[t]) = Booking(claim[t])
             /\ claim[t].left = 0 => claim'[t] = claim[t]
             /\ claim'[t].left > 0 => claim[t].left > 0 /\ claim'[t].left = claim[t].left - 1
  <2>1. claim[t] \in ClaimType /\ claim[t].left \in 0 .. Lease /\ Lease \in Nat
    BY <1>2, ClaimFields, NumbersArePositive DEF ClaimTable
  <2> DEFINE c == claim[t]
             n == claim[t].left - 1
             q == [c EXCEPT !.left = n]
  <2>2. CASE claim[t].left > 0
    <3>1. claim'[t] = q /\ n \in 0 .. Lease
      BY <1>1, <2>1, <2>2
    <3>2. q \in ClaimType
      BY <2>1, <3>1, ClaimAges
    <3>3. /\ q.by = c.by /\ q.prefix = c.prefix /\ q.day = c.day /\ q.left = n
          /\ q.stage = c.stage /\ q.outcome = c.outcome /\ q.spent = c.spent
      BY <2>1, ClaimRest
    <3>4. q.orphan = c.orphan
      BY <2>1, OrphanRest
    <3> HIDE DEF q
    <3>5. Booking(q) = Booking(c)
      BY <3>3 DEF Booking
    <3> QED
      BY <2>1, <2>2, <3>1, <3>2, <3>3, <3>4, <3>5
  <2>3. CASE ~(claim[t].left > 0)
    BY <1>1, <2>1, <2>3
  <2> QED
    BY <2>2, <2>3
<1>5. Typed'
  <2>1. row' \in [Prefixes -> RowType]
    BY <1>1, <1>3
  <2>2. claim' \in ClaimTable
    BY <1>1, <1>4 DEF ClaimTable
  <2> QED
    BY <1>1, <2>1, <2>2 DEF Inv, Typed
<1>6. ClaimInv'
  <2>1. ASSUME NEW t \in Tokens, t > tokens
        PROVE  claim'[t] = NoClaim
    BY <1>4, <2>1 DEF Inv, ClaimInv, NoClaim
  <2>2. ASSUME NEW t \in Tokens, claim'[t].by \in Workers
        PROVE  /\ claim'[t].prefix \in Prefixes /\ claim'[t].day \in 1 .. Days
               /\ claim'[t].stage # "none" /\ Agrees(claim'[t], t, row'[claim'[t].prefix])
    <3>1. /\ claim[t].prefix \in Prefixes /\ claim[t].day \in 1 .. Days
          /\ claim[t].stage # "none" /\ Agrees(claim[t], t, row[claim[t].prefix])
      BY <1>4, <2>2 DEF Inv, ClaimInv
    <3> DEFINE x == claim[t].prefix
    <3>2. x \in Prefixes /\ claim'[t].prefix = x
      BY <1>4, <3>1
    <3>3. /\ row'[x].token = row[x].token /\ row'[x].here = row[x].here
          /\ row[x].due > 0 => row'[x].due = row[x].due - 1
      BY <1>3, <3>2
    <3>4. /\ claim'[t].left > 0 => claim[t].left > 0 /\ claim'[t].left = claim[t].left - 1
          /\ claim'[t].orphan = claim[t].orphan /\ claim'[t].day = claim[t].day
          /\ claim'[t].stage = claim[t].stage
      BY <1>4
    <3>5. Agrees(claim[t], t, row[x])
      BY <3>1
    <3> HIDE DEF x
    <3>6. Agrees(claim'[t], t, row'[x])
      BY <3>3, <3>4, <3>5 DEF Agrees
    <3> QED
      BY <3>1, <3>2, <3>4, <3>6
  <2>3. ASSUME NEW t \in Tokens, claim'[t].by \notin Workers
        PROVE  claim'[t] = NoClaim
    BY <1>4, <2>3 DEF Inv, ClaimInv, NoClaim
  <2> QED
    BY <1>1, <2>1, <2>2, <2>3 DEF ClaimInv
<1>7. MoneyInv'
  BY <1>1, <1>4, MoneyKept DEF Inv
<1>8. StopInv'
  BY <1>3 DEF Inv, StopInv
<1> QED
  BY <1>5, <1>6, <1>7, <1>8 DEF Inv

LEMMA MidnightInv ==
  ASSUME Inv, Midnight
  PROVE  Inv'
<1>1. day < Days /\ day' = day + 1 /\ UNCHANGED <<cred, row, ledger, claim, tokens, charged, granted>>
  BY DEF Midnight, histories
<1>2. Typed'
  BY <1>1, NumbersArePositive DEF Inv, Typed
<1>3. ClaimInv'
  BY <1>1 DEF Inv, ClaimInv
<1>4. MoneyInv'
  BY <1>1, MoneyKept DEF Inv
<1> QED
  BY <1>1, <1>2, <1>3, <1>4 DEF Inv, StopInv

LEMMA NextInv == Inv /\ [Next]_vars => Inv'
<1> SUFFICES ASSUME Inv, [Next]_vars PROVE Inv'
  OBVIOUS
<1>1. CASE UNCHANGED vars
  <2>1. UNCHANGED <<cred, row, ledger, claim, tokens, day, charged, granted>>
    BY <1>1 DEF vars, histories
  <2>2. MoneyInv'
    BY <2>1, MoneyKept DEF Inv
  <2> QED
    BY <2>1, <2>2 DEF Inv, Typed, ClaimInv, StopInv
<1>2. CASE \E x \in Prefixes, cacheRead \in BOOLEAN : Observe(x, cacheRead)
  BY <1>2, ObserveInv
<1>3. CASE \E enabled, new \in BOOLEAN, terms \in Terms : SaveCredential(enabled, new, terms)
  BY <1>3, SaveInv
<1>4. CASE PurgeCredential
  BY <1>4, PurgeInv
<1>5. ASSUME NEW w \in Workers, \/ Claim(w) \/ SkipPing(w) \/ SendPing(w)
                                \/ PingAnswered(w) \/ SettlePing(w) \/ Crash(w)
      PROVE  Inv'
  BY <1>5, ClaimKeepsInv, SkipInv, SendInv, AnswerInv, SettleInv, CrashInv
<1>6. CASE Tick
  BY <1>6, TickInv
<1>7. CASE Midnight
  BY <1>7, MidnightInv
<1> QED
  BY <1>1, <1>2, <1>3, <1>4, <1>5, <1>6, <1>7 DEF Next

\* In every behaviour claims agree with their rows and the ledger covers them.
THEOREM WarmingInvariant == Spec => []Inv
BY InitInv, NextInv, PTL DEF Spec

-----------------------------------------------------------------------------
(* The theorems. *)

\* Credential, rows, ledger and claims stay well typed; in particular no row's misses
\* pass the stop-loss although a settlement adds one without looking (warm_ping_settle).
THEOREM WarmingTypeCorrect == Spec => []TypeOK
<1>1. ASSUME Inv, NEW t \in Tokens, claim[t] # NoClaim
      PROVE  /\ claim[t].by \in Workers /\ claim[t].prefix \in Prefixes
             /\ claim[t].day \in 1 .. Days /\ claim[t].left \in 0 .. Lease
             /\ claim[t].stage \in {"claimed", "pinging", "settling"}
             /\ claim[t].outcome \in {"warmed", "release", "prefix_invalid", "auth_failed"}
             /\ claim[t].spent \in 0 .. Reserve /\ claim[t].orphan \in BOOLEAN
  <2>1. claim[t].by \in Workers
    BY <1>1 DEF Inv, ClaimInv
  <2>2. claim[t] \in ClaimType
    BY <1>1 DEF Inv, Typed, ClaimTable
  <2>3. claim[t].orphan \in BOOLEAN
    BY <2>2 DEF ClaimType
  <2> QED
    BY <1>1, <2>1, <2>2, <2>3, ClaimFields DEF Inv, ClaimInv, Stages, Outcomes
<1>2. Inv => TypeOK
  BY <1>1 DEF Inv, Typed, TypeOK, CredType, RowType, Longest, LedgerType
<1> QED
  BY <1>2, WarmingInvariant, PTL

\* What answered pings cost is covered by the day's ledger, and the ledger by the
\* budget of the day's last claim, whatever crashes, lost settlements, batches past
\* midnight and changes of the budget
\* (warm_due_claim, warm_ping_settle, _warm_one).
THEOREM ChargesAreCovered == Spec => []ChargesCovered
<1>1. ASSUME Inv, NEW d \in 1 .. Days
      PROVE  /\ charged[d] <= ledger[d].reserved + ledger[d].spent
             /\ ledger[d].reserved + ledger[d].spent <= granted[d]
  <2>1. Covered(ledger[d], charged[d], granted[d], claim, d)
    BY <1>1 DEF Inv, MoneyInv
  <2>2. /\ charged[d] \in Nat /\ ledger[d].reserved \in Nat /\ ledger[d].spent \in Nat
        /\ Cardinality(OwedIn(claim, d)) \in Nat
    BY <1>1, ReservedFinite DEF Inv, Typed, LedgerType
  <2> QED
    BY <2>1, <2>2 DEF Covered
<1>2. Inv => ChargesCovered
  BY <1>1 DEF ChargesCovered
<1> QED
  BY <1>2, WarmingInvariant, PTL

\* Live traffic takes no claim away from its worker: within its lease a claim is the
\* row's, unless the credential was purged with its rows (warm_prefix_observe of
\* 202607280018, warm_due_claim).
THEOREM ClaimsAreHeld == Spec => []HeldWithinLease
<1>1. Inv => HeldWithinLease
  BY DEF Inv, ClaimInv, Agrees, HeldWithinLease
<1> QED
  BY <1>1, WarmingInvariant, PTL
=============================================================================
