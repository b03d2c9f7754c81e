----------------------- MODULE SettlementWriterProofs -----------------------
(***************************************************************************)
(* Theorems of SettlementWriter for every length of the week, any number   *)
(* of sweeps, receipts and pings and any grid: no usage is billed twice,   *)
(* and what becomes money is within the evidence of that moment.           *)
(*                                                                         *)
(* The types of the amounts are left to the runs: they are sums.           *)
(***************************************************************************)
EXTENDS SettlementWriter, WellFoundedInduction, SequenceTheorems, TLAPS

-----------------------------------------------------------------------------
(* Numbers. *)

\* A nonempty set of the numbers up to n has a greatest one.
LEMMA GreatestRow ==
  ASSUME NEW n \in Nat, NEW T \in SUBSET (1 .. n), T # {}
  PROVE  Max(T) \in T /\ \A y \in T : Max(T) >= y
<1> DEFINE U == {n - i : i \in T}
           Less == {ss \in Nat \X Nat : ss[1] < ss[2]}
<1>1. U \subseteq Nat
  OBVIOUS
<1>2. \A i \in T : n - i \in U
  OBVIOUS
<1>3. U # {}
  BY <1>2
<1>4. IsWellFoundedOn(Less, Nat)
  BY NatLessThanWellFounded DEF OpToRel
<1>5. \A y, m \in Nat : <<y, m>> \notin Less => m <= y
  OBVIOUS
<1> HIDE DEF Less
<1>6. PICK x \in T : \A y \in U : <<y, n - x>> \notin Less
  <2>1. PICK m \in U : \A y \in U : <<y, m>> \notin Less
    <3> HIDE DEF U
    <3> QED
      BY <1>1, <1>3, <1>4, WFMin
  <2> QED
    BY <2>1
<1>7. \A y \in T : x >= y
  <2> SUFFICES ASSUME NEW y \in T PROVE x >= y
    OBVIOUS
  <2>1. n - x \in Nat /\ n - y \in Nat
    OBVIOUS
  <2>2. n - x <= n - y
    BY <1>2, <1>5, <1>6, <2>1
  <2> QED
    BY <2>2
<1>8. \E z \in T : \A y \in T : z >= y
  BY <1>7
<1> QED
  BY <1>8 DEF Max

\* A nonempty set of natural numbers has a least one.
LEMMA LeastTime ==
  ASSUME NEW T \in SUBSET Nat, T # {}
  PROVE  Min(T) \in T
<1> DEFINE Less == {ss \in Nat \X Nat : ss[1] < ss[2]}
<1>1. IsWellFoundedOn(Less, Nat)
  BY NatLessThanWellFounded DEF OpToRel
<1>2. \A y, m \in Nat : <<y, m>> \notin Less => m <= y
  OBVIOUS
<1> HIDE DEF Less
<1>3. PICK m \in T : \A y \in T : <<y, m>> \notin Less
  BY <1>1, WFMin
<1>4. \E z \in T : \A y \in T : z =< y
  BY <1>2, <1>3
<1> QED
  BY <1>4 DEF Min

\* The week a moment lies in starts at a whole number.
LEMMA WeekOfType ==
  ASSUME anchor \in Int, NEW t \in Int
  PROVE  WeekOf(t) \in Int
<1>1. Week \in Nat /\ Week > 0
  BY SettlementAssumption
<1>2. (t - anchor) \div Week \in Int
  BY <1>1
<1> QED
  BY <1>1, <1>2 DEF WeekOf

-----------------------------------------------------------------------------
(* Sums of no fee and of one. *)

LEMMA SumOfNone == MapThenSumSet(LAMBDA j : ledger[j].fee, {}) = 0
<1> DEFINE Folds(it) ==
             it = [s \in SUBSET {} |->
                     IF s = {} THEN 0
                     ELSE LET x == CHOOSE y \in s : TRUE IN ledger[x].fee + it[s \ {x}]]
           iter == CHOOSE it : Folds(it)
<1>1. MapThenSumSet(LAMBDA j : ledger[j].fee, {}) = iter[{}]
  BY DEF MapThenSumSet, MapThenFoldSet
<1>2. Folds([s \in SUBSET {} |-> 0])
  OBVIOUS
<1>3. Folds(iter)
  <2> HIDE DEF Folds
  <2> QED
    BY <1>2
<1>4. iter[{}] = 0
  <2> HIDE DEF iter
  <2> QED
    BY <1>3
<1> QED
  BY <1>1, <1>4

LEMMA SumOfOne ==
  ASSUME NEW i
  PROVE  MapThenSumSet(LAMBDA j : ledger[j].fee, {i}) = ledger[i].fee + 0
<1> DEFINE Folds(it) ==
             it = [s \in SUBSET {i} |->
                     IF s = {} THEN 0
                     ELSE LET x == CHOOSE y \in s : TRUE IN ledger[x].fee + it[s \ {x}]]
           iter == CHOOSE it : Folds(it)
           g == [s \in SUBSET {i} |-> IF s = {} THEN 0 ELSE ledger[i].fee + 0]
<1>1. MapThenSumSet(LAMBDA j : ledger[j].fee, {i}) = iter[{i}]
  BY DEF MapThenSumSet, MapThenFoldSet
<1>2. Folds(g)
  <2>1. ASSUME NEW s \in SUBSET {i}, s # {}
        PROVE  (CHOOSE y \in s : TRUE) = i /\ s \ {i} = {}
    BY <2>1
  <2>2. g[{}] = 0
    OBVIOUS
  <2>3. \A s \in SUBSET {i} :
          g[s] = IF s = {} THEN 0
                 ELSE LET x == CHOOSE y \in s : TRUE IN ledger[x].fee + g[s \ {x}]
    <3> SUFFICES ASSUME NEW s \in SUBSET {i}, s # {}
                 PROVE  g[s] = LET x == CHOOSE y \in s : TRUE IN ledger[x].fee + g[s \ {x}]
      OBVIOUS
    <3>1. g[s] = ledger[i].fee + 0
      OBVIOUS
    <3> HIDE DEF g
    <3> QED
      BY <2>1, <2>2, <3>1
  <2> QED
    BY <2>3
<1>3. Folds(iter)
  <2> HIDE DEF Folds
  <2> QED
    BY <1>2
<1>4. iter[{i}] = ledger[i].fee + 0
  <2> HIDE DEF iter
  <2>1. \A s \in SUBSET {i} :
          iter[s] = IF s = {} THEN 0
                    ELSE LET x == CHOOSE y \in s : TRUE IN ledger[x].fee + iter[s \ {x}]
    BY <1>3
  <2>2. iter[{}] = 0
    BY <2>1
  <2>3. (CHOOSE y \in {i} : TRUE) = i /\ {i} \ {i} = {} /\ {i} # {}
    OBVIOUS
  <2>4. iter[{i}] = LET x == CHOOSE y \in {i} : TRUE IN ledger[x].fee + iter[{i} \ {x}]
    BY <2>1
  <2> QED
    BY <2>2, <2>3, <2>4
<1> QED
  BY <1>1, <1>4

-----------------------------------------------------------------------------
(* The invariant. *)

Fields == {"start", "revision", "saved", "warm", "rows", "fee", "status",
           "marked", "superseded"}

\* A row of the ledger, whatever its amounts are.
Shaped(s) ==
  /\ s = [f \in Fields |-> s[f]]
  /\ s.start \in Int /\ s.status \in Statuses
  /\ s.marked \in BOOLEAN /\ s.superseded \in BOOLEAN

\* What its status says: money has a fee; what another revision took the place of
\* is neither queued nor sent, and never will be; a draft was never sent; what is
\* being sent or was reported carries the marker.
Sound(s) ==
  /\ Billed(s) => s.fee > 0
  /\ s.superseded => s.status \in {"draft", "void"} /\ ~s.marked
  /\ s.status = "draft" => ~s.marked
  /\ s.status \in {"sending", "reported"} => s.marked

Apart(a, b) == a = b \/ a + Week <= b \/ b + Week <= a

\* Of the settlements of one week all but the last are superseded, and different
\* weeks of the ledger do not overlap, whatever grid they were on.
Replaced(q) ==
  \A i, j \in DOMAIN q : i < j /\ q[i].start = q[j].start => q[i].superseded

Disjoint(q) == \A i, j \in DOMAIN q : Apart(q[i].start, q[j].start)

IsLedger(q) ==
  /\ q \in Seq({q[i] : i \in DOMAIN q})
  /\ \A i \in DOMAIN q : Shaped(q[i]) /\ Sound(q[i])
  /\ Replaced(q)
  /\ Disjoint(q)

LedgerInv == IsLedger(ledger)

\* The sweep hands the writer a moment.
SweepInv ==
  /\ now \in Nat /\ anchor \in Nat
  /\ sweep \in [Sweeps -> [todo : SUBSET Nat, at : {"look", "settle"}]]
  /\ \A r \in Sweeps : sweep[r].at = "settle" => sweep[r].todo # {}

Inv == LedgerInv /\ SweepInv

LEMMA InitInv == Init => Inv
<1> SUFFICES ASSUME Init PROVE Inv
  OBVIOUS
<1>1. ledger = <<>> /\ DOMAIN ledger = {}
  BY DEF Init
<1>2. LedgerInv
  BY <1>1 DEF LedgerInv, IsLedger, Replaced, Disjoint
<1>3. SweepInv
  BY DEF Init, SweepInv
<1> QED
  BY <1>2, <1>3 DEF Inv

-----------------------------------------------------------------------------
(* The rows. *)

LEMMA WeekIsPositive == Week \in Nat /\ Week > 0
BY SettlementAssumption

\* A sequence is one of its own elements.
LEMMA OwnElements ==
  ASSUME NEW S, NEW q \in Seq(S)
  PROVE  q \in Seq({q[k] : k \in DOMAIN q})
<1> DEFINE T == {q[k] : k \in DOMAIN q}
<1>1. q \in [1 .. Len(q) -> S] /\ DOMAIN q = 1 .. Len(q) /\ Len(q) \in Nat
  BY LenProperties
<1>2. q = [k \in 1 .. Len(q) |-> q[k]] /\ \A k \in 1 .. Len(q) : q[k] \in T
  BY <1>1
<1> HIDE DEF T
<1>3. q \in [1 .. Len(q) -> T]
  BY <1>2
<1>4. q \in UNION {[1 .. n -> T] : n \in Nat}
  BY <1>1, <1>3
<1>5. q \in Seq(T)
  BY <1>4, SeqDef
<1> QED
  BY <1>5 DEF T

\* Another status of one row keeps the ledger sound if the row is.
LEMMA OneRowMoves ==
  ASSUME NEW q, IsLedger(q), NEW i \in DOMAIN q, NEW s,
         Shaped(s), Sound(s), s.start = q[i].start, q[i].superseded => s.superseded
  PROVE  IsLedger([q EXCEPT ![i] = s])
<1> DEFINE S == {q[k] : k \in DOMAIN q}
           p == [q EXCEPT ![i] = s]
<1>1. q \in Seq(S) /\ S \subseteq S \cup {s} /\ s \in S \cup {s}
  BY DEF IsLedger
<1> HIDE DEF S
<1>2. q \in Seq(S \cup {s}) /\ i \in 1 .. Len(q)
  BY <1>1, SeqMonotonic, LenProperties
<1>3. p \in Seq(S \cup {s})
  BY <1>1, <1>2, ExceptSeq
<1>4. /\ DOMAIN p = DOMAIN q /\ p[i] = s
      /\ \A k \in DOMAIN q : k # i => p[k] = q[k]
  OBVIOUS
<1> HIDE DEF p
<1>5. p \in Seq({p[k] : k \in DOMAIN p})
  BY <1>3, OwnElements
<1>6. \A k \in DOMAIN q : p[k].start = q[k].start /\ (q[k].superseded => p[k].superseded)
  BY <1>4
<1>7. \A k \in DOMAIN p : Shaped(p[k]) /\ Sound(p[k])
  BY <1>4 DEF IsLedger
<1>8. Replaced(p) /\ Disjoint(p)
  BY <1>4, <1>6 DEF IsLedger, Replaced, Disjoint
<1>9. IsLedger(p)
  BY <1>5, <1>7, <1>8 DEF IsLedger
<1> QED
  BY <1>9 DEF p

\* Status and marker are all that changes in a row of a settlement.
LEMMA StatusOfRow ==
  ASSUME NEW s, Shaped(s), NEW status \in Statuses
  PROVE  LET t == [s EXCEPT !.status = status]
             u == [s EXCEPT !.status = status, !.marked = TRUE]
         IN /\ Shaped(t) /\ t.start = s.start /\ t.superseded = s.superseded
            /\ t.fee = s.fee /\ t.marked = s.marked /\ t.status = status
            /\ Shaped(u) /\ u.start = s.start /\ u.superseded = s.superseded
            /\ u.fee = s.fee /\ u.marked = TRUE /\ u.status = status
<1>1. DOMAIN s = Fields /\ s = [f \in Fields |-> s[f]]
  BY DEF Shaped
<1>2. {"start", "fee", "status", "marked", "superseded"} \subseteq Fields
  BY DEF Fields
<1> DEFINE t == [s EXCEPT !.status = status]
           u == [s EXCEPT !.status = status, !.marked = TRUE]
<1>3. /\ t = [f \in Fields |-> t[f]] /\ t.start = s.start /\ t.superseded = s.superseded
      /\ t.fee = s.fee /\ t.marked = s.marked /\ t.status = status
  BY <1>1, <1>2
<1>4. /\ u = [f \in Fields |-> u[f]] /\ u.start = s.start /\ u.superseded = s.superseded
      /\ u.fee = s.fee /\ u.marked = TRUE /\ u.status = status
  BY <1>1, <1>2
<1> HIDE DEF t, u
<1>5. Shaped(t) /\ Shaped(u)
  BY <1>3, <1>4 DEF Shaped
<1> QED
  BY <1>3, <1>4, <1>5 DEF t, u

LEMMA RowSuperseded ==
  ASSUME NEW s, Shaped(s)
  PROVE  LET t == [s EXCEPT !.superseded = TRUE]
         IN /\ Shaped(t) /\ t.start = s.start /\ t.superseded
            /\ t.fee = s.fee /\ t.marked = s.marked /\ t.status = s.status
<1>1. DOMAIN s = Fields /\ s = [f \in Fields |-> s[f]]
  BY DEF Shaped
<1>2. {"start", "fee", "status", "marked", "superseded"} \subseteq Fields
  BY DEF Fields
<1> DEFINE t == [s EXCEPT !.superseded = TRUE]
<1>3. /\ t = [f \in Fields |-> t[f]] /\ t.start = s.start /\ t.superseded = TRUE
      /\ t.fee = s.fee /\ t.marked = s.marked /\ t.status = s.status
  BY <1>1, <1>2
<1> HIDE DEF t
<1>4. Shaped(t)
  BY <1>3 DEF Shaped
<1> QED
  BY <1>3, <1>4 DEF t

LEMMA MoneyMoves ==
  ASSUME LedgerInv, NEW i \in DOMAIN ledger,
         Promote(i) \/ Retract(i) \/ Begin(i) \/ Finish(i) \/ Retire(i)
  PROVE  LedgerInv'
<1>1. Shaped(ledger[i]) /\ Sound(ledger[i]) /\ i \in DOMAIN ledger
  BY DEF LedgerInv, IsLedger
<1> DEFINE t(status) == [ledger[i] EXCEPT !.status = status]
<1>2. ASSUME NEW status \in Statuses, SetStatus(i, status), Sound(t(status))
      PROVE  LedgerInv'
  <2>1. ledger' = [ledger EXCEPT ![i] = t(status)]
    BY <1>2 DEF SetStatus
  <2>2. /\ Shaped(t(status)) /\ t(status).start = ledger[i].start
        /\ t(status).superseded = ledger[i].superseded
    BY <1>1, StatusOfRow
  <2> HIDE DEF t
  <2> QED
    BY <1>2, <2>1, <2>2, OneRowMoves DEF LedgerInv
<1>3. \A status \in Statuses :
        /\ t(status).fee = ledger[i].fee /\ t(status).marked = ledger[i].marked
        /\ t(status).superseded = ledger[i].superseded /\ t(status).status = status
  BY <1>1, StatusOfRow
<1>4. {"pending", "void", "reported", "review", "sending"} \subseteq Statuses
  BY DEF Statuses
<1>5. CASE Promote(i)
  <2>1. SetStatus(i, "pending") /\ ledger[i].fee > 0 /\ ~ledger[i].superseded
    BY <1>5 DEF Promote
  <2>2. Sound(t("pending"))
    BY <1>1, <1>3, <1>4, <2>1 DEF Sound
  <2> QED
    BY <1>2, <1>4, <2>1, <2>2
<1>6. CASE Retract(i)
  <2>1. SetStatus(i, "void") /\ ~ledger[i].superseded
    BY <1>6 DEF Retract, Live
  <2>2. Sound(t("void"))
    BY <1>1, <1>3, <1>4, <2>1 DEF Sound, Billed
  <2> QED
    BY <1>2, <1>4, <2>1, <2>2
<1>7. CASE Begin(i)
  <2> DEFINE u == [ledger[i] EXCEPT !.status = "sending", !.marked = TRUE]
  <2>1. ledger[i].status = "pending" /\ ~ledger[i].superseded
    BY <1>7 DEF Begin
  <2>2. ledger' = [ledger EXCEPT ![i] = u]
    BY <1>7 DEF Begin
  <2>3. /\ Shaped(u) /\ u.start = ledger[i].start /\ u.superseded = ledger[i].superseded
        /\ u.fee = ledger[i].fee /\ u.marked = TRUE /\ u.status = "sending"
    <3> DEFINE v(status) == [ledger[i] EXCEPT !.status = status, !.marked = TRUE]
    <3>1. \A status \in Statuses :
            /\ Shaped(v(status)) /\ v(status).start = ledger[i].start
            /\ v(status).superseded = ledger[i].superseded
            /\ v(status).fee = ledger[i].fee /\ v(status).marked = TRUE
            /\ v(status).status = status
      BY <1>1, StatusOfRow
    <3>2. u = v("sending") /\ "sending" \in Statuses
      BY <1>4
    <3> HIDE DEF u, v
    <3> QED
      BY <3>1, <3>2
  <2> HIDE DEF u
  <2>4. Sound(u)
    BY <1>1, <2>1, <2>3 DEF Sound, Billed
  <2> QED
    BY <2>2, <2>3, <2>4, OneRowMoves DEF LedgerInv
<1>8. CASE Finish(i)
  <2>1. PICK status \in {"reported", "review", "pending"} : SetStatus(i, status)
    BY <1>8 DEF Finish
  <2>2. ledger[i].status = "sending"
    BY <1>8 DEF Finish
  <2>3. ledger[i].marked /\ ~ledger[i].superseded /\ ledger[i].fee > 0
    BY <1>1, <2>2 DEF Sound, Billed
  <2>4. status \in Statuses /\ Sound(t(status))
    BY <1>3, <1>4, <2>1, <2>3 DEF Sound, Billed
  <2> QED
    BY <1>2, <2>1, <2>4
<1>9. CASE Retire(i)
  <2>1. SetStatus(i, "review") /\ ledger[i].status = "pending" /\ ~ledger[i].marked
    BY <1>9 DEF Retire
  <2>2. Sound(t("review"))
    BY <1>1, <1>3, <1>4, <2>1 DEF Sound, Billed
  <2> QED
    BY <1>2, <1>4, <2>1, <2>2
<1> QED
  BY <1>5, <1>6, <1>7, <1>8, <1>9

-----------------------------------------------------------------------------
(* The writer. *)

\* A row of a week none of whose rows is live keeps the ledger sound at its end.
LEMMA RowAppended ==
  ASSUME NEW q, IsLedger(q), NEW s, Shaped(s), Sound(s),
         \A k \in DOMAIN q : q[k].start = s.start => q[k].superseded,
         \A k \in DOMAIN q : Apart(q[k].start, s.start)
  PROVE  IsLedger(Append(q, s))
<1> DEFINE S == {q[k] : k \in DOMAIN q}
           p == Append(q, s)
<1>1. q \in Seq(S) /\ S \subseteq S \cup {s} /\ s \in S \cup {s}
  BY DEF IsLedger
<1> HIDE DEF S
<1>2. q \in Seq(S \cup {s}) /\ DOMAIN q = 1 .. Len(q) /\ Len(q) \in Nat
  BY <1>1, SeqMonotonic, LenProperties
<1>3. /\ p \in Seq(S \cup {s}) /\ Len(p) = Len(q) + 1
      /\ \A k \in 1 .. Len(q) : p[k] = q[k]
      /\ p[Len(q) + 1] = s
  BY <1>1, <1>2, AppendProperties
<1> HIDE DEF p
<1>4. p \in Seq({p[k] : k \in DOMAIN p}) /\ DOMAIN p = 1 .. Len(q) + 1
  BY <1>3, OwnElements, LenProperties
<1>5. \A k \in DOMAIN p : k \in DOMAIN q \/ k = Len(q) + 1
  BY <1>2, <1>4
<1>6. \A k \in DOMAIN p : Shaped(p[k]) /\ Sound(p[k])
  BY <1>2, <1>3, <1>5 DEF IsLedger
<1>7. Replaced(p)
  <2> SUFFICES ASSUME NEW i \in DOMAIN p, NEW j \in DOMAIN p, i < j,
                      p[i].start = p[j].start
               PROVE  p[i].superseded
    BY DEF Replaced
  <2>1. i \in DOMAIN q
    BY <1>2, <1>4, <1>5
  <2>2. CASE j \in DOMAIN q
    BY <1>2, <1>3, <2>1, <2>2 DEF IsLedger, Replaced
  <2>3. CASE j = Len(q) + 1
    BY <1>2, <1>3, <2>1, <2>3
  <2> QED
    BY <1>5, <2>2, <2>3
<1>8. Disjoint(p)
  <2> SUFFICES ASSUME NEW i \in DOMAIN p, NEW j \in DOMAIN p
               PROVE  Apart(p[i].start, p[j].start)
    BY DEF Disjoint
  <2>1. \A k \in DOMAIN q : Apart(s.start, q[k].start)
    BY DEF Apart
  <2>2. Apart(s.start, s.start)
    BY DEF Apart
  <2>3. \A k, l \in DOMAIN q : Apart(q[k].start, q[l].start)
    BY DEF IsLedger, Disjoint
  <2>4. \A k \in DOMAIN q : p[k] = q[k]
    BY <1>2, <1>3
  <2> QED
    BY <1>3, <1>5, <2>1, <2>2, <2>3, <2>4
<1>9. IsLedger(p)
  BY <1>4, <1>6, <1>7, <1>8 DEF IsLedger
<1> QED
  BY <1>9 DEF p

\* A fresh draft.
LEMMA DraftIsSound ==
  ASSUME NEW c \in Int, NEW revision
  PROVE  /\ Shaped(Draft(c, revision)) /\ Sound(Draft(c, revision))
         /\ Draft(c, revision).start = c
<1> DEFINE s == Draft(c, revision)
<1>1. /\ s = [f \in Fields |-> s[f]]
      /\ s.start = c /\ s.status = "draft" /\ s.marked = FALSE /\ s.superseded = FALSE
  BY DEF Draft, Fields
<1> HIDE DEF s
<1>2. Shaped(s) /\ Sound(s)
  BY <1>1 DEF Shaped, Sound, Statuses, Billed
<1> QED
  BY <1>1, <1>2 DEF s

\* The week of a call that is not refused overlaps no other week of the ledger.
LEMMA GridKeepsApart ==
  ASSUME LedgerInv, NEW c \in Int, ~GridShifted(c), NEW k \in DOMAIN ledger
  PROVE  Apart(ledger[k].start, c)
<1>1. ledger[k].start \in Int
  BY DEF LedgerInv, IsLedger, Shaped
<1> QED
  BY <1>1, WeekIsPositive DEF GridShifted, Apart

\* What the writer leaves is a ledger again: it writes a first draft where there
\* is none, or takes the place of the last row of its week, which is neither
\* queued nor sent.
LEMMA WriterKeeps ==
  ASSUME LedgerInv, NEW c \in Int, NEW revising
  PROVE  IsLedger(Settled(c, revising))
<1>1. CASE First(c)
  <2>1. RowsOf(c) = {} /\ ~GridShifted(c)
    BY <1>1 DEF First, Refused
  <2>2. \A k \in DOMAIN ledger : ledger[k].start # c
    BY <2>1 DEF RowsOf
  <2>3. \A k \in DOMAIN ledger : Apart(ledger[k].start, c)
    BY <2>1, GridKeepsApart
  <2>4. Settled(c, revising) = Append(ledger, Draft(c, 1))
    BY <1>1 DEF Settled
  <2> QED
    BY <2>2, <2>3, <2>4, DraftIsSound, RowAppended DEF LedgerInv
<1>2. CASE ~First(c) /\ revising /\ Revises(c)
  <2> DEFINE prev == Max(RowsOf(c))
             s == [ledger[prev] EXCEPT !.superseded = TRUE]
             q == [ledger EXCEPT ![prev] = s]
             d == Draft(c, ledger[prev].revision + 1)
  <2>1. /\ RowsOf(c) # {} /\ ~GridShifted(c)
        /\ ledger[prev].status \in {"draft", "void"}
        /\ \A i \in RowsOf(c) : QueuedOrSent(ledger[i]) => ledger[i].fee = 0
    BY <1>2 DEF Revises, Refused
  <2>2. prev \in RowsOf(c) /\ \A i \in RowsOf(c) : prev >= i
    <3>1. DOMAIN ledger = 1 .. Len(ledger) /\ Len(ledger) \in Nat
      BY LenProperties DEF LedgerInv, IsLedger
    <3>2. RowsOf(c) \in SUBSET (1 .. Len(ledger))
      BY <3>1 DEF RowsOf
    <3> QED
      BY <2>1, <3>1, <3>2, GreatestRow
  <2>3. prev \in DOMAIN ledger /\ ledger[prev].start = c
    BY <2>2 DEF RowsOf
  <2> HIDE DEF prev
  <2>4. Shaped(ledger[prev]) /\ Sound(ledger[prev])
    BY <2>3 DEF LedgerInv, IsLedger
  <2>5. ~ledger[prev].marked
    BY <2>1, <2>2, <2>4 DEF QueuedOrSent, Sent, Sound, Billed
  <2>6. Shaped(s) /\ s.start = c /\ s.superseded /\ s.status = ledger[prev].status
        /\ s.marked = ledger[prev].marked /\ s.fee = ledger[prev].fee
    BY <2>3, <2>4, RowSuperseded
  <2> HIDE DEF s
  <2>7. Sound(s)
    BY <2>1, <2>4, <2>5, <2>6 DEF Sound, Billed
  <2>8. IsLedger(q)
    BY <2>3, <2>6, <2>7, OneRowMoves DEF LedgerInv
  <2>9. /\ DOMAIN q = DOMAIN ledger
        /\ \A k \in DOMAIN ledger : k # prev => q[k] = ledger[k]
        /\ q[prev] = s
    BY <2>3
  <2>10. \A k \in DOMAIN q : q[k].start = ledger[k].start
    BY <2>3, <2>6, <2>9
  <2>11. \A k \in DOMAIN q : q[k].start = c => q[k].superseded
    <3> SUFFICES ASSUME NEW k \in DOMAIN ledger, ledger[k].start = c, k # prev
                 PROVE  ledger[k].superseded
      BY <2>6, <2>9, <2>10
    <3>1. DOMAIN ledger = 1 .. Len(ledger) /\ Len(ledger) \in Nat
      BY LenProperties DEF LedgerInv, IsLedger
    <3>2. k \in RowsOf(c)
      BY DEF RowsOf
    <3>3. k < prev
      BY <2>2, <2>3, <3>1, <3>2
    <3> QED
      BY <2>3, <3>3 DEF LedgerInv, IsLedger, Replaced
  <2>12. \A k \in DOMAIN q : Apart(q[k].start, c)
    BY <2>1, <2>9, <2>10, GridKeepsApart
  <2> HIDE DEF q
  <2>13. Shaped(d) /\ Sound(d) /\ d.start = c
    BY DraftIsSound
  <2>14. Settled(c, revising) = Append(q, d)
    BY <1>2 DEF Settled, q, s, prev
  <2> HIDE DEF d
  <2> QED
    BY <2>8, <2>11, <2>12, <2>13, <2>14, RowAppended
<1>3. CASE ~First(c) /\ ~(revising /\ Revises(c))
  BY <1>3 DEF Settled, LedgerInv
<1> QED
  BY <1>1, <1>2, <1>3

-----------------------------------------------------------------------------
(* The steps. *)

LEMMA CandidateType ==
  ASSUME SweepInv, NEW r \in Sweeps, sweep[r].todo # {}
  PROVE  Candidate(r) \in Int
<1>1. sweep[r].todo \in SUBSET Nat
  BY DEF SweepInv
<1>2. Candidate(r) \in Nat
  BY <1>1, LeastTime DEF Candidate
<1> QED
  BY <1>2

\* The awaiting weeks are moments since the organization was first billed.
LEMMA AwaitingType ==
  ASSUME SweepInv
  PROVE  Oldest(Awaiting) \in SUBSET Nat
<1>1. \A n \in 1 .. BackOffsets : anchor - n * Week \in Int
  BY WeekIsPositive, SettlementAssumption DEF SweepInv
<1>2. Awaiting \subseteq Nat
  BY <1>1 DEF Awaiting
<1> QED
  BY <1>2 DEF Oldest

LEMMA SweepRecord ==
  ASSUME NEW s, s = [todo |-> s.todo, at |-> s.at], NEW x
  PROVE  /\ [s EXCEPT !.todo = x] = [todo |-> x, at |-> s.at]
         /\ [s EXCEPT !.at = x] = [todo |-> s.todo, at |-> x]
OBVIOUS

LEMMA SweepMoves ==
  ASSUME Inv, NEW r \in Sweeps,
         Enumerate(r) \/ Consider(r) \/ Writes(r) \/ CallFails(r) \/ Stop(r)
  PROVE  SweepInv'
<1>1. /\ now \in Nat /\ anchor \in Nat
      /\ sweep \in [Sweeps -> [todo : SUBSET Nat, at : {"look", "settle"}]]
      /\ \A k \in Sweeps : sweep[k].at = "settle" => sweep[k].todo # {}
      /\ now' = now /\ anchor' = anchor
  BY DEF Inv, SweepInv, Enumerate, Consider, Writes, CallFails, Stop
<1>2. sweep[r] = [todo |-> sweep[r].todo, at |-> sweep[r].at]
      /\ sweep[r].todo \in SUBSET Nat
  BY <1>1
<1>3. ASSUME NEW todo \in SUBSET Nat, NEW at \in {"look", "settle"},
             at = "settle" => todo # {},
             sweep' = [sweep EXCEPT ![r] = [todo |-> todo, at |-> at]]
      PROVE  SweepInv'
  <2>1. sweep' \in [Sweeps -> [todo : SUBSET Nat, at : {"look", "settle"}]]
    BY <1>1, <1>3
  <2>2. \A k \in Sweeps : sweep'[k] = IF k = r THEN [todo |-> todo, at |-> at] ELSE sweep[k]
    BY <1>1, <1>3
  <2>3. \A k \in Sweeps : sweep'[k].at = "settle" => sweep'[k].todo # {}
    BY <1>1, <1>3, <2>2
  <2> QED
    BY <1>1, <2>1, <2>3 DEF SweepInv
<1>4. Popped(r) = [sweep EXCEPT ![r] = [todo |-> sweep[r].todo \ {Candidate(r)}, at |-> "look"]]
  BY <1>1 DEF Popped
<1>5. sweep[r].todo \ {Candidate(r)} \in SUBSET Nat
  BY <1>2
<1>6. sweep' = Popped(r) => SweepInv'
  BY <1>3, <1>4, <1>5
<1> DEFINE s == sweep[r]
<1>11. /\ [s EXCEPT !.todo = Oldest(Awaiting)] = [todo |-> Oldest(Awaiting), at |-> s.at]
       /\ [s EXCEPT !.at = "settle"] = [todo |-> s.todo, at |-> "settle"]
  BY <1>2, SweepRecord
<1>7. CASE Enumerate(r)
  <2>1. sweep' = [sweep EXCEPT ![r].todo = Oldest(Awaiting)]
        /\ sweep[r].todo = {} /\ sweep[r].at # "settle"
    BY <1>1, <1>7 DEF Enumerate
  <2>2. sweep[r].at = "look"
    BY <1>1, <2>1
  <2>3. sweep' = [sweep EXCEPT ![r] = [todo |-> Oldest(Awaiting), at |-> "look"]]
    BY <1>11, <2>1, <2>2
  <2>4. Oldest(Awaiting) \in SUBSET Nat
    BY AwaitingType DEF Inv
  <2> QED
    BY <1>3, <2>3, <2>4
<1>8. CASE Consider(r)
  <2>1. sweep[r].todo # {}
        /\ (sweep' = Popped(r) \/ sweep' = [sweep EXCEPT ![r].at = "settle"])
    BY <1>8 DEF Consider
  <2>2. [sweep EXCEPT ![r].at = "settle"]
          = [sweep EXCEPT ![r] = [todo |-> sweep[r].todo, at |-> "settle"]]
    BY <1>11
  <2> QED
    BY <1>2, <1>3, <1>6, <2>1, <2>2
<1>9. CASE Writes(r) \/ CallFails(r)
  BY <1>6, <1>9 DEF Writes, CallFails
<1>10. CASE Stop(r)
  BY <1>3, <1>10 DEF Stop
<1> QED
  BY <1>7, <1>8, <1>9, <1>10

LEMMA NextInv == Inv /\ [Next]_vars => Inv'
<1> SUFFICES ASSUME Inv, [Next]_vars PROVE Inv'
  OBVIOUS
<1>1. LedgerInv /\ SweepInv /\ anchor \in Int
  BY DEF Inv, SweepInv
<1>2. ledger' = ledger => LedgerInv'
  BY <1>1 DEF LedgerInv
<1>3. UNCHANGED sweep /\ now' \in Nat /\ anchor' \in Nat => SweepInv'
  BY <1>1 DEF SweepInv
<1>4. now \in Nat /\ anchor \in Nat
  BY <1>1 DEF SweepInv
<1>5. CASE \E r \in Sweeps :
             Enumerate(r) \/ Consider(r) \/ Writes(r) \/ CallFails(r) \/ Stop(r)
  <2> PICK r \in Sweeps :
        Enumerate(r) \/ Consider(r) \/ Writes(r) \/ CallFails(r) \/ Stop(r)
    BY <1>5
  <2>1. SweepInv'
    BY SweepMoves
  <2>2. LedgerInv'
    <3>1. CASE Writes(r)
      <4>1. sweep[r].todo # {}
        BY <1>1, <3>1 DEF SweepInv, Writes
      <4>2. WeekOf(Candidate(r)) \in Int
        BY <1>1, <4>1, CandidateType, WeekOfType
      <4>3. ledger' = Settled(WeekOf(Candidate(r)), FALSE)
        BY <3>1 DEF Writes
      <4> QED
        BY <1>1, <4>2, <4>3, WriterKeeps DEF LedgerInv
    <3>2. CASE Enumerate(r) \/ Consider(r) \/ CallFails(r) \/ Stop(r)
      BY <1>2, <3>2 DEF Enumerate, Consider, CallFails, Stop
    <3> QED
      BY <3>1, <3>2
  <2> QED
    BY <2>1, <2>2 DEF Inv
<1>6. CASE Settle
  <2>1. PICK t \in 0 .. now : ledger' = Settled(WeekOf(t), TRUE)
    BY <1>6 DEF Settle
  <2>2. WeekOf(t) \in Int
    BY <1>1, <1>4, WeekOfType
  <2>3. LedgerInv'
    BY <1>1, <2>1, <2>2, WriterKeeps DEF LedgerInv
  <2> QED
    BY <1>3, <1>4, <1>6, <2>3 DEF Settle, Inv
<1>7. CASE \E i \in DOMAIN ledger :
             Promote(i) \/ Retract(i) \/ Begin(i) \/ Finish(i) \/ Retire(i)
  <2> PICK i \in DOMAIN ledger :
        Promote(i) \/ Retract(i) \/ Begin(i) \/ Finish(i) \/ Retire(i)
    BY <1>7
  <2>1. LedgerInv'
    BY <1>1, MoneyMoves
  <2>2. UNCHANGED <<now, anchor, sweep>>
    BY DEF Promote, Retract, Begin, Finish, Retire
  <2> QED
    BY <1>3, <1>4, <2>1, <2>2 DEF Inv
<1>8. CASE Receipt \/ WarmBooked \/ AccountChanges
  BY <1>2, <1>3, <1>4, <1>8 DEF Receipt, WarmBooked, AccountChanges, Inv
<1>9. CASE AnchorMoves
  <2>1. anchor' \in Nat
    BY <1>4, <1>9, WeekIsPositive DEF AnchorMoves
  <2> QED
    BY <1>2, <1>3, <1>4, <1>9, <2>1 DEF AnchorMoves, Inv
<1>10. CASE Tick
  <2>1. now' \in Nat
    BY <1>4, <1>10 DEF Tick
  <2> QED
    BY <1>2, <1>3, <1>4, <1>10, <2>1 DEF Tick, Inv
<1>11. CASE UNCHANGED vars
  BY <1>2, <1>3, <1>4, <1>11 DEF vars, Inv
<1> QED
  BY <1>5, <1>6, <1>7, <1>8, <1>9, <1>10, <1>11 DEF Next

-----------------------------------------------------------------------------
(* The theorems. *)

LEMMA SupersededIsNoMoney ==
  ASSUME LedgerInv, NEW i \in DOMAIN ledger, ledger[i].superseded
  PROVE  ~Billed(ledger[i]) /\ ~Sent(ledger[i])
<1>1. Shaped(ledger[i]) /\ Sound(ledger[i])
  BY DEF LedgerInv, IsLedger
<1> QED
  BY <1>1 DEF Sound, Billed, Sent

LEMMA InvBilledOnce == Inv => UsageBilledOnce
<1> SUFFICES ASSUME Inv, NEW i \in DOMAIN ledger, NEW j \in DOMAIN ledger, i # j,
                    Billed(ledger[i]), Billed(ledger[j])
             PROVE  Ticks(ledger[i].start) \cap Ticks(ledger[j].start) = {}
  BY DEF UsageBilledOnce
<1>1. /\ DOMAIN ledger \subseteq Int
      /\ ledger[i].start \in Int /\ ledger[j].start \in Int
  BY LenProperties DEF Inv, LedgerInv, IsLedger, Shaped
<1>2. ~ledger[i].superseded /\ ~ledger[j].superseded
  BY SupersededIsNoMoney DEF Inv
<1>3. ledger[i].start # ledger[j].start
  <2>1. i < j \/ j < i
    BY <1>1
  <2> QED
    BY <1>2, <2>1 DEF Inv, LedgerInv, IsLedger, Replaced
<1>4. Apart(ledger[i].start, ledger[j].start)
  BY DEF Inv, LedgerInv, IsLedger, Disjoint
<1> QED
  BY <1>1, <1>3, <1>4, WeekIsPositive, SettlementAssumption DEF Apart, Ticks, Times

\* No usage is billed twice, whatever grid the weeks lie on and however often a
\* settlement is revised, retracted or given back (steps 4, 9 and 12 of
\* settle_billing_period and the latches of the rows).
THEOREM BilledOnceCorrect == Spec => []UsageBilledOnce
<1>1. Init => Inv
  BY InitInv
<1>2. Inv /\ [Next]_vars => Inv'
  BY NextInv
<1>3. Inv => UsageBilledOnce
  BY InvBilledOnce
<1> QED
  BY <1>1, <1>2, <1>3, PTL DEF Spec

-----------------------------------------------------------------------------
(* What becomes money. *)

\* Only the promoter makes money of a draft.
LEMMA OnlyPromotion ==
  ASSUME Inv, [Next]_vars, NEW i \in DOMAIN ledger,
         ledger[i].status = "draft", ledger'[i].status = "pending"
  PROVE  Promote(i)
<1>1. Shaped(ledger[i])
  BY DEF Inv, LedgerInv, IsLedger
<1>2. ledger' = ledger => FALSE
  OBVIOUS
<1>3. ASSUME NEW k \in DOMAIN ledger, NEW s, ledger' = [ledger EXCEPT ![k] = s],
             s.status = "pending" => ledger[k].status # "draft"
      PROVE  FALSE
  <2>1. CASE k = i
    BY <1>3, <2>1
  <2>2. CASE k # i
    BY <1>3, <2>2
  <2> QED
    BY <2>1, <2>2
<1>4. \A c \in Int : \A revising : ledger' = Settled(c, revising) => FALSE
  <2> SUFFICES ASSUME NEW c \in Int, NEW revising, ledger' = Settled(c, revising)
               PROVE  FALSE
    OBVIOUS
  <2>1. ASSUME NEW q, NEW S, q \in Seq(S), NEW d, i \in DOMAIN q,
               ledger' = Append(q, d), q[i].status = "draft"
        PROVE  FALSE
    <3>1. i \in 1 .. Len(q)
      BY <2>1, LenProperties
    <3>2. Append(q, d)[i] = q[i]
      <4>1. q \in Seq(S \cup {d}) /\ d \in S \cup {d}
        BY <2>1, SeqMonotonic
      <4> QED
        BY <3>1, <4>1, AppendProperties
    <3> QED
      BY <2>1, <3>2
  <2>2. ledger \in Seq({ledger[k] : k \in DOMAIN ledger})
    BY DEF Inv, LedgerInv, IsLedger
  <2>3. CASE First(c)
    BY <2>1, <2>2, <2>3 DEF Settled
  <2>4. CASE ~First(c) /\ revising /\ Revises(c)
    <3> DEFINE prev == Max(RowsOf(c))
               q == [ledger EXCEPT ![prev].superseded = TRUE]
               d == Draft(c, ledger[prev].revision + 1)
               S == {ledger[k] : k \in DOMAIN ledger}
               s == [ledger[prev] EXCEPT !.superseded = TRUE]
    <3>1. ledger' = Append(q, d)
      BY <2>4 DEF Settled
    <3>2. q = [ledger EXCEPT ![prev] = s]
      OBVIOUS
    <3>3. prev \in RowsOf(c)
      <4>1. DOMAIN ledger = 1 .. Len(ledger) /\ Len(ledger) \in Nat
        BY <2>2, LenProperties
      <4>2. RowsOf(c) \in SUBSET (1 .. Len(ledger)) /\ RowsOf(c) # {}
        BY <2>4, <4>1 DEF RowsOf, Revises
      <4> QED
        BY <4>1, <4>2, GreatestRow
    <3>4. prev \in DOMAIN ledger
      BY <3>3 DEF RowsOf
    <3> HIDE DEF prev
    <3>5. s.status = ledger[prev].status
      BY <3>4, RowSuperseded DEF Inv, LedgerInv, IsLedger
    <3> HIDE DEF s
    <3>6. q[i].status = "draft" /\ DOMAIN q = DOMAIN ledger
      BY <3>2, <3>4, <3>5
    <3>7. q \in Seq(S \cup {s})
      <4>1. ledger \in Seq(S \cup {s}) /\ prev \in 1 .. Len(ledger) /\ s \in S \cup {s}
        BY <2>2, <3>4, SeqMonotonic, LenProperties
      <4> QED
        BY <3>2, <4>1, ExceptSeq
    <3> HIDE DEF q, d, S
    <3> QED
      BY <2>1, <3>1, <3>6, <3>7
  <2>5. CASE ~First(c) /\ ~(revising /\ Revises(c))
    BY <1>2, <2>5 DEF Settled
  <2> QED
    BY <2>3, <2>4, <2>5
<1>5. ASSUME NEW r \in Sweeps,
             Enumerate(r) \/ Consider(r) \/ Writes(r) \/ CallFails(r) \/ Stop(r)
      PROVE  FALSE
  <2>1. CASE Writes(r)
    <3>1. SweepInv /\ sweep[r].todo # {} /\ anchor \in Int
      BY <2>1 DEF Inv, SweepInv, Writes
    <3>2. WeekOf(Candidate(r)) \in Int
      BY <3>1, CandidateType, WeekOfType
    <3> QED
      BY <1>4, <2>1, <3>2 DEF Writes
  <2>2. CASE Enumerate(r) \/ Consider(r) \/ CallFails(r) \/ Stop(r)
    BY <1>2, <2>2 DEF Enumerate, Consider, CallFails, Stop
  <2> QED
    BY <1>5, <2>1, <2>2
<1>6. CASE Settle
  <2>1. PICK t \in 0 .. now : ledger' = Settled(WeekOf(t), TRUE)
    BY <1>6 DEF Settle
  <2>2. WeekOf(t) \in Int
    BY WeekOfType DEF Inv, SweepInv
  <2> QED
    BY <1>4, <2>1, <2>2
<1>7. ASSUME NEW k \in DOMAIN ledger,
             Retract(k) \/ Begin(k) \/ Finish(k) \/ Retire(k) \/ (Promote(k) /\ k # i)
      PROVE  FALSE
  <2>1. Shaped(ledger[k])
    BY DEF Inv, LedgerInv, IsLedger
  <2>2. \A status \in Statuses : [ledger[k] EXCEPT !.status = status].status = status
    BY <2>1, StatusOfRow
  <2>3. [ledger[k] EXCEPT !.status = "sending", !.marked = TRUE].status = "sending"
    <3>1. \A status \in Statuses :
            [ledger[k] EXCEPT !.status = status, !.marked = TRUE].status = status
      BY <2>1, StatusOfRow
    <3> QED
      BY <3>1 DEF Statuses
  <2>4. {"pending", "void", "reported", "review", "sending"} \subseteq Statuses
    BY DEF Statuses
  <2>5. CASE Retract(k)
    <3>1. ledger' = [ledger EXCEPT ![k] = [ledger[k] EXCEPT !.status = "void"]]
      BY <2>5 DEF Retract, SetStatus
    <3> QED
      BY <1>3, <2>2, <2>4, <3>1
  <2>6. CASE Begin(k)
    <3>1. ledger' = [ledger EXCEPT ![k] =
                       [ledger[k] EXCEPT !.status = "sending", !.marked = TRUE]]
      BY <2>6 DEF Begin
    <3> QED
      BY <1>3, <2>3, <3>1
  <2>7. CASE Finish(k)
    <3>1. PICK status \in {"reported", "review", "pending"} :
            ledger' = [ledger EXCEPT ![k] = [ledger[k] EXCEPT !.status = status]]
      BY <2>7 DEF Finish, SetStatus
    <3>2. ledger[k].status # "draft"
      BY <2>7 DEF Finish
    <3> QED
      BY <1>3, <3>1, <3>2
  <2>8. CASE Retire(k)
    <3>1. ledger' = [ledger EXCEPT ![k] = [ledger[k] EXCEPT !.status = "review"]]
      BY <2>8 DEF Retire, SetStatus
    <3> QED
      BY <1>3, <2>2, <2>4, <3>1
  <2>9. CASE Promote(k) /\ k # i
    BY <2>9 DEF Promote, SetStatus
  <2> QED
    BY <1>7, <2>5, <2>6, <2>7, <2>8, <2>9
<1>8. CASE Receipt \/ WarmBooked \/ AnchorMoves \/ AccountChanges \/ Tick \/ UNCHANGED vars
  BY <1>2, <1>8 DEF Receipt, WarmBooked, AnchorMoves, AccountChanges, Tick, vars
<1> QED
  BY <1>5, <1>6, <1>7, <1>8 DEF Next

\* Of the rows of a draft's week the draft is the only one that is not superseded,
\* so nothing of that week is queued or sent beside it.
LEMMA PromotedAlone ==
  ASSUME Inv, NEW i \in DOMAIN ledger, Promote(i)
  PROVE  LET c == ledger[i].start
         IN MapThenSumSet(LAMBDA j : ledger[j].fee,
                          {j \in RowsOf(c) : j = i \/ Billed(ledger[j])}) <= Ceiling(c)
<1> DEFINE c == ledger[i].start
           s == ledger[i]
<1>1. /\ s.status = "draft" /\ ~s.superseded /\ s.fee > 0
      /\ Gate(c, s.fee)
  BY DEF Promote
<1>2. ~s.marked /\ DOMAIN ledger \subseteq Int
  BY <1>1, LenProperties DEF Inv, LedgerInv, IsLedger, Sound
<1>3. i \in RowsOf(c) /\ \A j \in RowsOf(c) : j \in DOMAIN ledger /\ ledger[j].start = c
  BY DEF RowsOf
<1>4. \A j \in RowsOf(c) : j # i => ~Billed(ledger[j]) /\ ~Sent(ledger[j])
  <2> SUFFICES ASSUME NEW j \in RowsOf(c), j # i
               PROVE  ~Billed(ledger[j]) /\ ~Sent(ledger[j])
    OBVIOUS
  <2>1. j < i \/ i < j
    BY <1>2, <1>3
  <2>2. ~(i < j)
    BY <1>1, <1>3 DEF Inv, LedgerInv, IsLedger, Replaced
  <2>3. ledger[j].superseded
    BY <1>3, <2>1, <2>2 DEF Inv, LedgerInv, IsLedger, Replaced
  <2> QED
    BY <1>3, <2>3, SupersededIsNoMoney DEF Inv
<1>5. {j \in RowsOf(c) : j = i \/ Billed(ledger[j])} = {i}
  BY <1>3, <1>4
<1>6. ~Sent(s)
  BY <1>1, <1>2 DEF Sent
<1>7. {j \in RowsOf(c) : Sent(ledger[j])} = {}
  BY <1>4, <1>6
<1>8. SentFee(c) = 0
  BY <1>7, SumOfNone DEF SentFee
<1>9. s.fee # 0
  BY <1>1
<1>10. s.fee + 0 <= Ceiling(c)
  BY <1>1, <1>8, <1>9 DEF Gate
<1>11. MapThenSumSet(LAMBDA j : ledger[j].fee, {i}) = s.fee + 0
  BY SumOfOne
<1> QED
  BY <1>5, <1>10, <1>11

\* What becomes money is within the evidence of that moment, with all that is
\* queued or sent for its week (promote_billing_period_settlement).
THEOREM PromotionCorrect == Spec => PromotedWithinEvidence
<1>1. Init => Inv
  BY InitInv
<1>2. Inv /\ [Next]_vars => Inv'
  BY NextInv
<1>3. Inv /\ [Next]_vars =>
        [\A i \in DOMAIN ledger :
           ledger[i].status = "draft" /\ ledger'[i].status = "pending" =>
             LET c == ledger[i].start
             IN MapThenSumSet(LAMBDA j : ledger[j].fee,
                              {j \in RowsOf(c) : j = i \/ Billed(ledger[j])})
                  <= Ceiling(c)]_vars
  BY OnlyPromotion, PromotedAlone
<1> QED
  BY <1>1, <1>2, <1>3, PTL DEF Spec, PromotedWithinEvidence
====
