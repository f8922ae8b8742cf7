---------------------------- MODULE AiQuota_proofs ----------------------------
(* Proofs about the points account: for any users, runs, limits, estimates *)
(* and charges.                                                            *)
EXTENDS AiQuota, FiniteSetTheorems, WellFoundedInduction, TLAPS

Ledger == [Users -> [Runs -> Entries]]

\* What every operation does to the account of one user: the new row b spends
\* no more than the old one, or no more than its limit.
WithinLimit(a, b) == Spent(b) <= Spent(a) \/ Spent(b) <= a.limit

WritesAccount ==
    \E u \in Users, b \in Account :
        account' = [account EXCEPT ![u] = b] /\ WithinLimit(account[u], b)

-----------------------------------------------------------------------------
(* The records the operations write                                        *)

LEMMA AccountFields ==
    ASSUME QuotaConstants, NEW a \in Account
    PROVE  /\ a.limit \in Nat /\ a.used \in Nat /\ a.reserved \in Nat
           /\ Spent(a) \in Nat
<1>1. a.limit \in Nat /\ a.used \in Nat /\ a.reserved \in Nat
  BY DEF QuotaConstants, Account
<1> QED BY <1>1 DEF Spent

\* A renewal keeps the limit and the reserved points, and only lowers the use.
LEMMA RenewedAccount ==
    ASSUME QuotaConstants, NEW a \in Account
    PROVE  /\ Renewed(a) \in Account
           /\ Renewed(a).limit = a.limit
           /\ Spent(Renewed(a)) <= Spent(a)
<1>1. CASE a.over /\ a.reserved = 0
  <2>1. PICK b : b = [a EXCEPT !.used = 0, !.over = FALSE]
    OBVIOUS
  <2>2. b \in Account /\ b.limit = a.limit /\ b.used = 0 /\ b.reserved = a.reserved
    BY <2>1 DEF Account
  <2>3. b.used + b.reserved <= a.used + a.reserved
    BY <2>2 DEF Account
  <2> QED BY <1>1, <2>1, <2>2, <2>3 DEF Renewed, Spent
<1>2. CASE ~(a.over /\ a.reserved = 0)
  <2>1. a.used + a.reserved <= a.used + a.reserved
    BY DEF Account
  <2> QED BY <1>2, <2>1 DEF Renewed, Spent
<1> QED BY <1>1, <1>2

\* Points that were affordable leave the account within its limit.
LEMMA AffordableFits ==
    ASSUME QuotaConstants, NEW a \in Account, NEW p \in Nat, Affordable(a, p)
    PROVE  p = 0 \/ Spent(a) + p <= a.limit
<1>1. a.limit \in Nat /\ a.used \in Nat /\ a.reserved \in Nat
  BY AccountFields
<1> QED BY <1>1 DEF Affordable, Available, Spent

\* A reservation that was affordable.
LEMMA ReservedAccount ==
    ASSUME QuotaConstants, NEW a \in Account, NEW p \in Nat, Affordable(a, p),
           NEW b, b = [a EXCEPT !.reserved = @ + p]
    PROVE  b \in Account /\ WithinLimit(a, b)
<1>1. a.limit \in Nat /\ a.used \in Nat /\ a.reserved \in Nat /\ a.reserved + p \in Nat
  BY DEF QuotaConstants, Account
<1>2. b \in Account /\ b.used = a.used /\ b.reserved = a.reserved + p
  BY <1>1 DEF Account
<1>3. p = 0 \/ Spent(a) + p <= a.limit
  BY AffordableFits
<1>4. Spent(b) = Spent(a) + p
  BY <1>1, <1>2 DEF Spent
<1>5. Spent(b) <= Spent(a) \/ Spent(b) <= a.limit
  BY <1>1, <1>3, <1>4 DEF Spent
<1> QED BY <1>2, <1>5 DEF WithinLimit

\* A charge of c for p reserved points whose excess was affordable.
LEMMA ChargedAccount ==
    ASSUME QuotaConstants, NEW a \in Account, NEW p \in Nat, NEW c \in Nat,
           a.reserved >= p, Affordable(a, IF c > p THEN c - p ELSE 0),
           NEW b, b = [a EXCEPT !.reserved = @ - p, !.used = @ + c]
    PROVE  b \in Account /\ WithinLimit(a, b)
<1>1. /\ a.limit \in Nat /\ a.used \in Nat /\ a.reserved \in Nat
      /\ a.reserved - p \in Nat /\ a.used + c \in Nat
  BY DEF QuotaConstants, Account
<1>2. b \in Account /\ b.used = a.used + c /\ b.reserved = a.reserved - p
  BY <1>1 DEF Account
<1>3. Spent(b) = Spent(a) + c - p
  BY <1>1, <1>2 DEF Spent
<1>4. CASE c > p
  <2>1. c - p \in Nat /\ c - p # 0 /\ Affordable(a, c - p)
    BY <1>4
  <2>2. Spent(a) + (c - p) <= a.limit
    BY <2>1, AffordableFits
  <2>3. Spent(b) <= a.limit
    BY <1>1, <1>3, <2>2 DEF Spent
  <2> QED BY <1>2, <2>3 DEF WithinLimit
<1>5. CASE ~(c > p)
  <2>1. Spent(b) <= Spent(a)
    BY <1>1, <1>3, <1>5 DEF Spent
  <2> QED BY <1>2, <2>1 DEF WithinLimit
<1> QED BY <1>4, <1>5

\* Writing one row and the entries of one run.
LEMMA WriteType ==
    ASSUME QuotaTypeOK, NEW u \in Users, NEW n \in Runs,
           NEW a \in Account, NEW e \in Entries, Write(u, n, a, e)
    PROVE  /\ ledger' \in Ledger
           /\ account' = [account EXCEPT ![u] = a]
<1>1. [ledger EXCEPT ![u][n] = e] \in Ledger
  BY DEF QuotaTypeOK, Ledger
<1> QED BY <1>1 DEF Write

-----------------------------------------------------------------------------
(* The operations                                                          *)

\* What each operation keeps: the shape of the ledger, and one account written
\* within its limit, or nothing written.
Safe == ledger' \in Ledger /\ (WritesAccount \/ account' = account)

\* A reservation is safe: what it adds was affordable.
LEMMA ReserveSafe ==
    ASSUME QuotaConstants, QuotaTypeOK,
           NEW u \in Users, NEW n \in Runs, NEW p \in Reservations, Reserve(u, n, p)
    PROVE  Safe
<1> DEFINE a == account[u]
           r == Renewed(a)
           e == ledger[u][n]
<1>1. a \in Account /\ e \in Entries /\ p \in Nat
  BY DEF QuotaTypeOK, QuotaConstants
<1>2. r \in Account /\ r.limit = a.limit /\ Spent(r) <= Spent(a)
  BY <1>1, RenewedAccount
<1> HIDE DEF r
<1>3. Spent(r) \in Int /\ Spent(a) \in Int /\ a.limit \in Int
  <2>1. Spent(r) \in Nat
    BY <1>2, AccountFields
  <2>2. Spent(a) \in Nat /\ a.limit \in Nat
    BY <1>1, AccountFields
  <2> QED BY <2>1, <2>2
<1>4. CASE e.reserve
  <2>1. Write(u, n, r, e)
    BY <1>4 DEF Reserve, r
  <2>2. ledger' \in Ledger /\ account' = [account EXCEPT ![u] = r]
    BY <1>1, <1>2, <2>1, WriteType
  <2>3. WithinLimit(a, r)
    BY <1>2 DEF WithinLimit
  <2> QED BY <1>2, <2>2, <2>3 DEF Safe, WritesAccount
<1>5. CASE ~e.reserve
  <2>1. PICK b : b = [r EXCEPT !.reserved = @ + p]
    OBVIOUS
  <2>2. PICK d : d = [e EXCEPT !.reserve = TRUE, !.points = p]
    OBVIOUS
  <2>3. d \in Entries
    BY <1>1, <2>2 DEF Entries
  <2>4. Affordable(r, p) /\ Write(u, n, b, d)
    BY <1>5, <2>1, <2>2 DEF Reserve, Reservable, r
  <2>5. b \in Account /\ WithinLimit(r, b)
    BY <1>1, <1>2, <2>1, <2>4, ReservedAccount
  <2>6. Spent(b) \in Int
    BY <2>5 DEF Spent, Account
  <2>7. WithinLimit(a, b)
    BY <1>2, <1>3, <2>5, <2>6 DEF WithinLimit
  <2>8. ledger' \in Ledger /\ account' = [account EXCEPT ![u] = b]
    BY <2>3, <2>4, <2>5, WriteType
  <2> QED BY <2>5, <2>7, <2>8 DEF Safe, WritesAccount
<1> QED BY <1>4, <1>5

\* A settlement is safe: what it charges beyond the reservation was affordable.
LEMMA SettleSafe ==
    ASSUME QuotaConstants, QuotaTypeOK,
           NEW u \in Users, NEW n \in Runs, NEW c \in Nat, Settle(u, n, c)
    PROVE  Safe
<1> DEFINE a == account[u]
           e == ledger[u][n]
<1>1. a \in Account /\ e \in Entries /\ e.points \in Nat
  BY DEF QuotaTypeOK, Entries
<1>2. CASE e.settlements > 0
  <2>1. UNCHANGED quotaVars
    BY <1>2 DEF Settle
  <2> QED BY <2>1 DEF Safe, quotaVars, QuotaTypeOK, Ledger
<1>3. CASE ~(e.settlements > 0)
  <2>1. PICK b : b = [a EXCEPT !.reserved = @ - e.points, !.used = @ + c]
    OBVIOUS
  <2>2. PICK d : d = [e EXCEPT !.settlements = @ + 1]
    OBVIOUS
  <2>3. e.settlements + 1 \in Nat
    BY <1>1 DEF Entries
  <2>4. d \in Entries
    BY <1>1, <2>2, <2>3 DEF Entries
  <2>5. Write(u, n, b, d)
    BY <1>3, <2>1, <2>2 DEF Settle
  <2>6. /\ a.reserved >= e.points
        /\ Affordable(a, IF c > e.points THEN c - e.points ELSE 0)
    BY <1>3 DEF Settle, Settleable, Reserved, Additional
  <2>7. b \in Account /\ WithinLimit(a, b)
    BY <1>1, <2>1, <2>6, ChargedAccount
  <2>8. ledger' \in Ledger /\ account' = [account EXCEPT ![u] = b]
    BY <2>4, <2>5, <2>7, WriteType
  <2> QED BY <2>7, <2>8 DEF Safe, WritesAccount
<1> QED BY <1>2, <1>3

\* The release of lease recovery is safe.
LEMMA ReleaseUnusedSafe ==
    ASSUME QuotaConstants, QuotaTypeOK,
           NEW u \in Users, NEW n \in Runs, ReleaseUnused(u, n)
    PROVE  Safe
<1> DEFINE a == account[u]
           e == ledger[u][n]
<1>1. a \in Account /\ e \in Entries /\ e.points \in Nat
  BY DEF QuotaTypeOK, Entries
<1>2. PICK b : b = [a EXCEPT !.reserved = @ - e.points]
  OBVIOUS
<1>3. PICK d : d = [e EXCEPT !.releases = @ + 1]
  OBVIOUS
<1>4. a.reserved >= e.points /\ Write(u, n, b, d)
  BY <1>2, <1>3 DEF ReleaseUnused, Reserved, AddRelease
<1>5. a.reserved - e.points \in Nat /\ e.releases + 1 \in Nat
  BY <1>1, <1>4 DEF Account, Entries
<1>6. /\ d \in Entries /\ b \in Account
      /\ b.used = a.used /\ b.reserved = a.reserved - e.points
  BY <1>1, <1>2, <1>3, <1>5 DEF Account, Entries
<1>7. WithinLimit(a, b)
  BY <1>1, <1>6 DEF WithinLimit, Spent, Account
<1>8. ledger' \in Ledger /\ account' = [account EXCEPT ![u] = b]
  BY <1>4, <1>6, WriteType
<1> QED BY <1>6, <1>7, <1>8 DEF Safe, WritesAccount

\* A release is safe: it only gives points back.
LEMMA ReleaseSafe ==
    ASSUME QuotaConstants, QuotaTypeOK,
           NEW u \in Users, NEW n \in Runs, Release(u, n)
    PROVE  Safe
<1>1. CASE ledger[u][n].releases > 0
  <2>1. UNCHANGED quotaVars
    BY <1>1 DEF Release
  <2> QED BY <2>1 DEF Safe, quotaVars, QuotaTypeOK, Ledger
<1>2. CASE ~(ledger[u][n].releases > 0)
  <2>1. ReleaseUnused(u, n)
    BY <1>2 DEF Release, Releasable, ReleaseUnused
  <2> QED BY <2>1, ReleaseUnusedSafe
<1> QED BY <1>1, <1>2

\* A new limit leaves what has been spent as it is.
LEMMA UpdateQuotaType ==
    ASSUME QuotaTypeOK, NEW u \in Users, NEW l \in MonthlyLimits,
           NEW over \in BOOLEAN, UpdateQuota(u, l, over)
    PROVE  \E b \in Account :
              /\ account' = [account EXCEPT ![u] = b]
              /\ b.limit = l /\ Spent(b) = Spent(account[u])
<1>1. PICK b : b = [account[u] EXCEPT !.limit = l, !.over = over]
  OBVIOUS
<1>2. account[u] \in Account
  BY DEF QuotaTypeOK
<1>3. /\ b \in Account /\ b.limit = l
      /\ b.used = account[u].used /\ b.reserved = account[u].reserved
  BY <1>1, <1>2 DEF Account
<1>4. account' = [account EXCEPT ![u] = b]
  BY <1>1 DEF UpdateQuota
<1> QED BY <1>3, <1>4 DEF Spent

\* The end of a period leaves limit and spending as they are.
LEMMA EndPeriodType ==
    ASSUME QuotaTypeOK, NEW u \in Users, EndPeriod(u)
    PROVE  \E b \in Account :
              /\ account' = [account EXCEPT ![u] = b]
              /\ b.limit = account[u].limit /\ Spent(b) = Spent(account[u])
<1>1. PICK b : b = [account[u] EXCEPT !.over = TRUE]
  OBVIOUS
<1>2. account[u] \in Account
  BY DEF QuotaTypeOK
<1>3. /\ b \in Account /\ b.limit = account[u].limit
      /\ b.used = account[u].used /\ b.reserved = account[u].reserved
  BY <1>1, <1>2 DEF Account
<1>4. account' = [account EXCEPT ![u] = b]
  BY <1>1, <1>2 DEF EndPeriod, QuotaTypeOK
<1> QED BY <1>3, <1>4 DEF Spent

-----------------------------------------------------------------------------
(* The invariants                                                          *)

\* The limit in force is one an administrator gives, so QuotaTypeOK with
\* QuotaNeverOverdrawn is inductive.
QuotaInv == QuotaTypeOK /\ QuotaNeverOverdrawn

\* A row that spends no more than the old one, or no more than its limit.
LEMMA WithinLimitKeepsInv ==
    ASSUME QuotaConstants, QuotaInv, NEW u \in Users, NEW b \in Account,
           account' = [account EXCEPT ![u] = b], WithinLimit(account[u], b),
           ledger' \in Ledger
    PROVE  QuotaInv'
<1>1. QuotaTypeOK'
  BY DEF QuotaInv, QuotaTypeOK, Ledger
<1>2. ASSUME NEW v \in Users
      PROVE  \E l \in MonthlyLimits : Spent(account'[v]) <= l
  <2>1. CASE v # u
    <3>1. account'[v] = account[v]
      BY <2>1 DEF QuotaInv, QuotaTypeOK
    <3> QED BY <3>1 DEF QuotaInv, QuotaNeverOverdrawn
  <2>2. CASE v = u
    <3>1. account'[v] = b /\ account[u] \in Account
      BY <2>2 DEF QuotaInv, QuotaTypeOK
    <3>2. account[u].limit \in MonthlyLimits
      BY <3>1 DEF Account
    <3>3. PICK l \in MonthlyLimits : Spent(account[u]) <= l
      BY DEF QuotaInv, QuotaNeverOverdrawn
    <3>4. Spent(b) \in Nat /\ Spent(account[u]) \in Nat /\ l \in Nat
      BY <3>1, AccountFields DEF QuotaConstants
    <3>5. Spent(b) <= l \/ Spent(b) <= account[u].limit
      BY <3>3, <3>4 DEF WithinLimit
    <3> QED BY <3>1, <3>2, <3>5
  <2> QED BY <2>1, <2>2
<1> QED BY <1>1, <1>2 DEF QuotaInv, QuotaNeverOverdrawn

\* A safe step keeps the invariant.
LEMMA SafeKeepsInv ==
    ASSUME QuotaConstants, QuotaInv, Safe
    PROVE  QuotaInv'
<1>1. CASE WritesAccount
  BY <1>1, WithinLimitKeepsInv DEF WritesAccount, Safe
<1>2. CASE account' = account
  BY <1>2 DEF Safe, QuotaInv, QuotaTypeOK, Ledger, QuotaNeverOverdrawn
<1> QED BY <1>1, <1>2 DEF Safe

\* Every operation of the ledger, for any user, run and points, is safe.
LEMMA QuotaNextSafe ==
    ASSUME QuotaConstants, QuotaTypeOK, QuotaNext
    PROVE  Safe
<1>1. ASSUME NEW u \in Users, NEW n \in Runs, NEW p \in Reservations,
             Reserve(u, n, p)
      PROVE  Safe
  BY <1>1, ReserveSafe
<1>2. ASSUME NEW u \in Users, NEW n \in Runs,
             NEW c \in Charges \cup {ledger[u][n].points}, Settle(u, n, c)
      PROVE  Safe
  <2>1. c \in Nat
    BY <1>2 DEF QuotaTypeOK, QuotaConstants, Entries
  <2> QED BY <1>2, <2>1, SettleSafe
<1>3. ASSUME NEW u \in Users, NEW n \in Runs, Release(u, n)
      PROVE  Safe
  BY <1>3, ReleaseSafe
<1>4. ASSUME NEW u \in Users, NEW n \in Runs, ReleaseUnused(u, n)
      PROVE  Safe
  BY <1>4, ReleaseUnusedSafe
<1>5. ASSUME NEW u \in Users, NEW b \in Account,
             account' = [account EXCEPT ![u] = b], UNCHANGED ledger,
             Spent(b) = Spent(account[u])
      PROVE  Safe
  <2>1. Spent(b) \in Nat
    BY <1>5, AccountFields
  <2>2. WithinLimit(account[u], b)
    BY <1>5, <2>1 DEF WithinLimit
  <2> QED BY <1>5, <2>2 DEF Safe, WritesAccount, QuotaTypeOK, Ledger
<1>6. ASSUME NEW u \in Users, NEW l \in MonthlyLimits, NEW over \in BOOLEAN,
             UpdateQuota(u, l, over)
      PROVE  Safe
  <2>1. UNCHANGED ledger
    BY <1>6 DEF UpdateQuota
  <2> QED BY <1>5, <1>6, <2>1, UpdateQuotaType
<1>7. ASSUME NEW u \in Users, EndPeriod(u)
      PROVE  Safe
  <2>1. UNCHANGED ledger
    BY <1>7 DEF EndPeriod
  <2> QED BY <1>5, <1>7, <2>1, EndPeriodType
<1> QED BY <1>1, <1>2, <1>3, <1>4, <1>6, <1>7 DEF QuotaNext

\* The invariant is inductive.
LEMMA QuotaStep ==
    ASSUME QuotaConstants, QuotaInv, [QuotaNext]_quotaVars
    PROVE  QuotaInv'
<1>1. CASE UNCHANGED quotaVars
  BY <1>1 DEF quotaVars, QuotaInv, QuotaTypeOK, QuotaNeverOverdrawn
<1>2. CASE QuotaNext
  <2>1. QuotaTypeOK
    BY DEF QuotaInv
  <2> QED BY <1>2, <2>1, QuotaNextSafe, SafeKeepsInv
<1> QED BY <1>1, <1>2

\* The invariant holds of a new account.
LEMMA QuotaInitInv ==
    ASSUME QuotaConstants, QuotaInit
    PROVE  QuotaInv
<1>1. PICK l \in MonthlyLimits : account = [u \in Users |->
        [limit |-> l, used |-> 0, reserved |-> 0, over |-> FALSE]]
  BY DEF QuotaInit
<1>2. QuotaTypeOK
  <2>1. account \in [Users -> Account]
    BY <1>1 DEF Account
  <2>2. ledger \in [Users -> [Runs -> Entries]]
    BY DEF QuotaInit, NoEntries, Entries
  <2> QED BY <2>1, <2>2 DEF QuotaTypeOK
<1>3. ASSUME NEW u \in Users PROVE Spent(account[u]) <= l
  BY <1>1 DEF Spent, QuotaConstants
<1> QED BY <1>2, <1>3 DEF QuotaInv, QuotaNeverOverdrawn

\* The invariant holds in every behaviour of the account.
LEMMA QuotaInvariance == QuotaSpec => []QuotaInv
<1>1. QuotaInit => QuotaInv
  BY QuotaConstants, QuotaInitInv
<1>2. QuotaInv /\ [QuotaNext]_quotaVars => QuotaInv'
  BY QuotaConstants, QuotaStep
<1> QED BY <1>1, <1>2, PTL DEF QuotaSpec

\* The rows keep their types: in particular reserved_points, from which closing
\* an operation subtracts, never falls below zero, even where recovery releases
\* what was released before.
THEOREM QuotaTypeCorrect == QuotaSpec => []QuotaTypeOK
<1>1. QuotaInv => QuotaTypeOK
  BY DEF QuotaInv
<1> QED BY <1>1, QuotaInvariance, PTL

\* In any order of reservations, charges, releases, renewals and new limits, no
\* user has used and reserved more than the highest limit that is ever given.
THEOREM QuotaIsNeverOverdrawn == QuotaSpec => []QuotaNeverOverdrawn
<1>1. QuotaInv => QuotaNeverOverdrawn
  BY DEF QuotaInv
<1> QED BY <1>1, QuotaInvariance, PTL

\* A lowered limit may be below what a user has spent, but from there on no
\* reservation and no charge takes the user further.
THEOREM SpendingStops == QuotaSpec => SpendingStopsAtLimit
<1> DEFINE Stops == \A u \in Users : Spent(account[u]') > Spent(account[u])
                      => Spent(account[u]') <= account[u].limit
<1>1. ASSUME QuotaInv, QuotaInv', QuotaNext PROVE Stops
  <2> SUFFICES ASSUME NEW u \in Users
               PROVE  Spent(account[u]') > Spent(account[u])
                        => Spent(account[u]') <= account[u].limit
    OBVIOUS
  <2>0. account[u] \in Account /\ account'[u] \in Account
    BY <1>1 DEF QuotaInv, QuotaTypeOK
  <2>1. Safe /\ account \in [Users -> Account]
    BY <1>1, QuotaConstants, QuotaNextSafe DEF QuotaInv, QuotaTypeOK
  <2>2. Spent(account[u]) \in Nat /\ Spent(account'[u]) \in Nat
    BY <2>0, QuotaConstants, AccountFields
  <2>3. CASE account' = account
    BY <2>2, <2>3
  <2>4. CASE WritesAccount
    <3>1. PICK v \in Users, b \in Account :
            account' = [account EXCEPT ![v] = b] /\ WithinLimit(account[v], b)
      BY <2>4 DEF WritesAccount
    <3>2. account'[u] = IF u = v THEN b ELSE account[u]
      BY <2>1, <3>1
    <3>3. Spent(account'[u]) <= Spent(account[u]) \/ Spent(account'[u]) <= account[u].limit
      BY <2>2, <3>1, <3>2 DEF WithinLimit
    <3> QED BY <2>2, <3>3
  <2> QED BY <2>1, <2>3, <2>4 DEF Safe
<1>2. QuotaInv /\ QuotaInv' /\ [QuotaNext]_quotaVars => [Stops]_quotaVars
  BY <1>1
<1> QED BY <1>2, QuotaInvariance, PTL DEF QuotaSpec, SpendingStopsAtLimit
-----------------------------------------------------------------------------
(* Sums over runs.  MapThenSumSet folds with a recursive function on the    *)
(* sets of runs; these lemmas say of it what induction on the size of the   *)
(* set gives, carried out on the smallest set for which a claim is wrong.   *)

\* The run the fold takes first.
Pick(s) == CHOOSE x \in s : TRUE

\* g sums, over each set of runs, the points F gives them.
Sums(g, F) ==
    g = [s \in SUBSET Runs |->
          IF s = {} THEN 0 ELSE F[Pick(s)] + g[s \ {Pick(s)}]]

\* A nonempty set of numbers has a least one.
LEMMA LeastOf ==
    ASSUME NEW T \in SUBSET Nat, T # {}
    PROVE  \E t \in T : \A u \in T : t <= u
<1>1. PICK t \in T : \A u \in T : ~(<<u, t>> \in OpToRel(<, Nat))
  BY WFMin, NatLessThanWellFounded, Zenon
<1>2. ASSUME NEW u \in T PROVE t <= u
  <2>1. t \in Nat /\ u \in Nat
    OBVIOUS
  <2>2. <<u, t>> \in Nat \X Nat /\ <<u, t>>[1] = u /\ <<u, t>>[2] = t
    BY <2>1
  <2>3. ~(u < t)
    BY <1>1, <2>2, Zenon DEF OpToRel
  <2> QED BY <2>1, <2>3
<1> QED BY <1>2

\* Sets of runs are finite, and the run taken first leaves a smaller one.
LEMMA RunSets ==
    ASSUME QuotaConstants, NEW s \in SUBSET Runs
    PROVE  /\ Cardinality(s) \in Nat /\ Cardinality(s) <= MaxRuns
           /\ Cardinality(s) = 0 <=> s = {}
           /\ s # {} => /\ Pick(s) \in s
                        /\ s \ {Pick(s)} \in SUBSET Runs
                        /\ Cardinality(s \ {Pick(s)}) = Cardinality(s) - 1
<1>1. IsFiniteSet(1..MaxRuns) /\ Cardinality(1..MaxRuns) = MaxRuns
  <2>1. 1 \in Int /\ MaxRuns \in Int /\ MaxRuns \in Nat
    BY DEF QuotaConstants
  <2>2. /\ IsFiniteSet(1..MaxRuns)
        /\ Cardinality(1..MaxRuns) = IF 1 > MaxRuns THEN 0 ELSE MaxRuns - 1 + 1
    BY <2>1, FS_Interval
  <2> QED BY <2>1, <2>2
<1>2. IsFiniteSet(s) /\ Cardinality(s) <= MaxRuns
  BY <1>1, FS_Subset DEF Runs
<1>3. Cardinality(s) \in Nat /\ (Cardinality(s) = 0 <=> s = {})
  BY <1>2, FS_CardinalityType, FS_EmptySet
<1>4. ASSUME s # {}
      PROVE  /\ Pick(s) \in s /\ s \ {Pick(s)} \in SUBSET Runs
             /\ Cardinality(s \ {Pick(s)}) = Cardinality(s) - 1
  <2>1. Pick(s) \in s
    BY <1>4 DEF Pick
  <2>2. Cardinality(s \ {Pick(s)}) = Cardinality(s) - 1
    BY <1>2, <2>1, FS_RemoveElement
  <2> QED BY <2>1, <2>2
<1> QED BY <1>2, <1>3, <1>4

\* Induction on the size of a set of runs: where W are the sets of which a
\* claim is wrong, the claim holds of all if no member of W is smallest.
LEMMA SmallestSet ==
    ASSUME QuotaConstants, NEW W \in SUBSET (SUBSET Runs), W # {}
    PROVE  \E s \in W : s # {} => s \ {Pick(s)} \notin W
<1> DEFINE Sizes == {Cardinality(s) : s \in W}
<1>1. Sizes \in SUBSET Nat /\ Sizes # {}
  <2>1. ASSUME NEW s \in W PROVE Cardinality(s) \in Nat
    <3>1. s \in SUBSET Runs
      OBVIOUS
    <3> QED BY <3>1, RunSets
  <2> QED BY <2>1
<1> HIDE DEF Sizes
<1>2. PICK t \in Sizes : \A u \in Sizes : t <= u
  BY <1>1, LeastOf
<1>3. PICK s \in W : Cardinality(s) = t
  BY DEF Sizes
<1>4. ASSUME s # {}, s \ {Pick(s)} \in W PROVE FALSE
  <2>1. Cardinality(s \ {Pick(s)}) = t - 1 /\ t \in Nat
    BY <1>1, <1>3, <1>4, RunSets
  <2>2. t - 1 \in Sizes
    BY <1>4, <2>1 DEF Sizes
  <2> QED BY <1>2, <2>1, <2>2
<1> QED BY <1>4

\* A function that sums exists: it is extended from the sets of at most n runs
\* to those of n + 1.
LEMMA SumsExist ==
    ASSUME QuotaConstants, NEW F \in [Runs -> Int]
    PROVE  \E g \in [SUBSET Runs -> Int] : Sums(g, F)
<1> DEFINE Body(g, s) == IF s = {} THEN 0 ELSE F[Pick(s)] + g[s \ {Pick(s)}]
           UpTo(g, n) == \A s \in SUBSET Runs : Cardinality(s) <= n => g[s] = Body(g, s)
           Missing == {n \in Nat : ~ \E g \in [SUBSET Runs -> Int] : UpTo(g, n)}
<1>1. ASSUME NEW g \in [SUBSET Runs -> Int], NEW s \in SUBSET Runs
      PROVE  Body(g, s) \in Int
  <2>1. CASE s = {}
    BY <2>1
  <2>2. CASE s # {}
    <3>1. Pick(s) \in Runs /\ s \ {Pick(s)} \in SUBSET Runs
      BY <2>2, RunSets
    <3>2. F[Pick(s)] \in Int /\ g[s \ {Pick(s)}] \in Int
      BY <3>1
    <3> QED BY <2>2, <3>2
  <2> QED BY <2>1, <2>2
<1>2. 0 \notin Missing
  <2>1. PICK g : g = [s \in SUBSET Runs |-> 0]
    OBVIOUS
  <2>2. g \in [SUBSET Runs -> Int] /\ \A s \in SUBSET Runs : g[s] = 0
    BY <2>1
  <2>3. ASSUME NEW s \in SUBSET Runs, Cardinality(s) <= 0 PROVE g[s] = Body(g, s)
    <3>1. Cardinality(s) \in Nat /\ (Cardinality(s) = 0 => s = {})
      BY RunSets
    <3>2. s = {}
      BY <2>3, <3>1
    <3> QED BY <2>2, <3>2
  <2> QED BY <2>2, <2>3
<1>3. ASSUME NEW n \in Nat, n \notin Missing PROVE n + 1 \notin Missing
  <2>1. PICK g \in [SUBSET Runs -> Int] : UpTo(g, n)
    BY <1>3
  <2>2. PICK h : h = [s \in SUBSET Runs |->
                       IF Cardinality(s) <= n THEN g[s] ELSE Body(g, s)]
    OBVIOUS
  <2>3. h \in [SUBSET Runs -> Int]
    <3> HIDE DEF Body
    <3> QED BY <1>1, <2>2
  <2>4. ASSUME NEW s \in SUBSET Runs, Cardinality(s) <= n + 1 PROVE h[s] = Body(h, s)
    <3>1. h[s] = Body(g, s)
      <4> HIDE DEF Body
      <4> QED BY <2>1, <2>2
    <3>2. CASE s = {}
      BY <3>1, <3>2
    <3>3. CASE s # {}
      <4>1. /\ s \ {Pick(s)} \in SUBSET Runs
            /\ Cardinality(s \ {Pick(s)}) = Cardinality(s) - 1
            /\ Cardinality(s) \in Nat
        BY <3>3, RunSets
      <4>2. Cardinality(s \ {Pick(s)}) <= n
        BY <2>4, <4>1
      <4>3. h[s \ {Pick(s)}] = g[s \ {Pick(s)}]
        BY <2>2, <4>1, <4>2
      <4> QED BY <3>1, <4>3
    <3> QED BY <3>2, <3>3
  <2> QED BY <2>3, <2>4
<1>4. MaxRuns \notin Missing
  <2> SUFFICES ASSUME Missing # {} PROVE FALSE
    BY DEF QuotaConstants
  <2>1. Missing \in SUBSET Nat
    OBVIOUS
  <2> HIDE DEF Missing
  <2>2. PICK t \in Missing : \A u \in Missing : t <= u
    BY <2>1, LeastOf
  <2>3. t \in Nat /\ t # 0
    BY <1>2, <2>1, <2>2
  <2>4. t - 1 \in Nat /\ t - 1 \notin Missing /\ (t - 1) + 1 = t
    BY <2>2, <2>3
  <2>5. (t - 1) + 1 \notin Missing
    BY <1>3, <2>4
  <2> QED BY <2>2, <2>4, <2>5
<1>5. PICK g \in [SUBSET Runs -> Int] : UpTo(g, MaxRuns)
  BY <1>4 DEF QuotaConstants
<1>6. \A s \in SUBSET Runs : g[s] = Body(g, s)
  <2> HIDE DEF Body
  <2> QED BY <1>5, RunSets
<1>7. g = [s \in SUBSET Runs |-> Body(g, s)]
  <2> HIDE DEF Body
  <2> QED BY <1>6
<1> QED BY <1>7 DEF Sums

\* Sums of integers are integers.
LEMMA SumsType ==
    ASSUME QuotaConstants, NEW F \in [Runs -> Int], NEW g, Sums(g, F)
    PROVE  g \in [SUBSET Runs -> Int]
<1> DEFINE W == {s \in SUBSET Runs : g[s] \notin Int}
<1>1. ASSUME NEW s \in SUBSET Runs, s # {} => s \ {Pick(s)} \notin W
      PROVE  s \notin W
  <2>1. CASE s = {}
    BY <2>1 DEF Sums
  <2>2. CASE s # {}
    <3>1. Pick(s) \in Runs /\ s \ {Pick(s)} \in SUBSET Runs
      BY <2>2, RunSets
    <3>2. F[Pick(s)] \in Int /\ g[s \ {Pick(s)}] \in Int
      BY <1>1, <2>2, <3>1
    <3>3. g[s] = F[Pick(s)] + g[s \ {Pick(s)}]
      BY <2>2 DEF Sums
    <3> QED BY <3>2, <3>3
  <2> QED BY <2>1, <2>2
<1>2. W = {}
  <2>1. W \in SUBSET (SUBSET Runs)
    OBVIOUS
  <2> HIDE DEF W
  <2> QED BY <1>1, <2>1, SmallestSet
<1>3. \A s \in SUBSET Runs : g[s] \in Int
  BY <1>2
<1> QED BY <1>3 DEF Sums

\* G gives one run d points more than F.
Gives(G, F, m, d) ==
    \A n \in Runs : G[n] = IF n = m THEN F[n] + d ELSE F[n]

\* h sums to d points more than g.
SumsTo(h, g, d) == h[Runs] = g[Runs] + d

\* Giving one run d points more adds d to every sum that counts the run, and
\* changes no other.
LEMMA SumsChange ==
    ASSUME QuotaConstants, NEW F \in [Runs -> Int], NEW G \in [Runs -> Int],
           NEW m \in Runs, NEW d \in Int,
           Gives(G, F, m, d),
           NEW g, Sums(g, F), NEW h, Sums(h, G)
    PROVE  SumsTo(h, g, d)
<1> DEFINE Grown(s) == h[s] = IF m \in s THEN g[s] + d ELSE g[s]
           W == {s \in SUBSET Runs : ~Grown(s)}
<1>1. g \in [SUBSET Runs -> Int] /\ h \in [SUBSET Runs -> Int]
  BY SumsType
<1>2. ASSUME NEW s \in SUBSET Runs, s # {} => s \ {Pick(s)} \notin W
      PROVE  s \notin W
  <2>1. CASE s = {}
    BY <2>1 DEF Sums
  <2>2. CASE s # {}
    <3> DEFINE x == Pick(s)
               r == s \ {x}
    <3>1. x \in s /\ x \in Runs /\ r \in SUBSET Runs
      BY <2>2, RunSets
    <3>2. g[s] = F[x] + g[r] /\ h[s] = G[x] + h[r]
      BY <2>2 DEF Sums
    <3>3. m \in r <=> m \in s /\ m # x
      OBVIOUS
    <3>4. Grown(r)
      BY <1>2, <2>2, <3>1
    <3> HIDE DEF x, r
    <3>5. /\ g[r] \in Int /\ h[r] \in Int /\ F[x] \in Int
          /\ G[x] = IF x = m THEN F[x] + d ELSE F[x]
      BY <1>1, <3>1 DEF Gives
    <3> QED BY <3>1, <3>2, <3>3, <3>4, <3>5
  <2> QED BY <2>1, <2>2
<1>3. W = {}
  <2>1. W \in SUBSET (SUBSET Runs)
    OBVIOUS
  <2> HIDE DEF W
  <2> QED BY <1>2, <2>1, SmallestSet
<1> QED BY <1>3 DEF SumsTo

\* Where no run has any points, the sum is zero.
LEMMA SumsNothing ==
    ASSUME QuotaConstants, NEW F \in [Runs -> Int], \A n \in Runs : F[n] = 0,
           NEW g, Sums(g, F)
    PROVE  g[Runs] = 0
<1> DEFINE W == {s \in SUBSET Runs : g[s] # 0}
<1>1. ASSUME NEW s \in SUBSET Runs, s # {} => s \ {Pick(s)} \notin W
      PROVE  s \notin W
  <2>1. CASE s = {}
    BY <2>1 DEF Sums
  <2>2. CASE s # {}
    <3>1. Pick(s) \in Runs /\ s \ {Pick(s)} \in SUBSET Runs
      BY <2>2, RunSets
    <3>2. F[Pick(s)] = 0 /\ g[s \ {Pick(s)}] = 0
      BY <1>1, <2>2, <3>1
    <3>3. g[s] = F[Pick(s)] + g[s \ {Pick(s)}]
      BY <2>2 DEF Sums
    <3> QED BY <3>2, <3>3
  <2> QED BY <2>1, <2>2
<1>2. W = {}
  <2>1. W \in SUBSET (SUBSET Runs)
    OBVIOUS
  <2> HIDE DEF W
  <2> QED BY <1>1, <2>1, SmallestSet
<1> QED BY <1>2

\* What each run of one user's ledger holds reserved.
RemainingOf(entries) == [n \in Runs |-> Remaining(entries[n])]

\* Whole points remain, of one run and of each.
LEMMA RemainingInt ==
    ASSUME NEW e \in Entries
    PROVE  Remaining(e) \in Int
<1>1. e.points \in Int /\ e.settlements \in Int /\ e.releases \in Int
  BY DEF Entries
<1> QED BY <1>1 DEF Remaining

LEMMA RemainingType ==
    ASSUME NEW entries \in [Runs -> Entries]
    PROVE  RemainingOf(entries) \in [Runs -> Int]
BY RemainingInt DEF RemainingOf

\* The fold of the ledger is such a sum.
LEMMA OutstandingSums ==
    ASSUME QuotaConstants, NEW entries \in [Runs -> Entries]
    PROVE  \E g : Sums(g, RemainingOf(entries)) /\ Outstanding(entries) = g[Runs]
<1> DEFINE Iter(g) == g = [s \in SUBSET Runs |->
              IF s = {} THEN 0
              ELSE LET x == CHOOSE x \in s : TRUE
                   IN  Remaining(entries[x]) + g[s \ {x}]]
<1>1. ASSUME NEW g PROVE Iter(g) <=> Sums(g, RemainingOf(entries))
  <2>1. ASSUME NEW s \in SUBSET Runs, s # {}
        PROVE  RemainingOf(entries)[Pick(s)] = Remaining(entries[Pick(s)])
    <3>1. Pick(s) \in Runs
      BY <2>1, RunSets
    <3> QED BY <3>1 DEF RemainingOf
  <2>2. ASSUME NEW s \in SUBSET Runs
        PROVE  (IF s = {} THEN 0
                ELSE Remaining(entries[Pick(s)]) + g[s \ {Pick(s)}])
             = (IF s = {} THEN 0
                ELSE RemainingOf(entries)[Pick(s)] + g[s \ {Pick(s)}])
    BY <2>1
  <2> QED BY <2>2 DEF Sums, Pick
<1>2. PICK g : Iter(g)
  <2> HIDE DEF Iter
  <2> QED BY <1>1, SumsExist, RemainingType
<1>3. PICK f : f = CHOOSE i : Iter(i)
  OBVIOUS
<1>4. Iter(f)
  <2> HIDE DEF Iter
  <2> QED BY <1>2, <1>3
<1>5. Outstanding(entries) = f[Runs]
  BY <1>3 DEF Outstanding, MapThenSumSet, MapThenFoldSet
<1> QED BY <1>1, <1>4, <1>5

\* New entries of one run change what its user has outstanding by what that
\* run holds more or less.
LEMMA OutstandingChange ==
    ASSUME QuotaConstants, NEW l \in [Runs -> Entries], NEW n \in Runs,
           NEW e \in Entries, NEW k, k = [l EXCEPT ![n] = e]
    PROVE  /\ Outstanding(l) \in Int
           /\ Outstanding(k) = Outstanding(l) + (Remaining(e) - Remaining(l[n]))
<1>1. k \in [Runs -> Entries]
  OBVIOUS
<1>2. RemainingOf(l) \in [Runs -> Int] /\ RemainingOf(k) \in [Runs -> Int]
  BY <1>1, RemainingType
<1>3. /\ \A m \in Runs : RemainingOf(l)[m] = Remaining(l[m])
      /\ \A m \in Runs : RemainingOf(k)[m] = Remaining(k[m])
  BY DEF RemainingOf
<1>4. k[n] = e /\ \A m \in Runs : m # n => k[m] = l[m]
  OBVIOUS
<1>5. Remaining(l[n]) \in Int /\ Remaining(e) \in Int
  <2>1. RemainingOf(l)[n] \in Int /\ RemainingOf(k)[n] \in Int
    BY <1>2
  <2> QED BY <2>1, <1>3, <1>4
<1>6. PICK g : Sums(g, RemainingOf(l)) /\ Outstanding(l) = g[Runs]
  BY OutstandingSums
<1>7. PICK h : Sums(h, RemainingOf(k)) /\ Outstanding(k) = h[Runs]
  BY <1>1, OutstandingSums
<1>8. g[Runs] \in Int
  <2>1. g \in [SUBSET Runs -> Int]
    BY <1>2, <1>6, SumsType
  <2> QED BY <2>1
<1>9. PICK d \in Int : d = Remaining(e) - Remaining(l[n])
  BY <1>5
<1>10. ASSUME NEW m \in Runs
       PROVE  RemainingOf(k)[m] =
                IF m = n THEN RemainingOf(l)[m] + d ELSE RemainingOf(l)[m]
  <2>1. CASE m = n
    <3>1. RemainingOf(k)[m] = Remaining(e) /\ RemainingOf(l)[m] = Remaining(l[n])
      BY <2>1, <1>3, <1>4
    <3>2. Remaining(e) = Remaining(l[n]) + d
      BY <1>5, <1>9
    <3> QED BY <2>1, <3>1, <3>2
  <2>2. CASE m # n
    BY <2>2, <1>3, <1>4
  <2> QED BY <2>1, <2>2
<1>11. Gives(RemainingOf(k), RemainingOf(l), n, d)
  BY <1>10 DEF Gives
<1>12. SumsTo(h, g, d)
  BY <1>2, <1>6, <1>7, <1>11, SumsChange, Zenon
<1> QED BY <1>6, <1>7, <1>8, <1>9, <1>12 DEF SumsTo

-----------------------------------------------------------------------------
(* The ledger balances                                                     *)

\* What is not reserved has not been closed either, so a reserve entry never
\* comes after an entry that closes it.
ClosesAReserve(e) == e.reserve \/ (e.settlements = 0 /\ e.releases = 0)

BalanceInv ==
    /\ QuotaTypeOK
    /\ LedgerBalances
    /\ \A u \in Users, n \in Runs : ClosesAReserve(ledger[u][n])

\* The row and the entries move together.
Balanced(u, n, a, e) ==
    /\ ClosesAReserve(e)
    /\ a.reserved = account[u].reserved + (Remaining(e) - Remaining(ledger[u][n]))

\* Entries that close a reservation give up its points, each time.
LEMMA RemainingClosed ==
    ASSUME NEW e \in Entries, NEW d,
           \/ d = [e EXCEPT !.settlements = @ + 1]
           \/ d = [e EXCEPT !.releases = @ + 1]
    PROVE  Remaining(d) - Remaining(e) = -e.points
<1>1. PICK k \in Int :
         k = (IF e.reserve THEN 1 ELSE 0) - e.settlements - e.releases
  BY DEF Entries
<1>2. e.points \in Int /\ e.settlements \in Int /\ e.releases \in Int
  BY DEF Entries
<1>3. d.points = e.points /\ d.reserve = e.reserve
  BY DEF Entries
<1>4. \/ d.settlements = e.settlements + 1 /\ d.releases = e.releases
      \/ d.settlements = e.settlements /\ d.releases = e.releases + 1
  BY DEF Entries
<1>5. (IF d.reserve THEN 1 ELSE 0) - d.settlements - d.releases = k - 1
  BY <1>1, <1>2, <1>3, <1>4
<1>6. Remaining(e) = e.points * k /\ Remaining(d) = e.points * (k - 1)
  BY <1>1, <1>3, <1>5 DEF Remaining
<1>7. ASSUME NEW p \in Int PROVE p * (k - 1) = p * k - p /\ p * k \in Int
  OBVIOUS
<1> QED BY <1>2, <1>6, <1>7

\* A new reserve entry holds its points.
LEMMA RemainingReserved ==
    ASSUME NEW e \in Entries, ClosesAReserve(e), ~e.reserve, NEW p \in Nat,
           NEW d, d = [e EXCEPT !.reserve = TRUE, !.points = p]
    PROVE  Remaining(d) = p /\ Remaining(e) = 0 /\ ClosesAReserve(d)
<1>1. e.settlements = 0 /\ e.releases = 0 /\ e.points \in Int
  BY DEF ClosesAReserve, Entries
<1>2. d.reserve = TRUE /\ d.points = p /\ d.settlements = 0 /\ d.releases = 0
  BY <1>1 DEF Entries
<1>3. Remaining(d) = p * 1
  BY <1>2 DEF Remaining
<1>4. Remaining(e) = e.points * 0
  BY <1>1 DEF Remaining
<1> QED BY <1>1, <1>2, <1>3, <1>4 DEF ClosesAReserve

\* A transaction whose row and entries move together keeps the balance.
LEMMA WriteKeepsBalance ==
    ASSUME QuotaConstants, BalanceInv, QuotaTypeOK',
           NEW u \in Users, NEW n \in Runs, NEW a, NEW e \in Entries,
           Write(u, n, a, e), Balanced(u, n, a, e)
    PROVE  BalanceInv'
<1>1. account \in [Users -> Account] /\ ledger \in [Users -> [Runs -> Entries]]
  BY DEF BalanceInv, QuotaTypeOK
<1>2. /\ account' = [account EXCEPT ![u] = a]
      /\ ledger' = [ledger EXCEPT ![u][n] = e]
  BY DEF Write
<1>3. /\ account'[u] = a /\ ledger'[u] = [ledger[u] EXCEPT ![n] = e]
      /\ \A v \in Users : v # u => account'[v] = account[v] /\ ledger'[v] = ledger[v]
  BY <1>1, <1>2
<1>4. ASSUME NEW v \in Users PROVE account'[v].reserved = Outstanding(ledger'[v])
  <2>1. CASE v = u
    <3>1. account[u].reserved = Outstanding(ledger[u])
      BY DEF BalanceInv, LedgerBalances
    <3>2. ledger[u] \in [Runs -> Entries]
      BY <1>1
    <3>3. Outstanding(ledger'[u])
            = Outstanding(ledger[u]) + (Remaining(e) - Remaining(ledger[u][n]))
      BY <1>3, <3>2, OutstandingChange
    <3> QED BY <1>3, <2>1, <3>1, <3>3 DEF Balanced
  <2>2. CASE v # u
    BY <1>3, <2>2 DEF BalanceInv, LedgerBalances
  <2> QED BY <2>1, <2>2
<1>5. ASSUME NEW v \in Users, NEW m \in Runs PROVE ClosesAReserve(ledger'[v][m])
  <2>1. ledger'[v][m] = IF v = u /\ m = n THEN e ELSE ledger[v][m]
    BY <1>1, <1>2
  <2>2. ClosesAReserve(e) /\ ClosesAReserve(ledger[v][m])
    BY DEF Balanced, BalanceInv
  <2> QED BY <2>1, <2>2
<1> QED BY <1>4, <1>5 DEF BalanceInv, LedgerBalances

\* What reserves or closes nothing, and writes no entry, keeps the balance.
LEMMA SameReservedKeepsBalance ==
    ASSUME BalanceInv, QuotaTypeOK', UNCHANGED ledger,
           \A u \in Users : account'[u].reserved = account[u].reserved
    PROVE  BalanceInv'
BY DEF BalanceInv, LedgerBalances

\* A renewal happens only when nothing is reserved, and keeps it so.
LEMMA RenewedReserved ==
    ASSUME NEW a \in Account
    PROVE  Renewed(a).reserved = a.reserved
BY DEF Renewed, Account

\* A reservation adds its points to the row and to the ledger, once.
LEMMA ReserveBalanced ==
    ASSUME QuotaConstants, BalanceInv, QuotaTypeOK',
           NEW u \in Users, NEW n \in Runs, NEW p \in Reservations, Reserve(u, n, p)
    PROVE  BalanceInv'
<1> DEFINE e == ledger[u][n]
           r == Renewed(account[u])
<1>1. account[u] \in Account /\ e \in Entries /\ p \in Nat /\ ClosesAReserve(e)
  BY DEF BalanceInv, QuotaTypeOK, QuotaConstants
<1>2. r \in Account /\ r.reserved = account[u].reserved
  BY <1>1, RenewedAccount, RenewedReserved
<1>3. account[u].reserved \in Int
  BY <1>1, AccountFields
<1>4. Remaining(e) \in Int
  BY <1>1, RemainingInt
<1>5. CASE e.reserve
  <2>1. Write(u, n, r, e)
    BY <1>5 DEF Reserve
  <2>2. r.reserved = account[u].reserved + (Remaining(e) - Remaining(e))
    BY <1>2, <1>3, <1>4
  <2>3. Balanced(u, n, r, e)
    BY <1>1, <2>2 DEF Balanced
  <2> QED BY <1>1, <2>1, <2>3, WriteKeepsBalance
<1>6. CASE ~e.reserve
  <2>1. PICK b : b = [r EXCEPT !.reserved = @ + p]
    OBVIOUS
  <2>2. PICK d : d = [e EXCEPT !.reserve = TRUE, !.points = p]
    OBVIOUS
  <2>3. d \in Entries
    BY <1>1, <2>2 DEF Entries
  <2>4. Write(u, n, b, d)
    BY <1>6, <2>1, <2>2 DEF Reserve
  <2>5. b.reserved = account[u].reserved + p
    BY <1>2, <2>1 DEF Account
  <2>6. Remaining(d) = p /\ Remaining(e) = 0 /\ ClosesAReserve(d)
    BY <1>1, <1>6, <2>2, RemainingReserved
  <2>7. b.reserved = account[u].reserved + (Remaining(d) - Remaining(e))
    BY <1>1, <1>3, <2>5, <2>6
  <2>8. Balanced(u, n, b, d)
    BY <2>6, <2>7 DEF Balanced
  <2> QED BY <2>3, <2>4, <2>8, WriteKeepsBalance
<1> QED BY <1>5, <1>6

\* A transaction that closes a reservation gives its points up on both sides.
LEMMA ClosingBalanced ==
    ASSUME QuotaConstants, BalanceInv, QuotaTypeOK',
           NEW u \in Users, NEW n \in Runs, ledger[u][n].reserve,
           NEW a, a.reserved = account[u].reserved - ledger[u][n].points,
           NEW d, Write(u, n, a, d),
           \/ d = [ledger[u][n] EXCEPT !.settlements = @ + 1]
           \/ d = [ledger[u][n] EXCEPT !.releases = @ + 1]
    PROVE  BalanceInv'
<1> DEFINE e == ledger[u][n]
<1>1. account[u] \in Account /\ e \in Entries
  BY DEF BalanceInv, QuotaTypeOK
<1>2. d \in Entries /\ d.reserve
  BY <1>1 DEF Entries
<1>3. Remaining(d) - Remaining(e) = -e.points
  BY <1>1, RemainingClosed
<1>4. account[u].reserved \in Int /\ e.points \in Int
  BY <1>1 DEF Account, Entries
<1>5. a.reserved = account[u].reserved + (Remaining(d) - Remaining(e))
  BY <1>3, <1>4
<1>6. Balanced(u, n, a, d)
  BY <1>2, <1>5 DEF Balanced, ClosesAReserve
<1> QED BY <1>2, <1>6, WriteKeepsBalance

\* A settlement closes its reservation, whatever it charges.
LEMMA SettleBalanced ==
    ASSUME QuotaConstants, BalanceInv, QuotaTypeOK',
           NEW u \in Users, NEW n \in Runs, NEW c, Settle(u, n, c)
    PROVE  BalanceInv'
<1> DEFINE e == ledger[u][n]
<1>1. CASE e.settlements > 0
  BY <1>1 DEF Settle, quotaVars, BalanceInv, LedgerBalances
<1>2. CASE ~(e.settlements > 0)
  <2>1. PICK b : b = [account[u] EXCEPT !.reserved = @ - e.points, !.used = @ + c]
    OBVIOUS
  <2>2. PICK d : d = [e EXCEPT !.settlements = @ + 1]
    OBVIOUS
  <2>3. Write(u, n, b, d) /\ e.reserve
    BY <1>2, <2>1, <2>2 DEF Settle, Settleable, Reserved
  <2>4. b.reserved = account[u].reserved - e.points
    BY <2>1 DEF BalanceInv, QuotaTypeOK, Account
  <2> QED BY <2>2, <2>3, <2>4, ClosingBalanced
<1> QED BY <1>1, <1>2

\* Recovery's release closes the reservation, even a second time.
LEMMA ReleaseUnusedBalanced ==
    ASSUME QuotaConstants, BalanceInv, QuotaTypeOK',
           NEW u \in Users, NEW n \in Runs, ReleaseUnused(u, n)
    PROVE  BalanceInv'
<1> DEFINE e == ledger[u][n]
<1>1. PICK b : b = [account[u] EXCEPT !.reserved = @ - e.points]
  OBVIOUS
<1>2. PICK d : d = [e EXCEPT !.releases = @ + 1]
  OBVIOUS
<1>3. Write(u, n, b, d) /\ e.reserve
  BY <1>1, <1>2 DEF ReleaseUnused, Reserved, AddRelease
<1>4. b.reserved = account[u].reserved - e.points
  BY <1>1 DEF BalanceInv, QuotaTypeOK, Account
<1> QED BY <1>2, <1>3, <1>4, ClosingBalanced

\* A release closes its reservation, or finds a release and writes nothing.
LEMMA ReleaseBalanced ==
    ASSUME QuotaConstants, BalanceInv, QuotaTypeOK',
           NEW u \in Users, NEW n \in Runs, Release(u, n)
    PROVE  BalanceInv'
<1>1. CASE ledger[u][n].releases > 0
  BY <1>1 DEF Release, quotaVars, BalanceInv, LedgerBalances
<1>2. CASE ~(ledger[u][n].releases > 0)
  <2>1. ReleaseUnused(u, n)
    BY <1>2 DEF Release, Releasable, ReleaseUnused
  <2> QED BY <2>1, ReleaseUnusedBalanced
<1> QED BY <1>1, <1>2

\* New limits and the end of a period leave the reserved points alone.
LEMMA QuotaChangeBalanced ==
    ASSUME BalanceInv, QuotaTypeOK', NEW u \in Users,
           \/ \E l \in MonthlyLimits, over \in BOOLEAN : UpdateQuota(u, l, over)
           \/ EndPeriod(u)
    PROVE  BalanceInv'
<1>1. account \in [Users -> Account]
  BY DEF BalanceInv, QuotaTypeOK
<1>2. ASSUME NEW v \in Users PROVE account'[v].reserved = account[v].reserved
  <2>1. account[v] \in Account /\ account[u] \in Account
    BY <1>1
  <2>2. CASE \E l \in MonthlyLimits, over \in BOOLEAN : UpdateQuota(u, l, over)
    <3>1. PICK l \in MonthlyLimits, over \in BOOLEAN : UpdateQuota(u, l, over)
      BY <2>2
    <3>2. PICK b : b = [account[u] EXCEPT !.limit = l, !.over = over]
      OBVIOUS
    <3>3. b.reserved = account[u].reserved
      BY <2>1, <3>2 DEF Account
    <3>4. account'[v] = IF v = u THEN b ELSE account[v]
      BY <1>1, <3>1, <3>2 DEF UpdateQuota
    <3> QED BY <3>3, <3>4
  <2>3. CASE EndPeriod(u)
    <3>1. PICK b : b = [account[u] EXCEPT !.over = TRUE]
      OBVIOUS
    <3>2. b.reserved = account[u].reserved
      BY <2>1, <3>1 DEF Account
    <3>3. account'[v] = IF v = u THEN b ELSE account[v]
      BY <1>1, <2>3, <3>1 DEF EndPeriod
    <3> QED BY <3>2, <3>3
  <2> QED BY <2>2, <2>3
<1>3. UNCHANGED ledger
  BY DEF UpdateQuota, EndPeriod
<1> QED BY <1>2, <1>3, SameReservedKeepsBalance

\* The invariant is inductive.
LEMMA BalanceStep ==
    ASSUME QuotaConstants, BalanceInv, QuotaTypeOK', [QuotaNext]_quotaVars
    PROVE  BalanceInv'
<1>1. CASE UNCHANGED quotaVars
  BY <1>1 DEF quotaVars, BalanceInv, LedgerBalances
<1>2. ASSUME NEW u \in Users, NEW n \in Runs,
             \/ \E p \in Reservations : Reserve(u, n, p)
             \/ \E c \in Charges \cup {ledger[u][n].points} : Settle(u, n, c)
             \/ Release(u, n)
             \/ ReleaseUnused(u, n)
      PROVE  BalanceInv'
  BY <1>2, ReserveBalanced, SettleBalanced, ReleaseBalanced, ReleaseUnusedBalanced
<1>3. ASSUME NEW u \in Users,
             \/ \E l \in MonthlyLimits, over \in BOOLEAN : UpdateQuota(u, l, over)
             \/ EndPeriod(u)
      PROVE  BalanceInv'
  BY <1>3, QuotaChangeBalanced
<1> QED BY <1>1, <1>2, <1>3 DEF QuotaNext

\* An empty ledger balances an empty account.
LEMMA BalanceInit ==
    ASSUME QuotaConstants, QuotaInit
    PROVE  BalanceInv
<1>1. QuotaTypeOK
  BY QuotaInitInv DEF QuotaInv
<1>2. ASSUME NEW u \in Users, NEW n \in Runs
      PROVE  Remaining(ledger[u][n]) = 0 /\ ClosesAReserve(ledger[u][n])
  <2>1. ledger[u][n] = NoEntries
    BY DEF QuotaInit
  <2> QED BY <2>1 DEF NoEntries, Remaining, ClosesAReserve
<1>3. ASSUME NEW u \in Users PROVE account[u].reserved = Outstanding(ledger[u])
  <2>1. ledger[u] \in [Runs -> Entries]
    BY <1>1 DEF QuotaTypeOK
  <2>2. PICK g : Sums(g, RemainingOf(ledger[u])) /\ Outstanding(ledger[u]) = g[Runs]
    BY <2>1, OutstandingSums
  <2>3. RemainingOf(ledger[u]) \in [Runs -> Int]
    BY <2>1, RemainingType
  <2>4. \A n \in Runs : RemainingOf(ledger[u])[n] = 0
    BY <1>2 DEF RemainingOf
  <2>5. g[Runs] = 0
    BY <2>2, <2>3, <2>4, SumsNothing
  <2>6. account[u].reserved = 0
    BY DEF QuotaInit
  <2> QED BY <2>2, <2>5, <2>6
<1> QED BY <1>1, <1>2, <1>3 DEF BalanceInv, LedgerBalances

\* The account is the sum of its ledger for any number of users and runs,
\* however reservations, charges, releases (those of lease recovery, which may
\* close what was closed before, included), renewals and new limits follow
\* each other.
THEOREM LedgerAlwaysBalances == QuotaSpec => []LedgerBalances
<1>1. QuotaInit => BalanceInv
  BY QuotaConstants, BalanceInit
<1>2. BalanceInv /\ QuotaTypeOK' /\ [QuotaNext]_quotaVars => BalanceInv'
  BY QuotaConstants, BalanceStep
<1>3. BalanceInv => LedgerBalances
  BY DEF BalanceInv
<1> QED BY <1>1, <1>2, <1>3, QuotaTypeCorrect, PTL DEF QuotaSpec
=============================================================================
