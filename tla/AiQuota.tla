------------------------------- MODULE AiQuota -------------------------------
(***************************************************************************)
(* The points account of each user and the usage ledger of the AI runs     *)
(* (src/lib/ai/usage/ledger.ts), with the release that lease recovery       *)
(* carries out on its own (src/lib/ai/runs/recovery.ts) and the quota an    *)
(* administrator sets (src/lib/ai/admin/service.ts).                        *)
(*                                                                         *)
(* Each operation is one transaction that locks the account row.  One that *)
(* throws writes nothing and is no step here.  The operation id of every    *)
(* entry is the id of its run; runs are numbered.                          *)
(***************************************************************************)
EXTENDS Integers, FiniteSetsExt

CONSTANTS
    MaxRuns,           \* bound: runs created in one behaviour
    Users,
    MonthlyLimits,     \* the monthly limits users are given, over time
    Reservations,      \* what a run may reserve: 0 with a key of the user's own
    Charges            \* what a run may turn out to cost

ASSUME QuotaConstants ==
    /\ MaxRuns \in Nat /\ Users # {}
    /\ MonthlyLimits \subseteq Nat /\ MonthlyLimits # {}
    /\ Reservations \subseteq Nat /\ Charges \subseteq Nat

VARIABLES
    account,    \* ai_quota_accounts
    ledger      \* ai_usage_ledger: the entries of each run

quotaVars == <<account, ledger>>

-----------------------------------------------------------------------------
Runs == 1..MaxRuns

\* "over": period_ends_at has passed.
Account == [limit : MonthlyLimits, used : Nat, reserved : Nat, over : BOOLEAN]

\* The reserve entry, if any, with its points, and how many entries close it.
Entries == [reserve : BOOLEAN, points : Nat, settlements : Nat, releases : Nat]

NoEntries == [reserve |-> FALSE, points |-> 0, settlements |-> 0, releases |-> 0]

QuotaInit ==
    /\ \E n \in MonthlyLimits :
         account = [u \in Users |->
           [limit |-> n, used |-> 0, reserved |-> 0, over |-> FALSE]]
    /\ ledger = [u \in Users |-> [n \in Runs |-> NoEntries]]

Spent(a) == a.used + a.reserved
Available(a) == IF Spent(a) >= a.limit THEN 0 ELSE a.limit - Spent(a)

-----------------------------------------------------------------------------
\* Mutant: the period is renewed under open reservations, which are dropped.
RenewedAlways(a) ==
    IF a.over THEN [a EXCEPT !.used = 0, !.reserved = 0, !.over = FALSE] ELSE a

\* lockQuotaAccount: a period that is over is renewed once nothing is reserved.
Renewed(a) ==
    IF a.over /\ a.reserved = 0 THEN [a EXCEPT !.used = 0, !.over = FALSE] ELSE a

\* Mutant: only what is used counts against the limit.
AffordableByUse(a, p) == a.used + p <= a.limit

Affordable(a, p) == p <= Available(a)

\* reserveAiQuota: a second reservation of the same run changes nothing.
Reservable(u, n, p) ==
    ledger[u][n].reserve \/ Affordable(Renewed(account[u]), p)

\* One transaction's account row and ledger entries.
Write(u, n, a, e) ==
    /\ account' = [account EXCEPT ![u] = a]
    /\ ledger' = [ledger EXCEPT ![u][n] = e]

Reserve(u, n, p) ==
    LET a == Renewed(account[u])
        e == ledger[u][n]
    IN
    /\ Reservable(u, n, p)
    /\ IF e.reserve
       THEN Write(u, n, a, e)
       ELSE Write(u, n, [a EXCEPT !.reserved = @ + p],
                        [e EXCEPT !.reserve = TRUE, !.points = p])

\* What a settlement charges beyond the reservation.
Additional(u, n, actual) ==
    IF actual > ledger[u][n].points THEN actual - ledger[u][n].points ELSE 0

\* Mutant: points that are not reserved are given back.
ReservedOnce(u, n) == ledger[u][n].reserve

\* The database's own check: reserved_points >= 0.
Reserved(u, n) ==
    ledger[u][n].reserve /\ account[u].reserved >= ledger[u][n].points

\* Mutant: any charge is accepted.
SettleableAt(u, n, actual) == ledger[u][n].settlements > 0 \/ Reserved(u, n)

\* settleAiQuotaInTransaction, settleAiQuota.
Settleable(u, n, actual) ==
    \/ ledger[u][n].settlements > 0
    \/ /\ Reserved(u, n)
       /\ Affordable(account[u], Additional(u, n, actual))

Settle(u, n, actual) ==
    LET a == account[u]
        e == ledger[u][n]
    IN
    /\ Settleable(u, n, actual)
    /\ IF e.settlements > 0
       THEN UNCHANGED quotaVars
       ELSE Write(u, n, [a EXCEPT !.reserved = @ - e.points, !.used = @ + actual],
                        [e EXCEPT !.settlements = @ + 1])

\* The release entry shared by releaseAiQuota and releaseUnusedReservation.
AddRelease(u, n) ==
    Write(u, n, [account[u] EXCEPT !.reserved = @ - ledger[u][n].points],
                [ledger[u][n] EXCEPT !.releases = @ + 1])

\* releaseAiQuota.
Releasable(u, n) == ledger[u][n].releases > 0 \/ Reserved(u, n)

Release(u, n) ==
    /\ Releasable(u, n)
    /\ IF ledger[u][n].releases > 0 THEN UNCHANGED quotaVars ELSE AddRelease(u, n)

\* releaseUnusedReservation of lease recovery: looks for the reserve entry but
\* not for a release.
ReleaseUnused(u, n) == Reserved(u, n) /\ AddRelease(u, n)

\* updateAiAdminQuota: a new limit and a new period, whatever has been spent.
UpdateQuota(u, limit, over) ==
    /\ account' = [account EXCEPT ![u] = [account[u] EXCEPT !.limit = limit, !.over = over]]
    /\ UNCHANGED ledger

\* period_ends_at passes.
EndPeriod(u) ==
    /\ ~account[u].over
    /\ account' = [account EXCEPT ![u].over = TRUE]
    /\ UNCHANGED ledger

QuotaNext ==
    \E u \in Users :
        \/ \E n \in Runs :
              \/ \E p \in Reservations : Reserve(u, n, p)
              \/ \E c \in Charges \cup {ledger[u][n].points} : Settle(u, n, c)
              \/ Release(u, n)
              \/ ReleaseUnused(u, n)
        \/ \E l \in MonthlyLimits, over \in BOOLEAN : UpdateQuota(u, l, over)
        \/ EndPeriod(u)

QuotaSpec == QuotaInit /\ [][QuotaNext]_quotaVars

-----------------------------------------------------------------------------
QuotaTypeOK ==
    /\ account \in [Users -> Account]
    /\ ledger \in [Users -> [Runs -> Entries]]

\* The points that the entries of one run still hold reserved.
Remaining(e) == e.points * ((IF e.reserve THEN 1 ELSE 0) - e.settlements - e.releases)

\* What the entries of one user add up to.
Outstanding(entries) == MapThenSumSet(LAMBDA n : Remaining(entries[n]), Runs)

\* The account is the sum of its ledger: reserved_points are exactly the points
\* of the reserve entries, less those of the entries that closed them.
LedgerBalances ==
    \A u \in Users : account[u].reserved = Outstanding(ledger[u])

\* However reservations, charges above their estimate, double closes and
\* renewals follow each other, what a user has used and reserved together
\* never exceeds the highest limit an administrator gives.
QuotaNeverOverdrawn ==
    \A u \in Users : \E l \in MonthlyLimits : Spent(account[u]) <= l

\* Lowering a limit may leave a user above it, but no reservation and no charge
\* takes the user further: what is spent grows only up to the limit in force.
SpendingStopsAtLimit ==
    [][\A u \in Users : Spent(account[u]') > Spent(account[u])
         => Spent(account[u]') <= account[u].limit]_quotaVars
=============================================================================
