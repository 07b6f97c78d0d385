---------------------------- MODULE TokenBudget ----------------------------
(***************************************************************************)
(* Daily token budgets: a model call reserves its estimate before anything *)
(* is sent and settles or releases it after, once for its tier and once    *)
(* for every physical HTTP attempt against the config's total ("all").     *)
(*                                                                         *)
(*   ledger     munarium-store-pg/src/budget.rs, munarium-core/src/budget.rs *)
(*   tier reservation   munarium-server/src/providers_api.rs               *)
(*   attempt reservation  munarium-server/src/money_api.rs (Observer)      *)
(*   retries    munarium-providers/src/lib.rs (send_with_retry)            *)
(*   sweep      munarium-server/src/state.rs                               *)
(*                                                                         *)
(* A reservation is a transaction of three steps: its day is fixed, then   *)
(* it waits for the advisory lock of the scope and sums, then it inserts   *)
(* and commits.  Settling, releasing and sweeping do not take that lock.   *)
(***************************************************************************)
EXTENDS Naturals, FiniteSets, FiniteSetsExt

CONSTANTS Calls,        \* provider calls of one tenant and config
          Tiers,        \* tier names, "all" not among them
          TierLimit,    \* {n} when the tiers have a daily cap of n, else {}
          TotalLimit,   \* {n} when the config has a daily total, else {}
          MaxUnits,     \* largest estimate and usage explored
          MaxAttempts,  \* HTTP attempts of one call (max_retries + 1)
          Days,         \* number of days explored
          Corrections   \* operators' correction ids

ASSUME LimitsAssumption ==
  /\ "all" \notin Tiers
  /\ TierLimit \subseteq Nat /\ \A m, n \in TierLimit : m = n
  /\ TotalLimit \subseteq Nat /\ \A m, n \in TotalLimit : m = n
  /\ MaxUnits \in Nat
  /\ MaxAttempts \in Nat \ {0}
  /\ Days \in Nat \ {0}

VARIABLES
  today,        \* the database's UTC date
  rows,         \* rows of token_budget_reservations
  adjustments,  \* rows of token_budget_adjustments
  locks,        \* advisory locks held: pairs of a scope and a call
  call,         \* each call: where it is and its local variables
  sent          \* ghost: the attempts handed to the HTTP client

vars == <<today, rows, adjustments, locks, call, sent>>

Scopes == Tiers \cup {"all"}
LimitOf(scope) == IF scope = "all" THEN TotalLimit ELSE TierLimit

\* A call reserves once for its tier (0) and once for each attempt.
Ids == Calls \X (0..MaxAttempts)
Row == [id : Ids, scope : Scopes, day : 1..Days, original : 0..MaxUnits, units : 0..MaxUnits,
        state : {"held", "settled", "released"},
        complete : BOOLEAN,  \* usage_evidence: both counts, provider reported
        revision : Nat]
Adjustment == [row : Ids, id : Corrections, revision : Nat \ {0},
               previous : 0..MaxUnits, result : 0..MaxUnits]
Places == {"begin", "sum", "insert", "refused", "record", "send", "response", "finish",
           "end", "over"}
Call == [at : Places,
         scope : Scopes,            \* the scope being reserved
         attempt : 0..MaxAttempts,
         estimate : 0..MaxUnits, day : 1..Days,
         fits : BOOLEAN,            \* what the sum left for the estimate
         admitted : BOOLEAN,        \* Observer.admitted
         ok : BOOLEAN]              \* the completion has a response
Idle == [at |-> "idle"]

RowOf(id) == {row \in rows : row.id = id}
ScopeRow(c) == <<c, IF call[c].scope = "all" THEN call[c].attempt ELSE 0>>

(***************************************************************************)
(* The ledger.                                                             *)
(***************************************************************************)

\* ACTIVE_SUM
Active(scope, day) ==
  MapThenSumSet(LAMBDA row : row.units,
                {row \in rows : row.scope = scope /\ row.day = day /\ row.state # "released"})

Unlock(c) == locks' = {l \in locks : l[2] # c}

\* Mutant: a settlement replaces whatever the row says.
SettleAnyState(id, units, complete) ==
  IF RowOf(id) # {}
  THEN \E row \in RowOf(id) : \E n \in IF units = {} THEN {row.units} ELSE units :
         rows' = (rows \ {row}) \cup
                   {[row EXCEPT !.state = "settled", !.complete = complete, !.units = n]}
  ELSE UNCHANGED rows

HeldOf(id) == {row \in RowOf(id) : row.state = "held"}

\* settle_with_evidence: the first writer wins.  units = {} keeps the estimate.
Settle(id, units, complete) ==
  IF HeldOf(id) # {}
  THEN \E row \in HeldOf(id) : \E n \in IF units = {} THEN {row.units} ELSE units :
         rows' = (rows \ {row}) \cup
                   {[row EXCEPT !.state = "settled", !.complete = complete, !.units = n]}
  ELSE UNCHANGED rows

Release(id) ==
  IF HeldOf(id) # {}
  THEN \E row \in HeldOf(id) : rows' = (rows \ {row}) \cup {[row EXCEPT !.state = "released"]}
  ELSE UNCHANGED rows

\* UsageEvidence::accounted_units: complete counts may lower a reservation,
\* incomplete ones may not.
Accounted(reserved, total, complete) ==
  IF complete \/ total > reserved THEN total ELSE reserved

(***************************************************************************)
(* A provider call.                                                        *)
(***************************************************************************)

\* Mutant: a retry reuses the identity of the reservation before it.
ToAttemptReusing(r) ==
  [r EXCEPT !.at = IF TotalLimit = {} THEN "record" ELSE "begin", !.scope = "all"]

\* The next scope to reserve, or straight to the attempt's record.
ToAttempt(r) ==
  [r EXCEPT !.at = IF TotalLimit = {} THEN "record" ELSE "begin",
            !.scope = "all", !.attempt = @ + 1]

\* A call names a tier, or an explicit model and no tier.
Start(c, scope, estimate) ==
  /\ call[c] = Idle
  /\ LET r == [at |-> "begin", scope |-> scope, attempt |-> 0, estimate |-> estimate,
               day |-> today, fits |-> FALSE, admitted |-> TotalLimit = {}, ok |-> FALSE]
     IN  call' = [call EXCEPT ![c] = IF scope = "all" \/ TierLimit = {} THEN ToAttempt(r) ELSE r]
  /\ UNCHANGED <<today, rows, adjustments, locks, sent>>

\* now() is the start of the transaction, before the wait for the lock.
ReserveBegin(c) ==
  /\ call[c].at = "begin"
  /\ call' = [call EXCEPT ![c].at = "sum", ![c].day = today]
  /\ UNCHANGED <<today, rows, adjustments, locks, sent>>

Fits(c) ==
  \A limit \in LimitOf(call[c].scope) :
    Active(call[c].scope, call[c].day) + call[c].estimate <= limit

\* Mutant: the sum is taken without the advisory lock.
ReserveSumUnlocked(c) ==
  /\ call[c].at = "sum"
  /\ call' = [call EXCEPT ![c].at = "insert", ![c].fits = Fits(c)]
  /\ UNCHANGED <<today, rows, adjustments, locks, sent>>

ReserveSum(c) ==
  /\ call[c].at = "sum"
  /\ \A l \in locks : l[1] # call[c].scope
  /\ locks' = locks \cup {<<call[c].scope, c>>}
  /\ call' = [call EXCEPT ![c].at = "insert", ![c].fits = Fits(c)]
  /\ UNCHANGED <<today, rows, adjustments, sent>>

\* A refused tier ends the call; a refused attempt ends it in error.
Refused(c) == call' = [call EXCEPT ![c].at = IF call[c].scope = "all" THEN "end" ELSE "over"]

ReserveRefused(c) ==
  /\ call[c].at = "insert"
  /\ ~call[c].fits
  /\ Refused(c)
  /\ Unlock(c)
  /\ UNCHANGED <<today, rows, adjustments, sent>>

\* The row is committed; the caller learns of it, or the reply is lost.
ReserveGranted(c) ==
  /\ call[c].at = "insert"
  /\ call[c].fits
  /\ rows' = rows \cup
       {[id |-> ScopeRow(c), scope |-> call[c].scope, day |-> call[c].day,
         original |-> call[c].estimate, units |-> call[c].estimate, state |-> "held",
         complete |-> FALSE, revision |-> 0]}
  /\ \/ Refused(c)
     \/ call' = [call EXCEPT ![c] = IF @.scope = "all" THEN [@ EXCEPT !.at = "record"]
                                                       ELSE ToAttempt(@)]
  /\ Unlock(c)
  /\ UNCHANGED <<today, adjustments, sent>>

\* The transaction fails before it commits.
ReserveFailed(c) ==
  /\ call[c].at \in {"sum", "insert"}
  /\ Refused(c)
  /\ Unlock(c)
  /\ UNCHANGED <<today, rows, adjustments, sent>>

\* The monetary attempt is recorded before the request is sent.
RecordAttempt(c) ==
  /\ call[c].at = "record"
  /\ call' = [call EXCEPT ![c].at = "send", ![c].admitted = TRUE]
  /\ UNCHANGED <<today, rows, adjustments, locks, sent>>

\* It could not be recorded: the only refund of an attempt, nothing was sent.
\* A release that fails leaves the row held.
RefundAttempt(c) ==
  /\ call[c].at = "record"
  /\ Release(ScopeRow(c)) \/ UNCHANGED rows
  /\ call' = [call EXCEPT ![c].at = "end"]
  /\ UNCHANGED <<today, adjustments, locks, sent>>

Send(c) ==
  /\ call[c].at = "send"
  /\ sent' = sent \cup {<<c, call[c].attempt>>}
  /\ call' = [call EXCEPT ![c].at = "response"]
  /\ UNCHANGED <<today, rows, adjustments, locks>>

\* No response, a refusal or an unreadable body; 429 and 5xx are retried.  The
\* attempt's reservation stays held.
Fail(c) ==
  /\ call[c].at = "response"
  /\ \/ call' = [call EXCEPT ![c].at = "end"]
     \/ /\ call[c].attempt < MaxAttempts
        /\ call' = [call EXCEPT ![c] = ToAttempt(@)]
  /\ UNCHANGED <<today, rows, adjustments, locks, sent>>

\* finish: the attempt is settled to the usage of the response; a settlement
\* that fails leaves the row held.
Succeed(c, total, complete) ==
  /\ call[c].at = "response"
  /\ \/ Settle(ScopeRow(c), {Accounted(call[c].estimate, total, complete)}, complete)
     \/ UNCHANGED rows
  /\ call' = [call EXCEPT ![c].at = "end", ![c].ok = TRUE]
  /\ UNCHANGED <<today, adjustments, locks, sent>>

\* Mutant: a call that returns an error gives its tier reservation back.
EndReleasingErrors(c, total, complete) ==
  /\ call[c].at = "end"
  /\ \/ IF call[c].ok
        THEN Settle(<<c, 0>>, {Accounted(call[c].estimate, total, complete)}, complete)
        ELSE Release(<<c, 0>>)
     \/ UNCHANGED rows
  /\ call' = [call EXCEPT ![c].at = "over"]
  /\ UNCHANGED <<today, adjustments, locks, sent>>

\* The tier's reservation, if any: released when no attempt was admitted,
\* settled to the response's usage, or kept at the estimate on an error.
End(c, total, complete) ==
  /\ call[c].at = "end"
  /\ \/ IF ~call[c].admitted THEN Release(<<c, 0>>)
        ELSE IF call[c].ok
             THEN Settle(<<c, 0>>, {Accounted(call[c].estimate, total, complete)}, complete)
             ELSE Settle(<<c, 0>>, {}, FALSE)
     \/ UNCHANGED rows
  /\ call' = [call EXCEPT ![c].at = "over"]
  /\ UNCHANGED <<today, adjustments, locks, sent>>

\* The process dies or the request is cancelled; a lock goes with its session.
Crash(c) ==
  /\ call[c].at \in Places \ {"over"}
  /\ call' = [call EXCEPT ![c].at = "over"]
  /\ Unlock(c)
  /\ UNCHANGED <<today, rows, adjustments, sent>>

(***************************************************************************)
(* The janitor, the operators and the clock.                               *)
(***************************************************************************)

\* sweep_stale: spent, not free.  Six hours are long past any provider timeout
\* but nothing in the ledger says so, so a row of a live call is swept as well.
Sweep(id) ==
  /\ HeldOf(id) # {}
  /\ Settle(id, {}, FALSE)
  /\ UNCHANGED <<today, adjustments, locks, call, sent>>

Larger(m, n) == IF m > n THEN m ELSE n

\* Mutant: the estimate is forgotten once a settlement went below it.
MinimumOfAccounted(row, total, complete) == Accounted(row.units, total, complete)

\* BudgetCorrection::validate
Minimum(row, total, complete) == Accounted(Larger(row.original, row.units), total, complete)

AdjustmentsOf(id) == {a \in adjustments : a.row = id}

\* Mutant: the expected revision is not compared.
ReconcileBlind(id, correction, expected, units, total, complete) ==
  /\ \A l \in locks : \A row \in RowOf(id) : l[1] # row.scope
  /\ \A a \in AdjustmentsOf(id) : a.id # correction
  /\ \E row \in RowOf(id) :
       /\ row.state = "settled"
       /\ units >= Minimum(row, total, complete)
       /\ expected < Cardinality(Corrections)
       /\ rows' = (rows \ {row}) \cup
            {[row EXCEPT !.units = units, !.complete = complete, !.revision = expected + 1]}
       /\ adjustments' = adjustments \cup
            {[row |-> id, id |-> correction, revision |-> expected + 1,
              previous |-> row.units, result |-> units]}
  /\ UNCHANGED <<today, locks, call, sent>>

\* reconcile, under the scope's lock and the row's: a correction made against
\* the current revision.  A known correction is replayed and changes nothing.
Reconcile(id, correction, expected, units, total, complete) ==
  /\ \A l \in locks : \A row \in RowOf(id) : l[1] # row.scope
  /\ \A a \in AdjustmentsOf(id) : a.id # correction
  /\ \E row \in RowOf(id) :
       /\ row.state = "settled"
       /\ row.revision = expected
       /\ units >= Minimum(row, total, complete)
       /\ rows' = (rows \ {row}) \cup
            {[row EXCEPT !.units = units, !.complete = complete, !.revision = @ + 1]}
       /\ adjustments' = adjustments \cup
            {[row |-> id, id |-> correction, revision |-> row.revision + 1,
              previous |-> row.units, result |-> units]}
  /\ UNCHANGED <<today, locks, call, sent>>

Midnight ==
  /\ today < Days
  /\ today' = today + 1
  /\ UNCHANGED <<rows, adjustments, locks, call, sent>>

Init ==
  /\ today = 1
  /\ rows = {} /\ adjustments = {} /\ locks = {} /\ sent = {}
  /\ call = [c \in Calls |-> Idle]

ReserveStep(c) ==
  ReserveBegin(c) \/ ReserveSum(c) \/ ReserveRefused(c) \/ ReserveGranted(c) \/ ReserveFailed(c)

CallStep(c) ==
  \/ \E scope \in Scopes, estimate \in 0..MaxUnits : Start(c, scope, estimate)
  \/ ReserveStep(c)
  \/ RecordAttempt(c) \/ RefundAttempt(c) \/ Send(c) \/ Fail(c) \/ Crash(c)
  \/ \E total \in 0..MaxUnits, complete \in BOOLEAN : Succeed(c, total, complete) \/ End(c, total, complete)

OperatorStep(id) ==
  \/ Sweep(id)
  \/ \E correction \in Corrections, expected \in 0..Cardinality(Corrections),
        units, total \in 0..MaxUnits, complete \in BOOLEAN :
       Reconcile(id, correction, expected, units, total, complete)

Next ==
  \/ \E c \in Calls : CallStep(c)
  \/ \E id \in Ids : OperatorStep(id)
  \/ Midnight

Spec == Init /\ [][Next]_vars

(***************************************************************************)
(* Properties.                                                             *)
(***************************************************************************)

\* The types, with the primary keys of both tables.
TypeOK ==
  /\ today \in 1..Days
  /\ rows \subseteq Row
  /\ adjustments \subseteq Adjustment
  /\ locks \subseteq Scopes \X Calls
  /\ call \in [Calls -> Call \cup {Idle}]
  /\ sent \subseteq Ids
  /\ \A row, other \in rows : row.id = other.id => row = other

\* The daily cap holds under concurrency and crashes: of the rows no operator
\* has corrected, what was reserved and is still accounted for never adds up
\* to more than the limit (reserve_estimated under its advisory lock; late
\* usage above the estimate is a debt, not a grant).
WithinLimit ==
  \A scope \in Scopes, day \in 1..Days : \A limit \in LimitOf(scope) :
    MapThenSumSet(LAMBDA row : IF row.units < row.original THEN row.units ELSE row.original,
                  {row \in rows : /\ row.scope = scope /\ row.day = day
                                  /\ row.state # "released" /\ row.revision = 0}) <= limit

\* Spent, never free: once an attempt is handed to the HTTP client, neither
\* its reservation nor the call's tier reservation is ever released, whatever
\* fails or crashes afterwards (Observer::begin, complete, sweep_stale).
SpentNeverFree ==
  \A row \in rows : row.state = "released" =>
    \A id \in sent : id[1] = row.id[1] => row.scope = "all" /\ id # row.id

\* Nothing is undercounted: without complete usage from the provider, a row
\* is accounted at its estimate at least, corrected or not.
NeverUndercounted ==
  \A row \in rows : row.state = "settled" /\ ~row.complete => row.units >= row.original

\* The first settlement is final: afterwards only a correction changes a row,
\* one revision at a time, and no row is ever removed or reopened.
FirstSettlementWins ==
  [][\A row \in rows : \E next \in rows' :
       /\ next.id = row.id /\ next.original = row.original /\ next.day = row.day
       /\ \/ next = row
          \/ row.state = "held" /\ next.state # "held" /\ next.revision = row.revision
          \/ row.state = "settled" /\ next.state = "settled" /\ next.revision = row.revision + 1]_vars

\* The corrections of a row are its history: one for each revision, each from
\* the units the one before it left, the last one leaving the row's.
CorrectionsChain ==
  \A row \in rows :
    /\ {a.revision : a \in AdjustmentsOf(row.id)} = 1..row.revision
    /\ \A a, b \in AdjustmentsOf(row.id) : a.revision = b.revision => a = b
    /\ \A a, b \in AdjustmentsOf(row.id) : b.revision = a.revision + 1 => b.previous = a.result
    /\ \A a \in AdjustmentsOf(row.id) : a.revision = row.revision => a.result = row.units

=============================================================================
