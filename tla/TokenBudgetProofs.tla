------------------------- MODULE TokenBudgetProofs -------------------------
(***************************************************************************)
(* Proofs about TokenBudget.  The argument: an attempt is only refunded at *)
(* the place before it is sent, its number is never used again, and a call *)
(* whose attempt was sent is an admitted one, so its tier is not refunded. *)
(* The tables only change in the ways of TablesMove, which gives the final *)
(* settlements and the chain of corrections.  The daily cap needs the lock *)
(* of a scope from a call's sum to its insert (LockHeld): what fitted then *)
(* still fits (FitsStill), because meanwhile the counted sum cannot grow.  *)
(***************************************************************************)
EXTENDS TokenBudget, TLAPS, FiniteSetTheorems, WellFoundedInduction

Reserving == {"begin", "sum", "insert"}

\* The fields of a call agree with its place.
Shape(r) ==
  /\ r \in Call
  /\ r.scope = "all" <=> r.attempt # 0
  /\ r.at \notin Reserving \cup {"over"} => r.scope = "all"
  /\ r.at \in {"send", "response"} => r.admitted

CallShape == \A c \in Calls : call[c] = Idle \/ Shape(call[c])

\* A row belongs to a call that has made it, at the call's estimate.
RowsBefore ==
  \A row \in rows :
    LET c == call[row.id[1]]
    IN  /\ c # Idle
        /\ row.scope = "all" <=> row.id[2] # 0
        /\ row.id[2] <= c.attempt
        /\ row.id[2] = c.attempt => c.at \notin Reserving
        /\ row.original = c.estimate

\* An attempt that was sent was admitted, and no place before the response is
\* ever reached again with its number.
SentBefore ==
  \A id \in sent :
    LET c == call[id[1]]
    IN  /\ c # Idle /\ c.admitted
        /\ id[2] # 0 /\ id[2] <= c.attempt
        /\ id[2] = c.attempt => c.at \in {"response", "end", "over"}

\* An attempt was released at the end of the call, or before a later one; the
\* tier's reservation only when the call was over and had sent nothing.
ReleasedBefore ==
  \A row \in rows : row.state = "released" =>
    LET c == call[row.id[1]]
    IN  /\ row.scope = "all" => /\ row.id[2] = c.attempt => c.at \in {"end", "over"}
                                /\ row.id \notin sent
        /\ row.scope # "all" => c.at = "over" /\ \A id \in sent : id[1] # row.id[1]

HeldAtEstimate == \A row \in rows : row.state = "held" => row.units = row.original

IInv ==
  /\ TypeOK
  /\ CallShape
  /\ RowsBefore
  /\ SentBefore
  /\ ReleasedBefore
  /\ HeldAtEstimate
  /\ NeverUndercounted

\* A step of a call: its estimate stays, it never goes back to a number it has
\* used, and with one number it only goes forward.
Forward(old, new) ==
  /\ Shape(old) /\ Shape(new)
  /\ new.estimate = old.estimate
  /\ old.admitted => new.admitted
  /\ old.at # "over"
  /\ \/ new.attempt > old.attempt
     \/ /\ new.attempt = old.attempt
        /\ new.at \in Reserving => old.at \in Reserving
        /\ old.at \in {"response", "end"} => new.at \in {"end", "over"}

\* A change of one row: it is settled or corrected, at its estimate at least
\* if its usage is not complete, or refunded when that is right.
Changed(row, next) ==
  LET c == call'[row.id[1]]
  IN  /\ row \in rows /\ next \in Row
      /\ next.id = row.id /\ next.scope = row.scope /\ next.original = row.original
      /\ \/ next.state = "settled" /\ (next.complete \/ next.units >= next.original)
         \/ /\ next.state = "released"
            /\ next.scope = "all" => c.at \in {"end", "over"} /\ row.id \notin sent
            /\ next.scope # "all" => c.at = "over" /\ ~c.admitted

\* A new row, of a call that has just made it.
Added(next) ==
  LET c == call'[next.id[1]]
  IN  /\ next \in Row /\ \A row \in rows : row.id # next.id
      /\ next.state = "held" /\ next.units = next.original
      /\ c # Idle /\ next.original = c.estimate
      /\ next.scope = "all" <=> next.id[2] # 0
      /\ next.id[2] <= c.attempt
      /\ next.id[2] = c.attempt => c.at \notin Reserving

RowsSafe ==
  \/ rows' = rows
  \/ \E row, next : Changed(row, next) /\ rows' = (rows \ {row}) \cup {next}
  \/ \E next : Added(next) /\ rows' = rows \cup {next}

SafeStep ==
  /\ today' \in 1..Days
  /\ adjustments' \subseteq Adjustment
  /\ locks' \subseteq Scopes \X Calls
  /\ sent' = sent
  /\ call' \in [Calls -> Call \cup {Idle}]
  /\ \A c \in Calls :
       call'[c] = call[c] \/ (call[c] = Idle /\ Shape(call'[c])) \/ Forward(call[c], call'[c])
  /\ RowsSafe

\* An unsent call has none of the fields of a call.
LEMMA IdleIsNoCall == Idle \notin Call
BY DEF Idle, Call, Places

\* Such a step keeps the invariant.
LEMMA SafeStepKeeps ==
  ASSUME IInv, SafeStep
  PROVE  IInv'
<1> USE LimitsAssumption DEF IInv, SafeStep
<1>1. \A c \in Calls : call[c] # Idle =>
        /\ call'[c] # Idle
        /\ call'[c] = call[c] \/ Forward(call[c], call'[c])
  BY IdleIsNoCall DEF Forward, Shape
<1>2. \A next \in rows' : next \in rows \/ (\E row : Changed(row, next)) \/ Added(next)
  BY DEF RowsSafe
<1>3. TypeOK'
  <2>1. rows' \subseteq Row BY DEF TypeOK, Changed, Added, RowsSafe
  <2>2. \A row, other \in rows' : row.id = other.id => row = other
    BY DEF TypeOK, Changed, Added, RowsSafe
  <2> QED BY <2>1, <2>2 DEF TypeOK
<1>4. CallShape'
  BY DEF CallShape, Forward
<1>5. \A id \in Ids : id[1] \in Calls /\ id[2] \in Nat
  BY DEF Ids
<1>6. RowsBefore'
  <2> SUFFICES ASSUME NEW next \in rows'
               PROVE  LET c == call'[next.id[1]]
                      IN  /\ c # Idle
                          /\ next.scope = "all" <=> next.id[2] # 0
                          /\ next.id[2] <= c.attempt
                          /\ next.id[2] = c.attempt => c.at \notin Reserving
                          /\ next.original = c.estimate
    BY DEF RowsBefore
  <2>1. CASE Added(next)
    BY <2>1 DEF Added
  <2>2. ASSUME NEW row \in rows, next.id = row.id, next.scope = row.scope, next.original = row.original
        PROVE  LET c == call'[next.id[1]]
               IN  /\ c # Idle
                   /\ next.scope = "all" <=> next.id[2] # 0
                   /\ next.id[2] <= c.attempt
                   /\ next.id[2] = c.attempt => c.at \notin Reserving
                   /\ next.original = c.estimate
    <3>1. row.id \in Ids BY DEF TypeOK, Row
    <3>2. /\ call[row.id[1]] # Idle
          /\ row.scope = "all" <=> row.id[2] # 0
          /\ row.id[2] <= call[row.id[1]].attempt
          /\ row.id[2] = call[row.id[1]].attempt => call[row.id[1]].at \notin Reserving
          /\ row.original = call[row.id[1]].estimate
      BY DEF RowsBefore
    <3>3. CASE call'[row.id[1]] = call[row.id[1]]
      BY <2>2, <3>2, <3>3
    <3>4. CASE Forward(call[row.id[1]], call'[row.id[1]])
      BY <1>1, <1>5, <2>2, <3>1, <3>2, <3>4 DEF Forward, Shape, Call
    <3> QED BY <1>1, <1>5, <3>1, <3>2, <3>3, <3>4
  <2> QED BY <1>2, <2>1, <2>2 DEF Changed
<1>7. SentBefore'
  <2> SUFFICES ASSUME NEW id \in sent
               PROVE  LET c == call'[id[1]]
                      IN  /\ c # Idle /\ c.admitted
                          /\ id[2] # 0 /\ id[2] <= c.attempt
                          /\ id[2] = c.attempt => c.at \in {"response", "end", "over"}
    BY DEF SentBefore
  <2>1. id[1] \in Calls /\ id[2] \in Nat BY <1>5 DEF TypeOK
  <2>2. CASE call'[id[1]] = call[id[1]] BY <2>2 DEF SentBefore
  <2>3. CASE Forward(call[id[1]], call'[id[1]])
    BY <1>1, <2>1, <2>3 DEF SentBefore, Forward, Shape, Call
  <2> QED BY <1>1, <2>1, <2>2, <2>3 DEF SentBefore
<1>8. ReleasedBefore'
  <2> SUFFICES ASSUME NEW next \in rows', next.state = "released"
               PROVE  LET c == call'[next.id[1]]
                      IN  /\ next.scope = "all" => /\ next.id[2] = c.attempt => c.at \in {"end", "over"}
                                                   /\ next.id \notin sent
                          /\ next.scope # "all" => c.at = "over" /\ \A id \in sent : id[1] # next.id[1]
    BY DEF ReleasedBefore
  <2>1. CASE next \in rows
    <3>1. next.id \in Ids BY <2>1 DEF TypeOK, Row
    <3>2. CASE call'[next.id[1]] = call[next.id[1]] BY <2>1, <3>2 DEF ReleasedBefore
    <3>3. CASE Forward(call[next.id[1]], call'[next.id[1]])
      BY <1>1, <1>5, <2>1, <3>1, <3>3 DEF ReleasedBefore, RowsBefore, Forward, Shape, Call, Reserving
    <3> QED BY <1>1, <1>5, <2>1, <3>1, <3>2, <3>3 DEF RowsBefore
  <2>2. CASE \E row : Changed(row, next)
    <3>1. PICK row : Changed(row, next) BY <2>2
    <3>2. \A id \in sent : call'[id[1]].admitted
      BY <1>7 DEF SentBefore
    <3> QED BY <3>1, <3>2 DEF Changed
  <2>3. CASE Added(next) BY <2>3 DEF Added
  <2> QED BY <1>2, <2>1, <2>2, <2>3
<1>9. HeldAtEstimate' BY <1>2 DEF HeldAtEstimate, Changed, Added
<1>10. NeverUndercounted' BY <1>2 DEF NeverUndercounted, Changed, Added
<1> QED BY <1>3, <1>4, <1>6, <1>7, <1>8, <1>9, <1>10

\* A settlement is a safe change of one row: first writer, and at the estimate
\* at least when the usage is not complete.
LEMMA SettleIsSafe ==
  ASSUME IInv, NEW id, NEW units \in SUBSET (0..MaxUnits), NEW complete \in BOOLEAN,
         complete \/ \A n \in units : \A row \in RowOf(id) : n >= row.original,
         Settle(id, units, complete)
  PROVE  RowsSafe
<1>1. CASE HeldOf(id) = {}
  BY <1>1 DEF Settle, RowsSafe
<1>2. CASE HeldOf(id) # {}
  <2>1. PICK row \in HeldOf(id) : \E n \in IF units = {} THEN {row.units} ELSE units :
          rows' = (rows \ {row}) \cup
                    {[row EXCEPT !.state = "settled", !.complete = complete, !.units = n]}
    BY <1>2 DEF Settle
  <2>2. PICK n \in IF units = {} THEN {row.units} ELSE units :
          rows' = (rows \ {row}) \cup
                    {[row EXCEPT !.state = "settled", !.complete = complete, !.units = n]}
    BY <2>1
  <2>3. row \in rows /\ row \in Row /\ row.state = "held" /\ row \in RowOf(id) /\ row.units = row.original
    BY DEF HeldOf, RowOf, IInv, TypeOK, HeldAtEstimate
  <2> DEFINE next == [row EXCEPT !.state = "settled", !.complete = complete, !.units = n]
  <2>4. /\ next \in Row /\ next.id = row.id /\ next.scope = row.scope
        /\ next.original = row.original /\ next.state = "settled" /\ next.complete = complete
        /\ next.units = n
    BY <2>3 DEF Row
  <2>5. complete \/ n >= row.original
    <3>1. row.original \in Nat BY <2>3, LimitsAssumption DEF Row
    <3>2. CASE units = {}
      <4>1. n = row.original BY <2>3, <3>2
      <4> QED BY <3>1, <4>1
    <3>3. CASE n \in units BY <2>3, <3>3
    <3> QED BY <3>2, <3>3
  <2>6. Changed(row, next)
    BY <2>3, <2>4, <2>5 DEF Changed
  <2> QED BY <2>2, <2>6 DEF RowsSafe
<1> QED BY <1>1, <1>2

\* A release is one if the call has come to where it may refund.
LEMMA ReleaseIsSafe ==
  ASSUME IInv, NEW id, Release(id),
         \A row \in RowOf(id) :
           /\ row.scope = "all" => call'[id[1]].at \in {"end", "over"} /\ id \notin sent
           /\ row.scope # "all" => call'[id[1]].at = "over" /\ ~call'[id[1]].admitted
  PROVE  RowsSafe
<1>1. CASE HeldOf(id) = {}
  BY <1>1 DEF Release, RowsSafe
<1>2. CASE HeldOf(id) # {}
  <2>1. PICK row \in HeldOf(id) : rows' = (rows \ {row}) \cup {[row EXCEPT !.state = "released"]}
    BY <1>2 DEF Release
  <2>2. row \in rows /\ row \in Row /\ row \in RowOf(id) /\ row.id = id
    BY DEF HeldOf, RowOf, IInv, TypeOK
  <2> DEFINE next == [row EXCEPT !.state = "released"]
  <2>3. /\ next \in Row /\ next.id = row.id /\ next.scope = row.scope
        /\ next.original = row.original /\ next.state = "released"
    BY <2>2 DEF Row
  <2>4. Changed(row, next)
    BY <2>2, <2>3 DEF Changed
  <2> QED BY <2>1, <2>4 DEF RowsSafe
<1> QED BY <1>1, <1>2

\* The accounted units cover the estimate unless the usage is complete.
LEMMA AccountedCovers ==
  ASSUME NEW reserved \in 0..MaxUnits, NEW total \in 0..MaxUnits, NEW complete \in BOOLEAN
  PROVE  /\ Accounted(reserved, total, complete) \in 0..MaxUnits
         /\ ~complete => Accounted(reserved, total, complete) >= reserved
BY LimitsAssumption DEF Accounted

\* Where a step of one call leaves the calls.
LEMMA OneCallMoves ==
  ASSUME IInv, NEW c \in Calls, NEW new, call' = [call EXCEPT ![c] = new],
         (call[c] = Idle /\ Shape(new)) \/ Forward(call[c], new)
  PROVE  /\ call' \in [Calls -> Call \cup {Idle}]
         /\ call'[c] = new
         /\ \A d \in Calls :
              call'[d] = call[d] \/ (call[d] = Idle /\ Shape(call'[d])) \/ Forward(call[d], call'[d])
BY DEF IInv, TypeOK, Forward, Shape

\* A call at one of its places has the fields of a call.
LEMMA ActiveCall ==
  ASSUME IInv, NEW c \in Calls, call[c] # Idle
  PROVE  call[c] \in Call /\ Shape(call[c])
BY DEF IInv, TypeOK, CallShape

\* The next attempt of a call that may have one.
LEMMA NextAttempt ==
  ASSUME NEW r \in Call, r.attempt < MaxAttempts
  PROVE  /\ Shape(ToAttempt(r))
         /\ ToAttempt(r).attempt = r.attempt + 1
         /\ ToAttempt(r).estimate = r.estimate
         /\ ToAttempt(r).admitted = r.admitted
<1> DEFINE place == IF TotalLimit = {} THEN "record" ELSE "begin"
           new == [r EXCEPT !.at = place, !.scope = "all", !.attempt = r.attempt + 1]
<1>1. place \in Places /\ place \notin {"send", "response"}
  BY DEF Places
<1>2. r.attempt \in Nat /\ r.attempt + 1 \in 0..MaxAttempts /\ r.attempt + 1 # 0
  BY LimitsAssumption DEF Call
<1>3. "all" \in Scopes
  BY DEF Scopes
<1>4. ToAttempt(r) = new
  BY DEF ToAttempt, Call
<1> HIDE DEF place
<1>5. /\ new.at = place /\ new.scope = "all" /\ new.attempt = r.attempt + 1
      /\ new.estimate = r.estimate /\ new.admitted = r.admitted
  BY DEF Call
<1>6. new \in Call
  BY <1>1, <1>2, <1>3 DEF Call
<1>7. Shape(new)
  BY <1>1, <1>2, <1>5, <1>6 DEF Shape
<1> QED BY <1>4, <1>5, <1>7

\* The call is made.
LEMMA StartStep ==
  ASSUME IInv, NEW c \in Calls, NEW scope \in Scopes, NEW estimate \in 0..MaxUnits,
         Start(c, scope, estimate)
  PROVE  IInv'
<1> DEFINE r == [at |-> "begin", scope |-> scope, attempt |-> 0, estimate |-> estimate,
                 day |-> today, fits |-> FALSE, admitted |-> TotalLimit = {}, ok |-> FALSE]
           new == IF scope = "all" \/ TierLimit = {} THEN ToAttempt(r) ELSE r
<1>1. r \in Call
  BY LimitsAssumption DEF IInv, TypeOK, Call, Places
<1>2. Shape(new)
  <2>1. CASE scope = "all" \/ TierLimit = {}
    BY <1>1, <2>1, NextAttempt, LimitsAssumption
  <2>2. CASE ~(scope = "all" \/ TierLimit = {})
    BY <1>1, <2>2 DEF Shape, Reserving
  <2> QED BY <2>1, <2>2
<1>3. call[c] = Idle /\ call' = [call EXCEPT ![c] = new]
  BY DEF Start
<1> HIDE DEF new
<1>4. SafeStep
  BY <1>2, <1>3, OneCallMoves DEF SafeStep, RowsSafe, Start, IInv, TypeOK
<1> QED BY <1>4, SafeStepKeeps

\* The places a call passes through with the tables as they are.
LEMMA PlaceStep ==
  ASSUME IInv, NEW c \in Calls,
         ReserveBegin(c) \/ ReserveSum(c) \/ ReserveRefused(c) \/ ReserveFailed(c)
           \/ RecordAttempt(c) \/ Fail(c) \/ Crash(c)
  PROVE  IInv'
<1>1. call[c] \in Call /\ Shape(call[c]) /\ call[c].at # "over"
  BY ActiveCall DEF Idle, ReserveBegin, ReserveSum, ReserveRefused, ReserveFailed, RecordAttempt,
                    Fail, Crash, Places
<1>2. \E new : call' = [call EXCEPT ![c] = new] /\ Forward(call[c], new)
  <2>1. CASE ReserveBegin(c)
    <3>1. PICK new : new = [call[c] EXCEPT !.at = "sum", !.day = today] OBVIOUS
    <3>2. Forward(call[c], new)
      BY <1>1, <2>1, <3>1 DEF ReserveBegin, Forward, Shape, Call, Places, Reserving, IInv, TypeOK
    <3> QED BY <2>1, <3>1, <3>2 DEF ReserveBegin, IInv, TypeOK
  <2>2. CASE ReserveSum(c)
    <3>1. Fits(c) \in BOOLEAN BY DEF Fits
    <3>2. PICK new : new = [call[c] EXCEPT !.at = "insert", !.fits = Fits(c)] OBVIOUS
    <3>3. Forward(call[c], new)
      BY <1>1, <2>2, <3>1, <3>2 DEF ReserveSum, Forward, Shape, Call, Places, Reserving
    <3> QED BY <2>2, <3>2, <3>3 DEF ReserveSum, IInv, TypeOK
  <2>3. CASE ReserveRefused(c) \/ ReserveFailed(c)
    <3>1. PICK new : new = [call[c] EXCEPT !.at = IF call[c].scope = "all" THEN "end" ELSE "over"] OBVIOUS
    <3>2. Forward(call[c], new)
      BY <1>1, <2>3, <3>1 DEF ReserveRefused, ReserveFailed, Forward, Shape, Call, Places, Reserving
    <3> QED BY <2>3, <3>1, <3>2 DEF ReserveRefused, ReserveFailed, Refused, IInv, TypeOK
  <2>4. CASE RecordAttempt(c)
    <3>1. PICK new : new = [call[c] EXCEPT !.at = "send", !.admitted = TRUE] OBVIOUS
    <3>2. Forward(call[c], new)
      BY <1>1, <2>4, <3>1 DEF RecordAttempt, Forward, Shape, Call, Places, Reserving
    <3> QED BY <2>4, <3>1, <3>2 DEF RecordAttempt, IInv, TypeOK
  <2>5. CASE Fail(c)
    <3>1. CASE call' = [call EXCEPT ![c].at = "end"]
      <4>1. PICK new : new = [call[c] EXCEPT !.at = "end"] OBVIOUS
      <4>2. Forward(call[c], new)
        BY <1>1, <2>5, <4>1 DEF Fail, Forward, Shape, Call, Places, Reserving
      <4> QED BY <3>1, <4>1, <4>2 DEF IInv, TypeOK
    <3>2. CASE call[c].attempt < MaxAttempts /\ call' = [call EXCEPT ![c] = ToAttempt(@)]
      <4>1. call[c].attempt \in Nat BY <1>1, LimitsAssumption DEF Call
      <4>2. Forward(call[c], ToAttempt(call[c]))
        BY <1>1, <3>2, <4>1, NextAttempt DEF Forward
      <4> QED BY <3>2, <4>2
    <3> QED BY <2>5, <3>1, <3>2 DEF Fail
  <2>6. CASE Crash(c)
    <3>1. PICK new : new = [call[c] EXCEPT !.at = "over"] OBVIOUS
    <3>2. Forward(call[c], new)
      BY <1>1, <2>6, <3>1 DEF Crash, Forward, Shape, Call, Places, Reserving
    <3> QED BY <2>6, <3>1, <3>2 DEF Crash, IInv, TypeOK
  <2> QED BY <2>1, <2>2, <2>3, <2>4, <2>5, <2>6
<1>3. locks' \subseteq Scopes \X Calls
  BY <1>1 DEF ReserveBegin, ReserveSum, ReserveRefused, ReserveFailed, RecordAttempt, Fail, Crash,
              Unlock, IInv, TypeOK, Call
<1>4. UNCHANGED <<today, rows, adjustments, sent>>
  BY DEF ReserveBegin, ReserveSum, ReserveRefused, ReserveFailed, RecordAttempt, Fail, Crash
<1>5. SafeStep
  BY <1>2, <1>3, <1>4, OneCallMoves DEF SafeStep, RowsSafe, IInv, TypeOK
<1> QED BY <1>5, SafeStepKeeps

\* Where an attempt's or a tier's row is: under the call and its attempt.
LEMMA ScopeRowIs ==
  ASSUME IInv, NEW c \in Calls, call[c] # Idle
  PROVE  ScopeRow(c) = <<c, call[c].attempt>> /\ ScopeRow(c) \in Ids
BY ActiveCall DEF ScopeRow, Shape, Call, Ids

\* The reservation is made: its row is new, no row of the call has its number.
LEMMA GrantStep ==
  ASSUME IInv, NEW c \in Calls, ReserveGranted(c)
  PROVE  IInv'
<1> DEFINE r == call[c]
<1>1. r \in Call /\ Shape(r) /\ r # Idle /\ r.at = "insert"
  BY ActiveCall DEF Idle, ReserveGranted
<1>2. PICK new : /\ call' = [call EXCEPT ![c] = new] /\ Forward(r, new)
                 /\ new.attempt = r.attempt => new.at \notin Reserving
  <2>1. CASE Refused(c)
    <3>1. PICK new : new = [r EXCEPT !.at = IF r.scope = "all" THEN "end" ELSE "over"] OBVIOUS
    <3>2. Forward(r, new) /\ new.at \notin Reserving
      BY <1>1, <3>1 DEF Forward, Shape, Call, Places, Reserving
    <3> QED BY <2>1, <3>1, <3>2 DEF Refused, IInv, TypeOK
  <2>2. CASE r.scope = "all" /\ call' = [call EXCEPT ![c].at = "record"]
    <3>1. PICK new : new = [r EXCEPT !.at = "record"] OBVIOUS
    <3>2. Forward(r, new) /\ new.at \notin Reserving
      BY <1>1, <2>2, <3>1 DEF Forward, Shape, Call, Places, Reserving
    <3> QED BY <2>2, <3>1, <3>2 DEF IInv, TypeOK
  <2>3. CASE r.scope # "all" /\ call' = [call EXCEPT ![c] = ToAttempt(r)]
    <3>1. r.attempt = 0 /\ r.attempt < MaxAttempts
      BY <1>1, <2>3, LimitsAssumption DEF Shape
    <3>2. Forward(r, ToAttempt(r)) /\ ToAttempt(r).attempt > r.attempt
      BY <1>1, <3>1, NextAttempt DEF Forward
    <3>3. ToAttempt(r).attempt # r.attempt
      BY <3>1, <3>2
    <3> QED BY <2>3, <3>2, <3>3
  <2>4. r.scope = "all" => [call EXCEPT ![c] = [r EXCEPT !.at = "record"]] = [call EXCEPT ![c].at = "record"]
    BY DEF IInv, TypeOK
  <2> QED BY <2>1, <2>2, <2>3, <2>4 DEF ReserveGranted
<1>3. ScopeRow(c) = <<c, r.attempt>> /\ ScopeRow(c) \in Ids
  BY <1>1, ScopeRowIs
<1>4. PICK row \in Row :
        /\ row = [id |-> ScopeRow(c), scope |-> r.scope, day |-> r.day,
                  original |-> r.estimate, units |-> r.estimate, state |-> "held",
                  complete |-> FALSE, revision |-> 0]
        /\ rows' = rows \cup {row}
  BY <1>1, <1>3 DEF ReserveGranted, Row, Call
<1>5. \A other \in rows : other.id # row.id
  BY <1>1, <1>3, <1>4 DEF IInv, RowsBefore, Reserving
<1>6. /\ call' \in [Calls -> Call \cup {Idle}]
      /\ call'[c] = new
      /\ \A d \in Calls :
           call'[d] = call[d] \/ (call[d] = Idle /\ Shape(call'[d])) \/ Forward(call[d], call'[d])
  BY <1>2, OneCallMoves
<1>7. Added(row)
  <2>1. row.scope = "all" <=> row.id[2] # 0
    BY <1>1, <1>3, <1>4 DEF Shape
  <2>2. row.id[1] = c /\ row.id[2] = r.attempt
    BY <1>3, <1>4
  <2>3. r.attempt \in Nat /\ new.attempt \in Nat
    BY <1>1, <1>2, LimitsAssumption DEF Forward, Shape, Call
  <2>4. r.attempt <= new.attempt /\ new # Idle /\ row.original = new.estimate
    BY <1>2, <1>4, <2>3, IdleIsNoCall DEF Forward, Shape
  <2> QED BY <1>2, <1>4, <1>5, <1>6, <2>1, <2>2, <2>4 DEF Added
<1>8. locks' \subseteq Scopes \X Calls
  BY DEF ReserveGranted, Unlock, IInv, TypeOK
<1>9. RowsSafe
  BY <1>4, <1>7 DEF RowsSafe
<1>10. SafeStep
  BY <1>6, <1>8, <1>9 DEF SafeStep, ReserveGranted, IInv, TypeOK
<1> QED BY <1>10, SafeStepKeeps

\* A call that stays in its attempt goes from one place to another.
LEMMA OnePlace ==
  ASSUME IInv, NEW c \in Calls, call[c] # Idle,
         NEW place \in {"end", "over"}, NEW ok \in BOOLEAN,
         call[c].at \notin Reserving \cup {"over"},
         call' = [call EXCEPT ![c].at = place, ![c].ok = ok]
  PROVE  /\ call' \in [Calls -> Call \cup {Idle}]
         /\ call'[c].at = place /\ call'[c].admitted = call[c].admitted
         /\ \A d \in Calls :
              call'[d] = call[d] \/ (call[d] = Idle /\ Shape(call'[d])) \/ Forward(call[d], call'[d])
<1>1. call[c] \in Call /\ Shape(call[c])
  BY ActiveCall
<1>2. PICK new : new = [call[c] EXCEPT !.at = place, !.ok = ok]
  OBVIOUS
<1>3. Forward(call[c], new) /\ new.at = place /\ new.admitted = call[c].admitted
  BY <1>1, <1>2 DEF Forward, Shape, Call, Places, Reserving
<1>4. call' = [call EXCEPT ![c] = new]
  BY <1>2 DEF IInv, TypeOK
<1> QED BY <1>3, <1>4, OneCallMoves

\* An attempt that was not recorded is refunded before it is sent.
LEMMA RefundStep ==
  ASSUME IInv, NEW c \in Calls, RefundAttempt(c)
  PROVE  IInv'
<1>1. call[c] \in Call /\ Shape(call[c]) /\ call[c] # Idle /\ call[c].at = "record"
  BY ActiveCall DEF Idle, RefundAttempt
<1>2. call' = [call EXCEPT ![c].at = "end", ![c].ok = call[c].ok]
  BY <1>1 DEF RefundAttempt, Call, IInv, TypeOK
<1>3. /\ call' \in [Calls -> Call \cup {Idle}]
      /\ call'[c].at = "end"
      /\ \A d \in Calls :
           call'[d] = call[d] \/ (call[d] = Idle /\ Shape(call'[d])) \/ Forward(call[d], call'[d])
  BY <1>1, <1>2, OnePlace DEF Call, Reserving
<1>4. ScopeRow(c) = <<c, call[c].attempt>>
  BY <1>1, ScopeRowIs
<1>5. ScopeRow(c) \notin sent
  BY <1>1, <1>4 DEF IInv, SentBefore
<1>6. \A row \in RowOf(ScopeRow(c)) : row.scope = "all"
  BY <1>1, <1>4 DEF IInv, RowsBefore, RowOf, Shape, Reserving
<1>7. RowsSafe
  BY <1>3, <1>4, <1>5, <1>6, ReleaseIsSafe DEF RefundAttempt, RowsSafe
<1>8. SafeStep
  BY <1>3, <1>7 DEF SafeStep, RefundAttempt, IInv, TypeOK
<1> QED BY <1>8, SafeStepKeeps

\* An answer settles the attempt, at its estimate at least if it is incomplete.
LEMMA SucceedStep ==
  ASSUME IInv, NEW c \in Calls, NEW total \in 0..MaxUnits, NEW complete \in BOOLEAN,
         Succeed(c, total, complete)
  PROVE  IInv'
<1>1. call[c] \in Call /\ Shape(call[c]) /\ call[c] # Idle /\ call[c].at = "response"
  BY ActiveCall DEF Idle, Succeed
<1>2. call' = [call EXCEPT ![c].at = "end", ![c].ok = TRUE]
  BY DEF Succeed
<1>3. /\ call' \in [Calls -> Call \cup {Idle}]
      /\ \A d \in Calls :
           call'[d] = call[d] \/ (call[d] = Idle /\ Shape(call'[d])) \/ Forward(call[d], call'[d])
  BY <1>1, <1>2, OnePlace DEF Reserving
<1>4. ScopeRow(c) = <<c, call[c].attempt>>
  BY <1>1, ScopeRowIs
<1>5. \A row \in RowOf(ScopeRow(c)) : row.original = call[c].estimate
  BY <1>4 DEF IInv, RowsBefore, RowOf
<1>6. PICK units \in 0..MaxUnits :
        /\ units = Accounted(call[c].estimate, total, complete)
        /\ ~complete => units >= call[c].estimate
  BY <1>1, AccountedCovers DEF Call
<1>7. complete \/ \A n \in {units} : \A row \in RowOf(ScopeRow(c)) : n >= row.original
  BY <1>5, <1>6
<1>8. RowsSafe
  <2>1. CASE Settle(ScopeRow(c), {units}, complete)
    BY <1>7, <2>1, SettleIsSafe
  <2>2. CASE UNCHANGED rows
    BY <2>2 DEF RowsSafe
  <2> QED BY <1>6, <2>1, <2>2 DEF Succeed
<1>9. SafeStep
  BY <1>3, <1>8 DEF SafeStep, Succeed, IInv, TypeOK
<1> QED BY <1>9, SafeStepKeeps

\* The end of a call refunds its tier only if no attempt was ever admitted.
LEMMA EndStep ==
  ASSUME IInv, NEW c \in Calls, NEW total \in 0..MaxUnits, NEW complete \in BOOLEAN,
         End(c, total, complete)
  PROVE  IInv'
<1>1. call[c] \in Call /\ Shape(call[c]) /\ call[c] # Idle /\ call[c].at = "end"
  BY ActiveCall DEF Idle, End
<1>2. call' = [call EXCEPT ![c].at = "over", ![c].ok = call[c].ok]
  BY <1>1 DEF End, Call, IInv, TypeOK
<1>3. /\ call' \in [Calls -> Call \cup {Idle}]
      /\ call'[c].at = "over" /\ call'[c].admitted = call[c].admitted
      /\ \A d \in Calls :
           call'[d] = call[d] \/ (call[d] = Idle /\ Shape(call'[d])) \/ Forward(call[d], call'[d])
  BY <1>1, <1>2, OnePlace DEF Call, Reserving
<1>4. \A row \in RowOf(<<c, 0>>) : row.scope # "all" /\ row.original = call[c].estimate
  BY DEF IInv, RowsBefore, RowOf
<1>5. PICK units \in 0..MaxUnits :
        /\ units = Accounted(call[c].estimate, total, complete)
        /\ ~complete => units >= call[c].estimate
  BY <1>1, AccountedCovers DEF Call
<1>6. RowsSafe
  <2>1. CASE ~call[c].admitted /\ Release(<<c, 0>>)
    BY <1>3, <1>4, <2>1, ReleaseIsSafe
  <2>2. CASE Settle(<<c, 0>>, {units}, complete)
    <3>1. complete \/ \A n \in {units} : \A row \in RowOf(<<c, 0>>) : n >= row.original
      BY <1>4, <1>5
    <3> QED BY <2>2, <3>1, SettleIsSafe
  <2>3. CASE Settle(<<c, 0>>, {}, FALSE)
    <3>1. \A id : Settle(id, {}, FALSE) => RowsSafe
      BY SettleIsSafe
    <3> QED BY <2>3, <3>1
  <2>4. CASE UNCHANGED rows
    BY <2>4 DEF RowsSafe
  <2> QED BY <1>5, <2>1, <2>2, <2>3, <2>4 DEF End
<1>7. SafeStep
  BY <1>3, <1>6 DEF SafeStep, End, IInv, TypeOK
<1> QED BY <1>7, SafeStepKeeps

\* The attempt is sent: it is its call's present one, and nobody refunded it.
LEMMA SendStep ==
  ASSUME IInv, NEW c \in Calls, Send(c)
  PROVE  IInv'
<1> USE DEF IInv
<1>1. call[c] \in Call /\ Shape(call[c]) /\ call[c] # Idle /\ call[c].at = "send"
  BY ActiveCall DEF Idle, Send
<1>2. PICK new : new = [call[c] EXCEPT !.at = "response"]
  OBVIOUS
<1>3. Shape(new) /\ new.at = "response" /\ new.attempt = call[c].attempt /\ new.admitted
      /\ new.estimate = call[c].estimate /\ new # Idle
  BY <1>1, <1>2, IdleIsNoCall DEF Shape, Call, Places, Reserving
<1>4. call' = [call EXCEPT ![c] = new] /\ rows' = rows /\ sent' = sent \cup {<<c, call[c].attempt>>}
  BY <1>2 DEF Send, TypeOK
<1>5. call' \in [Calls -> Call \cup {Idle}] /\ call'[c] = new
  BY <1>3, <1>4 DEF TypeOK, Shape
<1>6. \A d \in Calls : d # c => call'[d] = call[d]
  BY <1>4 DEF TypeOK
<1>7. \A row \in rows : row.id[1] \in Calls
  BY DEF TypeOK, Row, Ids
<1>8. \A id \in sent : id[1] \in Calls
  BY DEF TypeOK, Ids
<1>9. TypeOK'
  BY <1>1, <1>4, <1>5 DEF TypeOK, Send, Ids, Call
<1>10. CallShape'
  BY <1>3, <1>5, <1>6 DEF CallShape
<1>11. RowsBefore'
  BY <1>1, <1>3, <1>4, <1>5, <1>6, <1>7 DEF RowsBefore, Reserving
<1>12. SentBefore'
  <2>1. call[c].attempt # 0 /\ call[c].attempt <= call[c].attempt
    BY <1>1, LimitsAssumption DEF Shape, Call, Reserving
  <2> QED BY <1>1, <1>3, <1>4, <1>5, <1>6, <1>8, <2>1 DEF SentBefore
<1>13. ReleasedBefore'
  <2> SUFFICES ASSUME NEW row \in rows, row.state = "released"
               PROVE  LET d == call'[row.id[1]]
                      IN  /\ row.scope = "all" => /\ row.id[2] = d.attempt => d.at \in {"end", "over"}
                                                  /\ row.id \notin sent'
                          /\ row.scope # "all" => d.at = "over" /\ \A id \in sent' : id[1] # row.id[1]
    BY <1>4 DEF ReleasedBefore
  <2> QED BY <1>1, <1>3, <1>4, <1>5, <1>6, <1>7 DEF ReleasedBefore
<1>14. HeldAtEstimate' /\ NeverUndercounted'
  BY <1>4 DEF HeldAtEstimate, NeverUndercounted
<1> QED BY <1>9, <1>10, <1>11, <1>12, <1>13, <1>14

\* The janitor settles at the estimate; a correction goes no lower unless the
\* operator's usage is complete; at midnight only the date changes.
LEMMA OtherStep ==
  ASSUME IInv,
         Midnight \/ \E id \in Ids : OperatorStep(id)
  PROVE  IInv'
<1>1. RowsSafe
  <2>1. CASE Midnight
    BY <2>1 DEF Midnight, RowsSafe
  <2>2. ASSUME NEW id \in Ids, Sweep(id)
        PROVE  RowsSafe
    BY <2>2, SettleIsSafe DEF Sweep
  <2>3. ASSUME NEW id \in Ids, NEW correction \in Corrections, NEW expected \in 0..Cardinality(Corrections),
               NEW units \in 0..MaxUnits, NEW total \in 0..MaxUnits, NEW complete \in BOOLEAN,
               Reconcile(id, correction, expected, units, total, complete)
        PROVE  RowsSafe
    <3>1. PICK row \in RowOf(id) :
            /\ row.state = "settled"
            /\ units >= Minimum(row, total, complete)
            /\ rows' = (rows \ {row}) \cup
                 {[row EXCEPT !.units = units, !.complete = complete, !.revision = @ + 1]}
      BY <2>3 DEF Reconcile
    <3>2. row \in rows /\ row \in Row
      BY DEF RowOf, IInv, TypeOK
    <3>3. complete \/ units >= row.original
      BY <3>1, <3>2, LimitsAssumption DEF Minimum, Accounted, Larger, Row
    <3>4. PICK next : next = [row EXCEPT !.units = units, !.complete = complete, !.revision = row.revision + 1]
      OBVIOUS
    <3>5. row.revision + 1 \in Nat
      BY <3>2 DEF Row
    <3>6. /\ next \in Row /\ next.id = row.id /\ next.scope = row.scope
          /\ next.original = row.original /\ next.state = "settled"
          /\ next.complete = complete /\ next.units = units
      BY <3>1, <3>2, <3>4, <3>5 DEF Row
    <3>7. Changed(row, next)
      BY <3>2, <3>3, <3>6 DEF Changed
    <3> QED BY <3>1, <3>4, <3>7 DEF RowsSafe
  <2> QED BY <2>1, <2>2, <2>3 DEF OperatorStep
<1>2. call' = call /\ sent' = sent /\ locks' = locks
  BY DEF Midnight, OperatorStep, Sweep, Reconcile
<1>3. today' \in 1..Days
  <2>1. today \in 1..Days /\ Days \in Nat
    BY LimitsAssumption DEF IInv, TypeOK
  <2>2. CASE Midnight BY <2>1, <2>2 DEF Midnight
  <2>3. CASE today' = today BY <2>1, <2>3
  <2> QED BY <2>2, <2>3 DEF OperatorStep, Sweep, Reconcile
<1>4. adjustments' \subseteq Adjustment
  <2>1. CASE UNCHANGED adjustments
    BY <2>1 DEF IInv, TypeOK
  <2>2. ASSUME NEW id \in Ids, NEW correction \in Corrections, NEW expected \in 0..Cardinality(Corrections),
               NEW units \in 0..MaxUnits, NEW total \in 0..MaxUnits, NEW complete \in BOOLEAN,
               Reconcile(id, correction, expected, units, total, complete)
        PROVE  adjustments' \subseteq Adjustment
    <3>1. PICK row \in rows : adjustments' = adjustments \cup
            {[row |-> id, id |-> correction, revision |-> row.revision + 1,
              previous |-> row.units, result |-> units]}
      BY <2>2 DEF Reconcile, RowOf
    <3>2. row.revision + 1 \in Nat \ {0} /\ row.units \in 0..MaxUnits
      BY DEF IInv, TypeOK, Row
    <3> QED BY <3>1, <3>2 DEF Adjustment, IInv, TypeOK
  <2> QED BY <2>1, <2>2 DEF Midnight, OperatorStep, Sweep
<1>5. SafeStep
  BY <1>1, <1>2, <1>3, <1>4 DEF SafeStep, IInv, TypeOK
<1> QED BY <1>5, SafeStepKeeps

\* Nothing is reserved or sent at the start.
LEMMA InitInv == Init => IInv
BY LimitsAssumption DEF Init, IInv, TypeOK, CallShape, RowsBefore, SentBefore, ReleasedBefore,
                        HeldAtEstimate, NeverUndercounted

\* Every step keeps the invariant.
LEMMA NextInv == IInv /\ [Next]_vars => IInv'
<1> SUFFICES ASSUME IInv, [Next]_vars PROVE IInv'
  OBVIOUS
<1>1. ASSUME NEW c \in Calls, CallStep(c)
      PROVE  IInv'
  <2>1. CASE \E scope \in Scopes, estimate \in 0..MaxUnits : Start(c, scope, estimate)
    BY <2>1, StartStep
  <2>2. CASE ReserveStep(c)
    BY <2>2, PlaceStep, GrantStep DEF ReserveStep
  <2>3. CASE RecordAttempt(c) \/ RefundAttempt(c) \/ Send(c) \/ Fail(c) \/ Crash(c)
    BY <2>3, PlaceStep, RefundStep, SendStep
  <2>4. CASE \E total \in 0..MaxUnits, complete \in BOOLEAN :
               Succeed(c, total, complete) \/ End(c, total, complete)
    BY <2>4, SucceedStep, EndStep
  <2> QED BY <1>1, <2>1, <2>2, <2>3, <2>4 DEF CallStep
<1>2. CASE UNCHANGED vars
  BY <1>2 DEF vars, IInv, TypeOK, CallShape, RowsBefore, SentBefore, ReleasedBefore, HeldAtEstimate,
              NeverUndercounted
<1> QED BY <1>1, <1>2, OtherStep DEF Next

\* The rows, the locks and the calls keep their types, and no row or
\* reservation identity occurs twice (the ledger of budget.rs).
THEOREM BudgetTypeOK == Spec => []TypeOK
<1>1. IInv => TypeOK BY DEF IInv
<1> QED BY <1>1, InitInv, NextInv, PTL DEF Spec

\* Spent, never free, for any number of calls, tiers, attempts and limits: no
\* reservation that paid for a sent attempt is released (Observer::begin and
\* complete, whatever fails and whoever crashes).
THEOREM SpentStaysSpent == Spec => []SpentNeverFree
<1>1. IInv => SpentNeverFree
  BY DEF IInv, ReleasedBefore, SpentNeverFree
<1> QED BY <1>1, InitInv, NextInv, PTL DEF Spec

\* Without complete usage a settled row stands at its estimate at least, for
\* any limits and corrections (accounted_units, BudgetCorrection::validate).
THEOREM NothingUndercounted == Spec => []NeverUndercounted
<1>1. IInv => NeverUndercounted BY DEF IInv
<1> QED BY <1>1, InitInv, NextInv, PTL DEF Spec

(***************************************************************************)
(* How the two tables change: a row is inserted under a fresh key, a held  *)
(* row is settled or released, a settled one is corrected with a record.   *)
(***************************************************************************)

SameReservation(row, next) ==
  /\ row \in rows /\ next \in Row
  /\ next.id = row.id /\ next.scope = row.scope /\ next.day = row.day /\ next.original = row.original

Closes(row, next) ==
  /\ SameReservation(row, next)
  /\ row.state = "held" /\ next.state \in {"settled", "released"} /\ next.revision = row.revision

Corrects(row, next) ==
  /\ SameReservation(row, next)
  /\ row.state = "settled" /\ next.state = "settled" /\ next.revision = row.revision + 1

Reserves(c, next) ==
  /\ call[c].at = "insert" /\ call[c].fits
  /\ next \in Row /\ next.scope = call[c].scope /\ next.day = call[c].day
  /\ next.original = call[c].estimate /\ next.units = call[c].estimate
  /\ next.state = "held" /\ next.revision = 0
  /\ \A row \in rows : row.id # next.id

TablesUnmoved == rows' = rows /\ adjustments' = adjustments

RowClosed ==
  /\ adjustments' = adjustments
  /\ \E row, next : Closes(row, next) /\ rows' = (rows \ {row}) \cup {next}

RowCorrected ==
  \E row, next : \E correction \in Corrections :
    /\ Corrects(row, next)
    /\ rows' = (rows \ {row}) \cup {next}
    /\ adjustments' = adjustments \cup
         {[row |-> row.id, id |-> correction, revision |-> next.revision,
           previous |-> row.units, result |-> next.units]}

RowReserved(c) ==
  /\ adjustments' = adjustments
  /\ \E next : Reserves(c, next) /\ rows' = rows \cup {next}

\* A settlement closes the row if it is held.
LEMMA SettleCloses ==
  ASSUME IInv, NEW id, NEW units \in SUBSET (0..MaxUnits), NEW complete \in BOOLEAN,
         Settle(id, units, complete), adjustments' = adjustments
  PROVE  TablesUnmoved \/ RowClosed
<1>1. CASE HeldOf(id) = {}
  BY <1>1 DEF Settle, TablesUnmoved
<1>2. CASE HeldOf(id) # {}
  <2>1. PICK row \in HeldOf(id) : \E n \in IF units = {} THEN {row.units} ELSE units :
          rows' = (rows \ {row}) \cup
                    {[row EXCEPT !.state = "settled", !.complete = complete, !.units = n]}
    BY <1>2 DEF Settle
  <2>2. PICK n \in IF units = {} THEN {row.units} ELSE units :
          rows' = (rows \ {row}) \cup
                    {[row EXCEPT !.state = "settled", !.complete = complete, !.units = n]}
    BY <2>1
  <2>3. row \in rows /\ row \in Row /\ row.state = "held"
    BY DEF HeldOf, RowOf, IInv, TypeOK
  <2>4. n \in 0..MaxUnits
    BY <2>3 DEF Row
  <2>5. PICK next : next = [row EXCEPT !.state = "settled", !.complete = complete, !.units = n]
    OBVIOUS
  <2>6. Closes(row, next)
    BY <2>3, <2>4, <2>5 DEF Closes, SameReservation, Row
  <2> QED BY <2>2, <2>5, <2>6 DEF RowClosed
<1> QED BY <1>1, <1>2

\* So does a release.
LEMMA ReleaseCloses ==
  ASSUME IInv, NEW id, Release(id), adjustments' = adjustments
  PROVE  TablesUnmoved \/ RowClosed
<1>1. CASE HeldOf(id) = {}
  BY <1>1 DEF Release, TablesUnmoved
<1>2. CASE HeldOf(id) # {}
  <2>1. PICK row \in HeldOf(id) : rows' = (rows \ {row}) \cup {[row EXCEPT !.state = "released"]}
    BY <1>2 DEF Release
  <2>2. row \in rows /\ row \in Row /\ row.state = "held"
    BY DEF HeldOf, RowOf, IInv, TypeOK
  <2>3. PICK next : next = [row EXCEPT !.state = "released"]
    OBVIOUS
  <2>4. Closes(row, next)
    BY <2>2, <2>3 DEF Closes, SameReservation, Row
  <2> QED BY <2>1, <2>3, <2>4 DEF RowClosed
<1> QED BY <1>1, <1>2

\* A granted reservation has an identity no row has.
LEMMA GrantReserves ==
  ASSUME IInv, NEW c \in Calls, ReserveGranted(c)
  PROVE  RowReserved(c)
<1>1. call[c] \in Call /\ call[c] # Idle /\ call[c].at = "insert" /\ call[c].fits
  BY ActiveCall DEF Idle, ReserveGranted
<1>2. ScopeRow(c) = <<c, call[c].attempt>> /\ ScopeRow(c) \in Ids
  BY <1>1, ScopeRowIs
<1>3. PICK next \in Row :
        /\ next = [id |-> ScopeRow(c), scope |-> call[c].scope, day |-> call[c].day,
                   original |-> call[c].estimate, units |-> call[c].estimate, state |-> "held",
                   complete |-> FALSE, revision |-> 0]
        /\ rows' = rows \cup {next}
  BY <1>1, <1>2 DEF ReserveGranted, Row, Call
<1>4. \A row \in rows : row.id # next.id
  BY <1>1, <1>2, <1>3 DEF IInv, RowsBefore, Reserving
<1>5. Reserves(c, next)
  BY <1>1, <1>3, <1>4 DEF Reserves
<1> QED BY <1>3, <1>5 DEF RowReserved, ReserveGranted

\* A correction moves the row by one revision and records where from.
LEMMA ReconcileCorrects ==
  ASSUME IInv, NEW id \in Ids, NEW correction \in Corrections, NEW expected \in 0..Cardinality(Corrections),
         NEW units \in 0..MaxUnits, NEW total \in 0..MaxUnits, NEW complete \in BOOLEAN,
         Reconcile(id, correction, expected, units, total, complete)
  PROVE  RowCorrected
<1>1. PICK row \in RowOf(id) :
        /\ row.state = "settled"
        /\ rows' = (rows \ {row}) \cup
             {[row EXCEPT !.units = units, !.complete = complete, !.revision = @ + 1]}
        /\ adjustments' = adjustments \cup
             {[row |-> id, id |-> correction, revision |-> row.revision + 1,
               previous |-> row.units, result |-> units]}
  BY DEF Reconcile
<1>2. row \in rows /\ row \in Row /\ row.id = id
  BY DEF RowOf, IInv, TypeOK
<1>3. PICK next : next = [row EXCEPT !.units = units, !.complete = complete, !.revision = row.revision + 1]
  OBVIOUS
<1>4. row.revision + 1 \in Nat
  BY <1>2 DEF Row
<1>5. Corrects(row, next) /\ next.revision = row.revision + 1 /\ next.units = units
  BY <1>1, <1>2, <1>3, <1>4 DEF Corrects, SameReservation, Row
<1> QED BY <1>1, <1>2, <1>3, <1>5 DEF RowCorrected

\* Every step changes the tables in one of these ways, or not at all.
LEMMA TablesMove ==
  ASSUME IInv, [Next]_vars
  PROVE  TablesUnmoved \/ RowClosed \/ RowCorrected \/ \E c \in Calls : ReserveGranted(c) /\ RowReserved(c)
<1>1. CASE UNCHANGED vars
  BY <1>1 DEF vars, TablesUnmoved
<1>2. CASE Midnight
  BY <1>2 DEF Midnight, TablesUnmoved
<1>3. ASSUME NEW id \in Ids, OperatorStep(id)
      PROVE  TablesUnmoved \/ RowClosed \/ RowCorrected
  <2>1. CASE Sweep(id)
    BY <2>1, SettleCloses DEF Sweep
  <2>2. CASE ~Sweep(id)
    BY <1>3, <2>2, ReconcileCorrects DEF OperatorStep
  <2> QED BY <2>1, <2>2
<1>4. ASSUME NEW c \in Calls, CallStep(c)
      PROVE  TablesUnmoved \/ RowClosed \/ (ReserveGranted(c) /\ RowReserved(c))
  <2>1. CASE \E scope \in Scopes, estimate \in 0..MaxUnits : Start(c, scope, estimate)
    BY <2>1 DEF Start, TablesUnmoved
  <2>2. CASE ReserveStep(c)
    BY <2>2, GrantReserves DEF ReserveStep, ReserveBegin, ReserveSum, ReserveRefused, ReserveFailed,
                               TablesUnmoved
  <2>3. CASE RecordAttempt(c) \/ Send(c) \/ Fail(c) \/ Crash(c)
    BY <2>3 DEF RecordAttempt, Send, Fail, Crash, TablesUnmoved
  <2>4. CASE RefundAttempt(c)
    BY <2>4, ReleaseCloses DEF RefundAttempt, TablesUnmoved
  <2>5. ASSUME NEW total \in 0..MaxUnits, NEW complete \in BOOLEAN,
               Succeed(c, total, complete) \/ End(c, total, complete)
        PROVE  TablesUnmoved \/ RowClosed
    <3>1. call[c].at \in {"response", "end"} /\ call[c] # Idle /\ call[c] \in Call
      <4>1. call[c].at \in {"response", "end"}
        BY <2>5 DEF Succeed, End
      <4>2. call[c] # Idle
        BY <4>1 DEF Idle
      <4> QED BY <4>1, <4>2, ActiveCall
    <3> DEFINE units == {Accounted(call[c].estimate, total, complete)}
    <3>2. units \in SUBSET (0..MaxUnits)
      <4>1. call[c].estimate \in 0..MaxUnits
        BY <3>1 DEF Call
      <4>2. Accounted(call[c].estimate, total, complete) \in 0..MaxUnits
        BY <4>1, AccountedCovers
      <4> QED BY <4>2
    <3>3. \A id : Settle(id, units, complete) /\ adjustments' = adjustments => TablesUnmoved \/ RowClosed
      BY <3>2, SettleCloses
    <3>4. \A id : Settle(id, {}, FALSE) /\ adjustments' = adjustments => TablesUnmoved \/ RowClosed
      BY SettleCloses
    <3>5. \A id : Release(id) /\ adjustments' = adjustments => TablesUnmoved \/ RowClosed
      BY ReleaseCloses
    <3> QED BY <2>5, <3>2, <3>3, <3>4, <3>5 DEF Succeed, End, TablesUnmoved
  <2> QED BY <1>4, <2>1, <2>2, <2>3, <2>4, <2>5 DEF CallStep
<1> QED BY <1>1, <1>2, <1>3, <1>4 DEF Next

\* The first settlement is final, for any number of calls, tiers and
\* corrections: whoever comes second, a response, a sweep or a refund, finds
\* the row no longer held (settle_with_evidence, release, reconcile).
THEOREM SettledOnce == Spec => FirstSettlementWins
<1> DEFINE A == \A row \in rows : \E next \in rows' :
             /\ next.id = row.id /\ next.original = row.original /\ next.day = row.day
             /\ \/ next = row
                \/ row.state = "held" /\ next.state # "held" /\ next.revision = row.revision
                \/ row.state = "settled" /\ next.state = "settled" /\ next.revision = row.revision + 1
<1>1. IInv /\ [Next]_vars => [A]_vars
  <2> SUFFICES ASSUME IInv, [Next]_vars, NEW row \in rows
               PROVE  \E next \in rows' :
                        /\ next.id = row.id /\ next.original = row.original /\ next.day = row.day
                        /\ \/ next = row
                           \/ row.state = "held" /\ next.state # "held" /\ next.revision = row.revision
                           \/ row.state = "settled" /\ next.state = "settled" /\ next.revision = row.revision + 1
    OBVIOUS
  <2>1. CASE row \in rows'
    BY <2>1
  <2>2. CASE row \notin rows'
    BY <2>2, TablesMove DEF TablesUnmoved, RowClosed, RowCorrected, RowReserved, Closes, Corrects, SameReservation
  <2> QED BY <2>1, <2>2
<1> QED BY <1>1, InitInv, NextInv, PTL DEF Spec, FirstSettlementWins

\* A row that is not settled was never corrected, and no correction is of a
\* row that does not exist.
ChainInv ==
  /\ CorrectionsChain
  /\ \A row \in rows : row.state # "settled" => row.revision = 0
  /\ \A a \in adjustments : \E row \in rows : row.id = a.row

\* Each step keeps the chain: a held row has none to break, a correction
\* continues it, a reservation starts an empty one.
LEMMA ChainStep ==
  ASSUME IInv, IInv', ChainInv, [Next]_vars
  PROVE  ChainInv'
<1>1. rows \subseteq Row /\ adjustments \subseteq Adjustment /\ \A row, other \in rows : row.id = other.id => row = other
  BY DEF IInv, TypeOK
<1>2. CASE TablesUnmoved
  BY <1>2 DEF TablesUnmoved, ChainInv, CorrectionsChain, AdjustmentsOf
<1>3. CASE RowClosed
  <2>1. PICK row, next : Closes(row, next) /\ rows' = (rows \ {row}) \cup {next} /\ adjustments' = adjustments
    BY <1>3 DEF RowClosed
  <2>2. row.revision = 0 /\ next.revision = 0 /\ next.id = row.id /\ row \in rows
    BY <2>1 DEF Closes, SameReservation, ChainInv
  <2>3. AdjustmentsOf(row.id) = {}
    <3>1. {a.revision : a \in AdjustmentsOf(row.id)} = 1..0
      BY <2>2 DEF ChainInv, CorrectionsChain
    <3>2. \A a \in AdjustmentsOf(row.id) : a.revision \in 1..0
      BY <3>1
    <3> QED BY <3>2
  <2>4. CorrectionsChain'
    <3> SUFFICES ASSUME NEW r \in rows'
                 PROVE  /\ {a.revision : a \in AdjustmentsOf(r.id)} = 1..r.revision
                        /\ \A a, b \in AdjustmentsOf(r.id) : a.revision = b.revision => a = b
                        /\ \A a, b \in AdjustmentsOf(r.id) : b.revision = a.revision + 1 => b.previous = a.result
                        /\ \A a \in AdjustmentsOf(r.id) : a.revision = r.revision => a.result = r.units
      BY <2>1 DEF CorrectionsChain, AdjustmentsOf
    <3>1. CASE r \in rows
      BY <3>1 DEF ChainInv, CorrectionsChain
    <3>2. CASE r = next
      BY <2>2, <2>3, <3>2
    <3> QED BY <2>1, <3>1, <3>2
  <2>5. \A r \in rows' : r.state # "settled" => r.revision = 0
    BY <2>1, <2>2 DEF ChainInv
  <2>6. \A a \in adjustments' : \E r \in rows' : r.id = a.row
    BY <2>1, <2>2 DEF ChainInv
  <2> QED BY <2>4, <2>5, <2>6 DEF ChainInv
<1>4. CASE RowCorrected
  <2>0. PICK row, next : \E k \in Corrections :
          /\ Corrects(row, next)
          /\ rows' = (rows \ {row}) \cup {next}
          /\ adjustments' = adjustments \cup
               {[row |-> row.id, id |-> k, revision |-> next.revision,
                 previous |-> row.units, result |-> next.units]}
    BY <1>4 DEF RowCorrected
  <2>1. PICK k \in Corrections :
          /\ Corrects(row, next)
          /\ rows' = (rows \ {row}) \cup {next}
          /\ adjustments' = adjustments \cup
               {[row |-> row.id, id |-> k, revision |-> next.revision,
                 previous |-> row.units, result |-> next.units]}
    BY <2>0
  <2>2. PICK new : new = [row |-> row.id, id |-> k, revision |-> next.revision,
                          previous |-> row.units, result |-> next.units]
    OBVIOUS
  <2>3. /\ row \in rows /\ row \in Row /\ next.id = row.id /\ next.state = "settled"
        /\ next.revision = row.revision + 1 /\ row.revision \in Nat
    BY <1>1, <2>1 DEF Corrects, SameReservation, Row
  <2>4. /\ new.row = row.id /\ new.revision = row.revision + 1
        /\ new.previous = row.units /\ new.result = next.units
    BY <2>2, <2>3
  <2>5. adjustments' = adjustments \cup {new}
    BY <2>1, <2>2
  <2>6. \A r \in rows : r # row => r.id # row.id
    BY <1>1, <2>3
  <2>7. ASSUME NEW r \in rows, r # row
        PROVE  AdjustmentsOf(r.id)' = AdjustmentsOf(r.id)
    BY <2>4, <2>5, <2>6, <2>7 DEF AdjustmentsOf
  <2> DEFINE old == AdjustmentsOf(row.id)
  <2>8. AdjustmentsOf(row.id)' = old \cup {new}
    BY <2>4, <2>5 DEF AdjustmentsOf
  <2>9. /\ {a.revision : a \in old} = 1..row.revision
        /\ \A a, b \in old : a.revision = b.revision => a = b
        /\ \A a, b \in old : b.revision = a.revision + 1 => b.previous = a.result
        /\ \A a \in old : a.revision = row.revision => a.result = row.units
    BY <2>3 DEF ChainInv, CorrectionsChain
  <2>10. \A a \in old : a.revision \in 1..row.revision
    BY <2>9
  <2> HIDE DEF old
  <2>11. /\ {a.revision : a \in old \cup {new}} = 1..next.revision
         /\ \A a, b \in old \cup {new} : a.revision = b.revision => a = b
         /\ \A a, b \in old \cup {new} : b.revision = a.revision + 1 => b.previous = a.result
         /\ \A a \in old \cup {new} : a.revision = next.revision => a.result = next.units
    <3>1. {a.revision : a \in old \cup {new}} = (1..row.revision) \cup {row.revision + 1}
      BY <2>4, <2>9
    <3>2. (1..row.revision) \cup {row.revision + 1} = 1..next.revision
      BY <2>3
    <3>3. \A a, b \in old \cup {new} : a.revision = b.revision => a = b
      BY <2>3, <2>4, <2>9, <2>10
    <3>4. \A a, b \in old \cup {new} : b.revision = a.revision + 1 => b.previous = a.result
      BY <2>3, <2>4, <2>9, <2>10
    <3>5. \A a \in old \cup {new} : a.revision = next.revision => a.result = next.units
      BY <2>3, <2>4, <2>10
    <3> QED BY <3>1, <3>2, <3>3, <3>4, <3>5
  <2>12. CorrectionsChain'
    <3> SUFFICES ASSUME NEW r \in rows'
                 PROVE  /\ {a.revision : a \in AdjustmentsOf(r.id)'} = 1..r.revision
                        /\ \A a, b \in AdjustmentsOf(r.id)' : a.revision = b.revision => a = b
                        /\ \A a, b \in AdjustmentsOf(r.id)' : b.revision = a.revision + 1 => b.previous = a.result
                        /\ \A a \in AdjustmentsOf(r.id)' : a.revision = r.revision => a.result = r.units
      BY DEF CorrectionsChain, AdjustmentsOf
    <3>1. CASE r = next
      <4>1. AdjustmentsOf(r.id)' = old \cup {new}
        BY <2>3, <2>8, <3>1 DEF AdjustmentsOf
      <4> QED BY <2>11, <3>1, <4>1
    <3>2. CASE r \in rows /\ r # row
      <4>1. AdjustmentsOf(r.id)' = AdjustmentsOf(r.id)
        BY <2>7, <3>2
      <4> QED BY <3>2, <4>1 DEF ChainInv, CorrectionsChain
    <3> QED BY <2>1, <3>1, <3>2
  <2>13. \A r \in rows' : r.state # "settled" => r.revision = 0
    BY <2>1, <2>3 DEF ChainInv
  <2>14. \A a \in adjustments' : \E r \in rows' : r.id = a.row
    BY <2>1, <2>3, <2>4, <2>5 DEF ChainInv
  <2> QED BY <2>12, <2>13, <2>14 DEF ChainInv
<1>5. ASSUME NEW c \in Calls, RowReserved(c)
      PROVE  ChainInv'
  <2>1. PICK next : Reserves(c, next) /\ rows' = rows \cup {next} /\ adjustments' = adjustments
    BY <1>5 DEF RowReserved
  <2>2. AdjustmentsOf(next.id) = {}
    BY <2>1 DEF ChainInv, Reserves, AdjustmentsOf
  <2>3. next.revision = 0
    BY <2>1 DEF Reserves
  <2>4. CorrectionsChain'
    <3> SUFFICES ASSUME NEW r \in rows'
                 PROVE  /\ {a.revision : a \in AdjustmentsOf(r.id)} = 1..r.revision
                        /\ \A a, b \in AdjustmentsOf(r.id) : a.revision = b.revision => a = b
                        /\ \A a, b \in AdjustmentsOf(r.id) : b.revision = a.revision + 1 => b.previous = a.result
                        /\ \A a \in AdjustmentsOf(r.id) : a.revision = r.revision => a.result = r.units
      BY <2>1 DEF CorrectionsChain, AdjustmentsOf
    <3>1. CASE r \in rows
      BY <3>1 DEF ChainInv, CorrectionsChain
    <3>2. CASE r = next
      BY <2>2, <2>3, <3>2
    <3> QED BY <2>1, <3>1, <3>2
  <2>5. \A r \in rows' : r.state # "settled" => r.revision = 0
    BY <2>1, <2>3 DEF ChainInv
  <2>6. \A a \in adjustments' : \E r \in rows' : r.id = a.row
    BY <2>1 DEF ChainInv
  <2> QED BY <2>4, <2>5, <2>6 DEF ChainInv
<1> QED BY <1>2, <1>3, <1>4, <1>5, TablesMove

\* The corrections of a row are its whole history, one for each revision, for
\* any number of racing operators and corrections (BudgetCorrection, reconcile).
THEOREM CorrectionsAreAChain == Spec => []CorrectionsChain
<1>1. Init => ChainInv
  BY DEF Init, ChainInv, CorrectionsChain
<1>2. IInv /\ ChainInv /\ [Next]_vars => (IInv /\ ChainInv)'
  BY NextInv, ChainStep
<1>3. ChainInv => CorrectionsChain
  BY DEF ChainInv
<1> QED BY <1>1, <1>2, <1>3, InitInv, PTL DEF Spec

(***************************************************************************)
(* Sums over finite sets, as MapThenSumSet computes them: one element is   *)
(* picked, the rest is summed.  f is a function, so that a lemma may speak *)
(* of any two of them.                                                     *)
(***************************************************************************)

Pick(s) == CHOOSE x \in s : TRUE

Sums(f, S, g) ==
  g = [s \in SUBSET S |-> IF s = {} THEN 0 ELSE f[Pick(s)] + g[s \ {Pick(s)}]]

SumOf(f, S) == (CHOOSE g : Sums(f, S, g))[S]

\* The element picked is one, and without it a set is smaller.
LEMMA PickSmaller ==
  ASSUME NEW S, IsFiniteSet(S), NEW x \in S
  PROVE  /\ Pick(S) \in S
         /\ IsFiniteSet(S \ {x}) /\ Cardinality(S \ {x}) < Cardinality(S)
         /\ Cardinality(S) \in Nat /\ Cardinality(S \ {x}) \in Nat
<1>1. Pick(S) \in S
  BY DEF Pick
<1>2. Cardinality(S) \in Nat /\ IsFiniteSet(S \ {x}) /\ Cardinality(S \ {x}) = Cardinality(S) - 1
  BY FS_CardinalityType, FS_RemoveElement
<1>3. Cardinality(S \ {x}) \in Nat
  BY <1>2, FS_CardinalityType
<1> QED BY <1>1, <1>2, <1>3

\* Of some subsets of a finite set one is smallest.
LEMMA SmallestSet ==
  ASSUME NEW S, IsFiniteSet(S), NEW U \in SUBSET SUBSET S, U # {}
  PROVE  \E m \in U : IsFiniteSet(m) /\ \A s \in U : ~(Cardinality(s) < Cardinality(m))
<1> DEFINE sizes == {Cardinality(s) : s \in U}
<1>1. \A s \in U : IsFiniteSet(s) /\ Cardinality(s) \in Nat
  BY FS_Subset, FS_CardinalityType
<1>2. sizes \subseteq Nat /\ sizes # {}
  BY <1>1
<1> HIDE DEF sizes
<1>3. PICK n \in sizes : \A k \in sizes : ~(<<k, n>> \in OpToRel(<, Nat))
  BY <1>2, NatLessThanWellFounded, WFMin
<1>4. \A k \in sizes : ~(k < n)
  BY <1>2, <1>3 DEF OpToRel
<1> QED BY <1>1, <1>4 DEF sizes

\* Two ways of summing agree where both sum.
LEMMA SumsAgree ==
  ASSUME NEW f, NEW S, NEW T, NEW g, NEW h, IsFiniteSet(S), Sums(f, S, g), Sums(f, T, h),
         NEW s \in SUBSET S, s \subseteq T
  PROVE  g[s] = h[s]
<1> DEFINE U == {u \in SUBSET S : u \subseteq T /\ g[u] # h[u]}
<1> SUFFICES ASSUME U # {} PROVE FALSE
  OBVIOUS
<1>1. PICK m \in U : IsFiniteSet(m) /\ \A u \in U : ~(Cardinality(u) < Cardinality(m))
  BY SmallestSet
<1>2. g[m] = IF m = {} THEN 0 ELSE f[Pick(m)] + g[m \ {Pick(m)}]
  BY DEF Sums
<1>3. h[m] = IF m = {} THEN 0 ELSE f[Pick(m)] + h[m \ {Pick(m)}]
  BY DEF Sums
<1>4. m # {}
  BY <1>2, <1>3
<1>5. Pick(m) \in m /\ Cardinality(m \ {Pick(m)}) < Cardinality(m)
  BY <1>1, <1>4, PickSmaller DEF Pick
<1>6. m \ {Pick(m)} \notin U
  BY <1>1, <1>5
<1>7. g[m \ {Pick(m)}] = h[m \ {Pick(m)}]
  BY <1>6
<1> QED BY <1>2, <1>3, <1>4, <1>7

\* A finite set can be summed.
LEMMA SumsExist ==
  ASSUME NEW f, NEW S, IsFiniteSet(S)
  PROVE  \E g : Sums(f, S, g)
<1> DEFINE U == {s \in SUBSET S : ~\E g : Sums(f, s, g)}
<1> SUFFICES ASSUME U # {} PROVE FALSE
  OBVIOUS
<1>1. PICK m \in U : IsFiniteSet(m) /\ \A s \in U : ~(Cardinality(s) < Cardinality(m))
  BY SmallestSet
<1>2. \A s \in SUBSET m : \A x \in s : s \ {x} \in SUBSET S /\ IsFiniteSet(s \ {x}) /\ Cardinality(s \ {x}) < Cardinality(m)
  <2> SUFFICES ASSUME NEW s \in SUBSET m, NEW x \in s
               PROVE  IsFiniteSet(s \ {x}) /\ Cardinality(s \ {x}) < Cardinality(m)
    OBVIOUS
  <2>1. IsFiniteSet(s) /\ Cardinality(s) <= Cardinality(m) /\ Cardinality(m) \in Nat
    BY <1>1, FS_Subset, FS_CardinalityType
  <2> QED BY <2>1, PickSmaller
<1> DEFINE sum(s) == CHOOSE g : Sums(f, s, g)
           all == [s \in SUBSET m |-> IF s = {} THEN 0 ELSE f[Pick(s)] + SumOf(f, s \ {Pick(s)})]
<1>3. \A s \in SUBSET m : \A x \in s : Sums(f, s \ {x}, sum(s \ {x}))
  BY <1>1, <1>2
<1>4. ASSUME NEW s \in SUBSET m, s # {}
      PROVE  all[s \ {Pick(s)}] = SumOf(f, s \ {Pick(s)})
  <2> DEFINE t == s \ {Pick(s)}
  <2>1. Pick(s) \in s /\ t \in SUBSET m /\ IsFiniteSet(t)
    BY <1>2, <1>4 DEF Pick
  <2>2. Sums(f, t, sum(t))
    BY <1>3, <2>1
  <2>3. sum(t)[t] = IF t = {} THEN 0 ELSE f[Pick(t)] + sum(t)[t \ {Pick(t)}]
    BY <2>2 DEF Sums
  <2>4. CASE t = {}
    BY <2>1, <2>3, <2>4 DEF SumOf
  <2>5. CASE t # {}
    <3>1. Pick(t) \in t
      BY <2>5 DEF Pick
    <3>2. Sums(f, t \ {Pick(t)}, sum(t \ {Pick(t)}))
      BY <1>3, <2>1, <3>1
    <3>3. IsFiniteSet(t \ {Pick(t)})
      BY <1>2, <2>1, <3>1
    <3>4. sum(t \ {Pick(t)})[t \ {Pick(t)}] = sum(t)[t \ {Pick(t)}]
      BY <2>2, <3>2, <3>3, SumsAgree
    <3> QED BY <2>1, <2>3, <2>5, <3>4 DEF SumOf
  <2> QED BY <2>4, <2>5
<1>5. Sums(f, m, all)
  <2>1. \A s \in SUBSET m : all[s] = IF s = {} THEN 0 ELSE f[Pick(s)] + all[s \ {Pick(s)}]
    BY <1>4
  <2> QED BY <2>1 DEF Sums
<1> QED BY <1>1, <1>5

\* One step of a sum, and the sum of nothing.
LEMMA SumUnfolds ==
  ASSUME NEW f, NEW S, IsFiniteSet(S)
  PROVE  /\ SumOf(f, {}) = 0
         /\ S # {} => SumOf(f, S) = f[Pick(S)] + SumOf(f, S \ {Pick(S)})
<1> DEFINE sum(s) == CHOOSE g : Sums(f, s, g)
<1>1. \A s : IsFiniteSet(s) => Sums(f, s, sum(s))
  BY SumsExist
<1>2. ASSUME NEW s, IsFiniteSet(s)
      PROVE  sum(s)[s] = IF s = {} THEN 0 ELSE f[Pick(s)] + sum(s)[s \ {Pick(s)}]
  <2>1. Sums(f, s, sum(s))
    BY <1>1, <1>2
  <2> HIDE DEF sum
  <2> QED BY <2>1 DEF Sums
<1>3. SumOf(f, {}) = 0
  BY <1>2, FS_EmptySet DEF SumOf
<1>4. ASSUME S # {}
      PROVE  SumOf(f, S) = f[Pick(S)] + SumOf(f, S \ {Pick(S)})
  <2> DEFINE t == S \ {Pick(S)}
  <2>1. IsFiniteSet(t)
    BY FS_RemoveElement
  <2>2. Sums(f, S, sum(S)) /\ Sums(f, t, sum(t))
    BY <1>1, <2>1
  <2>3. sum(S)[t] = sum(t)[t]
    BY <2>1, <2>2, SumsAgree
  <2> QED BY <1>2, <1>4, <2>3 DEF SumOf
<1> QED BY <1>3, <1>4

\* A sum of naturals is one.
LEMMA SumType ==
  ASSUME NEW f, NEW S, IsFiniteSet(S), \A x \in S : f[x] \in Nat
  PROVE  SumOf(f, S) \in Nat
<1> DEFINE U == {s \in SUBSET S : SumOf(f, s) \notin Nat}
<1> SUFFICES ASSUME U # {} PROVE FALSE
  OBVIOUS
<1>1. PICK m \in U : IsFiniteSet(m) /\ \A u \in U : ~(Cardinality(u) < Cardinality(m))
  BY SmallestSet
<1>2. m # {}
  <2>1. SumOf(f, {}) = 0
    BY SumUnfolds
  <2> QED BY <2>1
<1>3. Pick(m) \in m /\ Cardinality(m \ {Pick(m)}) < Cardinality(m)
  BY <1>1, <1>2, PickSmaller DEF Pick
<1>4. SumOf(f, m \ {Pick(m)}) \in Nat
  BY <1>1, <1>3
<1>5. SumOf(f, m) = f[Pick(m)] + SumOf(f, m \ {Pick(m)})
  BY <1>1, <1>2, SumUnfolds
<1> QED BY <1>3, <1>4, <1>5

\* Any element can be taken first.
LEMMA SumTakes ==
  ASSUME NEW f, NEW S, IsFiniteSet(S), \A x \in S : f[x] \in Nat, NEW x \in S
  PROVE  SumOf(f, S) = f[x] + SumOf(f, S \ {x})
<1> DEFINE U == {s \in SUBSET S : \E y \in s : SumOf(f, s) # f[y] + SumOf(f, s \ {y})}
<1> SUFFICES ASSUME U # {} PROVE FALSE
  OBVIOUS
<1>1. PICK m \in U : IsFiniteSet(m) /\ \A u \in U : ~(Cardinality(u) < Cardinality(m))
  BY SmallestSet
<1>2. PICK y \in m : SumOf(f, m) # f[y] + SumOf(f, m \ {y})
  OBVIOUS
<1> DEFINE p == Pick(m)
<1>3. p \in m /\ SumOf(f, m) = f[p] + SumOf(f, m \ {p})
  BY <1>1, SumUnfolds DEF Pick
<1>4. p # y
  BY <1>2, <1>3
<1>5. m \ {p} \notin U /\ m \ {y} \notin U
  BY <1>1, <1>3, PickSmaller
<1>6. SumOf(f, m \ {p}) = f[y] + SumOf(f, (m \ {p}) \ {y})
  BY <1>4, <1>5
<1>7. SumOf(f, m \ {y}) = f[p] + SumOf(f, (m \ {y}) \ {p})
  BY <1>3, <1>4, <1>5
<1>8. (m \ {p}) \ {y} = (m \ {y}) \ {p}
  OBVIOUS
<1>9. SumOf(f, (m \ {p}) \ {y}) \in Nat
  <2>1. IsFiniteSet((m \ {p}) \ {y}) 
    BY <1>1, FS_RemoveElement
  <2> QED BY <2>1, SumType
<1>10. f[p] \in Nat /\ f[y] \in Nat
  BY <1>3
<1> QED BY <1>2, <1>3, <1>6, <1>7, <1>8, <1>9, <1>10

\* Fewer and smaller summands make no larger a sum.
LEMMA SumGrows ==
  ASSUME NEW f, NEW g, NEW T, IsFiniteSet(T), NEW S \in SUBSET T,
         \A x \in T : f[x] \in Nat /\ g[x] \in Nat,
         \A x \in S : f[x] <= g[x]
  PROVE  SumOf(f, S) <= SumOf(g, T)
<1> DEFINE U == {s \in SUBSET S : \E t \in SUBSET T : s \subseteq t /\ ~(SumOf(f, s) <= SumOf(g, t))}
<1> SUFFICES ASSUME U # {} PROVE FALSE
  OBVIOUS
<1>1. IsFiniteSet(S)
  BY FS_Subset
<1>2. PICK m \in U : IsFiniteSet(m) /\ \A u \in U : ~(Cardinality(u) < Cardinality(m))
  <2>1. U \in SUBSET SUBSET S
    OBVIOUS
  <2> HIDE DEF U
  <2> QED BY <1>1, <2>1, SmallestSet
<1>3. PICK t \in SUBSET T : m \subseteq t /\ ~(SumOf(f, m) <= SumOf(g, t))
  OBVIOUS
<1>4. IsFiniteSet(t)
  BY FS_Subset
<1>5. CASE m = {}
  <2>1. SumOf(f, m) = 0 /\ SumOf(g, t) \in Nat
    BY <1>4, <1>5, SumUnfolds, SumType
  <2> QED BY <1>3, <2>1
<1>6. CASE m # {}
  <2>1. PICK x \in m : TRUE
    BY <1>6
  <2>2. SumOf(f, m) = f[x] + SumOf(f, m \ {x}) /\ SumOf(g, t) = g[x] + SumOf(g, t \ {x})
    BY <1>2, <1>3, <1>4, <2>1, SumTakes
  <2>3. m \ {x} \notin U
    BY <1>2, <2>1, PickSmaller
  <2>4. SumOf(f, m \ {x}) <= SumOf(g, t \ {x})
    BY <1>3, <2>1, <2>3
  <2>5. SumOf(f, m \ {x}) \in Nat /\ SumOf(g, t \ {x}) \in Nat
    <3>1. IsFiniteSet(m \ {x}) /\ IsFiniteSet(t \ {x})
      BY <1>2, <1>4, FS_RemoveElement
    <3> QED BY <3>1, SumType
  <2>6. f[x] \in Nat /\ g[x] \in Nat /\ f[x] <= g[x]
    BY <2>1
  <2> QED BY <1>3, <2>2, <2>4, <2>5, <2>6
<1> QED BY <1>5, <1>6

(***************************************************************************)
(* The daily cap.  Between its sum and its insert a call holds the lock of *)
(* its scope, so what fitted when it summed still fits: others may only    *)
(* close or correct rows of the scope, and neither adds to what counts.    *)
(***************************************************************************)

Used == [row \in Row |-> row.units]
Capped == [row \in Row |-> IF row.units < row.original THEN row.units ELSE row.original]

ActiveRows(scope, day) ==
  {row \in rows : row.scope = scope /\ row.day = day /\ row.state # "released"}
CappedRows(scope, day) ==
  {row \in rows : /\ row.scope = scope /\ row.day = day
                  /\ row.state # "released" /\ row.revision = 0}
CappedSum(scope, day) == SumOf(Capped, CappedRows(scope, day))

\* A call that summed holds the lock of its scope, alone.
LockHeld ==
  /\ \A c \in Calls : call[c].at = "insert" => <<call[c].scope, c>> \in locks
  /\ \A l, m \in locks : l[1] = m[1] => l = m

\* What a sum granted can still be inserted.
FitsStill ==
  \A c \in Calls, scope \in Scopes, day \in 1..Days :
    call[c].at = "insert" /\ call[c].fits /\ call[c].scope = scope /\ call[c].day = day =>
      \A limit \in LimitOf(scope) : CappedSum(scope, day) + call[c].estimate <= limit

CapHolds ==
  \A scope \in Scopes, day \in 1..Days : \A limit \in LimitOf(scope) : CappedSum(scope, day) <= limit

LimitInv ==
  /\ IsFiniteSet(rows)
  /\ LockHeld
  /\ FitsStill
  /\ CapHolds

\* The values that are summed.
LEMMA Summands ==
  ASSUME NEW row \in Row
  PROVE  /\ Used[row] = row.units /\ Used[row] \in Nat
         /\ Capped[row] = (IF row.units < row.original THEN row.units ELSE row.original)
         /\ Capped[row] \in Nat /\ Capped[row] <= Used[row] /\ Capped[row] <= row.original
<1>1. row.units \in 0..MaxUnits /\ row.original \in 0..MaxUnits
  BY DEF Row
<1>2. row.units \in Nat /\ row.original \in Nat
  BY <1>1, LimitsAssumption
<1> QED BY <1>2 DEF Used, Capped

\* The model's sum of units is this one.
LEMMA ActiveIs ==
  ASSUME NEW scope, NEW day, IsFiniteSet(rows), rows \subseteq Row
  PROVE  Active(scope, day) = SumOf(Used, ActiveRows(scope, day))
<1> DEFINE S == ActiveRows(scope, day)
           adds(g) == g = [s \in SUBSET S |-> IF s = {} THEN 0 ELSE Pick(s).units + g[s \ {Pick(s)}]]
           h == CHOOSE g : adds(g)
<1>1. S \subseteq Row /\ IsFiniteSet(S)
  BY FS_Subset DEF ActiveRows
<1>2. Active(scope, day) = h[S]
  BY DEF Active, ActiveRows, MapThenSumSet, MapThenFoldSet, Pick
<1>3. \A s \in SUBSET S : s # {} => Used[Pick(s)] = Pick(s).units
  BY <1>1, Summands DEF Pick
<1>4. \A g : Sums(Used, S, g) <=> adds(g)
  BY <1>3 DEF Sums
<1>5. PICK g : Sums(Used, S, g)
  BY <1>1, SumsExist
<1>6. adds(h)
  BY <1>4, <1>5
<1>7. Sums(Used, S, h)
  BY <1>4, <1>6
<1>8. Sums(Used, S, CHOOSE k : Sums(Used, S, k))
  BY <1>5
<1> HIDE DEF h, S, adds
<1>9. h[S] = (CHOOSE k : Sums(Used, S, k))[S]
  BY <1>1, <1>7, <1>8, SumsAgree
<1> QED BY <1>2, <1>9 DEF SumOf, S

\* So is the sum the property speaks of.
LEMMA CappedIs ==
  ASSUME NEW scope, NEW day, IsFiniteSet(rows), rows \subseteq Row
  PROVE  MapThenSumSet(LAMBDA row : IF row.units < row.original THEN row.units ELSE row.original,
                       CappedRows(scope, day)) = CappedSum(scope, day)
<1> DEFINE S == CappedRows(scope, day)
           least(row) == IF row.units < row.original THEN row.units ELSE row.original
           adds(g) == g = [s \in SUBSET S |-> IF s = {} THEN 0 ELSE least(Pick(s)) + g[s \ {Pick(s)}]]
           h == CHOOSE g : adds(g)
<1>1. S \subseteq Row /\ IsFiniteSet(S)
  BY FS_Subset DEF CappedRows
<1>2. MapThenSumSet(LAMBDA row : IF row.units < row.original THEN row.units ELSE row.original,
                    CappedRows(scope, day)) = h[S]
  BY DEF MapThenSumSet, MapThenFoldSet, Pick
<1>3. \A s \in SUBSET S : s # {} => Capped[Pick(s)] = least(Pick(s))
  BY <1>1, Summands DEF Pick
<1>4. \A g : Sums(Capped, S, g) <=> adds(g)
  BY <1>3 DEF Sums
<1>5. PICK g : Sums(Capped, S, g)
  BY <1>1, SumsExist
<1>6. adds(h)
  BY <1>4, <1>5
<1>7. Sums(Capped, S, h)
  BY <1>4, <1>6
<1>8. Sums(Capped, S, CHOOSE k : Sums(Capped, S, k))
  BY <1>5
<1> HIDE DEF h, S, adds
<1>9. h[S] = (CHOOSE k : Sums(Capped, S, k))[S]
  BY <1>1, <1>7, <1>8, SumsAgree
<1> QED BY <1>2, <1>9 DEF SumOf, CappedSum, S

\* Fewer rows count for no more, and what is capped for no more than is used.
LEMMA CountsLess ==
  ASSUME NEW S, NEW T, IsFiniteSet(T), S \subseteq T, T \subseteq Row
  PROVE  /\ SumOf(Capped, S) <= SumOf(Capped, T)
         /\ SumOf(Capped, S) <= SumOf(Used, T)
         /\ SumOf(Capped, S) \in Nat /\ SumOf(Used, T) \in Nat
<1>1. \A row \in T : Capped[row] \in Nat /\ Used[row] \in Nat /\ Capped[row] <= Used[row] /\ Capped[row] <= Capped[row]
  BY Summands
<1>2. IsFiniteSet(S)
  BY FS_Subset
<1> QED BY <1>1, <1>2, SumGrows, SumType

\* A row that replaces or joins the others counts by itself.
LEMMA CountsOne ==
  ASSUME NEW S, IsFiniteSet(S), S \subseteq Row, NEW row \in Row, row \notin S
  PROVE  /\ SumOf(Capped, S \cup {row}) = Capped[row] + SumOf(Capped, S)
         /\ IsFiniteSet(S \cup {row})
         /\ SumOf(Capped, S) \in Nat /\ Capped[row] \in Nat
<1>1. \A r \in S \cup {row} : Capped[r] \in Nat
  BY Summands
<1>2. IsFiniteSet(S \cup {row}) /\ (S \cup {row}) \ {row} = S
  BY FS_AddElement
<1> QED BY <1>1, <1>2, SumTakes, SumType

\* Closing a row adds nothing: held at its estimate, it counted for all of it.
LEMMA ClosingCountsNoMore ==
  ASSUME IInv, IsFiniteSet(rows), NEW row, NEW next, Closes(row, next),
         rows' = (rows \ {row}) \cup {next}, NEW scope, NEW day
  PROVE  CappedSum(scope, day)' <= CappedSum(scope, day)
<1> DEFINE old == CappedRows(scope, day)
           new == CappedRows(scope, day)'
           kept == old \ {row}
<1>1. /\ rows \subseteq Row /\ next \in Row /\ row \in rows
      /\ next.id = row.id /\ next.scope = row.scope /\ next.day = row.day
      /\ next.original = row.original /\ next.revision = row.revision
      /\ row.state = "held" /\ next.state # "held" /\ row.units = row.original
      /\ \A r, other \in rows : r.id = other.id => r = other
  BY DEF Closes, SameReservation, IInv, TypeOK, HeldAtEstimate
<1>2. IsFiniteSet(old) /\ old \subseteq Row /\ IsFiniteSet(kept)
  BY <1>1, FS_Subset DEF CappedRows
<1>3. CASE row \notin old
  <2>1. new \subseteq old
    BY <1>1, <1>3 DEF CappedRows
  <2> QED BY <1>2, <2>1, CountsLess DEF CappedSum
<1>4. CASE row \in old
  <2>1. new \subseteq kept \cup {next}
    BY <1>1 DEF CappedRows
  <2>2. next \notin kept /\ row \notin kept
    BY <1>1 DEF CappedRows
  <2>3. old = kept \cup {row}
    BY <1>4
  <2>4. SumOf(Capped, old) = Capped[row] + SumOf(Capped, kept) /\ SumOf(Capped, kept) \in Nat
    BY <1>1, <1>2, <2>2, <2>3, CountsOne
  <2>5. SumOf(Capped, kept \cup {next}) = Capped[next] + SumOf(Capped, kept) /\ IsFiniteSet(kept \cup {next})
    BY <1>1, <1>2, <2>2, CountsOne
  <2>6. Capped[next] <= Capped[row] /\ Capped[next] \in Nat /\ Capped[row] \in Nat
    <3>1. Capped[row] = row.original
      BY <1>1, Summands
    <3> QED BY <1>1, <3>1, Summands
  <2>7. SumOf(Capped, new) <= SumOf(Capped, kept \cup {next}) /\ SumOf(Capped, new) \in Nat
    BY <1>1, <1>2, <2>1, <2>5, CountsLess
  <2> QED BY <2>4, <2>5, <2>6, <2>7 DEF CappedSum
<1> QED BY <1>3, <1>4

\* A corrected row no longer counts: what it was capped at is history.
LEMMA CorrectingCountsNoMore ==
  ASSUME IInv, IsFiniteSet(rows), NEW row, NEW next, Corrects(row, next),
         rows' = (rows \ {row}) \cup {next}, NEW scope, NEW day
  PROVE  CappedSum(scope, day)' <= CappedSum(scope, day)
<1>1. rows \subseteq Row /\ row.revision \in Nat /\ next.revision = row.revision + 1
  BY DEF Corrects, SameReservation, IInv, TypeOK, Row
<1>2. next.revision # 0
  BY <1>1
<1>3. CappedRows(scope, day)' \subseteq CappedRows(scope, day)
  BY <1>2 DEF CappedRows
<1>4. IsFiniteSet(CappedRows(scope, day)) /\ CappedRows(scope, day) \subseteq Row
  BY <1>1, FS_Subset DEF CappedRows
<1> QED BY <1>3, <1>4, CountsLess DEF CappedSum

\* Every step keeps the table finite.
LEMMA RowsFinite ==
  ASSUME IInv, IsFiniteSet(rows), [Next]_vars
  PROVE  IsFiniteSet(rows')
<1>1. ASSUME NEW row, NEW next, rows' = (rows \ {row}) \cup {next} \/ rows' = rows \cup {next}
      PROVE  IsFiniteSet(rows')
  BY <1>1, FS_RemoveElement, FS_AddElement
<1> QED BY <1>1, TablesMove DEF TablesUnmoved, RowClosed, RowCorrected, RowReserved

\* No step but a grant makes a scope and day count for more.
LEMMA CountsNoMore ==
  ASSUME IInv, IsFiniteSet(rows), TablesUnmoved \/ RowClosed \/ RowCorrected, NEW scope, NEW day
  PROVE  /\ CappedSum(scope, day)' <= CappedSum(scope, day)
         /\ CappedSum(scope, day) \in Nat /\ CappedSum(scope, day)' \in Nat
<1>1. rows \subseteq Row
  BY DEF IInv, TypeOK
<1>2. IsFiniteSet(CappedRows(scope, day)) /\ CappedRows(scope, day) \subseteq Row
  BY <1>1, FS_Subset DEF CappedRows
<1>3. CappedSum(scope, day) \in Nat /\ CappedSum(scope, day) <= CappedSum(scope, day)
  BY <1>2, CountsLess DEF CappedSum
<1>4. rows' \subseteq Row /\ IsFiniteSet(rows')
  <2>1. ASSUME NEW row, NEW next, rows' = (rows \ {row}) \cup {next}
        PROVE  IsFiniteSet(rows')
    BY <2>1, FS_RemoveElement, FS_AddElement
  <2> QED BY <1>1, <2>1 DEF TablesUnmoved, RowClosed, RowCorrected, Closes, Corrects, SameReservation
<1>5. IsFiniteSet(CappedRows(scope, day)') /\ CappedRows(scope, day)' \subseteq Row
  BY <1>4, FS_Subset DEF CappedRows
<1>6. CappedSum(scope, day)' \in Nat
  BY <1>5, CountsLess DEF CappedSum
<1>7. CASE TablesUnmoved
  <2>1. CappedSum(scope, day)' = CappedSum(scope, day)
    BY <1>7 DEF TablesUnmoved, CappedSum, CappedRows
  <2> QED BY <1>3, <2>1
<1>8. CASE RowClosed
  BY <1>3, <1>6, <1>8, ClosingCountsNoMore DEF RowClosed
<1>9. CASE RowCorrected
  BY <1>3, <1>6, <1>9, CorrectingCountsNoMore DEF RowCorrected
<1> QED BY <1>7, <1>8, <1>9

\* A grant makes its own scope and day count for its estimate more.
LEMMA GrantCounts ==
  ASSUME IInv, IsFiniteSet(rows), NEW c \in Calls, RowReserved(c), NEW scope, NEW day
  PROVE  /\ scope = call[c].scope /\ day = call[c].day =>
              CappedSum(scope, day)' = CappedSum(scope, day) + call[c].estimate
         /\ scope # call[c].scope \/ day # call[c].day =>
              CappedSum(scope, day)' = CappedSum(scope, day)
<1>1. PICK next : Reserves(c, next) /\ rows' = rows \cup {next}
  BY DEF RowReserved
<1>2. rows \subseteq Row /\ next \in Row /\ next \notin rows
  BY <1>1 DEF Reserves, IInv, TypeOK
<1>3. IsFiniteSet(CappedRows(scope, day)) /\ CappedRows(scope, day) \subseteq Row /\ next \notin CappedRows(scope, day)
  BY <1>2, FS_Subset DEF CappedRows
<1>4. CASE scope = call[c].scope /\ day = call[c].day
  <2>1. CappedRows(scope, day)' = CappedRows(scope, day) \cup {next}
    BY <1>1, <1>4 DEF CappedRows, Reserves
  <2>2. Capped[next] = call[c].estimate
    <3>1. next.units = next.original /\ next.original = call[c].estimate
      BY <1>1 DEF Reserves
    <3> QED BY <1>2, <3>1, Summands
  <2>3. /\ SumOf(Capped, CappedRows(scope, day) \cup {next}) = Capped[next] + SumOf(Capped, CappedRows(scope, day))
        /\ Capped[next] \in Nat /\ SumOf(Capped, CappedRows(scope, day)) \in Nat
    BY <1>2, <1>3, CountsOne
  <2> QED BY <1>4, <2>1, <2>2, <2>3 DEF CappedSum
<1>5. CASE scope # call[c].scope \/ day # call[c].day
  <2>1. CappedRows(scope, day)' = CappedRows(scope, day)
    BY <1>1, <1>5 DEF CappedRows, Reserves
  <2> QED BY <1>5, <2>1 DEF CappedSum
<1> QED BY <1>4, <1>5

\* Where a step leaves the calls and the locks: only a sum, which takes the
\* free lock of its scope, brings a call to its insert, and a call gives up no
\* lock but its own, on the way out.
CallMoves(c) ==
  /\ \A d \in Calls : d # c => call'[d] = call[d]
  /\ \/ ReserveSum(c) /\ call'[c].at = "insert" /\ call'[c].fits = Fits(c)
           /\ call'[c].scope = call[c].scope /\ call'[c].day = call[c].day
           /\ call'[c].estimate = call[c].estimate
     \/ call'[c].at # "insert" /\ (locks' = locks \/ Unlock(c))

\* A call changes its place and, maybe, what it holds at the place.
LEMMA PlaceMoves ==
  ASSUME IInv, NEW c \in Calls, call[c] # Idle, NEW place, place # "insert",
         call' = [call EXCEPT ![c].at = place] \/ call' = [call EXCEPT ![c].at = place, ![c].day = today]
           \/ call' = [call EXCEPT ![c].at = place, ![c].admitted = TRUE]
           \/ call' = [call EXCEPT ![c].at = place, ![c].ok = TRUE],
         locks' = locks \/ Unlock(c)
  PROVE  CallMoves(c)
<1>1. call \in [Calls -> Call \cup {Idle}] /\ call[c] \in Call
  BY ActiveCall DEF IInv, TypeOK
<1>2. \A d \in Calls : d # c => call'[d] = call[d]
  BY <1>1
<1>3. call'[c].at = place
  BY <1>1 DEF Call
<1> QED BY <1>2, <1>3 DEF CallMoves

\* The same for a call that goes on to an attempt.
LEMMA AttemptMoves ==
  ASSUME IInv, NEW c \in Calls, NEW r \in Call, call' = [call EXCEPT ![c] = ToAttempt(r)],
         locks' = locks \/ Unlock(c)
  PROVE  CallMoves(c)
<1>1. call \in [Calls -> Call \cup {Idle}]
  BY DEF IInv, TypeOK
<1>2. ToAttempt(r).at \in {"record", "begin"}
  BY DEF ToAttempt, Call
<1> QED BY <1>1, <1>2 DEF CallMoves

\* The sum takes the lock and comes to the insert.
LEMMA SumMoves ==
  ASSUME IInv, NEW c \in Calls, ReserveSum(c)
  PROVE  CallMoves(c)
<1>1. call \in [Calls -> Call \cup {Idle}] /\ call[c] \in Call
  BY ActiveCall DEF IInv, TypeOK, Idle, ReserveSum
<1>2. call' = [call EXCEPT ![c].at = "insert", ![c].fits = Fits(c)]
  BY DEF ReserveSum
<1>3. PICK fits : fits = Fits(c)
  OBVIOUS
<1>4. call' = [call EXCEPT ![c].at = "insert", ![c].fits = fits]
  BY <1>2, <1>3
<1>5. /\ call'[c].at = "insert" /\ call'[c].fits = fits
      /\ call'[c].scope = call[c].scope /\ call'[c].day = call[c].day
      /\ call'[c].estimate = call[c].estimate
      /\ \A d \in Calls : d # c => call'[d] = call[d]
  BY <1>1, <1>4 DEF Call
<1> QED BY <1>3, <1>5 DEF CallMoves

\* Every step of a call moves it in one of these ways.
LEMMA CallStepMoves ==
  ASSUME IInv, NEW c \in Calls, CallStep(c)
  PROVE  CallMoves(c)
<1>1. ASSUME NEW scope \in Scopes, NEW estimate \in 0..MaxUnits, Start(c, scope, estimate)
      PROVE  CallMoves(c)
  <2> DEFINE r == [at |-> "begin", scope |-> scope, attempt |-> 0, estimate |-> estimate,
                   day |-> today, fits |-> FALSE, admitted |-> TotalLimit = {}, ok |-> FALSE]
  <2>1. r \in Call /\ r.at = "begin"
    BY LimitsAssumption DEF IInv, TypeOK, Call, Places
  <2>2. call' = [call EXCEPT ![c] = IF scope = "all" \/ TierLimit = {} THEN ToAttempt(r) ELSE r]
        /\ locks' = locks
    BY <1>1 DEF Start
  <2> HIDE DEF r
  <2>3. CASE scope = "all" \/ TierLimit = {}
    BY <2>1, <2>2, <2>3, AttemptMoves
  <2>4. CASE ~(scope = "all" \/ TierLimit = {})
    <3>1. call' = [call EXCEPT ![c] = r] /\ call \in [Calls -> Call \cup {Idle}]
      BY <2>2, <2>4 DEF IInv, TypeOK
    <3> QED BY <2>1, <2>2, <3>1 DEF CallMoves
  <2> QED BY <2>3, <2>4
<1>2. CASE ReserveSum(c)
  BY <1>2, SumMoves
<1>3. CASE ReserveBegin(c) \/ ReserveRefused(c) \/ ReserveFailed(c) \/ RecordAttempt(c)
             \/ RefundAttempt(c) \/ Send(c) \/ Crash(c)
  <2>1. call[c] # Idle
    <3>1. call[c].at # "idle"
      BY <1>3 DEF ReserveBegin, ReserveRefused, ReserveFailed, RecordAttempt, RefundAttempt, Send, Crash, Places
    <3> QED BY <3>1 DEF Idle
  <2> QED BY <1>3, <2>1, PlaceMoves
          DEF ReserveBegin, ReserveRefused, ReserveFailed, RecordAttempt, RefundAttempt, Send, Crash, Refused
<1>4. CASE ReserveGranted(c)
  <2>1. call[c] # Idle /\ call[c] \in Call
    BY <1>4, ActiveCall DEF Idle, ReserveGranted
  <2>2. CASE Refused(c)
    BY <1>4, <2>1, <2>2, PlaceMoves DEF ReserveGranted, Refused
  <2>3. CASE call' = [call EXCEPT ![c] = IF @.scope = "all" THEN [@ EXCEPT !.at = "record"] ELSE ToAttempt(@)]
    <3>1. CASE call[c].scope = "all"
      <4>1. call' = [call EXCEPT ![c].at = "record"]
        BY <2>3, <3>1 DEF IInv, TypeOK
      <4> QED BY <1>4, <2>1, <4>1, PlaceMoves DEF ReserveGranted
    <3>2. CASE call[c].scope # "all"
      <4>1. call' = [call EXCEPT ![c] = ToAttempt(call[c])]
        BY <2>3, <3>2
      <4> QED BY <1>4, <2>1, <4>1, AttemptMoves DEF ReserveGranted
    <3> QED BY <3>1, <3>2
  <2> QED BY <1>4, <2>2, <2>3 DEF ReserveGranted
<1>5. CASE Fail(c)
  <2>1. call[c] # Idle /\ call[c] \in Call
    BY <1>5, ActiveCall DEF Idle, Fail
  <2>2. CASE call' = [call EXCEPT ![c].at = "end"]
    BY <1>5, <2>1, <2>2, PlaceMoves DEF Fail
  <2>3. CASE call' = [call EXCEPT ![c] = ToAttempt(@)]
    BY <1>5, <2>1, <2>3, AttemptMoves DEF Fail
  <2> QED BY <1>5, <2>2, <2>3 DEF Fail
<1>6. ASSUME NEW total \in 0..MaxUnits, NEW complete \in BOOLEAN,
             Succeed(c, total, complete) \/ End(c, total, complete)
      PROVE  CallMoves(c)
  <2>1. call[c].at \in {"response", "end"}
    BY <1>6 DEF Succeed, End
  <2>2. call[c] # Idle
    BY <2>1 DEF Idle
  <2> QED BY <1>6, <2>2, PlaceMoves DEF Succeed, End
<1> QED BY <1>1, <1>2, <1>3, <1>4, <1>5, <1>6 DEF CallStep, ReserveStep

\* The locks stay with the calls that are between their sum and their insert.
LEMMA LockStep ==
  ASSUME IInv, LockHeld, [Next]_vars
  PROVE  LockHeld'
<1>1. locks \subseteq Scopes \X Calls
  BY DEF IInv, TypeOK
<1>2. ASSUME NEW c \in Calls, CallMoves(c)
      PROVE  LockHeld'
  <2>1. CASE ReserveSum(c) /\ call'[c].scope = call[c].scope
    <3>1. locks' = locks \cup {<<call[c].scope, c>>} /\ \A l \in locks : l[1] # call[c].scope
      BY <2>1 DEF ReserveSum
    <3>2. \A l, m \in locks' : l[1] = m[1] => l = m
      BY <3>1 DEF LockHeld
    <3>3. ASSUME NEW d \in Calls, call'[d].at = "insert"
          PROVE  <<call'[d].scope, d>> \in locks'
      <4>1. CASE d = c
        BY <2>1, <3>1, <4>1
      <4>2. CASE d # c
        BY <1>2, <3>1, <3>3, <4>2 DEF CallMoves, LockHeld
      <4> QED BY <4>1, <4>2
    <3> QED BY <3>2, <3>3 DEF LockHeld
  <2>2. CASE call'[c].at # "insert" /\ (locks' = locks \/ Unlock(c))
    <3>1. locks' \subseteq locks
      BY <2>2 DEF Unlock
    <3>2. ASSUME NEW d \in Calls, call'[d].at = "insert"
          PROVE  <<call'[d].scope, d>> \in locks'
      <4>1. d # c /\ call'[d] = call[d]
        BY <1>2, <2>2, <3>2 DEF CallMoves
      <4>2. <<call[d].scope, d>> \in locks
        BY <3>2, <4>1 DEF LockHeld
      <4> QED BY <2>2, <4>1, <4>2 DEF Unlock
    <3> QED BY <3>1, <3>2 DEF LockHeld
  <2> QED BY <1>2, <2>1, <2>2 DEF CallMoves
<1>3. CASE UNCHANGED <<locks, call>>
  BY <1>3 DEF LockHeld
<1> QED BY <1>2, <1>3, CallStepMoves DEF Next, OperatorStep, Sweep, Reconcile, Midnight, vars

\* What fitted still fits: no grant of the scope comes between, and no other
\* step makes it count for more.
LEMMA FitsStep ==
  ASSUME IInv, IInv', LimitInv, [Next]_vars
  PROVE  FitsStill'
<1> SUFFICES ASSUME NEW d \in Calls, NEW scope \in Scopes, NEW day \in 1..Days,
                    call'[d].at = "insert", call'[d].fits,
                    call'[d].scope = scope, call'[d].day = day, NEW limit \in LimitOf(scope)
             PROVE  CappedSum(scope, day)' + call'[d].estimate <= limit
  BY DEF FitsStill, CappedSum, CappedRows, LimitOf
<1>1. limit \in Nat
  BY LimitsAssumption DEF LimitOf
<1>2. call'[d] \in Call
  <2>1. call'[d] \in Call \cup {Idle} /\ call'[d] # Idle
    BY DEF IInv, TypeOK, Idle
  <2> QED BY <2>1
<1>3. call'[d].estimate \in Nat
  BY <1>2, LimitsAssumption DEF Call
<1>4. CASE ReserveSum(d) /\ call'[d].fits = Fits(d) /\ call'[d].scope = call[d].scope
             /\ call'[d].day = call[d].day /\ call'[d].estimate = call[d].estimate
  <2>1. rows \subseteq Row /\ IsFiniteSet(rows) /\ rows' = rows
    BY <1>4 DEF IInv, TypeOK, LimitInv, ReserveSum
  <2>2. Active(scope, day) + call'[d].estimate <= limit
    BY <1>4 DEF Fits
  <2>3. Active(scope, day) = SumOf(Used, ActiveRows(scope, day))
    BY <2>1, ActiveIs
  <2>4. /\ CappedRows(scope, day) \subseteq ActiveRows(scope, day)
        /\ ActiveRows(scope, day) \subseteq Row /\ IsFiniteSet(ActiveRows(scope, day))
    BY <2>1, FS_Subset DEF CappedRows, ActiveRows
  <2>5. /\ SumOf(Capped, CappedRows(scope, day)) <= SumOf(Used, ActiveRows(scope, day))
        /\ SumOf(Capped, CappedRows(scope, day)) \in Nat /\ SumOf(Used, ActiveRows(scope, day)) \in Nat
    BY <2>4, CountsLess
  <2>6. SumOf(Capped, CappedRows(scope, day)) + call'[d].estimate <= limit
    BY <1>1, <1>3, <2>2, <2>3, <2>5
  <2>7. CappedSum(scope, day)' = SumOf(Capped, CappedRows(scope, day))
    BY <2>1 DEF CappedSum, CappedRows
  <2> QED BY <2>6, <2>7
<1>5. CASE call'[d] = call[d]
  <2>1. CappedSum(scope, day) + call[d].estimate <= limit
    BY <1>5 DEF LimitInv, FitsStill
  <2>2. CASE TablesUnmoved \/ RowClosed \/ RowCorrected
    <3>1. /\ CappedSum(scope, day)' <= CappedSum(scope, day)
          /\ CappedSum(scope, day) \in Nat /\ CappedSum(scope, day)' \in Nat
      BY <2>2, CountsNoMore DEF LimitInv
    <3> QED BY <1>1, <1>3, <1>5, <2>1, <3>1
  <2>3. ASSUME NEW c \in Calls, ReserveGranted(c), RowReserved(c)
        PROVE  CappedSum(scope, day)' + call'[d].estimate <= limit
    <3>1. call[c].at = "insert" /\ CallMoves(c)
      BY <2>3, CallStepMoves DEF ReserveGranted, CallStep, ReserveStep
    <3>2. c # d
      <4>1. ~ReserveSum(c)
        BY <2>3 DEF ReserveSum, ReserveGranted
      <4> QED BY <3>1, <4>1 DEF CallMoves
    <3>3. call[c].scope # call[d].scope
      BY <1>5, <3>1, <3>2 DEF LimitInv, LockHeld
    <3>4. CappedSum(scope, day)' = CappedSum(scope, day)
      BY <1>5, <2>3, <3>3, GrantCounts DEF LimitInv
    <3> QED BY <1>5, <2>1, <3>4
  <2> QED BY <2>2, <2>3, TablesMove
<1>6. \A c \in Calls : CallStep(c) => CallMoves(c)
  BY CallStepMoves
<1>7. CASE UNCHANGED call
  BY <1>5, <1>7
<1> QED BY <1>4, <1>5, <1>6, <1>7 DEF CallMoves, Next, OperatorStep, Sweep, Reconcile, Midnight, vars

\* A grant stays within the limit, having fitted; nothing else counts for more.
LEMMA CapStep ==
  ASSUME IInv, LimitInv, [Next]_vars
  PROVE  CapHolds'
<1> SUFFICES ASSUME NEW scope \in Scopes, NEW day \in 1..Days, NEW limit \in LimitOf(scope)
             PROVE  CappedSum(scope, day)' <= limit
  BY DEF CapHolds, CappedSum, CappedRows
<1>1. limit \in Nat /\ CappedSum(scope, day) <= limit
  BY LimitsAssumption DEF LimitOf, LimitInv, CapHolds
<1>2. CASE TablesUnmoved \/ RowClosed \/ RowCorrected
  <2>1. /\ CappedSum(scope, day)' <= CappedSum(scope, day)
        /\ CappedSum(scope, day) \in Nat /\ CappedSum(scope, day)' \in Nat
    BY <1>2, CountsNoMore DEF LimitInv
  <2> QED BY <1>1, <2>1
<1>3. ASSUME NEW c \in Calls, ReserveGranted(c), RowReserved(c)
      PROVE  CappedSum(scope, day)' <= limit
  <2>1. CASE scope = call[c].scope /\ day = call[c].day
    <3>1. CappedSum(scope, day)' = CappedSum(scope, day) + call[c].estimate
      BY <1>3, <2>1, GrantCounts DEF LimitInv
    <3>2. CappedSum(scope, day) + call[c].estimate <= limit
      BY <1>3, <2>1 DEF LimitInv, FitsStill, ReserveGranted
    <3> QED BY <3>1, <3>2
  <2>2. CASE ~(scope = call[c].scope /\ day = call[c].day)
    BY <1>1, <1>3, <2>2, GrantCounts DEF LimitInv
  <2> QED BY <2>1, <2>2
<1> QED BY <1>2, <1>3, TablesMove

\* The daily cap holds for any number of calls, tiers, attempts, days and
\* limits: of the rows no operator has corrected, what was reserved and still
\* counts adds up to no more than the limit (reserve_estimated).
THEOREM CapIsNeverExceeded == Spec => []WithinLimit
<1>1. Init => LimitInv
  <2> SUFFICES ASSUME Init PROVE LimitInv
    OBVIOUS
  <2>1. IsFiniteSet(rows)
    BY FS_EmptySet DEF Init
  <2>2. LockHeld /\ FitsStill
    BY DEF Init, LockHeld, FitsStill, Idle
  <2>3. CapHolds
    <3>1. \A scope, day : CappedRows(scope, day) = {}
      BY DEF Init, CappedRows
    <3>2. SumOf(Capped, {}) = 0
      BY FS_EmptySet, SumUnfolds
    <3>3. \A scope \in Scopes : LimitOf(scope) \subseteq Nat
      BY LimitsAssumption DEF LimitOf
    <3>4. \A scope, day : CappedSum(scope, day) = 0
      BY <3>1, <3>2 DEF CappedSum
    <3>5. \A n \in Nat : 0 <= n
      OBVIOUS
    <3> QED BY <3>3, <3>4, <3>5 DEF CapHolds
  <2> QED BY <2>1, <2>2, <2>3 DEF LimitInv
<1>2. IInv /\ LimitInv /\ [Next]_vars => (IInv /\ LimitInv)'
  <2> SUFFICES ASSUME IInv, LimitInv, [Next]_vars PROVE IInv' /\ LimitInv'
    OBVIOUS
  <2>1. IInv'
    BY NextInv
  <2>2. IsFiniteSet(rows') /\ LockHeld'
    BY RowsFinite, LockStep DEF LimitInv
  <2>3. FitsStill' /\ CapHolds'
    BY <2>1, FitsStep, CapStep
  <2> QED BY <2>1, <2>2, <2>3 DEF LimitInv
<1>3. IInv /\ LimitInv => WithinLimit
  <2> SUFFICES ASSUME IInv, LimitInv, NEW scope \in Scopes, NEW day \in 1..Days, NEW limit \in LimitOf(scope)
               PROVE  MapThenSumSet(LAMBDA row : IF row.units < row.original THEN row.units ELSE row.original,
                                    CappedRows(scope, day)) <= limit
    BY DEF WithinLimit, CappedRows
  <2>1. rows \subseteq Row /\ IsFiniteSet(rows) /\ CappedSum(scope, day) <= limit
    BY DEF IInv, TypeOK, LimitInv, CapHolds
  <2> QED BY <2>1, CappedIs
<1> QED BY <1>1, <1>2, <1>3, InitInv, PTL DEF Spec

=============================================================================
