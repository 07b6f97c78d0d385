-------------------------- MODULE BuildJobsProofs --------------------------
(***************************************************************************)
(* Proofs about BuildJobs, for any number of jobs, builders and losses.    *)
(* The row names the builder that holds a job and not the claim it holds   *)
(* it by; that is enough because a builder claims only when it has left    *)
(* its last job behind, so the holder's claim is always the row's last.    *)
(***************************************************************************)
EXTENDS BuildJobs, TLAPS

\* The claim of a builder is one the job has had, and the last if it holds it.
ClaimsBehind ==
  \A b \in Builders, j \in Jobs : BusyOn(b, j) =>
    /\ job[j] # None
    /\ builder[b].claim <= job[j].attempts
    /\ job[j].by = {b} => builder[b].claim = job[j].attempts

PendingUnclaimed ==
  \A j \in Jobs : job[j].state = "pending" => job[j].attempts = 0

IInv == TypeOK /\ ClaimsBehind /\ PendingUnclaimed /\ OutcomeOfLastClaim

\* A row that is there has the fields of one.
LEMMA RowIsJob ==
  ASSUME TypeOK, NEW j \in Jobs, job[j] # None
  PROVE  job[j] \in Job
BY DEF TypeOK

\* So has a job in any of the states of one.
LEMMA StateIsJob ==
  ASSUME TypeOK, NEW j \in Jobs, job[j].state \in Open \cup Reported \cup {"cancelled"}
  PROVE  job[j] \in Job /\ job[j] # None
BY RowIsJob DEF None, Open, Reported

\* A builder at work has the fields of one.
LEMMA BusyIsBusy ==
  ASSUME TypeOK, NEW b \in Builders, builder[b].at \in {"building", "reporting"}
  PROVE  builder[b] \in Busy
BY DEF TypeOK, Polling, Down

\* No step of a builder or a job opens a second job of a target.
LEMMA OneOpenKept ==
  ASSUME TypeOK, job' \in [Jobs -> Job \cup {None}],
         \A j \in Jobs : job'[j].state \in Open =>
           job[j].state \in Open /\ job'[j].target = job[j].target
  PROVE  \A t \in Targets : \A i, j \in OpenFor(t)' : i = j
BY DEF TypeOK, OpenFor

\* A claim is a new one: the job's last, and nobody else's.
LEMMA ClaimStep ==
  ASSUME IInv, NEW b \in Builders, NEW j \in Jobs, Claim(b, j)
  PROVE  IInv'
<1> USE CeilingAssumption DEF IInv
<1>1. job[j] \in Job /\ job[j] # None /\ job[j].state \in Open
  BY StateIsJob DEF Claim, Runnable, Open
<1>2. job[j].attempts \in Nat /\ job[j].attempts + 1 \in 1..MaxAttempts
  BY <1>1 DEF Claim, Runnable, PendingUnclaimed, Job
<1>3. PICK row : row = [job[j] EXCEPT !.state = "running", !.by = {b}, !.fresh = TRUE,
                                      !.attempts = job[j].attempts + 1]
  OBVIOUS
<1>4. /\ row \in Job /\ row.state = "running" /\ row.target = job[j].target /\ row.by = {b}
      /\ row.attempts = job[j].attempts + 1 /\ row # None
  <2>1. job[j].attempts + 1 \in 0..MaxAttempts
    BY <1>2
  <2>2. {b} \in {{}} \cup {{c} : c \in Builders}
    OBVIOUS
  <2>3. row.state = "running" /\ row.target = job[j].target /\ row.by = {b} /\ row.attempts = job[j].attempts + 1
    BY <1>1, <1>3 DEF Job
  <2>4. row \in Job
    BY <1>1, <1>3, <2>1, <2>2 DEF Job, Open
  <2> QED BY <2>3, <2>4 DEF None
<1>5. job' = [job EXCEPT ![j] = row]
  BY <1>3 DEF Claim, TypeOK
<1>6. /\ job' \in [Jobs -> Job \cup {None}] /\ job'[j] = row
      /\ \A i \in Jobs : i # j => job'[i] = job[i]
  BY <1>4, <1>5 DEF TypeOK
<1>7. builder[b] = Polling
  BY DEF Claim
<1>8. /\ builder' \in [Builders -> Busy \cup {Polling, Down}]
      /\ \A c \in Builders : c # b => builder'[c] = builder[c]
      /\ \A i \in Jobs : BusyOn(b, i)' => i = j /\ builder'[b].claim = job[j].attempts + 1
  <2>1. CASE builder' = [builder EXCEPT ![b] = [at |-> "building", job |-> j,
                                                claim |-> job[j].attempts + 1, beat |-> TRUE]]
    BY <1>2, <2>1 DEF TypeOK, Busy, BusyOn
  <2>2. CASE UNCHANGED builder
    BY <1>7, <2>2 DEF TypeOK, BusyOn, Polling
  <2> QED BY <2>1, <2>2 DEF Claim
<1>9. TypeOK'
  <2>1. losses' \in 0..MaxLosses
    BY DEF Claim, Lose, TypeOK
  <2>2. \A t \in Targets : \A i, k \in OpenFor(t)' : i = k
    BY <1>1, <1>4, <1>6, OneOpenKept
  <2> QED BY <1>6, <1>8, <2>1, <2>2 DEF TypeOK
<1>10. ClaimsBehind'
  <2> SUFFICES ASSUME NEW c \in Builders, NEW i \in Jobs, BusyOn(c, i)'
               PROVE  /\ job'[i] # None
                      /\ builder'[c].claim <= job'[i].attempts
                      /\ job'[i].by = {c} => builder'[c].claim = job'[i].attempts
    BY DEF ClaimsBehind
  <2>1. CASE c = b
    BY <1>2, <1>4, <1>6, <1>8, <2>1
  <2>2. CASE c # b
    <3>1. BusyOn(c, i) /\ builder'[c] = builder[c]
      BY <1>8, <2>2 DEF BusyOn
    <3>2. CASE i = j
      <4>1. builder[c].claim \in Nat /\ builder[c].claim <= job[j].attempts
        BY <3>1, <3>2, BusyIsBusy DEF ClaimsBehind, BusyOn, Busy
      <4>2. {b} # {c}
        BY <2>2
      <4> QED BY <1>2, <1>4, <1>6, <3>1, <3>2, <4>1, <4>2
    <3>3. CASE i # j
      BY <1>6, <3>1, <3>3 DEF ClaimsBehind
    <3> QED BY <3>2, <3>3
  <2> QED BY <2>1, <2>2
<1>11. PendingUnclaimed'
  BY <1>4, <1>6 DEF PendingUnclaimed
<1>12. OutcomeOfLastClaim'
  BY <1>4, <1>6 DEF OutcomeOfLastClaim, Reported
<1> QED BY <1>9, <1>10, <1>11, <1>12

\* Steps that leave a job's claims alone: at most they end it by the report of
\* its holder, cancel it, or change whether its lease is fresh.
Settled(old, new) ==
  /\ new.target = old.target /\ new.by = old.by /\ new.attempts = old.attempts
  /\ old.state \in Open /\ new \in Job
  /\ \/ new.state = old.state
     \/ new.state = "cancelled"
     \/ new.state \in Reported /\ new.outcome = new.attempts

\* Such a step of one job, and any step of a builder that claims nothing.
LEMMA QuietStep ==
  ASSUME IInv,
         losses' \in 0..MaxLosses,
         \A j \in Jobs : job'[j] = job[j] \/ Settled(job[j], job'[j]),
         job' \in [Jobs -> Job \cup {None}],
         builder' \in [Builders -> Busy \cup {Polling, Down}],
         \A b \in Builders, j \in Jobs :
           BusyOn(b, j)' => BusyOn(b, j) /\ builder'[b].claim = builder[b].claim
  PROVE  IInv'
<1> USE DEF IInv
<1>1. TypeOK'
  <2>1. \A t \in Targets : \A i, k \in OpenFor(t)' : i = k
    BY OneOpenKept DEF Settled
  <2> QED BY <2>1 DEF TypeOK
<1>2. \A j \in Jobs : job[j] # None =>
        job'[j] # None /\ job'[j].by = job[j].by /\ job'[j].attempts = job[j].attempts
  <2> SUFFICES ASSUME NEW j \in Jobs, job[j] # None, Settled(job[j], job'[j])
               PROVE  job'[j] # None
    BY DEF Settled
  <2> QED BY DEF Settled, None, Job, Open, Reported
<1>3. ClaimsBehind'
  BY <1>2 DEF ClaimsBehind
<1>4. PendingUnclaimed'
  BY DEF PendingUnclaimed, Settled, Reported
<1>5. OutcomeOfLastClaim'
  BY DEF OutcomeOfLastClaim, Settled, Open, Reported
<1> QED BY <1>1, <1>3, <1>4, <1>5

\* A new job is pending, unclaimed, and the only open one of its target.
LEMMA EnqueueStep ==
  ASSUME IInv, NEW j \in Jobs, NEW t \in Targets, Enqueue(j, t)
  PROVE  IInv'
<1> USE DEF IInv
<1>1. PICK row : row = [state |-> "pending", target |-> t, by |-> {}, fresh |-> FALSE,
                        attempts |-> 0, outcome |-> 0]
  OBVIOUS
<1>2. row \in Job /\ row # None /\ row.state = "pending" /\ row.attempts = 0 /\ row.target = t
  BY <1>1, CeilingAssumption DEF Job, Open, None
<1>3. /\ job[j] = None /\ OpenFor(t) = {} /\ builder' = builder /\ losses' = losses
      /\ job' = [job EXCEPT ![j] = row]
  BY <1>1 DEF Enqueue
<1>4. /\ job' \in [Jobs -> Job \cup {None}] /\ job'[j] = row
      /\ \A i \in Jobs : i # j => job'[i] = job[i]
  BY <1>2, <1>3 DEF TypeOK
<1>5. TypeOK'
  <2>1. \A u \in Targets : \A i, k \in OpenFor(u)' : i = k
    BY <1>2, <1>3, <1>4 DEF TypeOK, OpenFor
  <2> QED BY <1>3, <1>4, <2>1 DEF TypeOK
<1>6. ClaimsBehind'
  BY <1>3, <1>4 DEF ClaimsBehind, BusyOn
<1>7. PendingUnclaimed' /\ OutcomeOfLastClaim'
  BY <1>2, <1>4 DEF PendingUnclaimed, OutcomeOfLastClaim, Reported
<1> QED BY <1>5, <1>6, <1>7

\* Cancelling a job, and losing or renewing its lease, settle nothing else.
LEMMA RowStep ==
  ASSUME IInv, NEW j \in Jobs, Cancel(j) \/ Lapse(j) \/ Stall(j)
  PROVE  IInv'
<1> USE DEF IInv
<1>1. job[j] \in Job /\ job[j].state \in Open
  BY StateIsJob DEF Cancel, Lapse, Stall, Open
<1>2. PICK row \in Job : job' = [job EXCEPT ![j] = row] /\ Settled(job[j], row)
  <2>1. CASE Cancel(j)
    <3>1. PICK row : row = [job[j] EXCEPT !.state = "cancelled"]
      OBVIOUS
    <3>2. row \in Job /\ Settled(job[j], row)
      BY <1>1, <3>1 DEF Settled, Job
    <3> QED BY <2>1, <3>1, <3>2 DEF Cancel, TypeOK
  <2>2. CASE Lapse(j) \/ Stall(j)
    <3>1. PICK row : row = [job[j] EXCEPT !.fresh = FALSE]
      OBVIOUS
    <3>2. row \in Job /\ Settled(job[j], row)
      BY <1>1, <3>1 DEF Settled, Job
    <3> QED BY <2>2, <3>1, <3>2 DEF Lapse, Stall, TypeOK
  <2> QED BY <2>1, <2>2
<1>3. /\ job' \in [Jobs -> Job \cup {None}]
      /\ \A i \in Jobs : job'[i] = job[i] \/ Settled(job[i], job'[i])
  BY <1>2 DEF TypeOK
<1>4. builder' = builder /\ losses' \in 0..MaxLosses
  BY CeilingAssumption DEF Cancel, Lapse, Stall, Lose, TypeOK
<1>5. \A b \in Builders, i \in Jobs :
        BusyOn(b, i)' => BusyOn(b, i) /\ builder'[b].claim = builder[b].claim
  BY <1>4 DEF BusyOn
<1> QED BY <1>3, <1>4, <1>5, QuietStep DEF TypeOK

\* A builder that renews, builds, reports, loses its report, crashes or comes
\* back claims nothing; a report it may record is that of the last claim.
LEMMA WorkStep ==
  ASSUME IInv, NEW b \in Builders,
         \/ Heartbeat(b) \/ EndBuild(b) \/ ReportLost(b) \/ Crash(b) \/ Restart(b)
         \/ \E outcome \in Reported : Report(b, outcome)
  PROVE  IInv'
<1> USE DEF IInv
<1>1. losses' \in 0..MaxLosses
  <2>1. Lose => losses' \in 0..MaxLosses
    BY CeilingAssumption DEF Lose, TypeOK
  <2>2. UNCHANGED losses => losses' \in 0..MaxLosses
    BY DEF TypeOK
  <2> QED BY <2>1, <2>2 DEF Heartbeat, EndBuild, ReportLost, Crash, Restart, Report
<1>2. /\ job' \in [Jobs -> Job \cup {None}]
      /\ \A i \in Jobs : job'[i] = job[i] \/ Settled(job[i], job'[i])
  <2>1. CASE UNCHANGED job
    BY <2>1 DEF TypeOK
  <2>2. CASE Heartbeat(b) /\ Holds(b, builder[b].job)
    <3>1. PICK j \in Jobs : j = builder[b].job
      BY <2>2, BusyIsBusy DEF Heartbeat, Busy
    <3>2. job[j] \in Job /\ job[j].state \in Open
      BY <2>2, <3>1, StateIsJob DEF Holds, Open
    <3>3. PICK row : row = [job[j] EXCEPT !.fresh = TRUE]
      OBVIOUS
    <3>4. row \in Job /\ Settled(job[j], row)
      BY <3>2, <3>3 DEF Settled, Job
    <3>5. job' = [job EXCEPT ![j] = row]
      BY <2>2, <3>1, <3>3 DEF Heartbeat, TypeOK
    <3> QED BY <3>4, <3>5 DEF TypeOK
  <2>3. ASSUME NEW outcome \in Reported, Report(b, outcome), Holds(b, builder[b].job)
        PROVE  /\ job' \in [Jobs -> Job \cup {None}]
               /\ \A i \in Jobs : job'[i] = job[i] \/ Settled(job[i], job'[i])
    <3>1. PICK j \in Jobs : j = builder[b].job /\ BusyOn(b, j) /\ builder[b].claim \in 1..MaxAttempts
      BY <2>3, BusyIsBusy DEF Report, Busy, BusyOn
    <3>2. job[j] \in Job /\ job[j].state \in Open /\ job[j].by = {b}
      BY <2>3, <3>1, StateIsJob DEF Holds, Open
    <3>3. builder[b].claim = job[j].attempts
      BY <3>1, <3>2 DEF ClaimsBehind
    <3>4. PICK row : row = [job[j] EXCEPT !.state = outcome, !.outcome = builder[b].claim]
      OBVIOUS
    <3>5. row \in Job /\ Settled(job[j], row)
      BY <3>2, <3>3, <3>4 DEF Settled, Job, Reported
    <3>6. job' = [job EXCEPT ![j] = row]
      BY <2>3, <3>1, <3>4 DEF Report, TypeOK
    <3> QED BY <3>5, <3>6 DEF TypeOK
  <2> QED BY <2>1, <2>2, <2>3 DEF Heartbeat, EndBuild, ReportLost, Crash, Restart, Report
<1>3. /\ builder' \in [Builders -> Busy \cup {Polling, Down}]
      /\ \A c \in Builders, i \in Jobs :
           BusyOn(c, i)' => BusyOn(c, i) /\ builder'[c].claim = builder[c].claim
  <2>1. CASE UNCHANGED builder
    BY <2>1 DEF TypeOK, BusyOn
  <2>2. CASE builder' = [builder EXCEPT ![b] = Polling] \/ builder' = [builder EXCEPT ![b] = Down]
    BY <2>2 DEF TypeOK, BusyOn, Polling, Down
  <2>3. CASE /\ builder[b].at = "building"
             /\ \/ builder' = [builder EXCEPT ![b].beat = FALSE]
                \/ builder' = [builder EXCEPT ![b].at = "reporting", ![b].beat = FALSE]
    <3>1. builder[b] \in Busy
      BY <2>3, BusyIsBusy
    <3>2. PICK new \in Busy :
            /\ builder' = [builder EXCEPT ![b] = new]
            /\ new.job = builder[b].job /\ new.claim = builder[b].claim
      <4>1. [builder[b] EXCEPT !.beat = FALSE] \in Busy
            /\ [builder[b] EXCEPT !.at = "reporting", !.beat = FALSE] \in Busy
        BY <3>1 DEF Busy
      <4>2. /\ [builder EXCEPT ![b].beat = FALSE] = [builder EXCEPT ![b] = [builder[b] EXCEPT !.beat = FALSE]]
            /\ [builder EXCEPT ![b].at = "reporting", ![b].beat = FALSE]
                 = [builder EXCEPT ![b] = [builder[b] EXCEPT !.at = "reporting", !.beat = FALSE]]
        BY DEF TypeOK
      <4>3. /\ [builder[b] EXCEPT !.beat = FALSE].job = builder[b].job
            /\ [builder[b] EXCEPT !.beat = FALSE].claim = builder[b].claim
            /\ [builder[b] EXCEPT !.at = "reporting", !.beat = FALSE].job = builder[b].job
            /\ [builder[b] EXCEPT !.at = "reporting", !.beat = FALSE].claim = builder[b].claim
        BY <3>1 DEF Busy
      <4> QED BY <2>3, <4>1, <4>2, <4>3
    <3> QED BY <2>3, <3>2 DEF TypeOK, BusyOn
  <2> QED BY <2>1, <2>2, <2>3 DEF Heartbeat, EndBuild, ReportLost, Crash, Restart, Report
<1> QED BY <1>1, <1>2, <1>3, QuietStep

\* No job and no builder at work at the start.
LEMMA InitInv == Init => IInv
<1> SUFFICES ASSUME Init PROVE IInv
  OBVIOUS
<1>1. TypeOK
  BY CeilingAssumption DEF Init, TypeOK, OpenFor, None, Open
<1>2. ClaimsBehind /\ PendingUnclaimed /\ OutcomeOfLastClaim
  BY DEF Init, ClaimsBehind, PendingUnclaimed, OutcomeOfLastClaim, BusyOn, Polling, None, Reported
<1> QED BY <1>1, <1>2 DEF IInv

\* Every step keeps the invariant.
LEMMA NextInv == IInv /\ [Next]_vars => IInv'
<1> SUFFICES ASSUME IInv, [Next]_vars PROVE IInv'
  OBVIOUS
<1>1. ASSUME NEW b \in Builders, BuilderStep(b) PROVE IInv'
  BY <1>1, ClaimStep, WorkStep DEF BuilderStep
<1>2. ASSUME NEW j \in Jobs, JobStep(j) PROVE IInv'
  BY <1>2, EnqueueStep, RowStep DEF JobStep
<1>3. CASE UNCHANGED vars
  BY <1>3 DEF vars, IInv, TypeOK, ClaimsBehind, PendingUnclaimed, OutcomeOfLastClaim, BusyOn, OpenFor
<1> QED BY <1>1, <1>2, <1>3 DEF Next

\* No job is ever claimed more than MAX_JOB_ATTEMPTS times, and no target has
\* two open jobs, for any number of jobs, builders and losses.
THEOREM JobsTypeOK == Spec => []TypeOK
<1>1. IInv => TypeOK BY DEF IInv
<1> QED BY <1>1, InitInv, NextInv, PTL DEF Spec

\* A job's outcome is never that of a builder whose lease was taken over,
\* although complete compares the builder and not the claim.
THEOREM LastClaimReports == Spec => []OutcomeOfLastClaim
<1>1. IInv => OutcomeOfLastClaim BY DEF IInv
<1> QED BY <1>1, InitInv, NextInv, PTL DEF Spec

\* Nothing happens to a job that has ended.
THEOREM EndedJobsStay == Spec => EndsAreFinal
<1>1. IInv /\ [Next]_vars =>
        [\A j \in Jobs : job[j] # None /\ job[j].state \notin Open => job'[j] = job[j]]_vars
  <2> SUFFICES ASSUME IInv, Next, NEW j \in Jobs, job[j] # None, job[j].state \notin Open
               PROVE  job'[j] = job[j]
    OBVIOUS
  <2>1. ASSUME NEW b \in Builders, BuilderStep(b) PROVE job'[j] = job[j]
    BY <2>1 DEF BuilderStep, Claim, Runnable, Heartbeat, EndBuild, Report, ReportLost, Crash, Restart,
                Holds, Open, IInv, TypeOK
  <2>2. ASSUME NEW i \in Jobs, JobStep(i) PROVE job'[j] = job[j]
    BY <2>2 DEF JobStep, Enqueue, Cancel, Lapse, Stall, Open, IInv, TypeOK
  <2> QED BY <2>1, <2>2 DEF Next
<1> QED BY <1>1, InitInv, NextInv, PTL DEF Spec, EndsAreFinal

=============================================================================
