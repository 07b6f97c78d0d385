----------------------------- MODULE BuildJobs -----------------------------
(***************************************************************************)
(* The durable queue of index build jobs: any caller enqueues, any builder *)
(* process claims a job under a lease, renews the lease while it builds,   *)
(* and reports the outcome.                                                *)
(*                                                                         *)
(*   queue     munarium-store-pg/src/jobs.rs, migrations/0027              *)
(*   builders  munarium-server/src/datastore_jobs.rs (spawn_builder)       *)
(*                                                                         *)
(* Each operation of the queue is one statement or one short transaction,  *)
(* so it is one action.  A builder is two tasks: one that claims, builds   *)
(* and reports, and one that renews the lease meanwhile.                   *)
(***************************************************************************)
EXTENDS Naturals, FiniteSets

CONSTANTS Jobs,         \* job ids
          Targets,      \* (tenant, kind, scope or version)
          Builders,     \* builder processes, each with an instance id of its own
          MaxAttempts,  \* MAX_JOB_ATTEMPTS
          MaxLosses     \* crashes, stalls and lost replies explored

ASSUME CeilingAssumption == MaxAttempts \in Nat \ {0} /\ MaxLosses \in Nat

VARIABLES
  job,      \* each row of index_build_jobs; None before it is inserted
  builder,  \* each builder: where it is, the job it builds and its claim
  losses    \* losses so far

vars == <<job, builder, losses>>

None == [state |-> "none"]
Open == {"pending", "running"}
Reported == {"succeeded", "failed"}
Job == [state : Open \cup Reported \cup {"cancelled"}, target : Targets,
        by : {{}} \cup {{b} : b \in Builders},   \* claimed_by
        fresh : BOOLEAN,                         \* claimed_at is within the lease
        attempts : 0..MaxAttempts,
        outcome : 0..MaxAttempts]                \* ghost: the claim that reported it
Polling == [at |-> "polling"]
Down == [at |-> "down"]
Busy == [at : {"building", "reporting"}, job : Jobs, claim : 1..MaxAttempts,
         beat : BOOLEAN]   \* the renewing task runs

BusyOn(b, j) == builder[b].at \in {"building", "reporting"} /\ builder[b].job = j
Holds(b, j) == job[j].state = "running" /\ job[j].by = {b}

Lose == losses < MaxLosses /\ losses' = losses + 1

(***************************************************************************)
(* Callers.                                                                *)
(***************************************************************************)

OpenFor(t) == {j \in Jobs : job[j].state \in Open /\ job[j].target = t}

\* Mutant: without the unique index, a request does not see the open job.
EnqueueDuplicating(j, t) ==
  /\ job[j] = None
  /\ job' = [job EXCEPT ![j] = [state |-> "pending", target |-> t, by |-> {}, fresh |-> FALSE,
                                attempts |-> 0, outcome |-> 0]]
  /\ UNCHANGED <<builder, losses>>

\* The partial unique index lets one open job of a target in; a second request
\* is answered with the open job and its insert does nothing.
Enqueue(j, t) ==
  /\ job[j] = None
  /\ OpenFor(t) = {}
  /\ job' = [job EXCEPT ![j] = [state |-> "pending", target |-> t, by |-> {}, fresh |-> FALSE,
                                attempts |-> 0, outcome |-> 0]]
  /\ UNCHANGED <<builder, losses>>

Cancel(j) ==
  /\ job[j].state \in Open
  /\ job' = [job EXCEPT ![j].state = "cancelled"]
  /\ UNCHANGED <<builder, losses>>

(***************************************************************************)
(* Builders.                                                               *)
(***************************************************************************)

\* Mutant: a claimed job is never offered again.
RunnablePendingOnly(j) == job[j].state = "pending"

Runnable(j) ==
  \/ job[j].state = "pending"
  \/ job[j].state = "running" /\ ~job[j].fresh /\ job[j].attempts < MaxAttempts

\* claim_any.  The oldest runnable job that no other statement has locked at
\* that moment (SKIP LOCKED): any one of them.  If the answer is lost after the
\* commit, the builder goes on polling and the job is claimed all the same.
Claim(b, j) ==
  /\ builder[b] = Polling
  /\ Runnable(j)
  /\ job' = [job EXCEPT ![j].state = "running", ![j].by = {b}, ![j].fresh = TRUE,
                        ![j].attempts = @ + 1]
  /\ \/ builder' = [builder EXCEPT ![b] = [at |-> "building", job |-> j,
                                           claim |-> job[j].attempts + 1, beat |-> TRUE]]
        /\ UNCHANGED losses
     \/ UNCHANGED builder /\ Lose

\* heartbeat, from the task beside the build; told that the job is not its own
\* any more, only that task ends.
Heartbeat(b) ==
  /\ builder[b].at = "building" /\ builder[b].beat
  /\ IF Holds(b, builder[b].job)
     THEN job' = [job EXCEPT ![builder[b].job].fresh = TRUE] /\ UNCHANGED builder
     ELSE builder' = [builder EXCEPT ![b].beat = FALSE] /\ UNCHANGED job
  /\ UNCHANGED losses

\* run_one_job returns; the renewing task is aborted.
EndBuild(b) ==
  /\ builder[b].at = "building"
  /\ builder' = [builder EXCEPT ![b].at = "reporting", ![b].beat = FALSE]
  /\ UNCHANGED <<job, losses>>

\* Mutant: a report is taken from whoever was the builder once.
ReportUnheld(b, outcome) ==
  /\ builder[b].at = "reporting"
  /\ LET j == builder[b].job
     IN  job' = IF job[j].state = "running"
                THEN [job EXCEPT ![j].state = outcome, ![j].outcome = builder[b].claim]
                ELSE job
  /\ builder' = [builder EXCEPT ![b] = Polling]
  /\ UNCHANGED losses

\* Mutant: a report is taken whatever the state of the job.
ReportAnyState(b, outcome) ==
  /\ builder[b].at = "reporting"
  /\ LET j == builder[b].job
     IN  job' = IF job[j].by = {b}
                THEN [job EXCEPT ![j].state = outcome, ![j].outcome = builder[b].claim]
                ELSE job
  /\ builder' = [builder EXCEPT ![b] = Polling]
  /\ UNCHANGED losses

\* complete: recorded for the holder of a running job, else a no-op.
Report(b, outcome) ==
  /\ builder[b].at = "reporting"
  /\ LET j == builder[b].job
     IN  job' = IF Holds(b, j)
                THEN [job EXCEPT ![j].state = outcome, ![j].outcome = builder[b].claim]
                ELSE job
  /\ builder' = [builder EXCEPT ![b] = Polling]
  /\ UNCHANGED losses

\* The report does not reach the database; it is not sent again.
ReportLost(b) ==
  /\ builder[b].at = "reporting"
  /\ builder' = [builder EXCEPT ![b] = Polling]
  /\ Lose
  /\ UNCHANGED job

Crash(b) ==
  /\ builder[b].at \in {"building", "reporting"}
  /\ builder' = [builder EXCEPT ![b] = Down]
  /\ Lose
  /\ UNCHANGED job

Restart(b) ==
  /\ builder[b] = Down
  /\ builder' = [builder EXCEPT ![b] = Polling]
  /\ UNCHANGED <<job, losses>>

(***************************************************************************)
(* The lease runs out: of a job nobody works on, in time; of one whose     *)
(* holder still does, when its renewals fail or come too late.             *)
(***************************************************************************)

Attended(j) == \E b \in Builders : BusyOn(b, j) /\ Holds(b, j)

Lapse(j) ==
  /\ job[j].state = "running" /\ job[j].fresh
  /\ ~Attended(j)
  /\ job' = [job EXCEPT ![j].fresh = FALSE]
  /\ UNCHANGED <<builder, losses>>

Stall(j) ==
  /\ job[j].state = "running" /\ job[j].fresh
  /\ Attended(j)
  /\ job' = [job EXCEPT ![j].fresh = FALSE]
  /\ Lose
  /\ UNCHANGED builder

Init ==
  /\ job = [j \in Jobs |-> None]
  /\ builder = [b \in Builders |-> Polling]
  /\ losses = 0

BuilderStep(b) ==
  \/ \E j \in Jobs : Claim(b, j)
  \/ Heartbeat(b) \/ EndBuild(b)
  \/ \E outcome \in Reported : Report(b, outcome)
  \/ ReportLost(b) \/ Crash(b) \/ Restart(b)

JobStep(j) ==
  \/ \E t \in Targets : Enqueue(j, t)
  \/ Cancel(j) \/ Lapse(j) \/ Stall(j)

Next ==
  \/ \E b \in Builders : BuilderStep(b)
  \/ \E j \in Jobs : JobStep(j)

Spec == Init /\ [][Next]_vars

\* A builder keeps polling, a build ends (provider and storage calls have
\* timeouts), its report is sent, a crashed process is restarted, and time
\* passes.  Nothing obliges a caller to enqueue or cancel.
Fairness ==
  /\ \A b \in Builders : /\ WF_vars(\E j \in Jobs : Claim(b, j))
                         /\ WF_vars(EndBuild(b))
                         /\ WF_vars(\E outcome \in Reported : Report(b, outcome))
                         /\ WF_vars(Restart(b))
  /\ \A j \in Jobs : WF_vars(Lapse(j))

FairSpec == Spec /\ Fairness

(***************************************************************************)
(* Properties.                                                             *)
(***************************************************************************)

\* The types; in particular no job is claimed more often than the ceiling
\* allows, and a target has one open job (index_build_jobs_open_target_idx).
TypeOK ==
  /\ job \in [Jobs -> Job \cup {None}]
  /\ builder \in [Builders -> Busy \cup {Polling, Down}]
  /\ losses \in 0..MaxLosses
  /\ \A t \in Targets : \A i, j \in OpenFor(t) : i = j

\* A recorded outcome is the one of the job's last claim, never of a builder
\* whose lease was taken over (complete's comparison of claimed_by, which
\* names the builder and not the claim).
OutcomeOfLastClaim ==
  \A j \in Jobs : job[j].state \in Reported => job[j].outcome = job[j].attempts

\* An end is an end: no late report, claim, renewal or cancellation touches a
\* job that has succeeded, failed or been cancelled.
EndsAreFinal ==
  [][\A j \in Jobs : job[j] # None /\ job[j].state \notin Open => job'[j] = job[j]]_vars

\* A claimed job is a lease, not a title: with fewer losses than there are
\* attempts, every job that is enqueued ends (claim_any, heartbeat, complete).
EveryJobEnds ==
  \A j \in Jobs : job[j].state \in Open ~> job[j].state \notin Open

=============================================================================
