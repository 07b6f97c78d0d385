------------------------- MODULE RunbookRunProofs --------------------------
(***************************************************************************)
(* Proofs about RunbookRun, for any number of runs, any documents and any  *)
(* number of corpora.  A run's rows are written under its lock only; the   *)
(* holder has left nothing undone behind it, and what lies ahead of it is  *)
(* as it read it once.                                                     *)
(***************************************************************************)
EXTENDS RunbookRun, FiniteSetTheorems, SequenceTheorems, TLAPS

StateOf(r, i) == steps[r][i].state
Resting(r) == \A i \in DOMAIN steps[r] : StateOf(r, i) \notin {"running", "failed"}

Ahead == {"unit"} \cup InEffect

\* What the holder of a run's lock knows of its rows.
Knows(r) ==
  /\ runState[r] # "none"
  /\ exec[r].at # "check" => starter[r] = None
  /\ exec[r].at \notin {"check", "mark"} => runState[r] = "running"
  /\ exec[r].at \in {"check", "mark", "read"} => Pos(r) = 1
  /\ exec[r].at \in {"mark", "read", "unit"} => Resting(r)
  /\ exec[r].at \in Ahead =>
       /\ DOMAIN exec[r].seen = DOMAIN steps[r]
       /\ \A i \in 1..(Pos(r) - 1) : i \in DOMAIN steps[r] /\ StateOf(r, i) = "done"
       /\ \A i \in DOMAIN steps[r] : i > Pos(r) => exec[r].seen[i] = StateOf(r, i)
  /\ exec[r].at = "unit" /\ Pos(r) \in DOMAIN steps[r] =>
       exec[r].seen[Pos(r)] = StateOf(r, Pos(r))
  /\ exec[r].at \in InEffect =>
       /\ ~Ended(r)
       /\ Pos(r) \in DOMAIN steps[r]
       /\ steps[r][Pos(r)] = [name |-> Unit(r), state |-> "running"]
  /\ exec[r].at = "gate" => Pos(r) \in DOMAIN steps[r] /\ StateOf(r, Pos(r)) = "awaiting_approval"
  /\ exec[r].at = "failed" => Pos(r) \in DOMAIN steps[r] /\ StateOf(r, Pos(r)) = "failed"
  /\ exec[r].at = "insert" => exec[r].result \in Corpora
  /\ exec[r].at = "commit" /\ Unit(r) = "buildIndex" =>
       exec[r].result \in Corpora /\ Exists(exec[r].result)

OrderOf(r) ==
  \A j \in DOMAIN steps[r] : \A i \in 1..(j - 1) :
    StateOf(r, j) # "pending" => StateOf(r, i) = "done"

ExplainedOf(r) ==
  /\ runState[r] = "failed" => \E i \in DOMAIN steps[r] : StateOf(r, i) = "failed"
  /\ runState[r] = "awaiting_approval" =>
       \E i \in DOMAIN steps[r] : StateOf(r, i) = "awaiting_approval"
  /\ runState[r] = "done" => Resting(r)

RunInv(r) ==
  /\ runState[r] = "none" => steps[r] = <<>> /\ starter[r] = None /\ exec[r] = None
  /\ starter[r] # None =>
       /\ runState[r] = "running"
       /\ \A i \in DOMAIN steps[r] : StateOf(r, i) = "pending"
  /\ built[r] # None => Exists(built[r])
  /\ exec[r] # None => Knows(r)
  /\ OrderOf(r)
  /\ ExplainedOf(r)

IInv == TypeOK /\ \A r \in Runs : RunInv(r)

StepRow == [name : StepName, state : StepState]

\* The fields of what a run works with.
LEMMA Fields ==
  ASSUME TypeOK, NEW r \in Runs
  PROVE  /\ steps[r] \in Seq(StepRow)
         /\ exec[r] # None => exec[r] \in Executor /\ exec[r].doc.steps \in Seq(StepName)
         /\ runState[r] \in RunState
         /\ built[r] \in Corpora \cup {None}
BY DocsAssumption DEF TypeOK, StepRow, Executor

Rewritten(r, p, state) == [steps EXCEPT ![r][p].state = state]

\* One row of one run gets another state.
LEMMA OneRow ==
  ASSUME TypeOK, NEW r \in Runs, NEW p \in DOMAIN steps[r], NEW state \in StepState,
         steps' = Rewritten(r, p, state)
  PROVE  /\ steps' \in [Runs -> Seq(StepRow)]
         /\ \A q \in Runs : q # r => steps'[q] = steps[q]
         /\ DOMAIN steps'[r] = DOMAIN steps[r]
         /\ steps'[r][p] = [name |-> steps[r][p].name, state |-> state]
         /\ \A i \in DOMAIN steps[r] : i # p => steps'[r][i] = steps[r][i]
<1>1. steps \in [Runs -> Seq(StepRow)] /\ steps[r] \in Seq(StepRow)
  BY DEF TypeOK, StepRow
<1>2. steps[r][p] \in StepRow
  BY <1>1
<1> DEFINE new == [steps[r][p] EXCEPT !.state = state]
<1>3. new \in StepRow /\ new = [name |-> steps[r][p].name, state |-> state]
  BY <1>2 DEF StepRow
<1> DEFINE rows == [steps[r] EXCEPT ![p] = new]
<1>4. rows \in Seq(StepRow) /\ DOMAIN rows = DOMAIN steps[r] /\ rows[p] = new
      /\ \A i \in DOMAIN steps[r] : i # p => rows[i] = steps[r][i]
  BY <1>1, <1>3
<1>5. steps' = [steps EXCEPT ![r] = rows]
  BY DEF Rewritten
<1> QED BY <1>1, <1>3, <1>4, <1>5

\* A step of one run leaves the others' invariant alone: versions stay.
LEMMA Frame ==
  ASSUME NEW r \in Runs, RunInv(r),
         runState'[r] = runState[r], steps'[r] = steps[r], built'[r] = built[r],
         starter'[r] = starter[r], exec'[r] = exec[r],
         \A v \in Corpora : Exists(v) => Exists(v)',
         built[r] \in Corpora \cup {None}
  PROVE  RunInv(r)'
BY DEF RunInv, Knows, OrderOf, ExplainedOf, StateOf, Resting, Pos, Unit, Ended

\* The holder of the lock moves to another place, or gives the lock back.
LEMMA GotoStep ==
  ASSUME TypeOK, NEW r \in Runs, exec[r] # None, NEW place \in Places, Goto(r, place)
  PROVE  /\ exec' \in [Runs -> Executor \cup {None}]
         /\ \A q \in Runs : q # r => exec'[q] = exec[q]
         /\ exec'[r] = [exec[r] EXCEPT !.at = place]
         /\ exec'[r] \in Executor /\ exec'[r].at = place
         /\ exec'[r].doc = exec[r].doc /\ exec'[r].pos = exec[r].pos
         /\ exec'[r].seen = exec[r].seen /\ exec'[r].result = exec[r].result
         /\ exec'[r].approved = exec[r].approved
BY Fields DEF Goto, TypeOK, Executor

LEMMA LeaveStep ==
  ASSUME TypeOK, NEW r \in Runs, Leave(r)
  PROVE  /\ exec' \in [Runs -> Executor \cup {None}]
         /\ \A q \in Runs : q # r => exec'[q] = exec[q]
         /\ exec'[r] = None
BY DEF Leave, TypeOK

\* A step of the executor that touches neither versions nor rows.
LEMMA QuietStep ==
  ASSUME IInv, NEW r \in Runs,
         \/ CheckApproval(r) \/ MarkRunning(r) \/ ReadSteps(r) \/ SkipDone(r)
         \/ MarkAwaiting(r) \/ MarkFailed(r) \/ MarkDone(r) \/ Interrupt(r)
         \/ StartLocks(r) \/ Resolve(r) \/ Verify(r) \/ EffectFails(r) \/ BuildIndex(r)
  PROVE  /\ exec' \in [Runs -> Executor \cup {None}]
         /\ runState' \in [Runs -> RunState]
         /\ starter' \in [Runs -> Docs \cup {None}]
         /\ \A q \in Runs : q # r => exec'[q] = exec[q] /\ runState'[q] = runState[q]
                                       /\ starter'[q] = starter[q]
         /\ UNCHANGED <<versionVars, doc, steps, built>>
<1> USE DEF IInv
<1> DEFINE Good == /\ exec' \in [Runs -> Executor \cup {None}]
                   /\ runState' \in [Runs -> RunState]
                   /\ starter' \in [Runs -> Docs \cup {None}]
                   /\ \A q \in Runs : q # r => exec'[q] = exec[q] /\ runState'[q] = runState[q]
                                                 /\ starter'[q] = starter[q]
                   /\ UNCHANGED <<versionVars, doc, steps, built>>
<1>1. TypeOK /\ (exec[r] # None => exec[r] \in Executor)
  BY Fields
<1>2. ASSUME Leave(r) \/ \E place \in Places : exec[r] # None /\ Goto(r, place),
             UNCHANGED <<versionVars, doc, runState, steps, built, starter>>
      PROVE  Good
  BY <1>1, <1>2, GotoStep, LeaveStep DEF TypeOK
<1>3. CASE CheckApproval(r)
  <2>1. exec[r] # None
    BY <1>3 DEF CheckApproval, At
  <2>2. CASE Leave(r)
    BY <1>2, <1>3, <2>2 DEF CheckApproval
  <2>3. CASE exec' = [exec EXCEPT ![r].at = "mark", ![r].doc = doc]
    BY <1>1, <1>3, <2>1, <2>3 DEF CheckApproval, TypeOK, Executor, Places
  <2> QED BY <1>3, <2>2, <2>3 DEF CheckApproval
<1>4. CASE MarkRunning(r)
  <2>1. exec' \in [Runs -> Executor \cup {None}] /\ \A q \in Runs : q # r => exec'[q] = exec[q]
    BY <1>1, <1>4, GotoStep DEF MarkRunning, At, Places
  <2> QED BY <1>4, <2>1 DEF MarkRunning, TypeOK, RunState
<1>5. CASE ReadSteps(r)
  <2> DEFINE seen == [i \in DOMAIN steps[r] |-> StateOf(r, i)]
  <2>1. steps[r] \in Seq(StepRow)
    BY <1>1, Fields
  <2>2. Len(steps[r]) \in Nat /\ seen \in [1..Len(steps[r]) -> StepState]
    <3>1. Len(steps[r]) \in Nat /\ DOMAIN steps[r] = 1..Len(steps[r])
      BY <2>1
    <3>2. ASSUME NEW i \in DOMAIN steps[r] PROVE StateOf(r, i) \in StepState
      <4>1. steps[r][i] \in StepRow
        BY <2>1
      <4> QED BY <4>1 DEF StepRow, StateOf
    <3> QED BY <3>1, <3>2
  <2>3. seen \in Seq(StepState)
    BY <2>2, SeqDef
  <2> DEFINE e == [exec[r] EXCEPT !.at = "unit", !.seen = seen]
  <2>4. e \in Executor
    BY <1>1, <1>5, <2>3 DEF ReadSteps, At, Executor, Places
  <2>5. exec' = [exec EXCEPT ![r] = e]
    BY <1>1, <1>5 DEF ReadSteps, StateOf, TypeOK
  <2> QED BY <1>5, <2>4, <2>5 DEF ReadSteps, TypeOK
<1>6. CASE SkipDone(r)
  <2>1. exec[r].pos + 1 \in Nat
    BY <1>1, <1>6 DEF SkipDone, At, Executor
  <2> QED BY <1>1, <1>6, <2>1 DEF SkipDone, At, TypeOK, Executor
<1>7. CASE MarkAwaiting(r) \/ MarkFailed(r) \/ MarkDone(r)
  <2>1. exec' \in [Runs -> Executor \cup {None}] /\ \A q \in Runs : q # r => exec'[q] = exec[q]
    BY <1>1, <1>7, LeaveStep DEF MarkAwaiting, MarkFailed, MarkDone
  <2> QED BY <1>7, <2>1 DEF MarkAwaiting, MarkFailed, MarkDone, TypeOK, RunState
<1>8. CASE Interrupt(r)
  BY <1>2, <1>8 DEF Interrupt
<1>9. CASE StartLocks(r)
  <2>1. starter[r] \in Docs
    BY <1>1, <1>9 DEF StartLocks, TypeOK
  <2>2. NewExecutor("read", starter[r], 0) \in Executor
    BY <2>1 DEF NewExecutor, Executor, Places
  <2> QED BY <1>9, <2>1, <2>2 DEF StartLocks, TypeOK
<1>10. CASE Resolve(r) \/ Verify(r) \/ EffectFails(r)
  <2>1. "commit" \in Places /\ "fail" \in Places
    BY DEF Places
  <2> QED BY <1>2, <1>10, <2>1 DEF Resolve, Verify, EffectFails, At
<1>11. CASE BuildIndex(r)
  <2>1. corpus \in Corpora
    BY DEF TypeOK, VersionsTypeOK
  <2> DEFINE e == [exec[r] EXCEPT !.result = corpus,
                                  !.at = IF Exists(corpus) THEN "commit" ELSE "insert"]
  <2>2. e \in Executor
    BY <1>1, <1>11, <2>1 DEF BuildIndex, At, Executor, Places
  <2>3. exec' = [exec EXCEPT ![r] = e]
    BY <1>11 DEF BuildIndex
  <2> QED BY <1>11, <2>2, <2>3 DEF BuildIndex, TypeOK
<1> QED BY <1>3, <1>4, <1>5, <1>6, <1>7, <1>8, <1>9, <1>10, <1>11

\* When one row waits for approval, the rows before it are done and those
\* after it untouched, so nothing is under way or failed.
LEMMA AwaitingRests ==
  ASSUME TypeOK, NEW r \in Runs, OrderOf(r), NEW i \in DOMAIN steps[r],
         StateOf(r, i) = "awaiting_approval"
  PROVE  Resting(r)
<1> SUFFICES ASSUME NEW j \in DOMAIN steps[r], StateOf(r, j) \in {"running", "failed"}
             PROVE  FALSE
  BY DEF Resting
<1>1. DOMAIN steps[r] = 1..Len(steps[r]) /\ Len(steps[r]) \in Nat
  BY Fields
<1>2. i \in Nat /\ j \in Nat /\ i >= 1 /\ j >= 1
  BY <1>1
<1>3. CASE i < j
  <2>1. i \in 1..(j - 1)
    BY <1>2, <1>3
  <2> QED BY <2>1 DEF OrderOf
<1>4. CASE j < i
  <2>1. j \in 1..(i - 1)
    BY <1>2, <1>4
  <2> QED BY <2>1 DEF OrderOf
<1> QED BY <1>2, <1>3, <1>4

\* Steps that leave the rows alone keep what is known of the run.
LEMMA QuietInv ==
  ASSUME IInv, NEW r \in Runs,
         \/ CheckApproval(r) \/ MarkRunning(r) \/ ReadSteps(r) \/ SkipDone(r)
         \/ MarkAwaiting(r) \/ MarkFailed(r) \/ MarkDone(r) \/ Interrupt(r)
         \/ StartLocks(r) \/ Resolve(r) \/ Verify(r) \/ EffectFails(r) \/ BuildIndex(r)
  PROVE  RunInv(r)'
<1> USE DEF IInv
<1>1. TypeOK /\ RunInv(r)
  OBVIOUS
<1>2. /\ exec[r] # None => exec[r] \in Executor /\ exec[r].doc.steps \in Seq(StepName)
      /\ steps[r] \in Seq(StepRow)
  BY Fields
<1>3. UNCHANGED <<builtAt, steps, built>>
  BY QuietStep DEF versionVars
<1>4. ASSUME exec'[r] = None, runState'[r] = runState[r], starter'[r] = starter[r]
      PROVE  RunInv(r)'
  BY <1>1, <1>3, <1>4 DEF RunInv, OrderOf, ExplainedOf, StateOf, Resting, Exists
<1>5. ASSUME exec[r] # None, Knows(r)', runState'[r] = runState[r], starter'[r] = starter[r]
      PROVE  RunInv(r)'
  BY <1>1, <1>3, <1>5 DEF RunInv, OrderOf, ExplainedOf, StateOf, Resting, Exists, Knows
<1>6. exec[r] # None => Knows(r)
  BY <1>1 DEF RunInv
<1>7. CASE CheckApproval(r)
  <2>1. exec[r] # None /\ exec[r].at = "check" /\ Knows(r)
    BY <1>6, <1>7 DEF CheckApproval, At
  <2>2. CASE Awaiting(r, exec[r].approved)
    <3>1. exec'[r] = [exec[r] EXCEPT !.at = "mark", !.doc = doc]
      BY <1>1, <1>7, <2>2 DEF CheckApproval, TypeOK
    <3>2. exec'[r].at = "mark" /\ exec'[r].pos = exec[r].pos
      BY <1>2, <2>1, <3>1 DEF Executor
    <3>3. exec[r].approved \in DOMAIN steps[r] /\ StateOf(r, exec[r].approved) = "awaiting_approval"
      BY <2>2 DEF Awaiting, StateOf
    <3>4. Resting(r) /\ starter[r] = None
      BY <1>1, <3>3, AwaitingRests DEF RunInv
    <3>5. Knows(r)'
      BY <1>3, <1>7, <2>1, <3>2, <3>4 DEF CheckApproval, Knows, Resting, StateOf, Pos, Ahead, InEffect
    <3> QED BY <1>5, <1>7, <2>1, <3>5 DEF CheckApproval
  <2>3. CASE ~Awaiting(r, exec[r].approved)
    BY <1>1, <1>4, <1>7, <2>3, LeaveStep DEF CheckApproval
  <2> QED BY <2>2, <2>3
<1>8. CASE MarkRunning(r)
  <2>1. exec[r] # None /\ exec[r].at = "mark" /\ Knows(r) /\ "read" \in Places
    BY <1>6, <1>8 DEF MarkRunning, At, Places
  <2>2. exec'[r].at = "read" /\ exec'[r].pos = exec[r].pos
    BY <1>1, <1>8, <2>1, GotoStep DEF MarkRunning
  <2>3. runState'[r] = "running" /\ starter'[r] = None /\ starter[r] = None
    BY <1>8, <2>1 DEF MarkRunning, Knows, TypeOK
  <2>4. Knows(r)'
    BY <1>3, <2>1, <2>2, <2>3 DEF Knows, Resting, StateOf, Pos, Ahead, InEffect
  <2> QED BY <1>1, <1>3, <2>3, <2>4 DEF RunInv, OrderOf, ExplainedOf, StateOf, Resting, Exists
<1>9. CASE ReadSteps(r)
  <2>1. exec[r] # None /\ exec[r].at = "read" /\ Knows(r)
    BY <1>6, <1>9 DEF ReadSteps, At
  <2> DEFINE seen == [i \in DOMAIN steps[r] |-> StateOf(r, i)]
  <2>2. exec'[r] = [exec[r] EXCEPT !.at = "unit", !.seen = seen]
    BY <1>1, <1>9 DEF ReadSteps, TypeOK, StateOf
  <2>3. exec'[r].at = "unit" /\ exec'[r].pos = exec[r].pos /\ exec'[r].seen = seen
    BY <1>2, <2>1, <2>2 DEF Executor
  <2>4. exec[r].pos = 1
    BY <2>1 DEF Knows, Pos
  <2>5. Knows(r)'
    <3>1. /\ DOMAIN exec'[r].seen = DOMAIN steps[r]
          /\ \A i \in DOMAIN steps[r] : exec'[r].seen[i] = StateOf(r, i)
      BY <2>3
    <3>2. exec'[r].at = "unit" /\ exec'[r].pos = 1 /\ 1..(1 - 1) = {}
      BY <2>3, <2>4
    <3> QED BY <1>3, <1>9, <2>1, <3>1, <3>2
          DEF ReadSteps, Knows, Resting, StateOf, Pos, Ahead, InEffect
  <2> QED BY <1>5, <1>9, <2>1, <2>5 DEF ReadSteps
<1>10. CASE SkipDone(r)
  <2>1. exec[r] # None /\ exec[r].at = "unit" /\ Knows(r)
    BY <1>6, <1>10 DEF SkipDone, At
  <2>2. exec'[r] = [exec[r] EXCEPT !.pos = exec[r].pos + 1]
    BY <1>1, <1>10 DEF SkipDone, TypeOK
  <2>3. /\ exec'[r].at = "unit" /\ exec'[r].pos = exec[r].pos + 1
        /\ exec'[r].seen = exec[r].seen /\ exec[r].pos \in Nat
    BY <1>2, <2>1, <2>2 DEF Executor
  <2>4. Pos(r) \in DOMAIN steps[r] /\ StateOf(r, Pos(r)) = "done"
    BY <1>10, <2>1 DEF SkipDone, Seen, Knows, Ahead
  <2>5. DOMAIN steps[r] = 1..Len(steps[r]) /\ Len(steps[r]) \in Nat
    BY <1>2
  <2>6. \A i \in 1..exec[r].pos : i \in DOMAIN steps[r] /\ StateOf(r, i) = "done"
    BY <2>1, <2>3, <2>4, <2>5 DEF Knows, Pos, Ahead
  <2>7. \A i \in DOMAIN steps[r] : i > exec[r].pos => exec[r].seen[i] = StateOf(r, i)
    BY <2>1 DEF Knows, Pos, Ahead
  <2>8. PICK p \in Nat : p = exec[r].pos + 1
    BY <2>3
  <2>9. /\ \A i \in 1..(p - 1) : i \in DOMAIN steps[r] /\ StateOf(r, i) = "done"
        /\ \A i \in DOMAIN steps[r] : i > p => exec[r].seen[i] = StateOf(r, i)
        /\ p \in DOMAIN steps[r] => exec[r].seen[p] = StateOf(r, p)
    BY <2>3, <2>5, <2>6, <2>7, <2>8
  <2>10. Knows(r)'
    <3>1. exec'[r].at = "unit" /\ exec'[r].pos = p /\ exec'[r].seen = exec[r].seen
      BY <2>3, <2>8
    <3> QED BY <1>3, <1>10, <2>1, <2>9, <3>1 DEF SkipDone, Knows, Resting, StateOf, Pos, Ahead, InEffect
  <2> QED BY <1>5, <1>10, <2>1, <2>10 DEF SkipDone
<1>11. CASE MarkAwaiting(r) \/ MarkFailed(r) \/ MarkDone(r)
  <2>1. exec[r] # None /\ exec[r].at \in {"gate", "failed", "unit"} /\ Knows(r) /\ exec'[r] = None
    BY <1>1, <1>6, <1>11, LeaveStep DEF MarkAwaiting, MarkFailed, MarkDone, At
  <2>2. starter'[r] = None /\ runState'[r] \in {"awaiting_approval", "failed", "done"}
    BY <1>1, <1>11, <2>1 DEF MarkAwaiting, MarkFailed, MarkDone, Knows, TypeOK
  <2>3. ExplainedOf(r)'
    <3>1. CASE MarkAwaiting(r)
      BY <1>1, <1>3, <2>1, <3>1 DEF MarkAwaiting, At, Knows, ExplainedOf, StateOf, TypeOK
    <3>2. CASE MarkFailed(r)
      BY <1>1, <1>3, <2>1, <3>2 DEF MarkFailed, At, Knows, ExplainedOf, StateOf, TypeOK
    <3>3. CASE MarkDone(r)
      BY <1>1, <1>3, <2>1, <3>3 DEF MarkDone, At, Knows, ExplainedOf, StateOf, Resting, TypeOK
    <3> QED BY <1>11, <3>1, <3>2, <3>3
  <2> QED BY <1>1, <1>3, <2>1, <2>2, <2>3 DEF RunInv, OrderOf, StateOf, Exists
<1>12. CASE Interrupt(r)
  BY <1>1, <1>4, <1>12, LeaveStep DEF Interrupt
<1>13. CASE StartLocks(r)
  <2>1. starter[r] # None /\ runState[r] = "running" /\ runState'[r] = "running" /\ starter'[r] = None
    BY <1>1, <1>13 DEF StartLocks, RunInv, TypeOK
  <2>2. Resting(r)
    BY <1>1, <2>1 DEF RunInv, Resting
  <2>3. CASE UNCHANGED exec
    <3>1. exec[r] # None => Knows(r)'
      BY <1>3, <1>6, <2>1, <2>3, <1>13 DEF StartLocks, Knows, Resting, StateOf, Pos, Unit, Ended, Exists, Ahead, InEffect
    <3> QED BY <1>1, <1>3, <2>1, <2>3, <3>1 DEF RunInv, OrderOf, ExplainedOf, StateOf, Resting, Exists
  <2>4. CASE exec' = [exec EXCEPT ![r] = NewExecutor("read", starter[r], 0)]
    <3>1. exec'[r].at = "read" /\ exec'[r].pos = 1
      BY <1>1, <2>4 DEF NewExecutor, TypeOK
    <3>2. Knows(r)'
      BY <1>3, <2>1, <2>2, <3>1 DEF Knows, Resting, StateOf, Pos, Ahead, InEffect
    <3> QED BY <1>1, <1>3, <2>1, <3>2 DEF RunInv, OrderOf, ExplainedOf, StateOf, Resting, Exists
  <2> QED BY <1>13, <2>3, <2>4 DEF StartLocks
<1>14. CASE Resolve(r) \/ Verify(r) \/ EffectFails(r)
  <2>1. /\ exec[r] # None /\ exec[r].at \in {"effect", "insert"} /\ Knows(r)
        /\ runState'[r] = runState[r] /\ starter'[r] = starter[r]
    BY <1>6, <1>14 DEF Resolve, Verify, EffectFails, At
  <2>2. \E place \in {"commit", "fail"} :
          Goto(r, place) /\ (place = "commit" => Unit(r) # "buildIndex")
    BY <1>14 DEF Resolve, Verify, EffectFails
  <2>3. PICK place \in {"commit", "fail"} :
          Goto(r, place) /\ (place = "commit" => Unit(r) # "buildIndex")
    BY <2>2
  <2>4. /\ exec'[r].at = place /\ exec'[r].pos = exec[r].pos /\ exec'[r].seen = exec[r].seen
        /\ exec'[r].doc = exec[r].doc
    BY <1>1, <2>1, <2>3, GotoStep DEF Places
  <2>5. Knows(r)'
    BY <1>3, <2>1, <2>3, <2>4 DEF Knows, Resting, StateOf, Pos, Unit, Ended, Ahead, InEffect
  <2> QED BY <1>5, <2>1, <2>5
<1>15. CASE BuildIndex(r)
  <2>1. /\ exec[r] # None /\ exec[r].at = "effect" /\ Knows(r)
        /\ runState'[r] = runState[r] /\ starter'[r] = starter[r]
    BY <1>6, <1>15 DEF BuildIndex, At
  <2>2. exec'[r] = [exec[r] EXCEPT !.result = corpus,
                                   !.at = IF Exists(corpus) THEN "commit" ELSE "insert"]
    BY <1>1, <1>15 DEF BuildIndex, TypeOK
  <2>3. /\ exec'[r].at = IF Exists(corpus) THEN "commit" ELSE "insert"
        /\ exec'[r].pos = exec[r].pos /\ exec'[r].seen = exec[r].seen
        /\ exec'[r].doc = exec[r].doc /\ exec'[r].result = corpus
    BY <1>2, <2>1, <2>2 DEF Executor
  <2>4. corpus \in Corpora
    BY <1>1 DEF TypeOK, VersionsTypeOK
  <2>5. Knows(r)'
    BY <1>3, <2>1, <2>3, <2>4 DEF Knows, Resting, StateOf, Pos, Unit, Ended, Ahead, InEffect, Exists
  <2> QED BY <1>5, <2>1, <2>5
<1> QED BY <1>7, <1>8, <1>9, <1>10, <1>11, <1>12, <1>13, <1>14, <1>15

\* The holder writes the row it stands at, which is not done: before it all is
\* done, after it nothing has begun.
LEMMA WriteRow ==
  ASSUME TypeOK, NEW r \in Runs, exec[r] # None, exec[r].at \in Ahead, Knows(r), OrderOf(r),
         Identity(r), StateOf(r, Pos(r)) # "done",
         NEW state \in StepState \ {"pending"},
         steps' = Rewritten(r, Pos(r), state)
  PROVE  /\ steps' \in [Runs -> Seq(StepRow)]
         /\ \A q \in Runs : q # r => steps'[q] = steps[q]
         /\ DOMAIN steps'[r] = DOMAIN steps[r]
         /\ steps'[r][Pos(r)] = [name |-> Unit(r), state |-> state]
         /\ \A i \in DOMAIN steps[r] : i # Pos(r) => steps'[r][i] = steps[r][i]
         /\ \A j \in DOMAIN steps[r] : j > Pos(r) => StateOf(r, j) = "pending"
         /\ DOMAIN exec[r].seen = DOMAIN steps'[r]
         /\ \A i \in 1..(Pos(r) - 1) : i \in DOMAIN steps'[r] /\ steps'[r][i].state = "done"
         /\ \A i \in DOMAIN steps'[r] : i > Pos(r) => exec[r].seen[i] = steps'[r][i].state
         /\ OrderOf(r)'
<1>1. Pos(r) \in DOMAIN steps[r] /\ steps[r][Pos(r)].name = Unit(r)
  BY DEF Identity
<1>2. /\ steps' \in [Runs -> Seq(StepRow)]
      /\ \A q \in Runs : q # r => steps'[q] = steps[q]
      /\ DOMAIN steps'[r] = DOMAIN steps[r]
      /\ steps'[r][Pos(r)] = [name |-> Unit(r), state |-> state]
      /\ \A i \in DOMAIN steps[r] : i # Pos(r) => steps'[r][i] = steps[r][i]
  <2>1. state \in StepState
    OBVIOUS
  <2>2. /\ steps' \in [Runs -> Seq(StepRow)]
        /\ \A q \in Runs : q # r => steps'[q] = steps[q]
        /\ DOMAIN steps'[r] = DOMAIN steps[r]
        /\ steps'[r][Pos(r)] = [name |-> steps[r][Pos(r)].name, state |-> state]
        /\ \A i \in DOMAIN steps[r] : i # Pos(r) => steps'[r][i] = steps[r][i]
    BY <1>1, <2>1, OneRow
  <2> QED BY <1>1, <2>2
<1>3. DOMAIN steps[r] = 1..Len(steps[r]) /\ Len(steps[r]) \in Nat
  BY Fields
<1>4. Pos(r) \in Nat /\ Pos(r) >= 1
  BY <1>1, <1>3
<1>5. ASSUME NEW j \in DOMAIN steps[r], j > Pos(r) PROVE StateOf(r, j) = "pending"
  <2>1. Pos(r) \in 1..(j - 1)
    BY <1>3, <1>4, <1>5
  <2> QED BY <1>5, <2>1 DEF OrderOf
<1>6. OrderOf(r)'
  <2> SUFFICES ASSUME NEW j \in DOMAIN steps[r], NEW i \in 1..(j - 1),
                      steps'[r][j].state # "pending"
               PROVE  steps'[r][i].state = "done"
    BY <1>2 DEF OrderOf, StateOf
  <2>1. i \in Nat /\ j \in Nat /\ i < j /\ i >= 1 /\ i \in DOMAIN steps[r]
    BY <1>3
  <2>2. j <= Pos(r)
    <3>1. CASE j > Pos(r)
      BY <1>2, <1>4, <1>5, <2>1, <3>1 DEF StateOf
    <3> QED BY <1>4, <2>1, <3>1
  <2>3. i \in 1..(Pos(r) - 1) /\ i # Pos(r)
    BY <1>4, <2>1, <2>2
  <2> QED BY <1>2, <2>1, <2>3 DEF Knows, StateOf
<1>7. \A i \in DOMAIN steps[r] : (i > Pos(r) \/ i \in 1..(Pos(r) - 1)) => i # Pos(r)
  BY <1>3, <1>4
<1>8. /\ DOMAIN exec[r].seen = DOMAIN steps'[r]
      /\ \A i \in 1..(Pos(r) - 1) : i \in DOMAIN steps'[r] /\ steps'[r][i].state = "done"
      /\ \A i \in DOMAIN steps'[r] : i > Pos(r) => exec[r].seen[i] = steps'[r][i].state
  BY <1>2, <1>7 DEF Knows, StateOf
<1> QED BY <1>2, <1>5, <1>6, <1>8

\* StopAtGate and the checkpoints: with the row of another document at hand
\* the executor just ends.
LEMMA WriteInv ==
  ASSUME IInv, NEW r \in Runs,
         StopAtGate(r) \/ StartStep(r) \/ CommitStep(r) \/ FailStep(r)
  PROVE  /\ steps' \in [Runs -> Seq(StepRow)]
         /\ exec' \in [Runs -> Executor \cup {None}]
         /\ built' \in [Runs -> Corpora \cup {None}]
         /\ \A q \in Runs : q # r => /\ steps'[q] = steps[q] /\ exec'[q] = exec[q]
                                     /\ built'[q] = built[q]
         /\ UNCHANGED <<versionVars, doc, runState, starter>>
         /\ \A i \in DOMAIN steps[r] :
              StateOf(r, i) = "done" => i \in DOMAIN steps'[r] /\ steps'[r][i] = steps[r][i]
         /\ RunInv(r)'
<1> USE DEF IInv
<1> DEFINE Good == /\ steps' \in [Runs -> Seq(StepRow)]
                   /\ exec' \in [Runs -> Executor \cup {None}]
                   /\ built' \in [Runs -> Corpora \cup {None}]
                   /\ \A q \in Runs : q # r => /\ steps'[q] = steps[q] /\ exec'[q] = exec[q]
                                               /\ built'[q] = built[q]
                   /\ \A i \in DOMAIN steps[r] :
                        StateOf(r, i) = "done" => i \in DOMAIN steps'[r] /\ steps'[r][i] = steps[r][i]
                   /\ RunInv(r)'
<1>1. TypeOK /\ RunInv(r)
  OBVIOUS
<1>2. exec[r] # None /\ exec[r].at \in Ahead /\ Knows(r)
  BY <1>1 DEF StopAtGate, StartStep, CommitStep, FailStep, At, Ahead, InEffect, RunInv
<1>3. /\ exec[r] \in Executor /\ exec[r].doc.steps \in Seq(StepName)
      /\ steps[r] \in Seq(StepRow)
  BY <1>2, Fields
<1>4. UNCHANGED <<versionVars, doc, runState, starter>>
  BY DEF StopAtGate, StartStep, CommitStep, FailStep
<1>5. runState[r] = "running" /\ starter[r] = None
  BY <1>2 DEF Knows, Ahead, InEffect
<1>6. ASSUME Leave(r), UNCHANGED <<steps, built>> PROVE Good
  <2>1. exec'[r] = None
    BY <1>1, <1>6, LeaveStep
  <2>2. RunInv(r)'
    BY <1>1, <1>4, <1>6, <2>1 DEF RunInv, OrderOf, ExplainedOf, StateOf, Resting, Exists, versionVars
  <2>3. exec' \in [Runs -> Executor \cup {None}] /\ \A q \in Runs : q # r => exec'[q] = exec[q]
    BY <1>1, <1>6, LeaveStep
  <2> QED BY <1>1, <1>6, <2>2, <2>3 DEF TypeOK, StepRow, StateOf
<1>7. ASSUME NEW state \in StepState \ {"pending"}, NEW next \in Executor,
             SetStep(r, state, next), Identity(r), StateOf(r, Pos(r)) # "done",
             built' \in [Runs -> Corpora \cup {None}],
             \A q \in Runs : q # r => built'[q] = built[q],
             built'[r] # None => Exists(built'[r]),
             Knows(r)'
      PROVE  Good
  <2>1. steps' = Rewritten(r, Pos(r), state) /\ exec' = [exec EXCEPT ![r] = next]
    BY <1>7 DEF SetStep, Rewritten
  <2>2. /\ steps' \in [Runs -> Seq(StepRow)]
        /\ \A q \in Runs : q # r => steps'[q] = steps[q]
        /\ DOMAIN steps'[r] = DOMAIN steps[r]
        /\ \A i \in DOMAIN steps[r] : i # Pos(r) => steps'[r][i] = steps[r][i]
        /\ OrderOf(r)'
    BY <1>1, <1>2, <1>7, <2>1, WriteRow DEF RunInv
  <2>3. exec' \in [Runs -> Executor \cup {None}] /\ exec'[r] = next
        /\ \A q \in Runs : q # r => exec'[q] = exec[q]
    BY <1>1, <2>1 DEF TypeOK
  <2>4. RunInv(r)'
    BY <1>4, <1>5, <1>7, <2>2, <2>3 DEF RunInv, ExplainedOf, Exists, versionVars
  <2> QED BY <1>7, <2>2, <2>3, <2>4
<1>8. ~Identity(r) => Good
  BY <1>1, <1>6 DEF StopAtGate, StartStep, CommitStep, FailStep, SetStep, TypeOK
<1>9. CASE StartStep(r) /\ Identity(r)
  <2>1. exec[r].at = "unit" /\ StateOf(r, Pos(r)) # "done" /\ ~Ended(r)
    BY <1>2, <1>9 DEF StartStep, At, Seen, Identity, Knows, Ahead
  <2> DEFINE next == [exec[r] EXCEPT !.at = "effect"]
  <2>2. SetStep(r, "running", next) /\ built' = built
    BY <1>9 DEF StartStep
  <2>3. /\ next \in Executor /\ next.at = "effect" /\ next.pos = exec[r].pos
        /\ next.seen = exec[r].seen /\ next.doc = exec[r].doc
    BY <1>3 DEF Executor, Places
  <2>4. steps' = Rewritten(r, Pos(r), "running") /\ exec'[r] = next
    BY <1>1, <1>9, <2>2 DEF SetStep, Rewritten, TypeOK
  <2>5. "running" \in StepState \ {"pending"}
    BY DEF StepState
  <2>6. /\ DOMAIN steps'[r] = DOMAIN steps[r]
        /\ steps'[r][Pos(r)] = [name |-> Unit(r), state |-> "running"]
        /\ DOMAIN exec[r].seen = DOMAIN steps'[r]
        /\ \A i \in 1..(Pos(r) - 1) : i \in DOMAIN steps'[r] /\ steps'[r][i].state = "done"
        /\ \A i \in DOMAIN steps'[r] : i > Pos(r) => exec[r].seen[i] = steps'[r][i].state
    BY <1>1, <1>2, <1>9, <2>1, <2>4, <2>5, WriteRow DEF RunInv
  <2>7. Knows(r)'
    BY <1>2, <1>4, <1>5, <1>9, <2>1, <2>3, <2>4, <2>6
      DEF Knows, StateOf, Pos, Unit, Ended, Ahead, InEffect, Identity
  <2>8. built[r] # None => Exists(built[r])
    BY <1>1 DEF RunInv
  <2>9. built' \in [Runs -> Corpora \cup {None}] /\ (built'[r] # None => Exists(built'[r]))
    BY <1>1, <2>2, <2>8 DEF TypeOK
  <2>10. \A q \in Runs : q # r => built'[q] = built[q]
    BY <2>2
  <2>11. Identity(r) /\ StateOf(r, Pos(r)) # "done"
    BY <1>9, <2>1
  <2> HIDE DEF next
  <2>12. Good
    BY <1>7, <2>2, <2>3, <2>5, <2>7, <2>9, <2>10, <2>11
  <2> QED BY <2>12, <1>4
<1>10. CASE StopAtGate(r) /\ Identity(r)
  <2>1. exec[r].at = "unit" /\ ~Ended(r)
    BY <1>10 DEF StopAtGate, At
  <2>2. Seen(r) = StateOf(r, Pos(r)) /\ StateOf(r, Pos(r)) # "done"
    BY <1>2, <1>10, <2>1 DEF StopAtGate, Seen, Identity, Knows, Ahead
  <2>3. CASE Seen(r) = "awaiting_approval"
    BY <1>4, <1>6, <1>10, <2>3 DEF StopAtGate
  <2>4. CASE Seen(r) # "awaiting_approval"
    <3> DEFINE next == [exec[r] EXCEPT !.at = "gate"]
    <3>1. SetStep(r, "awaiting_approval", next) /\ built' = built
      BY <1>10, <2>4 DEF StopAtGate
    <3>2. /\ next \in Executor /\ next.at = "gate" /\ next.pos = exec[r].pos
          /\ next.doc = exec[r].doc
      BY <1>3 DEF Executor, Places
    <3>3. steps' = Rewritten(r, Pos(r), "awaiting_approval") /\ exec'[r] = next
      BY <1>1, <1>10, <3>1 DEF SetStep, Rewritten, TypeOK
    <3>4. "awaiting_approval" \in StepState \ {"pending"}
      BY DEF StepState
    <3>5. /\ DOMAIN steps'[r] = DOMAIN steps[r]
          /\ steps'[r][Pos(r)] = [name |-> Unit(r), state |-> "awaiting_approval"]
      BY <1>1, <1>2, <1>10, <2>2, <3>3, <3>4, WriteRow DEF RunInv
    <3>6. Knows(r)'
      BY <1>2, <1>4, <1>5, <1>10, <3>2, <3>3, <3>5
        DEF Knows, StateOf, Pos, Ahead, InEffect, Identity
    <3>7. built' \in [Runs -> Corpora \cup {None}] /\ (built'[r] # None => Exists(built'[r]))
      BY <1>1, <3>1 DEF TypeOK, RunInv
    <3>8. \A q \in Runs : q # r => built'[q] = built[q]
      BY <3>1
    <3> HIDE DEF next
    <3>9. Good
      BY <1>7, <1>10, <2>2, <3>1, <3>2, <3>4, <3>6, <3>7, <3>8
    <3> QED BY <3>9, <1>4
  <2> QED BY <2>3, <2>4
<1>11. CASE FailStep(r) /\ Identity(r)
  <2>1. exec[r].at = "fail" /\ StateOf(r, Pos(r)) = "running"
    BY <1>2, <1>11 DEF FailStep, At, Knows, StateOf, InEffect
  <2> DEFINE next == [exec[r] EXCEPT !.at = "failed"]
  <2>2. SetStep(r, "failed", next) /\ built' = built
    BY <1>11 DEF FailStep
  <2>3. /\ next \in Executor /\ next.at = "failed" /\ next.pos = exec[r].pos
        /\ next.doc = exec[r].doc
    BY <1>3 DEF Executor, Places
  <2>4. steps' = Rewritten(r, Pos(r), "failed") /\ exec'[r] = next
    BY <1>1, <1>11, <2>2 DEF SetStep, Rewritten, TypeOK
  <2>5. "failed" \in StepState \ {"pending"}
    BY DEF StepState
  <2>6. /\ DOMAIN steps'[r] = DOMAIN steps[r]
        /\ steps'[r][Pos(r)] = [name |-> Unit(r), state |-> "failed"]
    BY <1>1, <1>2, <1>11, <2>1, <2>4, <2>5, WriteRow DEF RunInv
  <2>7. Knows(r)'
    BY <1>2, <1>4, <1>5, <1>11, <2>3, <2>4, <2>6
      DEF Knows, StateOf, Pos, Ahead, InEffect, Identity
  <2>8. built' \in [Runs -> Corpora \cup {None}] /\ (built'[r] # None => Exists(built'[r]))
    BY <1>1, <2>2 DEF TypeOK, RunInv
  <2>9. \A q \in Runs : q # r => built'[q] = built[q]
    BY <2>2
  <2> HIDE DEF next
  <2>10. Good
    BY <1>7, <1>11, <2>1, <2>2, <2>3, <2>5, <2>7, <2>8, <2>9
  <2> QED BY <2>10, <1>4
<1>12. CASE CommitStep(r) /\ Identity(r)
  <2>1. exec[r].at = "commit" /\ StateOf(r, Pos(r)) = "running"
    BY <1>2, <1>12 DEF CommitStep, At, Knows, StateOf, InEffect
  <2> DEFINE next == [exec[r] EXCEPT !.at = "unit", !.pos = exec[r].pos + 1]
  <2>2. SetStep(r, "done", next)
    BY <1>12 DEF CommitStep
  <2>3. PICK p \in Nat : p = exec[r].pos + 1
    BY <1>3 DEF Executor
  <2>4. /\ next \in Executor /\ next.at = "unit" /\ next.pos = p
        /\ next.doc = exec[r].doc /\ next.seen = exec[r].seen
    BY <1>3, <2>3 DEF Executor, Places
  <2>5. steps' = Rewritten(r, Pos(r), "done") /\ exec'[r] = next
    BY <1>1, <1>12, <2>2 DEF SetStep, Rewritten, TypeOK
  <2>6. "done" \in StepState \ {"pending"}
    BY DEF StepState
  <2>7. /\ DOMAIN steps'[r] = DOMAIN steps[r]
        /\ steps'[r][Pos(r)] = [name |-> Unit(r), state |-> "done"]
        /\ \A i \in DOMAIN steps[r] : i # Pos(r) => steps'[r][i] = steps[r][i]
        /\ \A j \in DOMAIN steps[r] : j > Pos(r) => StateOf(r, j) = "pending"
        /\ DOMAIN exec[r].seen = DOMAIN steps'[r]
        /\ \A i \in 1..(Pos(r) - 1) : i \in DOMAIN steps'[r] /\ steps'[r][i].state = "done"
        /\ \A i \in DOMAIN steps'[r] : i > Pos(r) => exec[r].seen[i] = steps'[r][i].state
    BY <1>1, <1>2, <1>12, <2>1, <2>5, <2>6, WriteRow DEF RunInv
  <2>8. /\ exec[r].pos \in Nat /\ Pos(r) = exec[r].pos /\ Pos(r) \in DOMAIN steps[r]
        /\ DOMAIN steps[r] = 1..Len(steps[r]) /\ Len(steps[r]) \in Nat
    BY <1>3, <1>12 DEF Executor, Pos, Identity
  <2>9. /\ \A i \in 1..(p - 1) : i \in DOMAIN steps'[r] /\ steps'[r][i].state = "done"
        /\ \A i \in DOMAIN steps'[r] : i > p => exec[r].seen[i] = steps'[r][i].state
        /\ p \in DOMAIN steps'[r] => exec[r].seen[p] = steps'[r][p].state
    <3>1. /\ \A i \in 1..(p - 1) : i \in 1..(Pos(r) - 1) \/ i = Pos(r)
          /\ \A i \in DOMAIN steps[r] : i > p => i > Pos(r)
          /\ p > Pos(r)
      BY <2>3, <2>8
    <3>2. steps'[r][Pos(r)].state = "done"
      BY <2>7
    <3> QED BY <2>7, <2>8, <3>1, <3>2
  <2>10. \A i \in DOMAIN steps'[r] : steps'[r][i].state \notin {"running", "failed"}
    <3> SUFFICES ASSUME NEW i \in DOMAIN steps[r]
                 PROVE  steps'[r][i].state \in {"done", "pending"}
      BY <2>7
    <3>1. i \in 1..(Pos(r) - 1) \/ i = Pos(r) \/ i > Pos(r)
      BY <2>8
    <3>2. CASE i > Pos(r)
      BY <2>7, <2>8, <3>2 DEF StateOf
    <3> QED BY <2>7, <3>1, <3>2
  <2>11. Knows(r)'
    BY <1>2, <1>4, <1>5, <2>3, <2>4, <2>5, <2>7, <2>9, <2>10
      DEF Knows, StateOf, Resting, Pos, Ahead, InEffect
  <2>12. built' = [built EXCEPT ![r] = IF Unit(r) = "buildIndex" /\ built[r] = None
                                       THEN exec[r].result ELSE built[r]]
    BY <1>12 DEF CommitStep
  <2>13. exec[r].result \in Corpora \cup {None} /\ (Unit(r) = "buildIndex" => Exists(exec[r].result))
    BY <1>2, <1>3, <2>1 DEF Knows, Executor
  <2>14. /\ built' \in [Runs -> Corpora \cup {None}] /\ (built'[r] # None => Exists(built'[r]))
         /\ \A q \in Runs : q # r => built'[q] = built[q]
    BY <1>1, <2>12, <2>13 DEF TypeOK, RunInv
  <2> HIDE DEF next
  <2>15. Good
    BY <1>7, <1>12, <2>1, <2>2, <2>4, <2>6, <2>11, <2>14
  <2> QED BY <2>15, <1>4
<1> QED BY <1>4, <1>8, <1>9, <1>10, <1>11, <1>12

\* A new row is newer than all others.
LEMMA InsertType ==
  ASSUME VersionsTypeOK, NEW v \in Corpora, Insert(v), UNCHANGED <<corpus, active>>
  PROVE  /\ VersionsTypeOK'
         /\ \A w \in Corpora : Exists(w) => Exists(w)'
         /\ Exists(v)'
         /\ chunked \subseteq chunked'
<1> DEFINE Old == {w \in Corpora : Exists(w)}
<1>1. IsFiniteSet(Old) /\ Cardinality(Old) = Newest /\ v \notin Old /\ Newest \in Nat
  <2>1. IsFiniteSet(Old)
    BY VersionsAssumption, FS_Subset
  <2> QED BY <2>1, FS_CardinalityType DEF Insert, Newest
<1>2. /\ builtAt \in [Corpora -> 0..Newest]
      /\ builtAt' = [builtAt EXCEPT ![v] = Newest + 1]
  BY DEF VersionsTypeOK, Insert
<1>3. builtAt'[v] = Newest + 1 /\ \A w \in Corpora : w # v => builtAt'[w] = builtAt[w]
  BY <1>2
<1>4. {w \in Corpora : Exists(w)'} = Old \cup {v}
  BY <1>1, <1>2, <1>3 DEF Exists
<1>5. Newest' = Newest + 1
  <2>1. Newest' = Cardinality({w \in Corpora : Exists(w)'})
    BY DEF Newest
  <2> QED BY <1>1, <1>4, <2>1, FS_AddElement
<1>6. builtAt' \in [Corpora -> 0..Newest']
  BY <1>1, <1>2, <1>5
<1>7. \A w, x \in Corpora : Exists(w)' /\ builtAt'[w] = builtAt'[x] => w = x
  BY <1>1, <1>2, <1>3 DEF Exists, VersionsTypeOK
<1>8. /\ \A w \in Corpora : Exists(w) => Exists(w)'
      /\ Exists(v)'
  BY <1>1, <1>2, <1>3 DEF Exists
<1>9. chunked' \subseteq {w \in Corpora : Exists(w)'} /\ chunked \subseteq chunked'
  BY <1>4 DEF VersionsTypeOK, Insert
<1>10. active' \in {w \in Corpora : Exists(w)'} \cup {None} /\ corpus' \in Corpora
  BY <1>4 DEF VersionsTypeOK
<1> QED BY <1>6, <1>7, <1>8, <1>9, <1>10 DEF VersionsTypeOK

\* The effects on versions.
LEMMA EffectInv ==
  ASSUME IInv, NEW r \in Runs, BuildInsert(r) \/ Cutover(r) \/ Retire(r)
  PROVE  /\ VersionsTypeOK'
         /\ exec' \in [Runs -> Executor \cup {None}]
         /\ \A q \in Runs : q # r => exec'[q] = exec[q]
         /\ \A v \in Corpora : Exists(v) => Exists(v)'
         /\ UNCHANGED <<doc, runState, steps, built, starter>>
         /\ active' = active /\ active \in chunked => active \in chunked'
         /\ RunInv(r)'
<1> USE DEF IInv
<1>1. TypeOK /\ RunInv(r) /\ VersionsTypeOK
  BY DEF TypeOK
<1>2. exec[r] # None /\ exec[r].at \in {"insert", "effect"} /\ Knows(r) /\ exec[r] \in Executor
  BY <1>1, Fields DEF BuildInsert, Cutover, Retire, At, RunInv
<1>3. UNCHANGED <<doc, runState, steps, built, starter>>
  BY DEF BuildInsert, Cutover, Retire
<1> DEFINE Good == /\ VersionsTypeOK'
                   /\ exec' \in [Runs -> Executor \cup {None}]
                   /\ \A q \in Runs : q # r => exec'[q] = exec[q]
                   /\ \A v \in Corpora : Exists(v) => Exists(v)'
                   /\ UNCHANGED <<doc, runState, steps, built, starter>>
                   /\ active' = active /\ active \in chunked => active \in chunked'
                   /\ RunInv(r)'
<1>4. ASSUME NEW place \in {"commit", "fail"}, Goto(r, place),
             place = "commit" =>
               Unit(r) # "buildIndex" \/ (Exists(exec[r].result)' /\ exec[r].result \in Corpora),
             VersionsTypeOK', \A v \in Corpora : Exists(v) => Exists(v)',
             active' = active /\ active \in chunked => active \in chunked'
      PROVE  Good
  <2>1. /\ exec' \in [Runs -> Executor \cup {None}]
        /\ \A q \in Runs : q # r => exec'[q] = exec[q]
        /\ exec'[r].at = place /\ exec'[r].pos = exec[r].pos /\ exec'[r].seen = exec[r].seen
        /\ exec'[r].doc = exec[r].doc /\ exec'[r].result = exec[r].result
    BY <1>1, <1>2, <1>4, GotoStep DEF Places
  <2>2. Knows(r)'
    BY <1>2, <1>3, <1>4, <2>1 DEF Knows, Resting, StateOf, Pos, Unit, Ended, Ahead, InEffect, Exists
  <2>3. built[r] \in Corpora \cup {None}
    BY <1>1, Fields
  <2>4. RunInv(r)'
    BY <1>1, <1>3, <1>4, <2>2, <2>3 DEF RunInv, OrderOf, ExplainedOf, StateOf, Resting, Knows
  <2> QED BY <1>3, <1>4, <2>1, <2>4
<1> HIDE DEF Good
<1>5. CASE BuildInsert(r)
  <2>1. exec[r].result \in Corpora /\ UNCHANGED <<corpus, active>>
    BY <1>2, <1>5 DEF BuildInsert, At, Knows
  <2>2. ASSUME Insert(exec[r].result), NEW place \in {"commit", "fail"}, Goto(r, place)
        PROVE  Good
    <3>1. /\ VersionsTypeOK' /\ \A w \in Corpora : Exists(w) => Exists(w)'
          /\ builtAt'[exec[r].result] # 0 /\ chunked \subseteq chunked'
      BY <1>1, <2>1, <2>2, InsertType DEF Exists
    <3>2. exec'[r].result = exec[r].result
      BY <1>1, <1>2, <2>2, GotoStep DEF Places
    <3>3. Exists(exec[r].result)'
      BY <3>1, <3>2 DEF Exists
    <3>4. active' = active /\ active \in chunked => active \in chunked'
      BY <3>1
    <3>5. VersionsTypeOK' /\ \A w \in Corpora : Exists(w) => Exists(w)'
      BY <3>1
    <3> QED BY <1>4, <2>1, <2>2, <3>3, <3>4, <3>5
  <2>3. ASSUME Exists(exec[r].result), Goto(r, "fail"), UNCHANGED <<builtAt, chunked>>
        PROVE  Good
    <3>1. VersionsTypeOK' /\ \A v \in Corpora : Exists(v) => Exists(v)'
      BY <1>1, <2>1, <2>3 DEF VersionsTypeOK, Exists, Newest
    <3>2. PICK place \in {"commit", "fail"} : Goto(r, place) /\ place # "commit"
      BY <2>3
    <3>3. active' = active /\ active \in chunked => active \in chunked'
      BY <2>3
    <3> QED BY <1>4, <3>1, <3>2, <3>3
  <2>4. Good
    BY <1>5, <2>2, <2>3 DEF BuildInsert
  <2> QED BY <2>4 DEF Good
<1>6. CASE Cutover(r)
  <2>1. UNCHANGED <<corpus, builtAt, chunked>> /\ Unit(r) # "buildIndex"
    BY <1>6 DEF Cutover
  <2>2. active' = active \/ (built[r] # None /\ active' = built[r])
    BY <1>6 DEF Cutover, Activate
  <2>3. built[r] # None => built[r] \in {v \in Corpora : Exists(v)}
    BY <1>1, Fields DEF RunInv
  <2>4. VersionsTypeOK' /\ \A v \in Corpora : Exists(v) => Exists(v)'
    BY <1>1, <2>1, <2>2, <2>3 DEF VersionsTypeOK, Exists, Newest
  <2>5. PICK place \in {"commit", "fail"} : Goto(r, place)
    BY <1>6 DEF Cutover
  <2>6. Good
    BY <1>4, <2>1, <2>4, <2>5
  <2> QED BY <2>6 DEF Good
<1>7. CASE Retire(r)
  <2>1. UNCHANGED <<corpus, builtAt, active>> /\ Unit(r) # "buildIndex" /\ Goto(r, "commit")
    BY <1>7 DEF Retire
  <2>2. chunked' \subseteq chunked /\ (active \in chunked => active \in chunked')
    BY <1>7 DEF Retire, RetireOld, Retired
  <2>3. VersionsTypeOK' /\ \A v \in Corpora : Exists(v) => Exists(v)'
    BY <1>1, <2>1, <2>2 DEF VersionsTypeOK, Exists, Newest
  <2>4. Good
    BY <1>4, <2>1, <2>2, <2>3
  <2> QED BY <2>4 DEF Good
<1> QED BY <1>5, <1>6, <1>7

\* A new run has its whole plan ahead of it.
LEMMA StartInv ==
  ASSUME IInv, NEW r \in Runs, Start(r)
  PROVE  /\ steps' \in [Runs -> Seq(StepRow)]
         /\ \A q \in Runs : q # r => steps'[q] = steps[q] /\ runState'[q] = runState[q]
                                       /\ starter'[q] = starter[q]
         /\ runState' \in [Runs -> RunState] /\ starter' \in [Runs -> Docs \cup {None}]
         /\ steps[r] = <<>>
         /\ RunInv(r)'
<1> USE DEF IInv
<1>1. TypeOK /\ RunInv(r)
  OBVIOUS
<1>2. doc \in Docs /\ doc.steps \in Seq(StepName) /\ doc # None
  BY <1>1, DocsAssumption DEF TypeOK
<1> DEFINE plan == [i \in DOMAIN doc.steps |-> [name |-> doc.steps[i], state |-> "pending"]]
<1>3. DOMAIN doc.steps = 1..Len(doc.steps) /\ Len(doc.steps) \in Nat
  BY <1>2
<1>4. plan \in [1..Len(doc.steps) -> StepRow]
  BY <1>2, <1>3 DEF StepRow, StepState
<1>5. plan \in Seq(StepRow)
  BY <1>3, <1>4, SeqDef
<1>6. steps' = [steps EXCEPT ![r] = plan] /\ starter' = [starter EXCEPT ![r] = doc]
      /\ runState' = [runState EXCEPT ![r] = "running"] /\ built' = built /\ exec' = exec
      /\ UNCHANGED versionVars
  BY DEF Start
<1>7. /\ steps' \in [Runs -> Seq(StepRow)]
      /\ \A q \in Runs : q # r => steps'[q] = steps[q] /\ runState'[q] = runState[q]
                                    /\ starter'[q] = starter[q]
      /\ steps'[r] = plan /\ runState'[r] = "running" /\ starter'[r] = doc
      /\ runState' \in [Runs -> RunState] /\ starter' \in [Runs -> Docs \cup {None}]
  BY <1>1, <1>2, <1>5, <1>6 DEF TypeOK, StepRow, RunState
<1>8. \A i \in DOMAIN steps'[r] : steps'[r][i].state = "pending"
  BY <1>7
<1>9. runState[r] = "none" /\ steps[r] = <<>> /\ exec[r] = None
  BY <1>1 DEF Start, RunInv
<1> HIDE DEF plan
<1>10. RunInv(r)'
  BY <1>1, <1>2, <1>6, <1>7, <1>8, <1>9
    DEF RunInv, OrderOf, ExplainedOf, StateOf, Exists, versionVars
<1> QED BY <1>7, <1>9, <1>10

\* Whoever approves knows nothing of the run yet.
LEMMA ApproveInv ==
  ASSUME IInv, NEW r \in Runs, NEW i \in DOMAIN steps[r], Approve(r, i)
  PROVE  /\ exec' \in [Runs -> Executor \cup {None}]
         /\ \A q \in Runs : q # r => exec'[q] = exec[q]
         /\ RunInv(r)'
<1> USE DEF IInv
<1>1. TypeOK /\ RunInv(r)
  OBVIOUS
<1>2. i \in Nat
  <2>1. steps[r] \in Seq(StepRow)
    BY <1>1, Fields
  <2> QED BY <2>1
<1>3. NewExecutor("check", doc, i) \in Executor
  BY <1>1, <1>2 DEF TypeOK, NewExecutor, Executor, Places
<1>4. /\ exec' \in [Runs -> Executor \cup {None}]
      /\ \A q \in Runs : q # r => exec'[q] = exec[q]
      /\ exec'[r] = NewExecutor("check", doc, i)
  BY <1>1, <1>3 DEF Approve, TypeOK
<1>5. exec'[r].at = "check" /\ exec'[r].pos = 1
  BY <1>4 DEF NewExecutor
<1>6. runState[r] # "none" /\ UNCHANGED <<versionVars, runState, steps, built, starter>>
  BY DEF Approve
<1>7. Knows(r)'
  BY <1>5, <1>6 DEF Knows, Pos, Ahead, InEffect
<1>8. RunInv(r)'
  BY <1>1, <1>6, <1>7 DEF RunInv, OrderOf, ExplainedOf, StateOf, Resting, Exists, versionVars
<1> QED BY <1>4, <1>8

LEMMA InitInv == Init => IInv
<1> SUFFICES ASSUME Init PROVE IInv
  OBVIOUS
<1>1. \A v \in Corpora : ~Exists(v)
  BY DEF Init, VersionsInit, Exists
<1>2. {v \in Corpora : Exists(v)} = {}
  BY <1>1
<1>3. Newest = 0
  BY <1>2, FS_EmptySet DEF Newest
<1>4. VersionsTypeOK
  BY <1>1, <1>3 DEF Init, VersionsInit, VersionsTypeOK
<1>5. <<>> \in Seq(StepRow)
  OBVIOUS
<1>6. TypeOK
  BY <1>4, <1>5 DEF Init, TypeOK, RunState, StepRow
<1>7. \A r \in Runs : RunInv(r)
  BY DEF Init, RunInv, OrderOf, ExplainedOf
<1> QED BY <1>6, <1>7 DEF IInv

\* What a step keeps of the rows, and of the active version's chunks.
Kept == /\ \A r \in Runs : \A i \in DOMAIN steps[r] :
             StateOf(r, i) = "done" => i \in DOMAIN steps'[r] /\ steps'[r][i] = steps[r][i]
        /\ active' = active /\ active \in chunked => active \in chunked'

\* The others' part of the invariant, when one run makes a step.
LEMMA Others ==
  ASSUME IInv, NEW r \in Runs,
         \A q \in Runs : q # r => /\ runState'[q] = runState[q] /\ steps'[q] = steps[q]
                                  /\ built'[q] = built[q] /\ starter'[q] = starter[q]
                                  /\ exec'[q] = exec[q],
         \A v \in Corpora : Exists(v) => Exists(v)',
         RunInv(r)'
  PROVE  \A q \in Runs : RunInv(q)'
<1> SUFFICES ASSUME NEW q \in Runs, q # r PROVE RunInv(q)'
  OBVIOUS
<1>1. RunInv(q) /\ built[q] \in Corpora \cup {None}
  BY Fields DEF IInv
<1> QED BY <1>1, Frame

\* A step of one run's start, approval or executor.
RunStep(r) ==
  \/ Start(r) \/ StartLocks(r) \/ CheckApproval(r) \/ MarkRunning(r)
  \/ Execute(r) \/ Interrupt(r)
  \/ \E i \in DOMAIN steps[r] : Approve(r, i)

LEMMA RunStepInv ==
  ASSUME IInv, NEW r \in Runs, RunStep(r)
  PROVE  IInv' /\ Kept
<1>1. TypeOK /\ VersionsTypeOK
  BY DEF IInv, TypeOK
<1> DEFINE Goal == IInv' /\ Kept
<1>2. CASE \/ CheckApproval(r) \/ MarkRunning(r) \/ ReadSteps(r) \/ SkipDone(r)
           \/ MarkAwaiting(r) \/ MarkFailed(r) \/ MarkDone(r) \/ Interrupt(r)
           \/ StartLocks(r) \/ Resolve(r) \/ Verify(r) \/ EffectFails(r) \/ BuildIndex(r)
  <2>1. RunInv(r)'
    BY <1>2, QuietInv
  <2>2. /\ exec' \in [Runs -> Executor \cup {None}]
        /\ runState' \in [Runs -> RunState]
        /\ starter' \in [Runs -> Docs \cup {None}]
        /\ \A q \in Runs : q # r => exec'[q] = exec[q] /\ runState'[q] = runState[q]
                                      /\ starter'[q] = starter[q]
        /\ UNCHANGED <<versionVars, doc, steps, built>>
    BY <1>2, QuietStep
  <2>3. \A v \in Corpora : Exists(v) => Exists(v)'
    BY <2>2 DEF Exists, versionVars
  <2>4. TypeOK'
    BY <1>1, <2>2 DEF TypeOK, VersionsTypeOK, versionVars, Exists, Newest
  <2>5. \A q \in Runs : RunInv(q)'
    BY <2>1, <2>2, <2>3, Others
  <2>6. Kept
    BY <2>2 DEF Kept, versionVars
  <2> QED BY <2>4, <2>5, <2>6 DEF IInv
<1>3. CASE StopAtGate(r) \/ StartStep(r) \/ CommitStep(r) \/ FailStep(r)
  <2>1. /\ steps' \in [Runs -> Seq(StepRow)]
        /\ exec' \in [Runs -> Executor \cup {None}]
        /\ built' \in [Runs -> Corpora \cup {None}]
        /\ \A q \in Runs : q # r => /\ steps'[q] = steps[q] /\ exec'[q] = exec[q]
                                    /\ built'[q] = built[q]
        /\ UNCHANGED <<versionVars, doc, runState, starter>>
        /\ \A i \in DOMAIN steps[r] :
             StateOf(r, i) = "done" => i \in DOMAIN steps'[r] /\ steps'[r][i] = steps[r][i]
        /\ RunInv(r)'
    BY <1>3, WriteInv
  <2>2. \A v \in Corpora : Exists(v) => Exists(v)'
    BY <2>1 DEF Exists, versionVars
  <2>3. TypeOK'
    BY <1>1, <2>1 DEF TypeOK, VersionsTypeOK, versionVars, Exists, Newest, StepRow
  <2>4. \A q \in Runs : RunInv(q)'
    BY <2>1, <2>2, Others
  <2>5. Kept
    BY <2>1 DEF Kept, versionVars
  <2> QED BY <2>3, <2>4, <2>5 DEF IInv
<1>4. CASE BuildInsert(r) \/ Cutover(r) \/ Retire(r)
  <2>1. /\ VersionsTypeOK'
        /\ exec' \in [Runs -> Executor \cup {None}]
        /\ \A q \in Runs : q # r => exec'[q] = exec[q]
        /\ \A v \in Corpora : Exists(v) => Exists(v)'
        /\ UNCHANGED <<doc, runState, steps, built, starter>>
        /\ active' = active /\ active \in chunked => active \in chunked'
        /\ RunInv(r)'
    BY <1>4, EffectInv
  <2>2. TypeOK'
    BY <1>1, <2>1 DEF TypeOK
  <2>3. \A q \in Runs : RunInv(q)'
    BY <2>1, Others
  <2>4. Kept
    BY <2>1 DEF Kept
  <2> QED BY <2>2, <2>3, <2>4 DEF IInv
<1>5. CASE Start(r)
  <2>1. /\ steps' \in [Runs -> Seq(StepRow)]
        /\ \A q \in Runs : q # r => steps'[q] = steps[q] /\ runState'[q] = runState[q]
                                      /\ starter'[q] = starter[q]
        /\ runState' \in [Runs -> RunState] /\ starter' \in [Runs -> Docs \cup {None}]
        /\ steps[r] = <<>>
        /\ RunInv(r)'
    BY <1>5, StartInv
  <2>2. UNCHANGED <<versionVars, doc, built, exec>>
    BY <1>5 DEF Start
  <2>3. \A v \in Corpora : Exists(v) => Exists(v)'
    BY <2>2 DEF Exists, versionVars
  <2>4. TypeOK'
    BY <1>1, <2>1, <2>2 DEF TypeOK, VersionsTypeOK, versionVars, Exists, Newest, StepRow
  <2>5. \A q \in Runs : RunInv(q)'
    BY <2>1, <2>2, <2>3, Others
  <2>6. Kept
    BY <2>1, <2>2 DEF Kept, versionVars
  <2> QED BY <2>4, <2>5, <2>6 DEF IInv
<1>6. ASSUME NEW i \in DOMAIN steps[r], Approve(r, i) PROVE Goal
  <2>1. /\ exec' \in [Runs -> Executor \cup {None}]
        /\ \A q \in Runs : q # r => exec'[q] = exec[q]
        /\ RunInv(r)'
    BY <1>6, ApproveInv
  <2>2. UNCHANGED <<versionVars, doc, runState, steps, built, starter>>
    BY <1>6 DEF Approve
  <2>3. \A v \in Corpora : Exists(v) => Exists(v)'
    BY <2>2 DEF Exists, versionVars
  <2>4. TypeOK'
    BY <1>1, <2>1, <2>2 DEF TypeOK, VersionsTypeOK, versionVars, Exists, Newest
  <2>5. \A q \in Runs : RunInv(q)'
    BY <2>1, <2>2, <2>3, Others
  <2>6. Kept
    BY <2>2 DEF Kept, versionVars
  <2> QED BY <2>4, <2>5, <2>6 DEF IInv
<1> QED BY <1>2, <1>3, <1>4, <1>5, <1>6 DEF RunStep, Execute, Effect

\* Steps that touch no run: a document applied again, a corpus that changes.
LEMMA ElseInv ==
  ASSUME IInv,
         \/ \E d \in Docs : Apply(d)
         \/ \E c \in Corpora : Ingest(c) /\ UNCHANGED <<doc, runVars>>
         \/ UNCHANGED vars
  PROVE  IInv' /\ Kept
<1>1. UNCHANGED <<builtAt, chunked, active, runVars>> /\ doc' \in Docs /\ corpus' \in Corpora
  BY DEF IInv, TypeOK, VersionsTypeOK, Apply, Ingest, vars, versionVars, runVars
<1>2. \A v \in Corpora : Exists(v)' = Exists(v)
  BY <1>1 DEF Exists
<1>3. TypeOK'
  BY <1>1, <1>2 DEF IInv, TypeOK, VersionsTypeOK, runVars, Exists, Newest
<1>4. \A r \in Runs : RunInv(r)'
  <2> SUFFICES ASSUME NEW r \in Runs PROVE RunInv(r)'
    OBVIOUS
  <2>1. RunInv(r) /\ built[r] \in Corpora \cup {None}
    BY Fields DEF IInv
  <2> QED BY <1>1, <1>2, <2>1, Frame DEF runVars
<1>5. Kept
  BY <1>1 DEF Kept, runVars
<1> QED BY <1>3, <1>4, <1>5 DEF IInv

LEMMA NextInv == IInv /\ [Next]_vars => IInv' /\ Kept
<1> SUFFICES ASSUME IInv, [Next]_vars PROVE IInv' /\ Kept
  OBVIOUS
<1>1. ASSUME NEW r \in Runs, RunStep(r) PROVE IInv' /\ Kept
  BY <1>1, RunStepInv
<1>2. CASE \/ \E d \in Docs : Apply(d)
           \/ \E c \in Corpora : Ingest(c) /\ UNCHANGED <<doc, runVars>>
           \/ UNCHANGED vars
  BY <1>2, ElseInv
<1> QED BY <1>1, <1>2 DEF Next, RunStep

LEMMA Invariance == Spec => []IInv
<1>1. IInv /\ [Next]_vars => IInv'
  BY NextInv
<1> QED BY <1>1, InitInv, PTL DEF Spec

\* The tables and the executors are well formed: every version has one row,
\* with an age of its own, and only versions with a row have chunks or answer
\* queries (collections.rs).
THEOREM RunbookTypeOK == Spec => []TypeOK
<1>1. IInv => TypeOK
  BY DEF IInv
<1> QED BY <1>1, Invariance, PTL

\* A run does its steps in the order of its plan, whatever documents are
\* applied under it and however often it is approved or dies (execute).
THEOREM StepsInOrder == Spec => []InOrder
<1>1. IInv => InOrder
  BY DEF IInv, RunInv, OrderOf, StateOf, InOrder
<1> QED BY <1>1, Invariance, PTL

\* An effect happens under the checkpoint of its own step (execute, set_step).
THEOREM EffectsAreCheckpointed == Spec => []EffectIsCheckpointed
<1>1. IInv => EffectIsCheckpointed
  BY DEF IInv, RunInv, Knows, EffectIsCheckpointed
<1> QED BY <1>1, Invariance, PTL

\* A run's state, written apart from its steps, is contradicted by none of
\* them (set_run_state).
THEOREM StateIsExplained == Spec => []RunStateExplained
<1>1. ASSUME IInv, NEW r \in Runs
      PROVE  LET States == {steps[r][i].state : i \in DOMAIN steps[r]}
             IN  /\ runState[r] = "failed" => "failed" \in States
                 /\ runState[r] = "awaiting_approval" => "awaiting_approval" \in States
                 /\ runState[r] = "done" => States \cap {"running", "failed"} = {}
  <2>1. ExplainedOf(r)
    BY <1>1 DEF IInv, RunInv
  <2> QED BY <2>1 DEF ExplainedOf, Resting, StateOf
<1>2. IInv => RunStateExplained
  BY <1>1 DEF RunStateExplained
<1> QED BY <1>2, Invariance, PTL

\* What a run has done is neither undone nor done again (set_step, execute).
THEOREM DoneIsFinal == Spec => DoneStays
<1>1. IInv /\ [Next]_vars =>
        [\A r \in Runs : \A i \in DOMAIN steps[r] :
           steps[r][i].state = "done" => i \in DOMAIN steps'[r] /\ steps'[r][i] = steps[r][i]]_vars
  BY NextInv DEF Kept, StateOf
<1> QED BY <1>1, Invariance, PTL DEF Spec, DoneStays

\* Retirement spares what answers queries (retire_old_collection).
THEOREM ServedIsSpared == Spec => ServedKeepsChunks
<1>1. IInv /\ [Next]_vars => [active' = active /\ active \in chunked => active \in chunked']_vars
  BY NextInv DEF Kept
<1> QED BY <1>1, Invariance, PTL DEF Spec, ServedKeepsChunks

\* In every document a cutover comes after a verification.
VerifiesFirst ==
  \A d \in Docs : \A j \in DOMAIN d.steps :
    d.steps[j] = "cutover" => \E i \in 1..(j - 1) : d.steps[i] = "verify"

\* So it does in every plan, whatever documents are applied after its start.
PlanVerifies(r) ==
  \A j \in DOMAIN steps[r] :
    steps[r][j].name = "cutover" => \E i \in 1..(j - 1) : steps[r][i].name = "verify"

\* A plan keeps its steps: a checkpoint only changes the state of one.
SameNames(r) ==
  /\ DOMAIN steps'[r] = DOMAIN steps[r]
  /\ \A i \in DOMAIN steps[r] : steps'[r][i].name = steps[r][i].name

LEMMA CheckpointKeepsNames ==
  ASSUME IInv, NEW r \in Runs, NEW state \in StepState, NEW next, SetStep(r, state, next)
  PROVE  \A q \in Runs : SameNames(q)
<1>1. CASE UNCHANGED steps
  BY <1>1 DEF SameNames
<1>2. CASE Identity(r)
  <2>1. steps' = Rewritten(r, Pos(r), state) /\ Pos(r) \in DOMAIN steps[r]
    BY <1>2 DEF SetStep, Identity, Rewritten
  <2>2. /\ \A q \in Runs : q # r => steps'[q] = steps[q]
        /\ DOMAIN steps'[r] = DOMAIN steps[r]
        /\ steps'[r][Pos(r)] = [name |-> steps[r][Pos(r)].name, state |-> state]
        /\ \A i \in DOMAIN steps[r] : i # Pos(r) => steps'[r][i] = steps[r][i]
    BY <2>1, OneRow DEF IInv
  <2>3. steps'[r][Pos(r)].name = steps[r][Pos(r)].name
    BY <2>2
  <2> QED BY <2>2, <2>3 DEF SameNames
<1> QED BY <1>1, <1>2 DEF SetStep

LEMMA NamesStep ==
  ASSUME IInv, [Next]_vars
  PROVE  \A q \in Runs : SameNames(q) \/ Start(q)
<1>1. CASE UNCHANGED steps
  BY <1>1 DEF SameNames
<1>2. ASSUME NEW r \in Runs, StopAtGate(r) \/ StartStep(r) \/ CommitStep(r) \/ FailStep(r)
      PROVE  \A q \in Runs : SameNames(q)
  <2>1. {"awaiting_approval", "running", "done", "failed"} \subseteq StepState
    BY DEF StepState
  <2>2. UNCHANGED steps \/ \E state \in StepState : \E next : SetStep(r, state, next)
    BY <1>2, <2>1 DEF StopAtGate, StartStep, CommitStep, FailStep
  <2> QED BY <1>1, <2>2, CheckpointKeepsNames DEF SameNames
<1>3. ASSUME NEW r \in Runs, Start(r)
      PROVE  \A q \in Runs : SameNames(q) \/ Start(q)
  BY <1>3, StartInv DEF SameNames
<1>4. ASSUME NEW r \in Runs, RunStep(r)
      PROVE  \/ UNCHANGED steps \/ Start(r)
             \/ StopAtGate(r) \/ StartStep(r) \/ CommitStep(r) \/ FailStep(r)
  BY <1>4 DEF RunStep, StartLocks, CheckApproval, MarkRunning, Execute, Interrupt, Approve, ReadSteps,
              SkipDone, MarkAwaiting, Effect, Resolve, BuildIndex, BuildInsert, Verify, Cutover, Retire,
              EffectFails, MarkFailed, MarkDone
<1>5. (\E r \in Runs : RunStep(r)) \/ UNCHANGED steps
  BY DEF Next, RunStep, Apply, runVars, vars
<1> QED BY <1>1, <1>2, <1>3, <1>4, <1>5

\* The version a run has built stays the one it has built.
LEMMA BuiltStays ==
  ASSUME IInv, [Next]_vars, NEW r \in Runs, built[r] # None
  PROVE  built'[r] = built[r]
<1>1. built \in [Runs -> Corpora \cup {None}]
  BY DEF IInv, TypeOK
<1>2. ASSUME NEW q \in Runs, CommitStep(q)
      PROVE  built'[r] = built[r]
  BY <1>1, <1>2 DEF CommitStep
<1>3. (\E q \in Runs : CommitStep(q)) \/ UNCHANGED built
  BY DEF Next, Apply, Start, StartLocks, CheckApproval, MarkRunning, Execute, Interrupt, Approve, ReadSteps,
         SkipDone, StopAtGate, StartStep, MarkAwaiting, Effect, Resolve, BuildIndex, BuildInsert, Verify,
         Cutover, Retire, EffectFails, FailStep, MarkFailed, MarkDone, runVars, vars
<1> QED BY <1>2, <1>3

\* Only a cutover activates, and it activates what its run has built.
LEMMA ActiveMoves ==
  ASSUME [Next]_vars
  PROVE  active' = active \/ \E r \in Runs : Cutover(r) /\ active' = built[r]
<1>1. ASSUME NEW r \in Runs, Cutover(r)
      PROVE  active' = active \/ active' = built[r]
  BY <1>1 DEF Cutover, Activate
<1>2. (\E r \in Runs : Cutover(r)) \/ UNCHANGED active
  BY DEF Next, Apply, Ingest, Start, StartLocks, CheckApproval, MarkRunning, Execute, Interrupt, Approve,
         ReadSteps, SkipDone, StopAtGate, StartStep, MarkAwaiting, Effect, Resolve, BuildIndex, BuildInsert,
         Verify, Retire, RetireOld, EffectFails, CommitStep, FailStep, MarkFailed, MarkDone, versionVars, vars
<1> QED BY <1>1, <1>2

VerifiedInv == ActiveWasVerified /\ \A r \in Runs : PlanVerifies(r)

LEMMA VerifiedStep ==
  ASSUME VerifiesFirst, IInv, VerifiedInv, [Next]_vars
  PROVE  VerifiedInv'
<1>1. Kept
  BY NextInv
<1>2. ASSUME NEW r \in Runs
      PROVE  PlanVerifies(r)'
  <2>1. CASE SameNames(r)
    <3> SUFFICES ASSUME NEW j \in DOMAIN steps[r], steps[r][j].name = "cutover"
                 PROVE  \E i \in 1..(j - 1) : steps'[r][i].name = "verify"
      BY <2>1 DEF PlanVerifies, SameNames
    <3>1. PICK i \in 1..(j - 1) : steps[r][i].name = "verify"
      BY DEF VerifiedInv, PlanVerifies
    <3>2. DOMAIN steps[r] = 1..Len(steps[r]) /\ Len(steps[r]) \in Nat
      BY Fields DEF IInv
    <3>3. i \in DOMAIN steps[r]
      BY <3>2
    <3> QED BY <2>1, <3>1, <3>3 DEF SameNames
  <2>2. CASE Start(r)
    <3> DEFINE plan == [i \in DOMAIN doc.steps |-> [name |-> doc.steps[i], state |-> "pending"]]
    <3>1. steps'[r] = plan
      BY <2>2 DEF Start, IInv, TypeOK
    <3>2. doc \in Docs /\ DOMAIN doc.steps = 1..Len(doc.steps) /\ Len(doc.steps) \in Nat
      BY DocsAssumption DEF IInv, TypeOK
    <3>3. \A i \in DOMAIN doc.steps : plan[i].name = doc.steps[i]
      OBVIOUS
    <3>4. ASSUME NEW j \in DOMAIN doc.steps, doc.steps[j] = "cutover"
          PROVE  \E i \in 1..(j - 1) : i \in DOMAIN doc.steps /\ doc.steps[i] = "verify"
      BY <3>2, <3>4 DEF VerifiesFirst
    <3>5. \A j \in DOMAIN plan : plan[j].name = "cutover" => \E i \in 1..(j - 1) : plan[i].name = "verify"
      BY <3>3, <3>4
    <3> HIDE DEF plan
    <3> QED BY <3>1, <3>5 DEF PlanVerifies
  <2> QED BY <2>1, <2>2, NamesStep
<1>3. ActiveWasVerified'
  <2> SUFFICES ASSUME active' # None
               PROVE  \E r \in Runs : built'[r] = active' /\ StepIs(r, "verify", "done")'
    BY DEF ActiveWasVerified, StepIs
  <2>1. CASE active' = active
    <3>1. PICK r \in Runs : built[r] = active /\ StepIs(r, "verify", "done")
      BY <2>1 DEF VerifiedInv, ActiveWasVerified
    <3>2. built'[r] = active'
      BY <2>1, <3>1, BuiltStays
    <3>3. PICK i \in DOMAIN steps[r] : steps[r][i] = [name |-> "verify", state |-> "done"]
      BY <3>1 DEF StepIs
    <3>4. i \in DOMAIN steps'[r] /\ steps'[r][i] = steps[r][i]
      BY <1>1, <3>3 DEF Kept, StateOf
    <3> QED BY <3>2, <3>3, <3>4 DEF StepIs
  <2>2. ASSUME NEW r \in Runs, Cutover(r), active' = built[r]
        PROVE  built'[r] = active' /\ StepIs(r, "verify", "done")'
    <3>1. /\ exec[r] # None /\ exec[r].at = "effect" /\ Unit(r) = "cutover"
          /\ built' = built /\ steps' = steps
      BY <2>2 DEF Cutover, At
    <3>2. Knows(r) /\ DOMAIN steps[r] = 1..Len(steps[r]) /\ steps[r] \in Seq(StepRow)
      BY <3>1, Fields DEF IInv, RunInv
    <3>3. Pos(r) \in DOMAIN steps[r] /\ steps[r][Pos(r)].name = "cutover"
      BY <3>1, <3>2 DEF Knows, InEffect
    <3>4. PICK i \in 1..(Pos(r) - 1) : steps[r][i].name = "verify"
      BY <3>3 DEF VerifiedInv, PlanVerifies
    <3>5. i \in DOMAIN steps[r] /\ StateOf(r, i) = "done"
      BY <3>1, <3>2, <3>4 DEF Knows, Ahead, InEffect
    <3>6. steps[r][i] = [name |-> "verify", state |-> "done"]
      <4>1. steps[r][i] \in StepRow
        BY <3>2, <3>5
      <4> QED BY <3>4, <3>5, <4>1 DEF StepRow, StateOf
    <3> QED BY <2>2, <3>1, <3>5, <3>6 DEF StepIs
  <2> QED BY <2>1, <2>2, ActiveMoves
<1> QED BY <1>2, <1>3 DEF VerifiedInv

\* If every document verifies before it cuts over, the version that answers
\* queries is one a run built and verified before its own cutover, for any
\* number of runs, and documents applied while they wait at their gates.
THEOREM ActiveIsVerified == VerifiesFirst => (Spec => []ActiveWasVerified)
<1> SUFFICES ASSUME VerifiesFirst PROVE Spec => []ActiveWasVerified
  OBVIOUS
<1>1. Init => VerifiedInv
  BY DEF Init, VersionsInit, VerifiedInv, ActiveWasVerified, PlanVerifies
<1>2. IInv /\ VerifiedInv /\ [Next]_vars => VerifiedInv'
  BY VerifiedStep
<1>3. VerifiedInv => ActiveWasVerified
  BY DEF VerifiedInv
<1> QED BY <1>1, <1>2, <1>3, Invariance, PTL DEF Spec
=============================================================================
