----------------------------- MODULE RunbookRun -----------------------------
(***************************************************************************)
(* Runs of one runbook over one collection.  A run is a row with a state   *)
(* and a plan of step rows; its executor holds the run's lock, walks the   *)
(* runbook's document as it was loaded, and checkpoints every step before  *)
(* and after its effect.  A gate stops the run until a person approves.    *)
(* The document may be applied again at any time, under the same name and  *)
(* version; several runs may be under way; an executor may stop anywhere.  *)
(***************************************************************************)
EXTENDS IndexVersions, Sequences

CONSTANTS Runs, Docs

StepName == {"resolveSources", "buildIndex", "verify", "cutover", "retireOld"}
StepState == {"pending", "running", "awaiting_approval", "done", "failed"}
RunState == {"none", "running", "awaiting_approval", "done", "failed"}

ASSUME DocsAssumption ==
  /\ Docs \subseteq [steps : Seq(StepName), approval : BOOLEAN, keep : Nat]
  /\ Docs # {}
  /\ None \notin Docs

VARIABLES doc,        \* the runbook's document
          runState,   \* state of every run's row
          steps,      \* its step rows
          built,      \* detail of its buildIndex step: the version
          starter,    \* the document of a start that is not locked yet
          exec        \* the holder of the run's lock

runVars == <<runState, steps, built, starter, exec>>
vars == <<versionVars, doc, runVars>>

Places == {"check", "mark", "read", "unit", "effect", "insert", "commit",
           "fail", "failed", "gate"}
InEffect == {"effect", "insert", "commit", "fail"}

(* pos, seen, result: the ordinal at hand, the step states as read once at *)
(* the start, the version a build yields.                                  *)
Executor == [at : Places, doc : Docs, approved : Nat, pos : Nat,
             seen : Seq(StepState), result : Corpora \cup {None}]

NewExecutor(place, d, approved) ==
  [at |-> place, doc |-> d, approved |-> approved, pos |-> 1, seen |-> <<>>,
   result |-> None]

TypeOK ==
  /\ VersionsTypeOK
  /\ doc \in Docs
  /\ runState \in [Runs -> RunState]
  /\ steps \in [Runs -> Seq([name : StepName, state : StepState])]
  /\ built \in [Runs -> Corpora \cup {None}]
  /\ starter \in [Runs -> Docs \cup {None}]
  /\ exec \in [Runs -> Executor \cup {None}]

Init ==
  /\ VersionsInit
  /\ doc \in Docs
  /\ runState = [r \in Runs |-> "none"]
  /\ steps = [r \in Runs |-> <<>>]
  /\ built = [r \in Runs |-> None]
  /\ starter = [r \in Runs |-> None]
  /\ exec = [r \in Runs |-> None]

-----------------------------------------------------------------------------
At(r, place) == exec[r] # None /\ exec[r].at = place
Goto(r, place) == exec' = [exec EXCEPT ![r].at = place]
Leave(r) == exec' = [exec EXCEPT ![r] = None]

Pos(r) == exec[r].pos
Ended(r) == Pos(r) > Len(exec[r].doc.steps)
Unit(r) == exec[r].doc.steps[Pos(r)]
Gated(r) == Unit(r) = "cutover" /\ exec[r].doc.approval
Approved(r) == exec[r].approved = Pos(r)

\* Mutant: an executor starts over.
SeenNothing(r) == "pending"

Seen(r) == IF Pos(r) \in DOMAIN exec[r].seen THEN exec[r].seen[Pos(r)] ELSE "pending"

(* A checkpoint names ordinal and step; the row must have both. *)
Identity(r) == Pos(r) \in DOMAIN steps[r] /\ steps[r][Pos(r)].name = Unit(r)

(* set_step: the checkpoint (with its ledger event) commits and the        *)
(* executor goes on, or there is no such row and it ends with an error.    *)
SetStep(r, state, next) ==
  \/ /\ Identity(r)
     /\ steps' = [steps EXCEPT ![r][Pos(r)].state = state]
     /\ exec' = [exec EXCEPT ![r] = next]
  \/ /\ ~Identity(r)
     /\ UNCHANGED steps
     /\ Leave(r)

-----------------------------------------------------------------------------
(* op_run_runbook: run and plan in one transaction, then the lock. *)
Start(r) ==
  /\ runState[r] = "none"
  /\ runState' = [runState EXCEPT ![r] = "running"]
  /\ steps' = [steps EXCEPT ![r] =
       [i \in DOMAIN doc.steps |-> [name |-> doc.steps[i], state |-> "pending"]]]
  /\ starter' = [starter EXCEPT ![r] = doc]
  /\ UNCHANGED <<versionVars, doc, built, exec>>

(* The lock is tried once: a start that finds it held, or is lost, leaves  *)
(* a run that never runs.                                                  *)
StartLocks(r) ==
  /\ starter[r] # None
  /\ starter' = [starter EXCEPT ![r] = None]
  /\ \/ exec[r] = None /\ exec' = [exec EXCEPT ![r] = NewExecutor("read", starter[r], 0)]
     \/ UNCHANGED exec
  /\ UNCHANGED <<versionVars, doc, runState, steps, built>>

(* op_approve_step takes the lock before it looks at the step. *)
Approve(r, i) ==
  /\ runState[r] # "none"
  /\ exec[r] = None
  /\ exec' = [exec EXCEPT ![r] = NewExecutor("check", doc, i)]
  /\ UNCHANGED <<versionVars, doc, runState, steps, built, starter>>

Awaiting(r, i) == i \in DOMAIN steps[r] /\ steps[r][i].state = "awaiting_approval"

(* The document is the current one, not the one the run started with. *)
CheckApproval(r) ==
  /\ At(r, "check")
  /\ IF Awaiting(r, exec[r].approved)
       THEN exec' = [exec EXCEPT ![r].at = "mark", ![r].doc = doc]
       ELSE Leave(r)
  /\ UNCHANGED <<versionVars, doc, runState, steps, built, starter>>

\* Mutant: the run's row keeps saying that it waits.
MarkNothing(r) ==
  /\ At(r, "mark")
  /\ Goto(r, "read")
  /\ UNCHANGED <<versionVars, doc, runState, steps, built, starter>>

MarkRunning(r) ==
  /\ At(r, "mark")
  /\ Goto(r, "read")
  /\ runState' = [runState EXCEPT ![r] = "running"]
  /\ UNCHANGED <<versionVars, doc, steps, built, starter>>

-----------------------------------------------------------------------------
(* execute *)

ReadSteps(r) ==
  /\ At(r, "read")
  /\ exec' = [exec EXCEPT ![r].at = "unit",
                          ![r].seen = [i \in DOMAIN steps[r] |-> steps[r][i].state]]
  /\ UNCHANGED <<versionVars, doc, runState, steps, built, starter>>

SkipDone(r) ==
  /\ At(r, "unit") /\ ~Ended(r)
  /\ Seen(r) = "done"
  /\ exec' = [exec EXCEPT ![r].pos = @ + 1]
  /\ UNCHANGED <<versionVars, doc, runState, steps, built, starter>>

(* A gate that is not approved.  One that waits already is left alone; by  *)
(* InOrder there is none but the step that was approved.                   *)
StopAtGate(r) ==
  /\ At(r, "unit") /\ ~Ended(r)
  /\ ~Approved(r) /\ Seen(r) # "done"
  /\ Gated(r) \/ Seen(r) = "awaiting_approval"
  /\ IF Seen(r) = "awaiting_approval" THEN Leave(r) /\ UNCHANGED steps
     ELSE SetStep(r, "awaiting_approval", [exec[r] EXCEPT !.at = "gate"])
  /\ UNCHANGED <<versionVars, doc, runState, built, starter>>

(* The run's own state is a statement of its own. *)
MarkAwaiting(r) ==
  /\ At(r, "gate")
  /\ runState' = [runState EXCEPT ![r] = "awaiting_approval"]
  /\ Leave(r)
  /\ UNCHANGED <<versionVars, doc, steps, built, starter>>

StartStep(r) ==
  /\ At(r, "unit") /\ ~Ended(r)
  /\ Seen(r) # "done"
  /\ Approved(r) \/ (Seen(r) # "awaiting_approval" /\ ~Gated(r))
  /\ SetStep(r, "running", [exec[r] EXCEPT !.at = "effect"])
  /\ UNCHANGED <<versionVars, doc, runState, built, starter>>

(* sync_collection binds what is there: the corpus is what it is. *)
Resolve(r) ==
  /\ At(r, "effect") /\ Unit(r) = "resolveSources"
  /\ Goto(r, "commit")
  /\ UNCHANGED <<versionVars, doc, runState, steps, built, starter>>

(* A version of this corpus that exists is taken as built. *)
BuildIndex(r) ==
  /\ At(r, "effect") /\ Unit(r) = "buildIndex"
  /\ exec' = [exec EXCEPT ![r].result = corpus,
                          ![r].at = IF Exists(corpus) THEN "commit" ELSE "insert"]
  /\ UNCHANGED <<versionVars, doc, runState, steps, built, starter>>

(* The insert conflicts with another run's, or commits; what follows it    *)
(* may still fail.                                                         *)
BuildInsert(r) ==
  /\ At(r, "insert")
  /\ \/ Insert(exec[r].result) /\ \E place \in {"commit", "fail"} : Goto(r, place)
     \/ Exists(exec[r].result) /\ Goto(r, "fail") /\ UNCHANGED <<builtAt, chunked>>
  /\ UNCHANGED <<corpus, active, doc, runState, steps, built, starter>>

(* Without a version to verify, or below to cut over to, the executor ends *)
(* with an error, as in Interrupt.                                         *)
Verify(r) ==
  /\ At(r, "effect") /\ Unit(r) = "verify"
  /\ built[r] # None
  /\ Goto(r, IF built[r] \in chunked THEN "commit" ELSE "fail")
  /\ UNCHANGED <<versionVars, doc, runState, steps, built, starter>>

\* Mutant: cutover goes to the version of the present corpus.
CutoverToCorpus(r) ==
  /\ At(r, "effect") /\ Unit(r) = "cutover"
  /\ IF Exists(corpus) THEN Activate(corpus) /\ Goto(r, "commit")
                       ELSE UNCHANGED active /\ Goto(r, "fail")
  /\ UNCHANGED <<corpus, builtAt, chunked, doc, runState, steps, built, starter>>

(* To the version this run built. *)
Cutover(r) ==
  /\ At(r, "effect") /\ Unit(r) = "cutover"
  /\ built[r] # None
  /\ Activate(built[r])
  /\ Goto(r, "commit")
  /\ UNCHANGED <<corpus, builtAt, chunked, doc, runState, steps, built, starter>>

Retire(r) ==
  /\ At(r, "effect") /\ Unit(r) = "retireOld"
  /\ RetireOld(exec[r].doc.keep)
  /\ Goto(r, "commit")
  /\ UNCHANGED <<corpus, builtAt, active, doc, runState, steps, built, starter>>

EffectFails(r) ==
  /\ At(r, "effect") \/ At(r, "insert")
  /\ Goto(r, "fail")
  /\ UNCHANGED <<versionVars, doc, runState, steps, built, starter>>

(* Done, with the detail (of a plan's builds, the first one's is read);    *)
(* then the next unit.                                                     *)
CommitStep(r) ==
  /\ At(r, "commit")
  /\ SetStep(r, "done", [exec[r] EXCEPT !.at = "unit", !.pos = @ + 1])
  /\ built' = [built EXCEPT ![r] =
       IF Identity(r) /\ Unit(r) = "buildIndex" /\ @ = None THEN exec[r].result ELSE @]
  /\ UNCHANGED <<versionVars, doc, runState, starter>>

\* Mutant: the run goes on after a step that failed.
FailStepAndGoOn(r) ==
  /\ At(r, "fail")
  /\ SetStep(r, "failed", [exec[r] EXCEPT !.at = "unit", !.pos = @ + 1])
  /\ UNCHANGED <<versionVars, doc, runState, built, starter>>

FailStep(r) ==
  /\ At(r, "fail")
  /\ SetStep(r, "failed", [exec[r] EXCEPT !.at = "failed"])
  /\ UNCHANGED <<versionVars, doc, runState, built, starter>>

MarkFailed(r) ==
  /\ At(r, "failed")
  /\ runState' = [runState EXCEPT ![r] = "failed"]
  /\ Leave(r)
  /\ UNCHANGED <<versionVars, doc, steps, built, starter>>

MarkDone(r) ==
  /\ At(r, "unit") /\ Ended(r)
  /\ runState' = [runState EXCEPT ![r] = "done"]
  /\ Leave(r)
  /\ UNCHANGED <<versionVars, doc, steps, built, starter>>

(* The process dies or a statement fails: the lock goes with the connection. *)
Interrupt(r) ==
  /\ exec[r] # None
  /\ Leave(r)
  /\ UNCHANGED <<versionVars, doc, runState, steps, built, starter>>

-----------------------------------------------------------------------------
(* op_apply_runbook, of the same name and version. *)
Apply(d) ==
  /\ doc # d
  /\ doc' = d
  /\ UNCHANGED <<versionVars, runVars>>

Effect(r) ==
  \/ Resolve(r) \/ BuildIndex(r) \/ BuildInsert(r) \/ Verify(r)
  \/ Cutover(r) \/ Retire(r) \/ EffectFails(r)

Execute(r) ==
  \/ ReadSteps(r) \/ SkipDone(r) \/ StopAtGate(r) \/ MarkAwaiting(r)
  \/ StartStep(r) \/ Effect(r) \/ CommitStep(r)
  \/ FailStep(r) \/ MarkFailed(r) \/ MarkDone(r)

Next ==
  \/ \E r \in Runs :
       \/ Start(r) \/ StartLocks(r) \/ CheckApproval(r) \/ MarkRunning(r)
       \/ Execute(r) \/ Interrupt(r)
       \/ \E i \in DOMAIN steps[r] : Approve(r, i)
  \/ \E d \in Docs : Apply(d)
  \/ \E c \in Corpora : Ingest(c) /\ UNCHANGED <<doc, runVars>>

Spec == Init /\ [][Next]_vars

-----------------------------------------------------------------------------
(* A run does its steps in the order of its plan: nothing starts, and no   *)
(* gate opens, over a step that is not done -- across crashes, approvals   *)
(* and documents that changed under the run.                               *)
InOrder ==
  \A r \in Runs : \A j \in DOMAIN steps[r] : \A i \in 1..(j - 1) :
    steps[r][j].state # "pending" => steps[r][i].state = "done"

(* An effect happens under the checkpoint of its own step, so a crash in   *)
(* it leaves that step running, and no other.                              *)
EffectIsCheckpointed ==
  \A r \in Runs : exec[r] # None /\ exec[r].at \in InEffect =>
    /\ ~Ended(r)
    /\ Pos(r) \in DOMAIN steps[r]
    /\ steps[r][Pos(r)] = [name |-> Unit(r), state |-> "running"]

(* What a run has done is never undone or done again. *)
DoneStays ==
  [][\A r \in Runs : \A i \in DOMAIN steps[r] :
       steps[r][i].state = "done" => i \in DOMAIN steps'[r] /\ steps'[r][i] = steps[r][i]]_vars

(* The run's state, which is written apart, never claims what its steps    *)
(* contradict: it may lag behind them only as "running".                   *)
RunStateExplained ==
  \A r \in Runs :
    LET States == {steps[r][i].state : i \in DOMAIN steps[r]}
    IN  /\ runState[r] = "failed" => "failed" \in States
        /\ runState[r] = "awaiting_approval" => "awaiting_approval" \in States
        /\ runState[r] = "done" => States \cap {"running", "failed"} = {}

StepIs(r, name, state) == [name |-> name, state |-> state] \in {steps[r][i] : i \in DOMAIN steps[r]}

(* The active version is one that a run built and verified before its own  *)
(* cutover, whatever other runs build and activate meanwhile.              *)
ActiveWasVerified ==
  active # None =>
    \E r \in Runs : built[r] = active /\ StepIs(r, "verify", "done")

(* What answers queries never loses its chunks while it does, to whatever  *)
(* a run retires.                                                          *)
ServedKeepsChunks ==
  [][active' = active /\ active \in chunked => active \in chunked']_vars
=============================================================================
