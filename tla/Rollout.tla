------------------------------ MODULE Rollout -------------------------------
(***************************************************************************)
(* Serving one collection from the datastore: which index version is       *)
(* active, which versions have a serving binding, where the rollout        *)
(* selector routes, and whether the replicas admit traffic.                *)
(*                                                                         *)
(*   selector    munarium-store-pg/src/rollout.rs                          *)
(*   required    munarium-retrieval-pg/src/required.rs                     *)
(*   activation  munarium-retrieval-pg/src/direct.rs, collections.rs,      *)
(*               guarded by munarium-retrieval/src/lib.rs                  *)
(*   warmer      munarium-server/src/datastore_serving.rs                  *)
(*                                                                         *)
(* All replicas run in datastore mode.  An artifact, once verified, stays  *)
(* so (module BuildAttempts), and a version has one: a binding is only a   *)
(* slot that is filled.                                                    *)
(***************************************************************************)
EXTENDS Naturals

CONSTANTS Versions, Nodes, Operators, None,
          MaxGeneration,   \* bound on the writes of the selector
          MaxFaults        \* bound on restarts, failed opens and failed reads

ASSUME RolloutAssumption ==
  /\ None \notin Versions
  /\ MaxGeneration \in Nat
  /\ MaxFaults \in Nat

VARIABLES
  active,     \* the active version, or None
  committed,  \* versions whose row exists
  wasActive,  \* versions with an activated_at
  recent,     \* versions deactivated within the pin horizon
  pinned,     \* versions some live session holds
  binding,    \* the most advanced slot that names a version's artifact
  selector,   \* the scope's row; generation 0 is no row
  request,    \* what every operator is asking for
  sweep,      \* local variables of every replica's warmer
  opened,     \* versions whose artifact a replica holds open
  readiness,  \* the record its probe reads
  faults

indexVars == <<active, committed, wasActive, recent, pinned, binding>>
nodeVars == <<sweep, opened, readiness>>
vars == <<indexVars, selector, request, nodeVars, faults>>

Slots == {"none", "staged", "serving"}
Serving == {"postgres", "datastore"}
Selector == [serving : Serving, generation : 0..MaxGeneration]

\* A warmer names what blocks it: versions, a failed read, or no sweep yet.
Blocker == Versions \cup {"unread", "unswept"}

Idle == [kind |-> "idle"]
Selection == [kind : {"select"}, step : {"begin", "gate", "write"}, serving : Serving,
              expected : 0..MaxGeneration, required : SUBSET Versions]
Activation == [kind : {"activate"}, step : {"guard", "write"}, version : Versions,
               expected : Versions \cup {None}, compared : BOOLEAN]

Sweep == [at : {"idle", "required", "warm", "selected", "ready"}, gating : BOOLEAN,
          required : SUBSET Versions, todo : SUBSET Versions, found : SUBSET Blocker]
Readiness == [selected : BOOLEAN, ready : BOOLEAN, blocking : SUBSET Blocker]

\* The tables, the requests and the warmers are well formed; an active
\* version is committed, and only a version that has been active is recent.
TypeOK ==
  /\ committed \subseteq Versions
  /\ wasActive \subseteq committed
  /\ active \in wasActive \cup {None}
  /\ recent \subseteq wasActive \ {active}
  /\ pinned \subseteq wasActive
  /\ binding \in [Versions -> Slots]
  /\ selector \in Selector
  /\ request \in [Operators -> {Idle} \cup Selection \cup Activation]
  /\ sweep \in [Nodes -> Sweep]
  /\ opened \in [Nodes -> SUBSET Versions]
  /\ readiness \in [Nodes -> Readiness]
  /\ faults \in 0..MaxFaults

NoSweep == [at |-> "idle", gating |-> FALSE, required |-> {}, todo |-> {}, found |-> {}]

\* A process that has not swept yet.
Unswept == [selected |-> FALSE, ready |-> FALSE, blocking |-> {"unswept"}]

Init ==
  /\ active = None /\ committed = {} /\ wasActive = {} /\ recent = {} /\ pinned = {}
  /\ binding = [v \in Versions |-> "none"]
  /\ selector = [serving |-> "postgres", generation |-> 0]
  /\ request = [o \in Operators |-> Idle]
  /\ sweep = [n \in Nodes |-> NoSweep]
  /\ opened = [n \in Nodes |-> {}]
  /\ readiness = [n \in Nodes |-> Unswept]
  /\ faults = 0

(***************************************************************************)
(* Versions, bindings and sessions.                                        *)
(***************************************************************************)

Bound(v) == binding[v] = "serving"
Routed == selector.serving = "datastore"

\* Mutant: every version built within the horizon is required.
RequiredWhenBuilt == committed

\* required_versions: the active version, and those active within the horizon.
Required == {v \in Versions : v = active} \cup recent

Commit(v) ==
  /\ v \notin committed
  /\ committed' = committed \cup {v}
  /\ UNCHANGED <<active, wasActive, recent, pinned, binding, selector, request, nodeVars, faults>>

Stage(v) ==
  /\ v \in committed
  /\ binding[v] = "none"
  /\ binding' = [binding EXCEPT ![v] = "staged"]
  /\ UNCHANGED <<active, committed, wasActive, recent, pinned, selector, request, nodeVars, faults>>

\* op_promote_artifact of a fleet that has declared no expectations.
Promote(v) ==
  /\ binding[v] = "staged"
  /\ binding' = [binding EXCEPT ![v] = "serving"]
  /\ UNCHANGED <<active, committed, wasActive, recent, pinned, selector, request, nodeVars, faults>>

\* A session works on the version it found active.
Pin ==
  /\ active # None
  /\ pinned' = pinned \cup {active}
  /\ UNCHANGED <<active, committed, wasActive, recent, binding, selector, request, nodeVars, faults>>

Unpin(v) ==
  /\ v \in pinned
  /\ pinned' = pinned \ {v}
  /\ UNCHANGED <<active, committed, wasActive, recent, binding, selector, request, nodeVars, faults>>

\* The horizon is derived from the sessions' lifetime: when it has passed,
\* the sessions of the version are over.
LeaveHorizon(v) ==
  /\ v \in recent \ pinned
  /\ recent' = recent \ {v}
  /\ UNCHANGED <<active, committed, wasActive, pinned, binding, selector, request, nodeVars, faults>>

(***************************************************************************)
(* Operators.                                                              *)
(***************************************************************************)

\* An operator has read the selector and asks for a change of it.
AskSelection(o, serving) ==
  /\ request[o] = Idle
  /\ request' = [request EXCEPT ![o] =
       [kind |-> "select", step |-> IF serving = "datastore" THEN "begin" ELSE "write",
        serving |-> serving, expected |-> selector.generation, required |-> {}]]
  /\ UNCHANGED <<indexVars, selector, nodeVars, faults>>

At(o, kind, step) == request[o].kind = kind /\ request[o].step = step

\* op_rollout_set: only the datastore is gated, on what is required now ...
ReadRequired(o) ==
  /\ At(o, "select", "begin")
  /\ request' = [request EXCEPT ![o] =
       IF Required = {} THEN Idle ELSE [@ EXCEPT !.step = "gate", !.required = Required]]
  /\ UNCHANGED <<indexVars, selector, nodeVars, faults>>

\* ... every version of which must have a serving binding.
PassGate(o) ==
  /\ At(o, "select", "gate")
  /\ request' = [request EXCEPT ![o] =
       IF \A v \in request[o].required : Bound(v) THEN [@ EXCEPT !.step = "write"] ELSE Idle]
  /\ UNCHANGED <<indexVars, selector, nodeVars, faults>>

\* create or update: compared with the generation the operator read.
WriteSelector(o) ==
  /\ At(o, "select", "write")
  /\ IF selector.generation = request[o].expected
       THEN /\ selector.generation < MaxGeneration
            /\ selector' = [serving |-> request[o].serving, generation |-> selector.generation + 1]
       ELSE UNCHANGED selector
  /\ request' = [request EXCEPT ![o] = Idle]
  /\ UNCHANGED <<indexVars, nodeVars, faults>>

\* activate-index compares the active version; a runbook's cutover does not.
AskActivation(o, v, compared) ==
  /\ request[o] = Idle
  /\ v \in committed
  /\ request' = [request EXCEPT ![o] =
       [kind |-> "activate", step |-> "guard", version |-> v,
        expected |-> active, compared |-> compared]]
  /\ UNCHANGED <<indexVars, selector, nodeVars, faults>>

\* guard_activation
Guard(o) ==
  /\ At(o, "activate", "guard")
  /\ request' = [request EXCEPT ![o] =
       IF Routed /\ ~Bound(request[o].version) THEN Idle ELSE [@ EXCEPT !.step = "write"]]
  /\ UNCHANGED <<indexVars, selector, nodeVars, faults>>

\* Mutant: the version that stops being active is not stamped.
ActivatedUnstamped(v) ==
  /\ active' = v
  /\ wasActive' = wasActive \cup {v}
  /\ recent' = recent \ {v}

\* deactivated_at of the one, activated_at of the other, in one transaction.
Activated(v) ==
  /\ active' = v
  /\ wasActive' = wasActive \cup {v}
  /\ recent' = (recent \cup ({active} \ {None})) \ {v}

Activate(o) ==
  /\ At(o, "activate", "write")
  /\ IF request[o].compared /\ active # request[o].expected
       THEN UNCHANGED <<active, wasActive, recent>>
       ELSE Activated(request[o].version)
  /\ request' = [request EXCEPT ![o] = Idle]
  /\ UNCHANGED <<committed, pinned, binding, selector, nodeVars, faults>>

(***************************************************************************)
(* The warmer of a replica.                                                *)
(***************************************************************************)

Goto(n, place) == [sweep EXCEPT ![n].at = place]

\* Mutant: the blockers of the last sweep are kept.
BeginSweepKeeping(n) ==
  /\ sweep[n].at = "idle"
  /\ sweep' = [sweep EXCEPT ![n].at = IF Routed THEN "required" ELSE "selected", ![n].gating = Routed]
  /\ UNCHANGED <<indexVars, selector, request, opened, readiness, faults>>

\* A scope that PostgreSQL serves is not swept (its prewarming gates nothing).
BeginSweep(n) ==
  /\ sweep[n].at = "idle"
  /\ sweep' = [sweep EXCEPT ![n] =
       [NoSweep EXCEPT !.at = IF Routed THEN "required" ELSE "selected", !.gating = Routed]]
  /\ UNCHANGED <<indexVars, selector, request, opened, readiness, faults>>

SweepRequired(n) ==
  /\ sweep[n].at = "required"
  /\ sweep' = [sweep EXCEPT ![n].at = "warm", ![n].required = Required, ![n].todo = Required]
  /\ UNCHANGED <<indexVars, selector, request, opened, readiness, faults>>

\* Mutant: a version that could not be opened does not block.
WarmUnchecked(n, v) ==
  /\ sweep[n].at = "warm"
  /\ v \in sweep[n].todo
  /\ sweep' = [sweep EXCEPT ![n].todo = @ \ {v}]
  /\ opened' = IF binding[v] = "none" THEN opened ELSE [opened EXCEPT ![n] = @ \cup {v}]
  /\ UNCHANGED <<indexVars, selector, request, readiness, faults>>

\* One required version: only its serving binding gates, a staged one is
\* opened ahead of time.
Warm(n, v) ==
  /\ sweep[n].at = "warm"
  /\ v \in sweep[n].todo
  /\ sweep' = [sweep EXCEPT ![n].todo = @ \ {v},
                            ![n].found = IF Bound(v) THEN @ ELSE @ \cup {v}]
  /\ opened' = IF binding[v] = "none" THEN opened ELSE [opened EXCEPT ![n] = @ \cup {v}]
  /\ UNCHANGED <<indexVars, selector, request, readiness, faults>>

EndWarm(n) ==
  /\ sweep[n].at = "warm"
  /\ sweep[n].todo = {}
  /\ sweep' = Goto(n, "selected")
  /\ UNCHANGED <<indexVars, selector, request, opened, readiness, faults>>

\* record: three separate stores; a probe may come between the first two.
RecordSelected(n) ==
  /\ sweep[n].at = "selected"
  /\ readiness' = [readiness EXCEPT ![n].selected = sweep[n].gating]
  /\ sweep' = Goto(n, "ready")
  /\ UNCHANGED <<indexVars, selector, request, opened, faults>>

RecordReady(n) ==
  /\ sweep[n].at = "ready"
  /\ readiness' = [readiness EXCEPT ![n].ready = sweep[n].found = {},
                                    ![n].blocking = sweep[n].found]
  /\ sweep' = Goto(n, "idle")
  /\ UNCHANGED <<indexVars, selector, request, opened, faults>>

Fault == faults < MaxFaults /\ faults' = faults + 1

\* The required versions of the scope cannot be read: that blocks.
RequiredUnread(n) ==
  /\ Fault
  /\ sweep[n].at = "required"
  /\ sweep' = [sweep EXCEPT ![n].at = "selected", ![n].found = {"unread"}]
  /\ UNCHANGED <<indexVars, selector, request, opened, readiness>>

\* Hydration or the open fails, of an artifact not open yet.
OpenFails(n, v) ==
  /\ Fault
  /\ sweep[n].at = "warm"
  /\ v \in sweep[n].todo \ opened[n]
  /\ binding[v] # "none"
  /\ sweep' = [sweep EXCEPT ![n].todo = @ \ {v}, ![n].found = @ \cup {v}]
  /\ UNCHANGED <<indexVars, selector, request, opened, readiness>>

\* Any other failed read ends the sweep, and nothing is recorded.
AbortSweep(n) ==
  /\ Fault
  /\ sweep[n].at \in {"required", "warm"}
  /\ sweep' = [sweep EXCEPT ![n] = NoSweep]
  /\ UNCHANGED <<indexVars, selector, request, opened, readiness>>

RestartNode(n) ==
  /\ Fault
  /\ sweep' = [sweep EXCEPT ![n] = NoSweep]
  /\ opened' = [opened EXCEPT ![n] = {}]
  /\ readiness' = [readiness EXCEPT ![n] = Unswept]
  /\ UNCHANGED <<indexVars, selector, request>>

-----------------------------------------------------------------------------
Versioning ==
  \/ Pin
  \/ \E v \in Versions : Commit(v) \/ Stage(v) \/ Promote(v) \/ Unpin(v) \/ LeaveHorizon(v)

Operate(o) ==
  \/ \E serving \in Serving : AskSelection(o, serving)
  \/ ReadRequired(o) \/ PassGate(o) \/ WriteSelector(o)
  \/ \E v \in Versions, compared \in BOOLEAN : AskActivation(o, v, compared)
  \/ Guard(o) \/ Activate(o)

SweepStep(n) ==
  \/ BeginSweep(n) \/ SweepRequired(n) \/ EndWarm(n) \/ RecordSelected(n) \/ RecordReady(n)
  \/ \E v \in Versions : Warm(n, v)

Disturb(n) ==
  \/ RequiredUnread(n) \/ AbortSweep(n) \/ RestartNode(n)
  \/ \E v \in Versions : OpenFails(n, v)

Next ==
  \/ Versioning
  \/ \E o \in Operators : Operate(o)
  \/ \E n \in Nodes : SweepStep(n) \/ Disturb(n)

\* The warmer is a loop of every process.
Spec == Init /\ [][Next]_vars
FairSpec == Spec /\ \A n \in Nodes : WF_vars(SweepStep(n))

(***************************************************************************)
(* Properties.                                                             *)
(***************************************************************************)

\* admits: what /readyz answers.
Admits(n) == ~readiness[n].selected \/ readiness[n].ready

\* A version a live session may still ask for is in the serving-required set,
\* although no table says which version a session holds (required_versions).
PinnedIsRequired == pinned \subseteq Required

\* A build in flight never takes a replica out: what blocks admission has been
\* active, never just committed.
BlockersWereActive ==
  \A n \in Nodes : readiness[n].blocking \subseteq wasActive \cup {"unread", "unswept"}

\* A replica that calls itself ready holds open all its last sweep required.
ReadyMeansOpen ==
  \A n \in Nodes :
    readiness[n].selected /\ readiness[n].ready /\ sweep[n].at = "idle" =>
      sweep[n].required \subseteq opened[n]

\* Once every required version keeps its binding, or PostgreSQL serves, every
\* replica comes to admit traffic for good, whatever it recorded before.
Servable == Routed => \A v \in Required : Bound(v)
EventuallyAdmits == <>[]Servable => \A n \in Nodes : <>[]Admits(n)

\* "A replica must not admit traffic on the strength of not having checked
\* yet" (DatastoreReadiness): once the datastore serves the scope, a replica
\* that admits has swept since it started.
AdmitsOnlySwept ==
  Routed => \A n \in Nodes : Admits(n) => readiness[n].blocking # {"unswept"}

=============================================================================
