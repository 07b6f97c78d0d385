--------------------------- MODULE RolloutProofs ----------------------------
(***************************************************************************)
(* Proofs about Rollout, for any number of versions, replicas, operators   *)
(* and faults.  What a warmer carries through a sweep has been active once *)
(* and is open, blocked or still to do.                                    *)
(***************************************************************************)
EXTENDS Rollout, TLAPS

Reasons == {"unread", "unswept"}

\* What a replica's warmer has established so far.
SweepInv(n) ==
  /\ sweep[n].required \cup sweep[n].todo \subseteq wasActive
  /\ sweep[n].found \cup readiness[n].blocking \subseteq wasActive \cup Reasons
  /\ sweep[n].at = "warm" =>
       sweep[n].required \subseteq sweep[n].todo \cup opened[n] \cup sweep[n].found
  /\ sweep[n].at \in {"selected", "ready"} /\ sweep[n].found = {} =>
       sweep[n].required \subseteq opened[n]
  /\ sweep[n].at = "idle" /\ readiness[n].selected /\ readiness[n].ready =>
       sweep[n].required \subseteq opened[n]

AskedFor(o) == request[o].kind = "activate" => request[o].version \in committed

IInv ==
  /\ TypeOK
  /\ PinnedIsRequired
  /\ \A o \in Operators : AskedFor(o)
  /\ \A n \in Nodes : SweepInv(n)

LEMMA RequiredWasActive == TypeOK => Required \subseteq wasActive /\ wasActive \subseteq Versions
BY RolloutAssumption DEF TypeOK, Required

\* A replica that stands still.
LEMMA SweepKept ==
  ASSUME IInv, NEW n \in Nodes,
         sweep'[n] = sweep[n], opened'[n] = opened[n], readiness'[n] = readiness[n],
         wasActive \subseteq wasActive'
  PROVE  SweepInv(n)'
BY DEF IInv, SweepInv

\* Versions, bindings and sessions, and the steps of operators but Activate.
LEMMA IndexInv ==
  ASSUME IInv, NEW v \in Versions,
         Pin \/ Commit(v) \/ Stage(v) \/ Promote(v) \/ Unpin(v) \/ LeaveHorizon(v)
  PROVE  IInv'
<1>1. TypeOK /\ PinnedIsRequired
  BY DEF IInv
<1>2. UNCHANGED <<active, wasActive, selector, request, sweep, opened, readiness, faults>>
  BY DEF Pin, Commit, Stage, Promote, Unpin, LeaveHorizon, nodeVars
<1>3. TypeOK'
  <2>1. binding' \in [Versions -> Slots]
    BY <1>1 DEF TypeOK, Slots, Pin, Commit, Stage, Promote, Unpin, LeaveHorizon
  <2>2. /\ committed' \subseteq Versions /\ committed \subseteq committed'
        /\ recent' \subseteq recent /\ pinned' \subseteq wasActive
    BY <1>1 DEF TypeOK, Pin, Commit, Stage, Promote, Unpin, LeaveHorizon
  <2> QED BY <1>1, <1>2, <2>1, <2>2 DEF TypeOK
<1>4. PinnedIsRequired'
  BY <1>1, <1>2, RolloutAssumption
    DEF TypeOK, PinnedIsRequired, Required, Pin, Commit, Stage, Promote, Unpin, LeaveHorizon
<1>5. \A n \in Nodes : SweepInv(n)'
  BY <1>2, SweepKept
<1>6. \A o \in Operators : AskedFor(o)'
  BY <1>2 DEF IInv, AskedFor, Pin, Commit, Stage, Promote, Unpin, LeaveHorizon
<1> QED BY <1>3, <1>4, <1>5, <1>6 DEF IInv

Operated(o) ==
  \/ \E s \in Serving : AskSelection(o, s)
  \/ ReadRequired(o) \/ PassGate(o) \/ WriteSelector(o)
  \/ \E v \in Versions, compared \in BOOLEAN : AskActivation(o, v, compared)
  \/ Guard(o) \/ Activate(o)

Request == {Idle} \cup Selection \cup Activation
Fits(r) == r.kind = "activate" => r.version \in committed

\* What an operator asks for stays well formed, and an activation is of a
\* version that was committed when it was asked for.
LEMMA RequestStep ==
  ASSUME IInv, NEW o \in Operators, Operated(o)
  PROVE  \E r \in Request : request' = [request EXCEPT ![o] = r] /\ Fits(r)
<1> DEFINE Goal == \E r \in Request : request' = [request EXCEPT ![o] = r] /\ Fits(r)
<1>1. TypeOK /\ request[o] \in Request /\ Fits(request[o])
  BY DEF IInv, TypeOK, Request, AskedFor, Fits
<1>2. Idle \in Request /\ Fits(Idle) /\ Idle.kind = "idle"
  BY DEF Request, Fits, Idle
<1>3. Selection \subseteq Request /\ \A r \in Selection : Fits(r)
  BY DEF Request, Selection, Fits
<1>4. CASE \E s \in Serving : AskSelection(o, s)
  <2>1. PICK s \in Serving : AskSelection(o, s)
    BY <1>4
  <2>2. selector.generation \in 0..MaxGeneration
    BY <1>1 DEF TypeOK, Selector
  <2> DEFINE r == [kind |-> "select", step |-> IF s = "datastore" THEN "begin" ELSE "write",
                   serving |-> s, expected |-> selector.generation, required |-> {}]
  <2>3. r \in Selection
    BY <2>2 DEF Selection
  <2> QED BY <1>3, <2>1, <2>3 DEF AskSelection
<1>5. CASE ReadRequired(o)
  <2>1. request[o] \in Selection
    BY <1>1, <1>2, <1>5 DEF ReadRequired, At, Request, Activation
  <2> DEFINE r == [request[o] EXCEPT !.step = "gate", !.required = Required]
  <2>2. r \in Selection
    BY <1>1, <2>1, RequiredWasActive DEF Selection
  <2>3. request' = [request EXCEPT ![o] = IF Required = {} THEN Idle ELSE r]
    BY <1>5 DEF ReadRequired
  <2> QED BY <1>2, <1>3, <2>2, <2>3
<1>6. CASE PassGate(o)
  <2>1. request[o] \in Selection
    BY <1>1, <1>2, <1>6 DEF PassGate, At, Request, Activation
  <2> DEFINE r == [request[o] EXCEPT !.step = "write"]
  <2>2. r \in Selection
    BY <2>1 DEF Selection
  <2>3. request' = [request EXCEPT ![o] =
          IF \A v \in request[o].required : Bound(v) THEN r ELSE Idle]
    BY <1>6 DEF PassGate
  <2> QED BY <1>2, <1>3, <2>2, <2>3
<1>7. CASE WriteSelector(o) \/ Activate(o)
  BY <1>2, <1>7 DEF WriteSelector, Activate
<1>8. CASE \E v \in Versions, compared \in BOOLEAN : AskActivation(o, v, compared)
  <2>1. PICK v \in Versions, compared \in BOOLEAN : AskActivation(o, v, compared)
    BY <1>8
  <2> DEFINE r == [kind |-> "activate", step |-> "guard", version |-> v,
                   expected |-> active, compared |-> compared]
  <2>2. active \in Versions \cup {None} /\ v \in committed
    BY <1>1, <2>1 DEF TypeOK, AskActivation
  <2>3. r \in Request /\ Fits(r)
    BY <2>2 DEF Activation, Request, Fits
  <2> QED BY <2>1, <2>3 DEF AskActivation
<1>9. CASE Guard(o)
  <2>1. request[o] \in Activation
    BY <1>1, <1>2, <1>9 DEF Guard, At, Request, Selection
  <2> DEFINE r == [request[o] EXCEPT !.step = "write"]
  <2>2. r \in Request /\ Fits(r)
    BY <1>1, <2>1 DEF Activation, Request, Fits
  <2>3. request' = [request EXCEPT ![o] =
          IF Routed /\ ~Bound(request[o].version) THEN Idle ELSE r]
    BY <1>9 DEF Guard
  <2> QED BY <1>2, <2>2, <2>3
<1> QED BY <1>4, <1>5, <1>6, <1>7, <1>8, <1>9 DEF Operated

LEMMA OperateInv ==
  ASSUME IInv, NEW o \in Operators, Operated(o)
  PROVE  IInv'
<1>1. TypeOK /\ PinnedIsRequired
  BY DEF IInv
<1>2. PICK r \in Request : request' = [request EXCEPT ![o] = r] /\ Fits(r)
  BY RequestStep
<1>3. /\ request' \in [Operators -> {Idle} \cup Selection \cup Activation]
      /\ request'[o] = r /\ \A p \in Operators : p # o => request'[p] = request[p]
  BY <1>1, <1>2 DEF TypeOK, Request
<1>4. UNCHANGED <<committed, pinned, binding, sweep, opened, readiness, faults>>
  BY DEF Operated, AskSelection, ReadRequired, PassGate, WriteSelector, AskActivation, Guard,
         Activate, indexVars, nodeVars
<1>5. selector' \in Selector
  <2>1. CASE WriteSelector(o)
    <3>1. request[o] \in Selection
      BY <1>1, <2>1 DEF TypeOK, WriteSelector, At, Activation, Idle
    <3> QED BY <1>1, <2>1, <3>1, RolloutAssumption DEF TypeOK, WriteSelector, Selector, Selection
  <2>2. CASE UNCHANGED selector
    BY <1>1, <2>2 DEF TypeOK
  <2> QED BY <2>1, <2>2 DEF Operated, AskSelection, ReadRequired, PassGate, AskActivation, Guard, Activate
<1>6. /\ wasActive \subseteq wasActive' /\ wasActive' \subseteq committed
      /\ active' \in wasActive' \cup {None}
      /\ recent' \subseteq wasActive' \ {active'}
      /\ PinnedIsRequired'
  <2>1. CASE UNCHANGED <<active, wasActive, recent>>
    BY <1>1, <1>4, <2>1 DEF TypeOK, PinnedIsRequired, Required
  <2>2. CASE Activate(o) /\ Activated(request[o].version)
    <3>1. request[o].version \in committed /\ request[o].version \in Versions
      BY <1>1, <2>2 DEF Activate, At, IInv, AskedFor, TypeOK
    <3>2. PinnedIsRequired'
      BY <1>1, <1>4, <2>2, <3>1, RolloutAssumption
        DEF Activated, TypeOK, PinnedIsRequired, Required
    <3> QED BY <1>1, <2>2, <3>1, <3>2 DEF Activated, TypeOK
  <2> QED BY <2>1, <2>2 DEF Operated, AskSelection, ReadRequired, PassGate, WriteSelector,
                            AskActivation, Guard, Activate, indexVars
<1>7. TypeOK'
  BY <1>1, <1>3, <1>4, <1>5, <1>6 DEF TypeOK
<1>8. \A n \in Nodes : SweepInv(n)'
  BY <1>4, <1>6, SweepKept
<1>9. \A p \in Operators : AskedFor(p)'
  BY <1>2, <1>3, <1>4 DEF IInv, AskedFor, Fits
<1> QED BY <1>6, <1>7, <1>8, <1>9 DEF IInv

\* The steps of a warmer: the tables stay as they are.
LEMMA WarmerStep ==
  ASSUME IInv, NEW n \in Nodes, UNCHANGED <<indexVars, selector, request>>,
         NEW s \in Sweep, sweep' = [sweep EXCEPT ![n] = s],
         NEW held \in SUBSET Versions, opened' = [opened EXCEPT ![n] = held],
         NEW r \in Readiness, readiness' = [readiness EXCEPT ![n] = r],
         faults' \in 0..MaxFaults, SweepInv(n)'
  PROVE  IInv'
<1>1. TypeOK
  BY DEF IInv
<1>2. TypeOK'
  BY <1>1 DEF TypeOK, indexVars
<1>3. \A m \in Nodes : SweepInv(m)'
  <2> SUFFICES ASSUME NEW m \in Nodes, m # n PROVE SweepInv(m)'
    OBVIOUS
  <2> QED BY <1>1, SweepKept DEF TypeOK, indexVars
<1> QED BY <1>2, <1>3 DEF IInv, PinnedIsRequired, Required, AskedFor, indexVars

LEMMA WarmerFields ==
  ASSUME IInv, NEW n \in Nodes
  PROVE  /\ sweep[n] \in Sweep /\ readiness[n] \in Readiness /\ opened[n] \in SUBSET Versions
         /\ sweep = [sweep EXCEPT ![n] = sweep[n]] /\ opened = [opened EXCEPT ![n] = opened[n]]
         /\ readiness = [readiness EXCEPT ![n] = readiness[n]]
         /\ faults \in 0..MaxFaults
         /\ Required \in SUBSET Versions /\ Required \subseteq wasActive
         /\ NoSweep \in Sweep /\ Unswept \in Readiness
<1>1. TypeOK
  BY DEF IInv
<1>2. NoSweep \in Sweep /\ Unswept \in Readiness
  BY DEF NoSweep, Unswept, Sweep, Readiness, Blocker
<1> QED BY <1>1, <1>2, RequiredWasActive DEF TypeOK

LEMMA WarmerInv ==
  ASSUME IInv, NEW n \in Nodes, NEW v,
         \/ BeginSweep(n) \/ SweepRequired(n) \/ EndWarm(n) \/ RecordSelected(n)
         \/ RecordReady(n) \/ Warm(n, v)
         \/ RequiredUnread(n) \/ AbortSweep(n) \/ RestartNode(n) \/ OpenFails(n, v)
  PROVE  IInv'
<1>1. /\ sweep[n] \in Sweep /\ readiness[n] \in Readiness /\ opened[n] \in SUBSET Versions
      /\ opened = [opened EXCEPT ![n] = opened[n]]
      /\ readiness = [readiness EXCEPT ![n] = readiness[n]]
      /\ faults \in 0..MaxFaults
      /\ Required \in SUBSET Versions /\ Required \subseteq wasActive
      /\ NoSweep \in Sweep /\ Unswept \in Readiness
  BY WarmerFields
<1>2. TypeOK /\ SweepInv(n) /\ wasActive \subseteq Versions
  BY RequiredWasActive DEF IInv
<1>3. UNCHANGED <<indexVars, selector, request>> /\ faults' \in 0..MaxFaults
  BY <1>1, RolloutAssumption
    DEF BeginSweep, SweepRequired, EndWarm, RecordSelected, RecordReady, Warm, RequiredUnread,
        AbortSweep, RestartNode, OpenFails, Fault
\* A step that opens nothing and records nothing.
<1>4. ASSUME NEW s \in Sweep, sweep' = [sweep EXCEPT ![n] = s], UNCHANGED <<opened, readiness>>,
             s.required \cup s.todo \subseteq wasActive,
             s.found \subseteq wasActive \cup Reasons,
             s.at = "warm" => s.required \subseteq s.todo \cup opened[n] \cup s.found,
             s.at \in {"selected", "ready"} /\ s.found = {} => s.required \subseteq opened[n],
             s.at = "idle" => s.required = {}
      PROVE  IInv'
  <2>1. sweep'[n] = s
    BY <1>2, <1>4 DEF TypeOK
  <2>2. SweepInv(n)'
    BY <1>2, <1>3, <1>4, <2>1 DEF SweepInv, indexVars
  <2> QED BY <1>1, <1>3, <1>4, <2>2, WarmerStep
<1>5. CASE BeginSweep(n)
  <2> DEFINE s == [NoSweep EXCEPT !.at = IF Routed THEN "required" ELSE "selected", !.gating = Routed]
  <2>1. /\ s \in Sweep /\ s.required = {} /\ s.todo = {} /\ s.found = {}
        /\ s.at # "idle" /\ s.at # "warm"
    BY DEF NoSweep, Sweep, Routed
  <2>2. sweep' = [sweep EXCEPT ![n] = s] /\ UNCHANGED <<opened, readiness>>
    BY <1>5 DEF BeginSweep
  <2> HIDE DEF s
  <2> QED BY <1>4, <2>1, <2>2
<1>6. CASE SweepRequired(n)
  <2> DEFINE s == [sweep[n] EXCEPT !.at = "warm", !.required = Required, !.todo = Required]
  <2>1. /\ s \in Sweep /\ s.required = Required /\ s.todo = Required /\ s.found = sweep[n].found
        /\ s.at = "warm"
    BY <1>1 DEF Sweep
  <2>2. sweep' = [sweep EXCEPT ![n] = s] /\ UNCHANGED <<opened, readiness>>
    BY <1>6 DEF SweepRequired
  <2> HIDE DEF s
  <2> QED BY <1>1, <1>2, <1>4, <2>1, <2>2 DEF SweepInv
<1>7. CASE EndWarm(n)
  <2> DEFINE s == [sweep[n] EXCEPT !.at = "selected"]
  <2>1. /\ s \in Sweep /\ s.required = sweep[n].required /\ s.todo = sweep[n].todo
        /\ s.found = sweep[n].found /\ s.at = "selected"
    BY <1>1 DEF Sweep
  <2>2. /\ sweep' = [sweep EXCEPT ![n] = s] /\ UNCHANGED <<opened, readiness>>
        /\ sweep[n].at = "warm" /\ sweep[n].todo = {}
    BY <1>7 DEF EndWarm, Goto
  <2> HIDE DEF s
  <2> QED BY <1>2, <1>4, <2>1, <2>2 DEF SweepInv
<1>8. CASE RequiredUnread(n)
  <2> DEFINE s == [sweep[n] EXCEPT !.at = "selected", !.found = {"unread"}]
  <2>1. /\ s \in Sweep /\ s.required = sweep[n].required /\ s.todo = sweep[n].todo
        /\ s.found = {"unread"} /\ s.at = "selected"
    BY <1>1 DEF Sweep, Blocker
  <2>2. sweep' = [sweep EXCEPT ![n] = s] /\ UNCHANGED <<opened, readiness>>
    BY <1>8 DEF RequiredUnread
  <2> HIDE DEF s
  <2> QED BY <1>2, <1>4, <2>1, <2>2 DEF SweepInv, Reasons
<1>9. CASE AbortSweep(n)
  <2>1. NoSweep.required = {} /\ NoSweep.todo = {} /\ NoSweep.found = {} /\ NoSweep.at = "idle"
    BY DEF NoSweep
  <2>2. sweep' = [sweep EXCEPT ![n] = NoSweep] /\ UNCHANGED <<opened, readiness>>
    BY <1>9 DEF AbortSweep
  <2> QED BY <1>1, <1>4, <2>1, <2>2
<1>10. CASE OpenFails(n, v)
  <2> DEFINE s == [sweep[n] EXCEPT !.todo = sweep[n].todo \ {v}, !.found = sweep[n].found \cup {v}]
  <2>1. /\ s \in Sweep /\ s.required = sweep[n].required /\ s.todo = sweep[n].todo \ {v}
        /\ s.found = sweep[n].found \cup {v} /\ s.at = sweep[n].at
    BY <1>1, <1>10 DEF Sweep, Blocker, OpenFails
  <2>2. /\ sweep' = [sweep EXCEPT ![n] = s] /\ UNCHANGED <<opened, readiness>>
        /\ sweep[n].at = "warm" /\ v \in sweep[n].todo
    BY <1>10 DEF OpenFails
  <2> HIDE DEF s
  <2> QED BY <1>2, <1>4, <2>1, <2>2 DEF SweepInv
<1>11. CASE Warm(n, v)
  <2> DEFINE s == [sweep[n] EXCEPT !.todo = sweep[n].todo \ {v},
                     !.found = IF Bound(v) THEN sweep[n].found ELSE sweep[n].found \cup {v}]
             held == IF binding[v] = "none" THEN opened[n] ELSE opened[n] \cup {v}
  <2>1. /\ s \in Sweep /\ s.required = sweep[n].required /\ s.todo = sweep[n].todo \ {v}
        /\ s.found = (IF Bound(v) THEN sweep[n].found ELSE sweep[n].found \cup {v})
        /\ s.at = sweep[n].at
    BY <1>1, <1>11 DEF Sweep, Blocker, Warm
  <2>2. /\ sweep' = [sweep EXCEPT ![n] = s] /\ opened' = [opened EXCEPT ![n] = held]
        /\ readiness' = readiness /\ sweep[n].at = "warm" /\ v \in sweep[n].todo
    BY <1>1, <1>11 DEF Warm
  <2>3. held \in SUBSET Versions /\ opened[n] \subseteq held /\ (Bound(v) => v \in held)
    BY <1>1, <1>11 DEF Bound, Warm, Sweep
  <2> HIDE DEF s, held
  <2>4. sweep'[n] = s /\ opened'[n] = held
    BY <1>2, <2>2 DEF TypeOK
  <2>5. SweepInv(n)'
    BY <1>2, <1>3, <2>1, <2>2, <2>3, <2>4 DEF SweepInv, indexVars
  <2> QED BY <1>1, <1>3, <2>1, <2>2, <2>3, <2>5, WarmerStep
<1>12. CASE RecordSelected(n)
  <2> DEFINE s == [sweep[n] EXCEPT !.at = "ready"]
             r == [readiness[n] EXCEPT !.selected = sweep[n].gating]
  <2>1. /\ s \in Sweep /\ s.required = sweep[n].required /\ s.todo = sweep[n].todo
        /\ s.found = sweep[n].found /\ s.at = "ready"
        /\ r \in Readiness /\ r.blocking = readiness[n].blocking
    BY <1>1 DEF Sweep, Readiness
  <2>2. /\ sweep' = [sweep EXCEPT ![n] = s] /\ opened' = opened
        /\ readiness' = [readiness EXCEPT ![n] = r] /\ sweep[n].at = "selected"
    BY <1>12 DEF RecordSelected, Goto
  <2> HIDE DEF s, r
  <2>3. sweep'[n] = s /\ readiness'[n] = r
    BY <1>2, <2>2 DEF TypeOK
  <2>4. SweepInv(n)'
    BY <1>2, <1>3, <2>1, <2>2, <2>3 DEF SweepInv, indexVars
  <2> QED BY <1>1, <1>3, <2>1, <2>2, <2>4, WarmerStep
<1>13. CASE RecordReady(n)
  <2> DEFINE s == [sweep[n] EXCEPT !.at = "idle"]
             r == [readiness[n] EXCEPT !.ready = (sweep[n].found = {}),
                                       !.blocking = sweep[n].found]
  <2>1. /\ s \in Sweep /\ s.required = sweep[n].required /\ s.todo = sweep[n].todo
        /\ s.found = sweep[n].found /\ s.at = "idle"
    BY <1>1 DEF Sweep
  <2>2. r \in Readiness /\ r.blocking = sweep[n].found /\ r.ready = (sweep[n].found = {})
    BY <1>1 DEF Sweep, Readiness
  <2>3. /\ sweep' = [sweep EXCEPT ![n] = s] /\ opened' = opened
        /\ readiness' = [readiness EXCEPT ![n] = r] /\ sweep[n].at = "ready"
    BY <1>13 DEF RecordReady, Goto
  <2> HIDE DEF s, r
  <2>4. sweep'[n] = s /\ readiness'[n] = r
    BY <1>2, <2>3 DEF TypeOK
  <2>5. SweepInv(n)'
    BY <1>2, <1>3, <2>1, <2>2, <2>3, <2>4 DEF SweepInv, indexVars
  <2> QED BY <1>1, <1>3, <2>1, <2>2, <2>3, <2>5, WarmerStep
<1>14. CASE RestartNode(n)
  <2>1. /\ sweep' = [sweep EXCEPT ![n] = NoSweep] /\ opened' = [opened EXCEPT ![n] = {}]
        /\ readiness' = [readiness EXCEPT ![n] = Unswept]
    BY <1>14 DEF RestartNode
  <2>2. sweep'[n] = NoSweep /\ opened'[n] = {} /\ readiness'[n] = Unswept
    BY <1>2, <2>1 DEF TypeOK
  <2>3. SweepInv(n)'
    BY <1>3, <2>2 DEF SweepInv, NoSweep, Unswept, Reasons
  <2>4. {} \in SUBSET Versions
    OBVIOUS
  <2> QED BY <1>1, <1>3, <2>1, <2>3, <2>4, WarmerStep
<1> QED BY <1>5, <1>6, <1>7, <1>8, <1>9, <1>10, <1>11, <1>12, <1>13, <1>14

LEMMA InitInv == Init => IInv
<1> SUFFICES ASSUME Init PROVE IInv
  OBVIOUS
<1>1. TypeOK
  BY RolloutAssumption
    DEF Init, TypeOK, Slots, Selector, Serving, Sweep, NoSweep, Readiness, Unswept, Blocker
<1>2. PinnedIsRequired /\ \A o \in Operators : AskedFor(o)
  BY DEF Init, PinnedIsRequired, AskedFor, Idle
<1>3. \A n \in Nodes : SweepInv(n)
  BY DEF Init, SweepInv, NoSweep, Unswept, Reasons
<1> QED BY <1>1, <1>2, <1>3 DEF IInv

LEMMA NextInv == IInv /\ [Next]_vars => IInv'
<1> SUFFICES ASSUME IInv, [Next]_vars PROVE IInv'
  OBVIOUS
<1>1. CASE Versioning
  <2>1. ASSUME NEW v \in Versions,
               Commit(v) \/ Stage(v) \/ Promote(v) \/ Unpin(v) \/ LeaveHorizon(v)
        PROVE  IInv'
    BY <2>1, IndexInv
  <2>2. CASE Pin
    <3>1. active \in Versions
      BY <2>2 DEF Pin, IInv, TypeOK
    <3> QED BY <2>2, <3>1, IndexInv
  <2> QED BY <1>1, <2>1, <2>2 DEF Versioning
<1>2. ASSUME NEW o \in Operators, Operate(o) PROVE IInv'
  BY <1>2, OperateInv DEF Operate, Operated
<1>3. ASSUME NEW n \in Nodes, SweepStep(n) \/ Disturb(n) PROVE IInv'
  <2>1. ASSUME NEW v \in Versions, Warm(n, v) \/ OpenFails(n, v) PROVE IInv'
    BY <2>1, WarmerInv
  <2>2. ASSUME \/ BeginSweep(n) \/ SweepRequired(n) \/ EndWarm(n) \/ RecordSelected(n)
               \/ RecordReady(n) \/ RequiredUnread(n) \/ AbortSweep(n) \/ RestartNode(n)
        PROVE  IInv'
    BY <2>2, WarmerInv
  <2> QED BY <1>3, <2>1, <2>2 DEF SweepStep, Disturb
<1>4. CASE UNCHANGED vars
  <2>1. \A n \in Nodes : SweepInv(n)'
    BY <1>4, SweepKept DEF vars, indexVars, nodeVars
  <2> QED BY <1>4, <2>1 DEF vars, indexVars, nodeVars, IInv, TypeOK, PinnedIsRequired, Required, AskedFor
<1> QED BY <1>1, <1>2, <1>3, <1>4 DEF Next

LEMMA Invariance == Spec => []IInv
BY InitInv, NextInv, PTL DEF Spec

\* Tables, requests and warmers are well formed (rollout.rs, collections.rs,
\* datastore_serving.rs).
THEOREM RolloutTypeOK == Spec => []TypeOK
<1>1. IInv => TypeOK
  BY DEF IInv
<1> QED BY <1>1, Invariance, PTL

\* The required set covers every version a live session holds, however
\* activations, sessions and the horizon interleave (required_versions).
THEOREM PinnedStaysRequired == Spec => []PinnedIsRequired
<1>1. IInv => PinnedIsRequired
  BY DEF IInv
<1> QED BY <1>1, Invariance, PTL

\* A build in flight takes no replica out of rotation (warm_once).
THEOREM OnlyActiveBlocks == Spec => []BlockersWereActive
<1>1. IInv => BlockersWereActive
  BY DEF IInv, SweepInv, Reasons, BlockersWereActive
<1> QED BY <1>1, Invariance, PTL

\* Readiness is never claimed over an artifact that is not open (record).
THEOREM ReadyIsOpen == Spec => []ReadyMeansOpen
<1>1. IInv => ReadyMeansOpen
  BY DEF IInv, SweepInv, ReadyMeansOpen
<1> QED BY <1>1, Invariance, PTL
=============================================================================
