--------------------------- MODULE BuildAttempts ---------------------------
(***************************************************************************)
(* Mirror builds of one plan of one index version: a build claims a leased *)
(* attempt, seals an artifact into a directory of its node, catalogues it, *)
(* publishes components and manifest to the object store, marks it         *)
(* verified and stages it.  Every node also runs a reconciler over sealed  *)
(* attempts.  Nodes crash, leases lapse, any call may fail.                *)
(*                                                                         *)
(* Builds and reconcilers publish with the same steps, so both are workers *)
(* with a place pc.  The heartbeat's flag is not a variable: an attempt it *)
(* found lost is terminal, and the heartbeat of the lease check finds the  *)
(* same.                                                                   *)
(***************************************************************************)
EXTENDS ArtifactCatalog

CONSTANTS Nodes, Builds, NodeOf,
          MaxCrashes    \* bound on the crashes

ASSUME BuildsAssumption ==
  /\ NodeOf \in [Builds -> Nodes]
  /\ Nodes \cap Builds = {}
  /\ None \notin Nodes \cup Builds
  /\ MaxCrashes \in Nat

VARIABLES attempt,     \* the attempt row of every build
          staging,     \* the artifact sealed in the directory of an attempt
          components,  \* artifacts whose components are in the object store
          manifests,   \* artifacts whose manifest is
          pc,          \* where every worker is
          row,         \* the attempt a reconciler is resuming
          todo,        \* the rows its pass read: attempt and whether lapsed
          up,          \* nodes whose process runs
          crashes

buildVars == <<attempt, staging, components, manifests, pc, row, todo, up, crashes>>
vars == <<catalogVars, buildVars>>

Workers == Builds \cup Nodes
HostOf(w) == IF w \in Nodes THEN w ELSE NodeOf[w]
Running(w) == HostOf(w) \in up

AttemptOf(w) == IF w \in Builds THEN w ELSE row[w]
ArtifactOf(w) == staging[AttemptOf(w)]
NamedBy(w) == attempt[AttemptOf(w)].artifact

Active == {"running", "sealed"}
Terminal == {"succeeded", "converged", "failed", "expired"}
Attempt == [state : {"none"} \cup Active \cup Terminal, lapsed : BOOLEAN,
            artifact : Artifacts \cup {None}]

Building == {"export", "sealed", "catalog", "mark"}
Publishing == {"upload", "manifest", "verify", "slot", "bind", "finish"}
BuildPlaces == {"start", "plan", "expire", "claim", "converge", "error", "done"}
                 \cup Building \cup Publishing
ReconcilerPlaces == {"idle", "rows", "resume", "error"} \cup Publishing

TypeOK ==
  /\ CatalogTypeOK
  /\ attempt \in [Builds -> Attempt]
  /\ staging \in [Builds -> Artifacts \cup {None}]
  /\ components \subseteq Artifacts
  /\ manifests \subseteq Artifacts
  /\ pc \in [Workers -> BuildPlaces \cup ReconcilerPlaces]
  /\ \A b \in Builds : pc[b] \in BuildPlaces
  /\ \A n \in Nodes : pc[n] \in ReconcilerPlaces
  /\ row \in [Nodes -> Builds \cup {None}]
  /\ \A n \in Nodes : (row[n] # None) = (pc[n] \in {"resume", "error"} \cup Publishing)
  /\ todo \in [Nodes -> SUBSET (Builds \X BOOLEAN)]
  /\ up \subseteq Nodes
  /\ crashes \in 0..MaxCrashes

Init ==
  /\ CatalogInit
  /\ attempt = [b \in Builds |-> [state |-> "none", lapsed |-> FALSE, artifact |-> None]]
  /\ staging = [b \in Builds |-> None]
  /\ components = {} /\ manifests = {}
  /\ pc = [w \in Workers |-> IF w \in Builds THEN "start" ELSE "idle"]
  /\ row = [n \in Nodes |-> None]
  /\ todo = [n \in Nodes |-> {}]
  /\ up = Nodes
  /\ crashes = 0

Goto(w, place) == pc' = [pc EXCEPT ![w] = place]

-----------------------------------------------------------------------------
(* Attempt rows. *)

\* Mutant: an ended attempt can be moved.
IsActiveAlways(b) == attempt[b].state # "none"

IsActive(b) == attempt[b].state \in Active

(* transition: any active attempt may be moved, whoever asks.  The lease of *)
(* an attempt that has ended means nothing, and is kept as not lapsed.      *)
Moved(r, to, a) ==
  [state |-> to, lapsed |-> r.lapsed /\ to \in Active,
   artifact |-> IF a = None THEN r.artifact ELSE a]

Move(b, to, a) == attempt' = [attempt EXCEPT ![b] = Moved(@, to, a)]

(* expire_stale: running attempts with a lapsed lease, never sealed ones. *)
Expired ==
  [b \in Builds |-> IF attempt[b].state = "running" /\ attempt[b].lapsed
                      THEN Moved(attempt[b], "expired", None) ELSE attempt[b]]

(* heartbeat: renews whatever is still active. *)
Renewed(b) == [attempt EXCEPT ![b].lapsed = FALSE]

Lapse(b) ==
  /\ IsActive(b)
  /\ ~attempt[b].lapsed
  /\ attempt' = [attempt EXCEPT ![b].lapsed = TRUE]
  /\ UNCHANGED <<catalogVars, staging, components, manifests, pc, row, todo, up, crashes>>

(* The spawned heartbeat, alive from the claim to the end of the body. *)
Beat(b) ==
  /\ Running(b)
  /\ pc[b] \in Building \cup Publishing
  /\ IsActive(b)
  /\ attempt[b].lapsed
  /\ attempt' = Renewed(b)
  /\ UNCHANGED <<catalogVars, staging, components, manifests, pc, row, todo, up, crashes>>

-----------------------------------------------------------------------------
(* A build, up to the claim. *)

CheckReuse(b) ==
  /\ pc[b] = "start" /\ Running(b)
  /\ Goto(b, IF \E a \in Artifacts : IsVerified(a) THEN "done" ELSE "plan")
  /\ UNCHANGED <<catalogVars, attempt, staging, components, manifests, row, todo, up, crashes>>

(* sealed_for_plan *)
DeferTo(c) == attempt[c].state = "sealed" /\ ~attempt[c].lapsed

CheckSealed(b) ==
  /\ pc[b] = "plan" /\ Running(b)
  /\ Goto(b, IF \E c \in Builds : DeferTo(c) THEN "done" ELSE "expire")
  /\ UNCHANGED <<catalogVars, attempt, staging, components, manifests, row, todo, up, crashes>>

ExpireStale(b) ==
  /\ pc[b] = "expire" /\ Running(b)
  /\ attempt' = Expired
  /\ Goto(b, "claim")
  /\ UNCHANGED <<catalogVars, staging, components, manifests, row, todo, up, crashes>>

(* The partial unique index admits one running attempt of the plan. *)
Claim(b) ==
  /\ pc[b] = "claim" /\ Running(b)
  /\ IF \E c \in Builds : attempt[c].state = "running"
       THEN Goto(b, "done") /\ UNCHANGED attempt
       ELSE Goto(b, "export")
            /\ attempt' = [attempt EXCEPT ![b].state = "running"]
  /\ UNCHANGED <<catalogVars, staging, components, manifests, row, todo, up, crashes>>

-----------------------------------------------------------------------------
(* The body: export, seal into staging, catalogue. *)

(* The lease check of the body: an attempt ended elsewhere stops the build. *)
CheckLease(b, to) ==
  IF IsActive(b) THEN Goto(b, to) /\ attempt' = Renewed(b)
                 ELSE Goto(b, "error") /\ UNCHANGED attempt

(* After the export: check, then seal into the directory, which nobody else *)
(* looks at yet.  The lexical engine is not byte-deterministic: any         *)
(* artifact may result.                                                     *)
Seal(b, a) ==
  /\ pc[b] = "export" /\ Running(b)
  /\ CheckLease(b, "sealed")
  /\ staging' = IF IsActive(b) THEN [staging EXCEPT ![b] = a] ELSE staging
  /\ UNCHANGED <<catalogVars, components, manifests, row, todo, up, crashes>>

CheckSeal(b) ==
  /\ pc[b] = "sealed" /\ Running(b)
  /\ CheckLease(b, "catalog")
  /\ UNCHANGED <<catalogVars, staging, components, manifests, row, todo, up, crashes>>

Catalogue(b) ==
  /\ pc[b] = "catalog" /\ Running(b)
  /\ InsertSealed(ArtifactOf(b))
  /\ Goto(b, IF IsVerified(ArtifactOf(b)) THEN "converge" ELSE "mark")
  /\ UNCHANGED <<slot, attempt, staging, components, manifests, row, todo,
                 up, crashes>>

MarkSealed(b) ==
  /\ pc[b] = "mark" /\ Running(b)
  /\ IF IsActive(b)
       THEN Move(b, "sealed", ArtifactOf(b)) /\ Goto(b, "upload")
       ELSE UNCHANGED attempt /\ Goto(b, "error")
  /\ UNCHANGED <<catalogVars, staging, components, manifests, row, todo, up, crashes>>

(* Another build published the same bytes. *)
Converge(b) ==
  /\ pc[b] = "converge" /\ Running(b)
  /\ IF IsActive(b)
       THEN /\ Move(b, "converged", ArtifactOf(b))
            /\ staging' = [staging EXCEPT ![b] = None]
       ELSE UNCHANGED <<attempt, staging>>
  /\ Goto(b, "done")
  /\ UNCHANGED <<catalogVars, components, manifests, row, todo, up, crashes>>

-----------------------------------------------------------------------------
(* publish_and_verify, by a build or by a reconciler that resumes one. *)

\* Mutant: verify without waiting for the manifest.
UploadThenVerify(w) ==
  /\ pc[w] = "upload" /\ Running(w)
  /\ IF ArtifactOf(w) # None
       THEN components' = components \cup {NamedBy(w)} /\ Goto(w, "verify")
       ELSE UNCHANGED components /\ Goto(w, "error")
  /\ UNCHANGED <<catalogVars, attempt, staging, manifests, row, todo, up, crashes>>

(* Components first; a staged copy that is gone is an error. *)
Upload(w) ==
  /\ pc[w] = "upload" /\ Running(w)
  /\ IF ArtifactOf(w) # None
       THEN components' = components \cup {NamedBy(w)} /\ Goto(w, "manifest")
       ELSE UNCHANGED components /\ Goto(w, "error")
  /\ UNCHANGED <<catalogVars, attempt, staging, manifests, row, todo, up, crashes>>

(* The manifest last, and read back. *)
PutManifest(w) ==
  /\ pc[w] = "manifest" /\ Running(w)
  /\ IF ArtifactOf(w) # None
       THEN manifests' = manifests \cup {NamedBy(w)} /\ Goto(w, "verify")
       ELSE UNCHANGED manifests /\ Goto(w, "error")
  /\ UNCHANGED <<catalogVars, attempt, staging, components, row, todo, up, crashes>>

Verify(w) ==
  /\ pc[w] = "verify" /\ Running(w)
  /\ \/ MarkVerified(NamedBy(w)) /\ Goto(w, "slot")
     \/ /\ catalog[NamedBy(w)] # "sealed"
        /\ UNCHANGED catalog /\ Goto(w, "error")
  /\ UNCHANGED <<slot, attempt, staging, components, manifests, row, todo,
                 up, crashes>>

(* bind_staged_if_empty reads the slot, then inserts. *)
ReadStaged(w) ==
  /\ pc[w] = "slot" /\ Running(w)
  /\ Goto(w, IF slot["staged"] # None THEN "finish" ELSE "bind")
  /\ UNCHANGED <<catalogVars, attempt, staging, components, manifests, row, todo, up, crashes>>

BindStaged(w) ==
  /\ pc[w] = "bind" /\ Running(w)
  /\ \/ BindNew("staged", NamedBy(w)) /\ Goto(w, "finish")
     \/ /\ ~Bindable("staged", NamedBy(w))
        /\ UNCHANGED slot /\ Goto(w, "error")
  /\ UNCHANGED <<catalog, attempt, staging, components, manifests, row, todo,
                 up, crashes>>

(* A pass ends at the first statement of its own that fails. *)
AbortPass(n) ==
  /\ Goto(n, "idle")
  /\ todo' = [todo EXCEPT ![n] = {}]
  /\ row' = [row EXCEPT ![n] = None]

NextRow(n) ==
  /\ Goto(n, "rows")
  /\ row' = [row EXCEPT ![n] = None]
  /\ UNCHANGED todo

(* mark_succeeded, and the staged copy is removed; refused when terminal. *)
Finish(w) ==
  /\ pc[w] = "finish" /\ Running(w)
  /\ IF IsActive(AttemptOf(w))
       THEN /\ Move(AttemptOf(w), "succeeded", None)
            /\ staging' = [staging EXCEPT ![AttemptOf(w)] = None]
       ELSE UNCHANGED <<attempt, staging>>
  /\ IF w \in Builds THEN Goto(w, "done") /\ UNCHANGED <<row, todo>>
     ELSE IF IsActive(AttemptOf(w)) THEN NextRow(w)
     ELSE AbortPass(w)
  /\ UNCHANGED <<catalogVars, components, manifests, up, crashes>>

(* Any call of the body may fail. *)
CallFails(w) ==
  /\ pc[w] \in (Building \cup Publishing) \ {"finish"}
  /\ Running(w)
  /\ Goto(w, "error")
  /\ UNCHANGED <<catalogVars, attempt, staging, components, manifests, row, todo, up, crashes>>

(* A failed build is left sealed if it got that far, and failed otherwise. *)
Fail(b) ==
  /\ pc[b] = "error" /\ Running(b)
  /\ Goto(b, "done")
  /\ IF attempt[b].state = "sealed" THEN UNCHANGED <<attempt, staging>>
     ELSE /\ staging' = [staging EXCEPT ![b] = None]
          /\ IF IsActive(b) THEN Move(b, "failed", None) ELSE UNCHANGED attempt
  /\ UNCHANGED <<catalogVars, components, manifests, row, todo, up, crashes>>

-----------------------------------------------------------------------------
(* The reconciler of a node: a pass starts only where the node owns a      *)
(* sealed attempt, but then covers the sealed attempts of all nodes.       *)

Scan(n) ==
  /\ pc[n] = "idle" /\ Running(n)
  /\ \E b \in Builds : NodeOf[b] = n /\ attempt[b].state = "sealed"
  /\ attempt' = Expired
  /\ todo' = [todo EXCEPT ![n] = {<<b, attempt[b].lapsed>> :
                                   b \in {c \in Builds : attempt[c].state = "sealed"}}]
  /\ Goto(n, "rows")
  /\ UNCHANGED <<catalogVars, staging, components, manifests, row, up, crashes>>

EndPass(n) ==
  /\ pc[n] = "rows" /\ Running(n)
  /\ todo[n] = {}
  /\ Goto(n, "idle")
  /\ UNCHANGED <<catalogVars, attempt, staging, components, manifests, row, todo, up, crashes>>

(* reconcile_sealed, on the row as it was listed. *)
NotOurs(n, b, lapsed) == NodeOf[b] # n /\ ~lapsed
Abandons(n, b, lapsed) == lapsed \/ (NodeOf[b] = n /\ staging[b] = None)

SkipRow(n, b, lapsed) ==
  /\ pc[n] = "rows" /\ Running(n)
  /\ <<b, lapsed>> \in todo[n]
  /\ NotOurs(n, b, lapsed)
  /\ todo' = [todo EXCEPT ![n] = @ \ {<<b, lapsed>>}]
  /\ UNCHANGED <<catalogVars, attempt, staging, components, manifests, pc, row, up, crashes>>

(* Only the node's own directory is removed. *)
Unstaged(n, b) == IF NodeOf[b] = n THEN [staging EXCEPT ![b] = None] ELSE staging

Abandon(n, b, lapsed) ==
  /\ pc[n] = "rows" /\ Running(n)
  /\ <<b, lapsed>> \in todo[n]
  /\ Abandons(n, b, lapsed)
  /\ IF IsActive(b)
       THEN /\ Move(b, "failed", None)
            /\ staging' = Unstaged(n, b)
            /\ todo' = [todo EXCEPT ![n] = @ \ {<<b, lapsed>>}]
            /\ UNCHANGED <<pc, row>>
       ELSE AbortPass(n) /\ UNCHANGED <<attempt, staging>>
  /\ UNCHANGED <<catalogVars, components, manifests, up, crashes>>

StartResume(n, b, lapsed) ==
  /\ pc[n] = "rows" /\ Running(n)
  /\ <<b, lapsed>> \in todo[n]
  /\ ~NotOurs(n, b, lapsed) /\ ~Abandons(n, b, lapsed)
  /\ row' = [row EXCEPT ![n] = b]
  /\ todo' = [todo EXCEPT ![n] = @ \ {<<b, lapsed>>}]
  /\ Goto(n, "resume")
  /\ UNCHANGED <<catalogVars, attempt, staging, components, manifests, up, crashes>>

\* Mutant: a verified artifact needs nothing more.
ResumeSkippingBinding(n) ==
  /\ pc[n] = "resume" /\ Running(n)
  /\ Goto(n, IF staging[row[n]] = None THEN "error"
             ELSE IF IsVerified(NamedBy(n)) THEN "finish" ELSE "upload")
  /\ UNCHANGED <<catalogVars, attempt, staging, components, manifests, row, todo, up, crashes>>

(* resume_publication: an artifact verified by now only needs its binding. *)
Resume(n) ==
  /\ pc[n] = "resume" /\ Running(n)
  /\ Goto(n, IF staging[row[n]] = None THEN "error"
             ELSE IF IsVerified(NamedBy(n)) THEN "slot" ELSE "upload")
  /\ UNCHANGED <<catalogVars, attempt, staging, components, manifests, row, todo, up, crashes>>

(* A resumption that failed fails the attempt. *)
GiveUp(n) ==
  /\ pc[n] = "error" /\ Running(n)
  /\ IF IsActive(row[n])
       THEN /\ Move(row[n], "failed", None)
            /\ staging' = [staging EXCEPT ![row[n]] = None]
            /\ NextRow(n)
       ELSE AbortPass(n) /\ UNCHANGED <<attempt, staging>>
  /\ UNCHANGED <<catalogVars, components, manifests, up, crashes>>

-----------------------------------------------------------------------------
(* A crash ends every worker of the node; an ephemeral disk is lost too. *)
Crash(n) ==
  /\ n \in up
  /\ crashes < MaxCrashes
  /\ crashes' = crashes + 1
  /\ up' = up \ {n}
  /\ \E kept \in BOOLEAN :
       staging' = [b \in Builds |-> IF NodeOf[b] = n /\ ~kept THEN None ELSE staging[b]]
  /\ pc' = [w \in Workers |-> IF HostOf(w) # n \/ pc[w] = "start" THEN pc[w]
                              ELSE IF w \in Nodes THEN "idle" ELSE "done"]
  /\ row' = [row EXCEPT ![n] = None]
  /\ todo' = [todo EXCEPT ![n] = {}]
  /\ UNCHANGED <<catalogVars, attempt, components, manifests>>

Restart(n) ==
  /\ n \notin up
  /\ up' = up \cup {n}
  /\ UNCHANGED <<catalogVars, attempt, staging, components, manifests, pc, row, todo, crashes>>

-----------------------------------------------------------------------------
(* An operator's promotion, with the generations the operator read; the     *)
(* gate before it only refuses more.                                        *)
Promote ==
  /\ \E g \in Generations : PromoteStaged(g, GenerationOf("serving"))
  /\ UNCHANGED <<catalog, buildVars>>

-----------------------------------------------------------------------------
BuildStep(b) ==
  \/ CheckReuse(b) \/ CheckSealed(b) \/ ExpireStale(b) \/ Claim(b)
  \/ \E a \in Artifacts : Seal(b, a)
  \/ CheckSeal(b) \/ Catalogue(b) \/ MarkSealed(b) \/ Converge(b) \/ Fail(b)

Publish(w) ==
  Upload(w) \/ PutManifest(w) \/ Verify(w) \/ ReadStaged(w) \/ BindStaged(w) \/ Finish(w)

Reconcile(n) ==
  \/ Scan(n) \/ EndPass(n) \/ Resume(n) \/ GiveUp(n)
  \/ \E b \in Builds, lapsed \in BOOLEAN :
       SkipRow(n, b, lapsed) \/ Abandon(n, b, lapsed) \/ StartResume(n, b, lapsed)

Next ==
  \/ \E b \in Builds : BuildStep(b) \/ Lapse(b) \/ Beat(b)
  \/ \E w \in Workers : Publish(w) \/ CallFails(w)
  \/ \E n \in Nodes : Reconcile(n) \/ Crash(n) \/ Restart(n)
  \/ Promote

Spec == Init /\ [][Next]_vars

-----------------------------------------------------------------------------
(* An attempt that ended well names a verified artifact, and the version   *)
(* has a binding: nothing succeeds over a result that cannot be served.    *)
EndedWellIsServable ==
  \A b \in Builds : attempt[b].state \in {"succeeded", "converged"} =>
    /\ attempt[b].artifact # None
    /\ IsVerified(attempt[b].artifact)
    /\ attempt[b].state = "succeeded" => \E s \in Slots : slot[s] # None

(* An attempt that has ended is never touched again, by its build, by a    *)
(* reconciler, or by a claim that expires stale attempts.                  *)
EndedStays ==
  [][\A b \in Builds : attempt[b].state \in Terminal => attempt'[b] = attempt[b]]_vars

(* What readers of the catalog rely on. *)
Life == INSTANCE ArtifactLife WITH
  stored <- components \cap manifests,
  usable <- {a \in Artifacts : IsVerified(a)},
  serving <- IF slot["serving"] = None THEN None ELSE slot["serving"].artifact

ImplementsLife == Life!LifeSpec
=============================================================================
