-------------------------- MODULE ArtifactCatalog --------------------------
(***************************************************************************)
(* The catalog of index artifacts of one index version, and its two slots: *)
(* "staged" (the candidate) and "serving" (what answers queries).  Builds  *)
(* (module BuildAttempts) catalogue, verify and stage artifacts; operators *)
(* promote the staged one.  The third slot, "shadow", is bound like         *)
(* "staged" and never promoted; it is left out, and so is an operator's    *)
(* rebinding of a slot that is taken.                                      *)
(***************************************************************************)
EXTENDS Naturals

CONSTANTS Artifacts, None,
          MaxGeneration   \* bound on the generations of a slot

Generations == 1..MaxGeneration
Binding == [artifact : Artifacts, generation : Generations]

ASSUME CatalogAssumption ==
  /\ None \notin Artifacts \cup Binding
  /\ MaxGeneration \in Nat \ {0}

VARIABLES catalog,   \* state of every artifact's row
          slot       \* the bindings

catalogVars == <<catalog, slot>>

ArtifactState == {"absent", "sealed", "verified"}
Slots == {"staged", "serving"}

CatalogTypeOK ==
  /\ catalog \in [Artifacts -> ArtifactState]
  /\ slot \in [Slots -> Binding \cup {None}]

CatalogInit ==
  /\ catalog = [a \in Artifacts |-> "absent"]
  /\ slot = [s \in Slots |-> None]

IsVerified(a) == catalog[a] = "verified"

(* insert_sealed: a row that exists is left as it is. *)
InsertSealed(a) ==
  catalog' = [catalog EXCEPT ![a] = IF @ = "absent" THEN "sealed" ELSE @]

(* mark_verified moves a sealed row only. *)
MarkVerified(a) ==
  /\ catalog[a] = "sealed"
  /\ catalog' = [catalog EXCEPT ![a] = "verified"]

(* bind_new fills an empty slot with a verified artifact. *)
Bindable(s, a) == IsVerified(a) /\ slot[s] = None

BindNew(s, a) ==
  /\ Bindable(s, a)
  /\ slot' = [slot EXCEPT ![s] = [artifact |-> a, generation |-> 1]]

GenerationOf(s) == IF slot[s] = None THEN 0 ELSE slot[s].generation

(* promote_staged, under the locks of both rows: the generations are the   *)
(* ones the caller read, and the staged row is deleted.                    *)
Promotable(staged, serving) ==
  /\ slot["staged"] # None
  /\ GenerationOf("staged") = staged
  /\ GenerationOf("serving") = serving
  /\ IsVerified(slot["staged"].artifact)

PromoteStaged(staged, serving) ==
  /\ Promotable(staged, serving)
  /\ serving < MaxGeneration
  /\ slot' = [slot EXCEPT
       !["serving"] = [artifact |-> slot["staged"].artifact, generation |-> serving + 1],
       !["staged"] = None]
=============================================================================
