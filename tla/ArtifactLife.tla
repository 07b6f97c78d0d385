--------------------------- MODULE ArtifactLife ----------------------------
(***************************************************************************)
(* What the artifact catalog promises its readers: an artifact first has   *)
(* all its bytes in the object store, then is verified, and only then may  *)
(* a slot that answers queries name it.  Nothing is ever taken back.       *)
(***************************************************************************)
CONSTANTS Artifacts, None

VARIABLES stored,   \* artifacts whose components and manifest are in the store
          usable,   \* artifacts the catalog calls verified
          serving   \* the artifact that answers queries, or None

lifeVars == <<stored, usable, serving>>

LifeInit == stored = {} /\ usable = {} /\ serving = None

Store(a) == stored' = stored \cup {a} /\ UNCHANGED <<usable, serving>>

Approve(a) ==
  /\ a \in stored
  /\ usable' = usable \cup {a}
  /\ UNCHANGED <<stored, serving>>

Serve(a) ==
  /\ a \in usable
  /\ serving' = a
  /\ UNCHANGED <<stored, usable>>

LifeNext == \E a \in Artifacts : Store(a) \/ Approve(a) \/ Serve(a)

LifeSpec == LifeInit /\ [][LifeNext]_lifeVars
=============================================================================
