--------------------------- MODULE IndexVersions ---------------------------
(***************************************************************************)
(* The index versions of one collection.  A version's id is a hash of what *)
(* the collection's sources hold when it is built, so a version is named   *)
(* by that corpus.  Its row stays for ever; its chunks do not.             *)
(***************************************************************************)
EXTENDS Naturals, FiniteSets

CONSTANTS Corpora, None

ASSUME VersionsAssumption == None \notin Corpora /\ IsFiniteSet(Corpora)

VARIABLES corpus,    \* what the sources of the collection hold
          builtAt,   \* rank of every version's row by age; 0 without a row
          chunked,   \* versions that have chunks
          active     \* the version that queries read

versionVars == <<corpus, builtAt, chunked, active>>

Exists(v) == builtAt[v] # 0
Newest == Cardinality({v \in Corpora : Exists(v)})

(* One row of a version, and chunks and cutovers of versions with a row. *)
VersionsTypeOK ==
  /\ corpus \in Corpora
  /\ builtAt \in [Corpora -> 0..Newest]
  /\ \A v, w \in Corpora : Exists(v) /\ builtAt[v] = builtAt[w] => v = w
  /\ chunked \subseteq {v \in Corpora : Exists(v)}
  /\ active \in {v \in Corpora : Exists(v)} \cup {None}

VersionsInit ==
  /\ corpus \in Corpora
  /\ builtAt = [v \in Corpora |-> 0]
  /\ chunked = {}
  /\ active = None

(* The row and the chunks in one transaction.  Extraction may fail for     *)
(* every document of the corpus: then there are none.                      *)
Insert(v) ==
  /\ ~Exists(v)
  /\ builtAt' = [builtAt EXCEPT ![v] = Newest + 1]
  /\ chunked' \in {chunked, chunked \cup {v}}

(* Unconditional: whatever is active makes room. *)
Activate(v) == active' = v

\* Mutant: the active version is not spared.
RetiredWithActive(keep) ==
  {v \in Corpora : Exists(v)
     /\ Cardinality({w \in Corpora : builtAt[w] > builtAt[v]}) >= keep}

(* Inactive versions beyond the newest keep inactive ones. *)
Retired(keep) ==
  LET Inactive == {v \in Corpora : Exists(v) /\ v # active}
  IN  {v \in Inactive :
         Cardinality({w \in Inactive : builtAt[w] > builtAt[v]}) >= keep}

RetireOld(keep) == chunked' = chunked \ Retired(keep)

(* A source is put again with other bytes, or another one is bound. *)
Ingest(c) ==
  /\ corpus # c
  /\ corpus' = c
  /\ UNCHANGED <<builtAt, chunked, active>>
=============================================================================
