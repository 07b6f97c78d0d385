------------------------ MODULE BuildAttemptsProofs -------------------------
(***************************************************************************)
(* Proofs about BuildAttempts, for any number of nodes, builds, artifacts  *)
(* and crashes.  An attempt whose build has passed mark_sealed is settled: *)
(* the artifact it names never changes again, so a reconciler may work on  *)
(* it with the row it read.  What a worker has published stays published.  *)
(***************************************************************************)
EXTENDS BuildAttempts, TLAPS

Before == {"start", "plan", "expire", "claim"}
Late == Publishing \cup {"error", "done"}

Settled(b) == pc[b] \in Late /\ attempt[b].artifact \in Artifacts
Bound == \E s \in Slots : slot[s] # None

\* What a build has behind it at every place.
BuildInv(b) ==
  /\ pc[b] \in Before => attempt[b].state = "none"
  /\ attempt[b].state = "sealed" \/ pc[b] \in Publishing => Settled(b)
  /\ pc[b] \in {"sealed", "catalog", "mark", "converge"} => staging[b] \in Artifacts
  /\ pc[b] = "converge" => IsVerified(staging[b])
  /\ attempt[b].state \in {"succeeded", "converged"} =>
       attempt[b].artifact \in Artifacts /\ IsVerified(attempt[b].artifact)
  /\ attempt[b].state = "succeeded" => Bound

\* What publication has behind it, in a build or in a reconciler.
WorkerInv(w) ==
  /\ pc[w] = "manifest" => NamedBy(w) \in components
  /\ pc[w] = "verify" => NamedBy(w) \in manifests
  /\ pc[w] \in {"slot", "bind", "finish"} => IsVerified(NamedBy(w))
  /\ pc[w] = "finish" => Bound

NodeInv(n) ==
  /\ \A b \in Builds, lapsed \in BOOLEAN : <<b, lapsed>> \in todo[n] => Settled(b)
  /\ row[n] # None => Settled(row[n])

Published ==
  /\ manifests \subseteq components
  /\ \A a \in Artifacts : IsVerified(a) => a \in manifests

IInv ==
  /\ TypeOK
  /\ Published
  /\ \A b \in Builds : BuildInv(b)
  /\ \A w \in Workers : WorkerInv(w)
  /\ \A n \in Nodes : NodeInv(n)

-----------------------------------------------------------------------------
\* What a step takes back from nobody.
Grows ==
  /\ components \subseteq components' /\ manifests \subseteq manifests'
  /\ \A a \in Artifacts : IsVerified(a) => IsVerified(a)'
  /\ Bound => Bound'

SettledStays(b) == Settled(b) => Settled(b)' /\ attempt'[b].artifact = attempt[b].artifact
EndStays(b) == attempt[b].state \in Terminal => attempt'[b] = attempt[b]

\* A build that stands still, while others may end its attempt.
Calm(b) ==
  /\ pc'[b] = pc[b]
  /\ staging'[b] = staging[b] \/ Settled(b)
  /\ attempt'[b].artifact = attempt[b].artifact
  /\ EndStays(b)
  /\ \/ attempt'[b].state = attempt[b].state
     \/ IsActive(b) /\ attempt'[b].state \in {"failed", "expired"}
     \/ /\ IsActive(b) /\ attempt'[b].state = "succeeded"
        /\ Settled(b) /\ IsVerified(attempt[b].artifact) /\ Bound

BuildKept(b) == SettledStays(b) /\ EndStays(b) /\ BuildInv(b)'

LEMMA CalmKept ==
  ASSUME IInv, Grows, NEW b \in Builds, Calm(b)
  PROVE  BuildKept(b)
<1>1. BuildInv(b) /\ staging[b] \in Artifacts \cup {None}
  BY DEF IInv, TypeOK
<1>2. Settled(b) => Settled(b)'
  BY DEF Settled, Calm
<1>3. \A a \in Artifacts : IsVerified(a) => IsVerified(a)'
  BY DEF Grows
<1>4. BuildInv(b)'
  BY <1>1, <1>2, <1>3 DEF BuildInv, Calm, Settled, Grows, IsActive, Active, Before, Late, Publishing, IsVerified
<1> QED BY <1>2, <1>4 DEF BuildKept, Calm, SettledStays

\* Everything a step must show.
LEMMA Assemble ==
  ASSUME IInv, TypeOK', Published', Grows,
         \A b \in Builds : BuildKept(b),
         \A w \in Workers :
           WorkerInv(w)' \/ (pc'[w] = pc[w] /\ (w \in Nodes => row'[w] = row[w])),
         \A n \in Nodes : /\ todo'[n] \subseteq todo[n] \/ NodeInv(n)'
                          /\ row'[n] \in {row[n], None} \/ NodeInv(n)'
  PROVE  IInv' /\ \A b \in Builds : EndStays(b)
<1>1. ASSUME NEW n \in Nodes PROVE NodeInv(n)'
  <2>1. NodeInv(n) /\ row[n] \in Builds \cup {None}
    BY DEF IInv, TypeOK
  <2> QED BY <2>1 DEF NodeInv, BuildKept, SettledStays
<1>2. ASSUME NEW w \in Workers, pc'[w] = pc[w], w \in Nodes => row'[w] = row[w]
      PROVE  WorkerInv(w)'
  <2>1. WorkerInv(w)
    BY DEF IInv
  <2> SUFFICES ASSUME pc[w] \in Publishing PROVE WorkerInv(w)'
    BY <1>2 DEF WorkerInv, Publishing
  <2>2. AttemptOf(w) \in Builds /\ Settled(AttemptOf(w)) /\ AttemptOf(w)' = AttemptOf(w)
    <3>1. CASE w \in Builds
      <4>1. BuildInv(w)
        BY <3>1 DEF IInv
      <4> QED BY <3>1, <4>1 DEF BuildInv, AttemptOf
    <3>2. CASE w \in Nodes
      <4>1. w \notin Builds
        BY <3>2, BuildsAssumption
      <4>2. row[w] # None /\ row[w] \in Builds \cup {None} /\ NodeInv(w)
        BY <3>2 DEF IInv, TypeOK
      <4> QED BY <1>2, <3>2, <4>1, <4>2 DEF NodeInv, AttemptOf
    <3> QED BY <3>1, <3>2 DEF Workers
  <2>3. NamedBy(w)' = NamedBy(w) /\ NamedBy(w) \in Artifacts
    BY <2>2 DEF NamedBy, BuildKept, SettledStays, Settled
  <2> QED BY <1>2, <2>1, <2>3 DEF WorkerInv, Grows
<1> QED BY <1>1, <1>2 DEF IInv, BuildKept

-----------------------------------------------------------------------------
(* Steps of a build, up to publication. *)

\* One build goes on, the rest stands still.
LEMMA OwnStep ==
  ASSUME IInv, NEW b \in Builds, NEW place \in BuildPlaces, Goto(b, place),
         UNCHANGED <<components, manifests, slot, row, todo, up, crashes>>,
         catalog' \in [Artifacts -> ArtifactState],
         \A a \in Artifacts : IsVerified(a)' = IsVerified(a),
         attempt' \in [Builds -> Attempt],
         staging' \in [Builds -> Artifacts \cup {None}],
         \A c \in Builds : c # b => Calm(c),
         BuildKept(b), WorkerInv(b)'
  PROVE  IInv' /\ \A c \in Builds : EndStays(c)
<1>1. TypeOK /\ Published
  BY DEF IInv
<1>2. b \notin Nodes /\ pc' = [pc EXCEPT ![b] = place]
  BY BuildsAssumption DEF Goto
<1>3. \A w \in Workers : w # b => pc'[w] = pc[w]
  BY <1>1, <1>2 DEF TypeOK
<1>4. TypeOK'
  BY <1>1, <1>2 DEF TypeOK, CatalogTypeOK, Workers
<1>5. Grows /\ Published'
  BY <1>1 DEF Published, Grows, Bound
<1>6. \A c \in Builds : BuildKept(c)
  BY <1>5, CalmKept
<1> QED BY <1>2, <1>3, <1>4, <1>5, <1>6, Assemble

LEMMA AttemptFields ==
  ASSUME IInv, NEW b \in Builds
  PROVE  /\ attempt[b] \in Attempt
         /\ attempt[b].state \in {"none"} \cup Active \cup Terminal
         /\ attempt[b].lapsed \in BOOLEAN
         /\ attempt[b].artifact \in Artifacts \cup {None}
BY DEF IInv, TypeOK, Attempt

LEMMA MovedType ==
  ASSUME IInv, NEW b \in Builds, NEW to \in Active \cup Terminal,
         NEW a \in Artifacts \cup {None}
  PROVE  /\ Moved(attempt[b], to, a) \in Attempt
         /\ Moved(attempt[b], to, a).state = to
         /\ Moved(attempt[b], to, a).artifact = IF a = None THEN attempt[b].artifact ELSE a
BY AttemptFields DEF Moved, Attempt

\* transition, of an attempt that is active.
LEMMA MoveStep ==
  ASSUME IInv, NEW b \in Builds, NEW to \in Active \cup Terminal,
         NEW a \in Artifacts \cup {None}, Move(b, to, a)
  PROVE  /\ attempt' \in [Builds -> Attempt]
         /\ \A c \in Builds : c # b => attempt'[c] = attempt[c]
         /\ attempt'[b].state = to
         /\ attempt'[b].artifact = IF a = None THEN attempt[b].artifact ELSE a
BY MovedType DEF Move, IInv, TypeOK

\* heartbeat
LEMMA RenewStep ==
  ASSUME IInv, NEW b \in Builds, attempt' = Renewed(b)
  PROVE  /\ attempt' \in [Builds -> Attempt]
         /\ \A c \in Builds : c # b => attempt'[c] = attempt[c]
         /\ attempt'[b].state = attempt[b].state
         /\ attempt'[b].artifact = attempt[b].artifact
<1>1. [attempt[b] EXCEPT !.lapsed = FALSE] \in Attempt
  BY AttemptFields DEF Attempt
<1> QED BY <1>1, AttemptFields DEF Renewed, IInv, TypeOK, Attempt

\* expire_stale
LEMMA ExpireStep ==
  ASSUME IInv, attempt' = Expired
  PROVE  /\ attempt' \in [Builds -> Attempt]
         /\ \A c \in Builds :
              /\ attempt'[c].artifact = attempt[c].artifact
              /\ EndStays(c)
              /\ \/ attempt'[c] = attempt[c]
                 \/ attempt[c].state = "running" /\ attempt'[c].state = "expired"
<1>1. \A c \in Builds : attempt'[c] = IF attempt[c].state = "running" /\ attempt[c].lapsed
                                        THEN Moved(attempt[c], "expired", None) ELSE attempt[c]
  BY DEF Expired
<1>2. ASSUME NEW c \in Builds
      PROVE  /\ attempt'[c] \in Attempt
             /\ attempt'[c].artifact = attempt[c].artifact
             /\ EndStays(c)
             /\ \/ attempt'[c] = attempt[c]
                \/ attempt[c].state = "running" /\ attempt'[c].state = "expired"
  BY <1>1, MovedType, AttemptFields DEF EndStays, Terminal
<1>3. attempt' = [c \in Builds |-> attempt'[c]]
  BY DEF Expired
<1> QED BY <1>2, <1>3

\* Lapse, Beat
LEMMA LeaseInv ==
  ASSUME IInv, NEW b \in Builds, Lapse(b) \/ Beat(b)
  PROVE  IInv' /\ \A c \in Builds : EndStays(c)
<1>1. TypeOK /\ Published
  BY DEF IInv
<1>2. UNCHANGED <<catalogVars, staging, components, manifests, pc, row, todo, up, crashes>>
  BY DEF Lapse, Beat
<1>3. IsActive(b)
  BY DEF Lapse, Beat
<1>4. /\ attempt' \in [Builds -> Attempt]
      /\ \A c \in Builds : c # b => attempt'[c] = attempt[c]
      /\ attempt'[b].state = attempt[b].state
      /\ attempt'[b].artifact = attempt[b].artifact
  <2>1. CASE Lapse(b)
    <3>1. [attempt[b] EXCEPT !.lapsed = TRUE] \in Attempt
      BY AttemptFields DEF Attempt
    <3> QED BY <1>1, <2>1, <3>1, AttemptFields DEF Lapse, TypeOK, Attempt
  <2>2. CASE Beat(b)
    BY <2>2, RenewStep DEF Beat
  <2> QED BY <2>1, <2>2
<1>5. \A c \in Builds : Calm(c)
  BY <1>2, <1>3, <1>4 DEF Calm, EndStays, IsActive, Active, Terminal
<1>6. TypeOK'
  BY <1>1, <1>2, <1>4 DEF TypeOK, CatalogTypeOK, catalogVars
<1>7. Grows /\ Published'
  BY <1>1, <1>2 DEF Published, Grows, Bound, catalogVars, IsVerified
<1>8. \A c \in Builds : BuildKept(c)
  BY <1>5, <1>7, CalmKept
<1> QED BY <1>2, <1>6, <1>7, <1>8, Assemble

\* A build goes on and moves nothing but its own place.
LEMMA PlainStep ==
  ASSUME IInv, NEW b \in Builds, NEW place \in BuildPlaces \ (Before \cup Publishing),
         Goto(b, place), pc[b] \notin {"done"},
         UNCHANGED <<catalogVars, attempt, staging, components, manifests, row, todo, up, crashes>>,
         Settled(b) => place \in Late,
         place \in {"sealed", "catalog", "mark", "converge"} => staging[b] \in Artifacts,
         place = "converge" => IsVerified(staging[b])
  PROVE  IInv' /\ \A c \in Builds : EndStays(c)
<1>1. TypeOK /\ BuildInv(b)
  BY DEF IInv
<1>2. pc'[b] = place /\ \A c \in Builds : c # b => pc'[c] = pc[c]
  BY <1>1 DEF Goto, TypeOK, Workers
<1>3. \A c \in Builds : c # b => Calm(c)
  BY <1>2 DEF Calm, EndStays
<1>4. BuildInv(b)'
  BY <1>1, <1>2 DEF BuildInv, Settled, catalogVars, IsVerified, Bound, Before, Late, Publishing
<1>5. BuildKept(b)
  BY <1>2, <1>4 DEF BuildKept, SettledStays, EndStays, Settled
<1>6. WorkerInv(b)'
  BY <1>2 DEF WorkerInv, Publishing
<1>7. catalog' \in [Artifacts -> ArtifactState] /\ staging' \in [Builds -> Artifacts \cup {None}]
      /\ attempt' \in [Builds -> Attempt] /\ \A a \in Artifacts : IsVerified(a)' = IsVerified(a)
  BY <1>1 DEF TypeOK, CatalogTypeOK, catalogVars, IsVerified
<1> QED BY <1>3, <1>5, <1>6, <1>7, OwnStep DEF catalogVars

\* Up to the claim, and the claim.
LEMMA ClaimInv ==
  ASSUME IInv, NEW b \in Builds,
         CheckReuse(b) \/ CheckSealed(b) \/ ExpireStale(b) \/ Claim(b)
  PROVE  IInv' /\ \A c \in Builds : EndStays(c)
<1>1. TypeOK /\ BuildInv(b)
  BY DEF IInv
<1>2. pc[b] \in Before /\ attempt[b].state = "none"
  BY <1>1 DEF CheckReuse, CheckSealed, ExpireStale, Claim, Before, BuildInv
<1>3. UNCHANGED <<catalogVars, staging, components, manifests, row, todo, up, crashes>>
  BY DEF CheckReuse, CheckSealed, ExpireStale, Claim
<1>4. PICK place \in {"plan", "expire", "claim", "export", "done"} :
        /\ Goto(b, place)
        /\ place \in Before => attempt'[b].state = "none"
  <2>1. CASE CheckReuse(b) \/ CheckSealed(b)
    BY <1>2, <2>1 DEF CheckReuse, CheckSealed
  <2>2. CASE ExpireStale(b)
    BY <1>2, <2>2, ExpireStep DEF ExpireStale
  <2>3. CASE Claim(b)
    BY <2>3 DEF Claim, Before
  <2> QED BY <2>1, <2>2, <2>3
<1>5. /\ attempt' \in [Builds -> Attempt]
      /\ \A c \in Builds : /\ EndStays(c)
                           /\ attempt'[c].artifact = attempt[c].artifact
      /\ \A c \in Builds : c # b => \/ attempt'[c] = attempt[c]
                                    \/ attempt[c].state = "running" /\ attempt'[c].state = "expired"
      /\ attempt'[b].state \in {"none", "running"}
  <2>1. CASE UNCHANGED attempt
    BY <1>1, <1>2, <2>1 DEF TypeOK, EndStays
  <2>2. CASE ExpireStale(b)
    BY <1>2, <2>2, ExpireStep DEF ExpireStale
  <2>3. CASE attempt' = [attempt EXCEPT ![b].state = "running"]
    <3>1. [attempt[b] EXCEPT !.state = "running"] \in Attempt
      BY AttemptFields DEF Attempt, Active
    <3>2. attempt[b] \in Attempt
      BY AttemptFields
    <3> QED BY <1>1, <1>2, <2>3, <3>1, <3>2 DEF TypeOK, EndStays, Terminal, Attempt
  <2> QED BY <2>1, <2>2, <2>3 DEF CheckReuse, CheckSealed, ExpireStale, Claim
<1>6. pc'[b] = place /\ \A c \in Builds : c # b => pc'[c] = pc[c]
  BY <1>1, <1>4 DEF Goto, TypeOK, Workers
<1>7. \A c \in Builds : c # b => Calm(c)
  BY <1>3, <1>5, <1>6 DEF Calm, IsActive, Active
<1>8. ~Settled(b)
  BY <1>2 DEF Settled, Before, Late, Publishing
<1>9. BuildInv(b)'
  BY <1>4, <1>5, <1>6 DEF BuildInv, Before, Publishing
<1>10. BuildKept(b) /\ WorkerInv(b)'
  BY <1>5, <1>6, <1>8, <1>9 DEF BuildKept, SettledStays, WorkerInv
<1>11. catalog' \in [Artifacts -> ArtifactState] /\ staging' \in [Builds -> Artifacts \cup {None}]
       /\ \A a \in Artifacts : IsVerified(a)' = IsVerified(a)
  BY <1>1, <1>3 DEF TypeOK, CatalogTypeOK, catalogVars, IsVerified
<1>12. place \in BuildPlaces
  BY DEF BuildPlaces, Building
<1> QED BY <1>3, <1>4, <1>5, <1>7, <1>10, <1>11, <1>12, OwnStep DEF catalogVars

\* Export, seal, catalogue, and the ends of a build.
LEMMA BodyInv ==
  ASSUME IInv, NEW b \in Builds,
         \/ \E a \in Artifacts : Seal(b, a)
         \/ CheckSeal(b) \/ Catalogue(b) \/ MarkSealed(b) \/ Converge(b) \/ Fail(b)
  PROVE  IInv' /\ \A c \in Builds : EndStays(c)
<1> DEFINE Goal == IInv' /\ \A c \in Builds : EndStays(c)
<1>1. TypeOK /\ BuildInv(b) /\ attempt[b] \in Attempt
  BY AttemptFields DEF IInv
<1>2. UNCHANGED <<slot, components, manifests, row, todo, up, crashes>>
  BY DEF Seal, CheckSeal, Catalogue, MarkSealed, Converge, Fail, catalogVars
<1>3. /\ catalog' \in [Artifacts -> ArtifactState]
      /\ \A a \in Artifacts : IsVerified(a)' = IsVerified(a)
  <2>1. CASE UNCHANGED catalog
    BY <1>1, <2>1 DEF TypeOK, CatalogTypeOK, IsVerified
  <2>2. CASE Catalogue(b)
    BY <1>1, <2>2 DEF Catalogue, InsertSealed, TypeOK, CatalogTypeOK, ArtifactState, IsVerified
  <2> QED BY <2>1, <2>2 DEF Seal, CheckSeal, MarkSealed, Converge, Fail, catalogVars
<1>4. ASSUME NEW place \in BuildPlaces, Goto(b, place),
             attempt' \in [Builds -> Attempt],
             \A c \in Builds : c # b => attempt'[c] = attempt[c],
             staging' \in [Builds -> Artifacts \cup {None}],
             \A c \in Builds : c # b => staging'[c] = staging[c],
             EndStays(b), SettledStays(b), BuildInv(b)',
             place \notin Publishing \ {"upload"}
      PROVE  Goal
  <2>1. pc'[b] = place /\ \A c \in Builds : c # b => pc'[c] = pc[c]
    BY <1>1, <1>4 DEF Goto, TypeOK, Workers
  <2>2. \A c \in Builds : c # b => Calm(c)
    BY <1>4, <2>1 DEF Calm, EndStays
  <2>3. BuildKept(b)
    BY <1>4 DEF BuildKept
  <2>4. WorkerInv(b)'
    BY <1>4, <2>1 DEF WorkerInv, Publishing
  <2> QED BY <1>2, <1>3, <1>4, <2>2, <2>3, <2>4, OwnStep
<1>5. ASSUME pc[b] \in {"export", "sealed", "catalog", "mark", "converge"}
      PROVE  ~Settled(b) /\ attempt[b].state # "sealed"
  BY <1>1, <1>5 DEF Settled, Late, Publishing, BuildInv
<1>6. ASSUME NEW place \in BuildPlaces, Goto(b, place) PROVE pc'[b] = place
  BY <1>1, <1>6 DEF Goto, TypeOK, Workers
<1> HIDE DEF Goal
<1>7. ASSUME NEW a \in Artifacts, Seal(b, a) PROVE Goal
  <2>1. ~Settled(b) /\ attempt[b].state # "sealed"
    BY <1>5, <1>7 DEF Seal
  <2>2. staging' \in [Builds -> Artifacts \cup {None}]
        /\ \A c \in Builds : c # b => staging'[c] = staging[c]
    BY <1>1, <1>7 DEF Seal, TypeOK
  <2>3. CASE IsActive(b)
    <3>1. Goto(b, "sealed") /\ attempt' = Renewed(b) /\ staging'[b] = a
      BY <1>1, <1>7, <2>3 DEF Seal, CheckLease, TypeOK
    <3>2. pc'[b] = "sealed" /\ "sealed" \in BuildPlaces
      BY <1>6, <3>1 DEF BuildPlaces, Building
    <3>3. /\ attempt' \in [Builds -> Attempt] /\ attempt'[b].state = attempt[b].state
          /\ \A c \in Builds : c # b => attempt'[c] = attempt[c]
      BY <3>1, RenewStep
    <3>4. BuildInv(b)'
      BY <1>1, <2>1, <2>3, <3>1, <3>2, <3>3
        DEF BuildInv, Before, Publishing, IsActive, Active
    <3>5. EndStays(b) /\ SettledStays(b)
      BY <2>1, <2>3 DEF EndStays, SettledStays, IsActive, Active, Terminal
    <3> QED BY <1>4, <2>2, <3>1, <3>2, <3>3, <3>4, <3>5 DEF Publishing
  <2>4. CASE ~IsActive(b)
    <3>1. Goto(b, "error") /\ UNCHANGED <<attempt, staging>>
      BY <1>7, <2>4 DEF Seal, CheckLease
    <3>2. pc'[b] = "error" /\ "error" \in BuildPlaces
      BY <1>6, <3>1 DEF BuildPlaces
    <3>3. BuildInv(b)'
      BY <1>1, <1>2, <1>3, <2>1, <3>1, <3>2 DEF BuildInv, Before, Publishing, Bound, IsVerified
    <3>4. EndStays(b) /\ SettledStays(b) /\ attempt' \in [Builds -> Attempt]
      BY <1>1, <2>1, <3>1 DEF EndStays, SettledStays, TypeOK
    <3> QED BY <1>4, <2>2, <3>1, <3>2, <3>3, <3>4 DEF Publishing
  <2> QED BY <2>3, <2>4
<1>8. CASE CheckSeal(b)
  <2>1. ~Settled(b) /\ attempt[b].state # "sealed" /\ UNCHANGED staging
    BY <1>5, <1>8 DEF CheckSeal
  <2>2. PICK place \in {"catalog", "error"} : Goto(b, place)
    BY <1>8 DEF CheckSeal, CheckLease
  <2>3. pc'[b] = place /\ place \in BuildPlaces \ Publishing
    BY <1>6, <2>2 DEF BuildPlaces, Building, Publishing
  <2>4. /\ attempt' \in [Builds -> Attempt] /\ attempt'[b].state = attempt[b].state
        /\ \A c \in Builds : c # b => attempt'[c] = attempt[c]
        /\ EndStays(b)
    <3>1. CASE UNCHANGED attempt
      BY <1>1, <3>1 DEF TypeOK, EndStays
    <3>2. CASE IsActive(b) /\ attempt' = Renewed(b)
      BY <3>2, RenewStep DEF EndStays, IsActive, Active, Terminal
    <3> QED BY <1>8, <3>1, <3>2 DEF CheckSeal, CheckLease
  <2>5. SettledStays(b)
    BY <2>1 DEF SettledStays
  <2>6. attempt'[b].artifact = attempt[b].artifact
    BY <1>8, RenewStep DEF CheckSeal, CheckLease
  <2>7. BuildInv(b)'
    BY <1>1, <1>2, <1>3, <1>8, <2>1, <2>3, <2>4, <2>6
      DEF CheckSeal, BuildInv, Before, Publishing, Bound, IsVerified
  <2>8. Goal
    BY <1>1, <1>4, <2>1, <2>2, <2>3, <2>4, <2>5, <2>7 DEF TypeOK
  <2> QED BY <2>8 DEF Goal
<1>9. CASE Catalogue(b)
  <2>1. ~Settled(b) /\ attempt[b].state # "sealed" /\ UNCHANGED <<staging, attempt>>
    BY <1>5, <1>9 DEF Catalogue
  <2>2. /\ Goto(b, IF IsVerified(staging[b]) THEN "converge" ELSE "mark")
        /\ staging[b] \in Artifacts
    BY <1>1, <1>9 DEF Catalogue, ArtifactOf, AttemptOf, BuildInv
  <2>3. PICK place \in {"converge", "mark"} :
          Goto(b, place) /\ (place = "converge" => IsVerified(staging[b]))
    BY <2>2
  <2>4. pc'[b] = place /\ place \in BuildPlaces \ Publishing
    BY <1>6, <2>3 DEF BuildPlaces, Building, Publishing
  <2>5. EndStays(b) /\ SettledStays(b) /\ attempt' \in [Builds -> Attempt]
        /\ staging' \in [Builds -> Artifacts \cup {None}]
    BY <1>1, <2>1 DEF EndStays, SettledStays, TypeOK
  <2>6. IsVerified(staging[b]) => IsVerified(staging[b])'
    BY <1>3, <2>1, <2>2 DEF IsVerified
  <2>7. BuildInv(b)'
    BY <1>1, <1>2, <1>3, <2>1, <2>2, <2>3, <2>4, <2>6
      DEF BuildInv, Before, Publishing, Bound, IsVerified
  <2>8. Goal
    BY <1>4, <2>1, <2>3, <2>4, <2>5, <2>7
  <2> QED BY <2>8 DEF Goal
<1>10. CASE MarkSealed(b)
  <2>1. ~Settled(b) /\ attempt[b].state # "sealed" /\ staging[b] \in Artifacts /\ UNCHANGED staging
    BY <1>1, <1>5, <1>10 DEF MarkSealed, BuildInv
  <2>2. staging' \in [Builds -> Artifacts \cup {None}] /\ SettledStays(b)
    BY <1>1, <2>1 DEF TypeOK, SettledStays
  <2>3. CASE IsActive(b)
    <3>1. Move(b, "sealed", staging[b]) /\ Goto(b, "upload")
      BY <1>10, <2>3 DEF MarkSealed, ArtifactOf, AttemptOf
    <3>2. "sealed" \in Active \cup Terminal /\ staging[b] # None
      BY <2>1, CatalogAssumption DEF Active
    <3>3. /\ attempt' \in [Builds -> Attempt]
          /\ \A c \in Builds : c # b => attempt'[c] = attempt[c]
          /\ attempt'[b].state = "sealed" /\ attempt'[b].artifact = staging[b]
      BY <2>1, <3>1, <3>2, MoveStep
    <3>4. pc'[b] = "upload" /\ "upload" \in BuildPlaces
      BY <1>6, <3>1 DEF BuildPlaces, Publishing
    <3>5. BuildInv(b)'
      BY <2>1, <3>3, <3>4 DEF BuildInv, Before, Late, Publishing, Settled
    <3>6. EndStays(b)
      BY <2>3 DEF EndStays, IsActive, Active, Terminal
    <3>7. Goal
      BY <1>4, <2>1, <2>2, <3>1, <3>3, <3>4, <3>5, <3>6
    <3> QED BY <3>7 DEF Goal
  <2>4. CASE ~IsActive(b)
    <3>1. Goto(b, "error") /\ UNCHANGED attempt
      BY <1>10, <2>4 DEF MarkSealed
    <3>2. pc'[b] = "error" /\ "error" \in BuildPlaces \ Publishing
      BY <1>6, <3>1 DEF BuildPlaces, Publishing
    <3>3. EndStays(b) /\ attempt' \in [Builds -> Attempt]
      BY <1>1, <3>1 DEF EndStays, TypeOK
    <3>4. BuildInv(b)'
      BY <1>1, <1>2, <1>3, <2>1, <3>1, <3>2 DEF BuildInv, Before, Publishing, Bound, IsVerified
    <3>5. Goal
      BY <1>4, <2>1, <2>2, <3>1, <3>2, <3>3, <3>4
    <3> QED BY <3>5 DEF Goal
  <2> QED BY <2>3, <2>4
<1>11. CASE Converge(b)
  <2>1. /\ ~Settled(b) /\ attempt[b].state # "sealed" /\ staging[b] \in Artifacts
        /\ IsVerified(staging[b])
    BY <1>1, <1>5, <1>11 DEF Converge, BuildInv
  <2>2. Goto(b, "done") /\ pc'[b] = "done" /\ "done" \in BuildPlaces \ Publishing
    BY <1>6, <1>11 DEF Converge, BuildPlaces, Publishing
  <2>3. CASE IsActive(b)
    <3>1. Move(b, "converged", staging[b]) /\ staging' = [staging EXCEPT ![b] = None]
      BY <1>11, <2>3 DEF Converge, ArtifactOf, AttemptOf
    <3>2. "converged" \in Active \cup Terminal /\ staging[b] # None
      BY <2>1, CatalogAssumption DEF Terminal
    <3>3. /\ attempt' \in [Builds -> Attempt]
          /\ \A c \in Builds : c # b => attempt'[c] = attempt[c]
          /\ attempt'[b].state = "converged" /\ attempt'[b].artifact = staging[b]
      BY <2>1, <3>1, <3>2, MoveStep
    <3>4. staging' \in [Builds -> Artifacts \cup {None}]
          /\ \A c \in Builds : c # b => staging'[c] = staging[c]
      BY <1>1, <3>1 DEF TypeOK
    <3>5. catalog'[staging[b]] = "verified"
      BY <1>3, <2>1 DEF IsVerified
    <3>6. BuildInv(b)'
      BY <2>1, <2>2, <3>3, <3>5 DEF BuildInv, Before, Publishing, IsVerified
    <3>7. EndStays(b) /\ SettledStays(b)
      BY <2>1, <2>3 DEF EndStays, SettledStays, IsActive, Active, Terminal
    <3>8. Goal
      BY <1>4, <2>2, <3>3, <3>4, <3>6, <3>7
    <3> QED BY <3>8 DEF Goal
  <2>4. CASE ~IsActive(b)
    <3>1. UNCHANGED <<attempt, staging>>
      BY <1>11, <2>4 DEF Converge
    <3>2. EndStays(b) /\ SettledStays(b) /\ attempt' \in [Builds -> Attempt]
          /\ staging' \in [Builds -> Artifacts \cup {None}]
      BY <1>1, <2>1, <3>1 DEF EndStays, SettledStays, TypeOK
    <3>3. BuildInv(b)'
      BY <1>1, <1>2, <1>3, <2>1, <2>2, <3>1 DEF BuildInv, Before, Publishing, Bound, IsVerified
    <3>4. Goal
      BY <1>4, <2>2, <3>1, <3>2, <3>3
    <3> QED BY <3>4 DEF Goal
  <2> QED BY <2>3, <2>4
<1>12. CASE Fail(b)
  <2>1. /\ Goto(b, "done") /\ pc[b] = "error" /\ pc'[b] = "done"
        /\ "done" \in BuildPlaces \ Publishing
    BY <1>6, <1>12 DEF Fail, BuildPlaces, Publishing
  <2>2. /\ staging' \in [Builds -> Artifacts \cup {None}]
        /\ \A c \in Builds : c # b => staging'[c] = staging[c]
    BY <1>1, <1>12 DEF Fail, TypeOK
  <2>3. CASE UNCHANGED attempt
    <3>1. EndStays(b) /\ SettledStays(b) /\ attempt' \in [Builds -> Attempt]
      BY <1>1, <2>1, <2>3 DEF EndStays, SettledStays, Settled, Late, TypeOK
    <3>2. BuildInv(b)'
      BY <1>1, <1>2, <1>3, <2>1, <2>3
        DEF BuildInv, Before, Late, Publishing, Settled, Bound, IsVerified
    <3>3. Goal
      BY <1>4, <2>1, <2>2, <2>3, <3>1, <3>2
    <3> QED BY <3>3 DEF Goal
  <2>4. CASE IsActive(b) /\ Move(b, "failed", None)
    <3>1. "failed" \in Active \cup Terminal
      BY DEF Terminal
    <3>2. /\ attempt' \in [Builds -> Attempt]
          /\ \A c \in Builds : c # b => attempt'[c] = attempt[c]
          /\ attempt'[b].state = "failed" /\ attempt'[b].artifact = attempt[b].artifact
      BY <2>4, <3>1, MoveStep
    <3>3. EndStays(b) /\ SettledStays(b)
      BY <2>1, <2>4, <3>2 DEF EndStays, SettledStays, Settled, Late, IsActive, Active, Terminal
    <3>4. BuildInv(b)'
      BY <2>1, <3>2 DEF BuildInv, Before, Publishing
    <3>5. Goal
      BY <1>4, <2>1, <2>2, <3>2, <3>3, <3>4
    <3> QED BY <3>5 DEF Goal
  <2> QED BY <1>12, <2>3, <2>4 DEF Fail
<1>13. Goal
  BY <1>7, <1>8, <1>9, <1>10, <1>11, <1>12 DEF Goal
<1> QED BY <1>13 DEF Goal

-----------------------------------------------------------------------------
(* Publication. *)

\* Whoever publishes works on a settled attempt.
LEMMA PublishFacts ==
  ASSUME IInv, NEW w \in Workers,
         pc[w] \in Publishing \/ (w \in Nodes /\ pc[w] \in {"resume", "error"})
  PROVE  /\ AttemptOf(w) \in Builds /\ Settled(AttemptOf(w)) /\ NamedBy(w) \in Artifacts
         /\ w \in Builds => AttemptOf(w) = w /\ w \notin Nodes
         /\ w \in Nodes => AttemptOf(w) = row[w] /\ w \notin Builds
<1>1. CASE w \in Builds
  <2>1. BuildInv(w) /\ w \notin Nodes
    BY <1>1, BuildsAssumption DEF IInv
  <2> QED BY <1>1, <2>1 DEF BuildInv, AttemptOf, NamedBy, Settled
<1>2. CASE w \in Nodes
  <2>1. w \notin Builds
    BY <1>2, BuildsAssumption
  <2>2. row[w] # None /\ row[w] \in Builds \cup {None} /\ NodeInv(w)
    BY <1>2 DEF IInv, TypeOK
  <2> QED BY <1>2, <2>1, <2>2 DEF NodeInv, AttemptOf, NamedBy, Settled
<1> QED BY <1>1, <1>2 DEF Workers

\* A worker publishes some more, and no attempt moves.
LEMMA PublishStep ==
  ASSUME IInv, NEW w \in Workers, pc[w] \in Publishing,
         NEW place \in Publishing \cup {"error"}, Goto(w, place),
         UNCHANGED <<attempt, staging, row, todo, up, crashes>>,
         CatalogTypeOK', components' \subseteq Artifacts, manifests' \subseteq Artifacts,
         Grows, Published', WorkerInv(w)'
  PROVE  IInv' /\ \A c \in Builds : EndStays(c)
<1>1. TypeOK
  BY DEF IInv
<1>2. pc' = [pc EXCEPT ![w] = place] /\ pc'[w] = place
      /\ \A v \in Workers : v # w => pc'[v] = pc[v]
  BY <1>1 DEF Goto, TypeOK
<1>3. TypeOK'
  <2>1. pc' \in [Workers -> BuildPlaces \cup ReconcilerPlaces]
    BY <1>1, <1>2 DEF TypeOK, BuildPlaces
  <2>2. \A c \in Builds : pc'[c] \in BuildPlaces
    BY <1>1, <1>2 DEF TypeOK, BuildPlaces, Workers
  <2>3. \A n \in Nodes : pc'[n] \in ReconcilerPlaces
    BY <1>1, <1>2 DEF TypeOK, ReconcilerPlaces, Workers
  <2>4. \A n \in Nodes : (row'[n] # None) = (pc'[n] \in {"resume", "error"} \cup Publishing)
    BY <1>1, <1>2 DEF TypeOK, Workers
  <2> QED BY <1>1, <2>1, <2>2, <2>3, <2>4 DEF TypeOK
<1>4. ASSUME NEW c \in Builds PROVE BuildKept(c)
  <2>1. CASE c # w
    <3>1. Calm(c)
      BY <1>2, <2>1 DEF Calm, EndStays, Workers
    <3> QED BY <3>1, CalmKept
  <2>2. CASE c = w
    <3>1. Settled(c) /\ BuildInv(c)
      BY <2>2, PublishFacts DEF IInv
    <3>2. Settled(c)'
      BY <1>2, <2>2, <3>1 DEF Settled, Late
    <3>3. BuildInv(c)'
      BY <1>2, <2>2, <3>1, <3>2 DEF BuildInv, Settled, Grows, Before, Late, Publishing
    <3> QED BY <3>2, <3>3 DEF BuildKept, SettledStays, EndStays
  <2> QED BY <2>1, <2>2
<1> QED BY <1>2, <1>3, <1>4, Assemble

LEMMA PublishInv ==
  ASSUME IInv, NEW w \in Workers,
         \/ Upload(w) \/ PutManifest(w) \/ Verify(w) \/ ReadStaged(w) \/ BindStaged(w)
         \/ (CallFails(w) /\ pc[w] \in Publishing)
  PROVE  IInv' /\ \A c \in Builds : EndStays(c)
<1> DEFINE Goal == IInv' /\ \A c \in Builds : EndStays(c)
<1>1. TypeOK /\ Published /\ CatalogTypeOK /\ WorkerInv(w)
      /\ components \subseteq Artifacts /\ manifests \subseteq Artifacts
  BY DEF IInv, TypeOK
<1>2. pc[w] \in Publishing /\ UNCHANGED <<attempt, staging, row, todo, up, crashes>>
  BY DEF Upload, PutManifest, Verify, ReadStaged, BindStaged, CallFails, Publishing
<1>3. NamedBy(w) \in Artifacts
  BY <1>2, PublishFacts
<1>4. NamedBy(w)' = NamedBy(w)
  BY <1>2 DEF NamedBy, AttemptOf
<1>5. ASSUME NEW place \in Publishing \cup {"error"}, Goto(w, place) PROVE pc'[w] = place
  BY <1>1, <1>5 DEF Goto, TypeOK
<1>6. ASSUME UNCHANGED <<catalogVars, components, manifests>> PROVE Grows /\ Published' /\ CatalogTypeOK'
  BY <1>1, <1>6 DEF Grows, Published, CatalogTypeOK, catalogVars, Bound, IsVerified
<1>7. ASSUME UNCHANGED <<catalogVars, components, manifests>>, Goto(w, "error")
      PROVE  Goal
  <2>1. WorkerInv(w)'
    BY <1>5, <1>7 DEF WorkerInv
  <2> QED BY <1>1, <1>2, <1>6, <1>7, <2>1, PublishStep
<1> HIDE DEF Goal
<1>8. CASE Upload(w)
  <2>1. CASE Goto(w, "error") /\ UNCHANGED components
    <3>1. Goal
      BY <1>7, <1>8, <2>1 DEF Upload
    <3> QED BY <3>1 DEF Goal
  <2>2. CASE components' = components \cup {NamedBy(w)} /\ Goto(w, "manifest")
    <3>1. UNCHANGED <<catalogVars, manifests>>
      BY <1>8 DEF Upload
    <3>2. Grows /\ Published' /\ CatalogTypeOK' /\ components' \subseteq Artifacts
      BY <1>1, <1>3, <2>2, <3>1 DEF Grows, Published, CatalogTypeOK, catalogVars, Bound, IsVerified
    <3>3. "manifest" \in Publishing
      BY DEF Publishing
    <3>4. WorkerInv(w)'
      BY <1>4, <1>5, <2>2, <3>3 DEF WorkerInv
    <3> QED BY <1>1, <1>2, <2>2, <3>1, <3>2, <3>3, <3>4, PublishStep
  <2> QED BY <1>8, <2>1, <2>2 DEF Upload
<1>9. CASE PutManifest(w)
  <2>1. CASE Goto(w, "error") /\ UNCHANGED manifests
    <3>1. Goal
      BY <1>7, <1>9, <2>1 DEF PutManifest
    <3> QED BY <3>1 DEF Goal
  <2>2. CASE manifests' = manifests \cup {NamedBy(w)} /\ Goto(w, "verify")
    <3>1. UNCHANGED <<catalogVars, components>> /\ NamedBy(w) \in components
      BY <1>1, <1>9 DEF PutManifest, WorkerInv
    <3>2. Grows /\ Published' /\ CatalogTypeOK' /\ manifests' \subseteq Artifacts
      BY <1>1, <1>3, <2>2, <3>1 DEF Grows, Published, CatalogTypeOK, catalogVars, Bound, IsVerified
    <3>3. "verify" \in Publishing
      BY DEF Publishing
    <3>4. WorkerInv(w)'
      BY <1>4, <1>5, <2>2, <3>3 DEF WorkerInv
    <3> QED BY <1>1, <1>2, <2>2, <3>1, <3>2, <3>3, <3>4, PublishStep
  <2> QED BY <1>9, <2>1, <2>2 DEF PutManifest
<1>10. CASE Verify(w)
  <2>1. CASE UNCHANGED catalog /\ Goto(w, "error")
    <3>1. Goal
      BY <1>7, <1>10, <2>1 DEF Verify, catalogVars
    <3> QED BY <3>1 DEF Goal
  <2>2. CASE MarkVerified(NamedBy(w)) /\ Goto(w, "slot")
    <3>1. UNCHANGED <<slot, components, manifests>> /\ NamedBy(w) \in manifests
      BY <1>1, <1>10 DEF Verify, WorkerInv
    <3>2. /\ catalog' \in [Artifacts -> ArtifactState] /\ catalog'[NamedBy(w)] = "verified"
          /\ \A a \in Artifacts : a # NamedBy(w) => catalog'[a] = catalog[a]
      BY <1>1, <1>3, <2>2 DEF MarkVerified, CatalogTypeOK, ArtifactState
    <3>3. Grows /\ Published' /\ CatalogTypeOK'
      BY <1>1, <3>1, <3>2 DEF Grows, Published, CatalogTypeOK, Bound, IsVerified
    <3>4. "slot" \in Publishing
      BY DEF Publishing
    <3>5. WorkerInv(w)'
      BY <1>4, <1>5, <2>2, <3>2, <3>4 DEF WorkerInv, IsVerified
    <3> QED BY <1>1, <1>2, <2>2, <3>1, <3>3, <3>4, <3>5, PublishStep
  <2> QED BY <1>10, <2>1, <2>2 DEF Verify
<1>11. CASE ReadStaged(w)
  <2>1. UNCHANGED <<catalogVars, components, manifests>> /\ IsVerified(NamedBy(w))
    BY <1>1, <1>11 DEF ReadStaged, WorkerInv
  <2>2. PICK place \in {"finish", "bind"} :
          Goto(w, place) /\ (place = "finish" => slot["staged"] # None)
    BY <1>11 DEF ReadStaged
  <2>3. place \in Publishing /\ pc'[w] = place
    BY <1>5, <2>2 DEF Publishing
  <2>4. WorkerInv(w)'
    BY <1>4, <2>1, <2>2, <2>3 DEF WorkerInv, catalogVars, IsVerified, Bound, Slots
  <2>5. Grows /\ Published' /\ CatalogTypeOK'
    BY <1>6, <2>1
  <2> QED BY <1>1, <1>2, <2>1, <2>2, <2>3, <2>4, <2>5, PublishStep
<1>12. CASE BindStaged(w)
  <2>1. CASE UNCHANGED slot /\ Goto(w, "error")
    <3>1. Goal
      BY <1>7, <1>12, <2>1 DEF BindStaged, catalogVars
    <3> QED BY <3>1 DEF Goal
  <2>2. CASE BindNew("staged", NamedBy(w)) /\ Goto(w, "finish")
    <3>1. UNCHANGED <<catalog, components, manifests>> /\ IsVerified(NamedBy(w))
      BY <1>1, <1>12 DEF BindStaged, WorkerInv
    <3>2. [artifact |-> NamedBy(w), generation |-> 1] \in Binding
      BY <1>3, CatalogAssumption DEF Binding, Generations
    <3>3. [artifact |-> NamedBy(w), generation |-> 1] # None
      BY <3>2, CatalogAssumption
    <3>4. slot' \in [Slots -> Binding \cup {None}] /\ slot'["staged"] # None
      BY <1>1, <2>2, <3>2, <3>3 DEF BindNew, CatalogTypeOK, Slots
    <3>5. Grows /\ Published' /\ CatalogTypeOK' /\ Bound'
      BY <1>1, <3>1, <3>4 DEF Grows, Published, CatalogTypeOK, Bound, IsVerified, Slots
    <3>6. "finish" \in Publishing
      BY DEF Publishing
    <3>7. WorkerInv(w)'
      BY <1>4, <1>5, <2>2, <3>1, <3>5, <3>6 DEF WorkerInv, IsVerified
    <3> QED BY <1>1, <1>2, <2>2, <3>1, <3>5, <3>6, <3>7, PublishStep
  <2> QED BY <1>12, <2>1, <2>2 DEF BindStaged
<1>13. CASE CallFails(w)
  <2>1. Goal
    BY <1>7, <1>13 DEF CallFails
  <2> QED BY <2>1 DEF Goal
<1> QED BY <1>8, <1>9, <1>10, <1>11, <1>12, <1>13

-----------------------------------------------------------------------------
(* The reconciler. *)

\* A reconciler goes on; builds stand still, though it may end an attempt.
LEMMA NodeStep ==
  ASSUME IInv, NEW n \in Nodes, NEW place \in ReconcilerPlaces, Goto(n, place),
         NEW r \in Builds \cup {None}, row' = [row EXCEPT ![n] = r],
         (r # None) = (place \in {"resume", "error"} \cup Publishing),
         NEW rows \in SUBSET (Builds \X BOOLEAN), todo' = [todo EXCEPT ![n] = rows],
         UNCHANGED <<catalogVars, components, manifests, up, crashes>>,
         attempt' \in [Builds -> Attempt],
         staging' \in [Builds -> Artifacts \cup {None}],
         \A b \in Builds : pc'[b] = pc[b] => Calm(b),
         WorkerInv(n)',
         r \in {row[n], None} \/ Settled(r),
         \A b \in Builds, lapsed \in BOOLEAN :
           <<b, lapsed>> \in rows => <<b, lapsed>> \in todo[n] \/ Settled(b)
  PROVE  IInv' /\ \A c \in Builds : EndStays(c)
<1>1. TypeOK /\ Published /\ NodeInv(n)
  BY DEF IInv
<1>2. pc' = [pc EXCEPT ![n] = place] /\ pc'[n] = place
      /\ \A v \in Workers : v # n => pc'[v] = pc[v]
  BY <1>1 DEF Goto, TypeOK, Workers
<1>3. \A b \in Builds : Calm(b)
  BY <1>2, BuildsAssumption DEF Workers
<1>4. TypeOK'
  <2>1. pc' \in [Workers -> BuildPlaces \cup ReconcilerPlaces]
    BY <1>1, <1>2 DEF TypeOK
  <2>2. \A c \in Builds : pc'[c] \in BuildPlaces
    BY <1>1, <1>3 DEF TypeOK, Calm
  <2>3. \A m \in Nodes : pc'[m] \in ReconcilerPlaces
    BY <1>1, <1>2 DEF TypeOK, Workers
  <2>4. row' \in [Nodes -> Builds \cup {None}] /\ todo' \in [Nodes -> SUBSET (Builds \X BOOLEAN)]
    BY <1>1 DEF TypeOK
  <2>5. \A m \in Nodes : (row'[m] # None) = (pc'[m] \in {"resume", "error"} \cup Publishing)
    BY <1>1, <1>2 DEF TypeOK, Workers
  <2>6. CatalogTypeOK'
    BY <1>1 DEF TypeOK, CatalogTypeOK, catalogVars
  <2> QED BY <1>1, <2>1, <2>2, <2>3, <2>4, <2>5, <2>6 DEF TypeOK
<1>5. Grows /\ Published'
  BY <1>1 DEF Grows, Published, Bound, catalogVars, IsVerified
<1>6. \A b \in Builds : BuildKept(b)
  BY <1>3, <1>5, CalmKept
<1>7. NodeInv(n)'
  <2>1. row'[n] = r /\ todo'[n] = rows
    BY <1>1 DEF TypeOK
  <2>2. \A b \in Builds : Settled(b) => Settled(b)'
    BY <1>6 DEF BuildKept, SettledStays
  <2> QED BY <1>1, <2>1, <2>2 DEF NodeInv
<1>8. \A m \in Nodes : m # n => row'[m] = row[m] /\ todo'[m] = todo[m]
  BY <1>1 DEF TypeOK
<1>9. \A w \in Workers : WorkerInv(w)' \/ (pc'[w] = pc[w] /\ (w \in Nodes => row'[w] = row[w]))
  BY <1>2, <1>8
<1>10. \A m \in Nodes : /\ todo'[m] \subseteq todo[m] \/ NodeInv(m)'
                        /\ row'[m] \in {row[m], None} \/ NodeInv(m)'
  BY <1>7, <1>8
<1> QED BY <1>4, <1>5, <1>6, <1>9, <1>10, Assemble

LEMMA ScanInv ==
  ASSUME IInv, NEW n \in Nodes, Scan(n)
  PROVE  IInv' /\ \A c \in Builds : EndStays(c)
<1>1. TypeOK /\ row[n] = None /\ pc[n] = "idle"
  BY DEF IInv, TypeOK, Scan, Publishing
<1> DEFINE sealed == {c \in Builds : attempt[c].state = "sealed"}
           rows == {<<b, attempt[b].lapsed>> : b \in sealed}
<1>2. rows \in SUBSET (Builds \X BOOLEAN)
  BY AttemptFields
<1>3. todo' = [todo EXCEPT ![n] = rows] /\ attempt' = Expired /\ Goto(n, "rows")
      /\ UNCHANGED <<catalogVars, staging, components, manifests, row, up, crashes>>
  BY DEF Scan
<1>4. row' = [row EXCEPT ![n] = None]
  BY <1>1, <1>3 DEF TypeOK
<1>5. \A b \in Builds : pc'[b] = pc[b] => Calm(b)
  BY <1>3, ExpireStep DEF Calm, IsActive, Active
<1>6. \A b \in Builds, lapsed \in BOOLEAN : <<b, lapsed>> \in rows => Settled(b)
  <2> SUFFICES ASSUME NEW b \in Builds, attempt[b].state = "sealed" PROVE Settled(b)
    OBVIOUS
  <2> QED BY DEF IInv, BuildInv
<1>7. pc'[n] = "rows"
  BY <1>1, <1>3 DEF Goto, TypeOK, Workers
<1>8. WorkerInv(n)'
  BY <1>7 DEF WorkerInv
<1>9. attempt' \in [Builds -> Attempt] /\ staging' \in [Builds -> Artifacts \cup {None}]
  BY <1>1, <1>3, ExpireStep DEF TypeOK
<1>10. "rows" \in ReconcilerPlaces /\ "rows" \notin {"resume", "error"} \cup Publishing
  BY DEF ReconcilerPlaces, Publishing
<1>11. /\ None \in Builds \cup {None}
       /\ None \in {row[n], None} \/ Settled(None)
       /\ (None # None) = ("rows" \in {"resume", "error"} \cup Publishing)
  BY <1>10
<1>12. \A b \in Builds, lapsed \in BOOLEAN :
         <<b, lapsed>> \in rows => <<b, lapsed>> \in todo[n] \/ Settled(b)
  BY <1>6
<1> HIDE DEF rows
<1> QED BY <1>2, <1>3, <1>4, <1>5, <1>8, <1>9, <1>10, <1>11, <1>12, NodeStep

\* A settled attempt is ended; its staged copy may go with it.
LEMMA EndAttempt ==
  ASSUME IInv, NEW b \in Builds, Settled(b), IsActive(b),
         NEW to \in {"failed", "succeeded"}, Move(b, to, None),
         to = "succeeded" => IsVerified(attempt[b].artifact) /\ Bound,
         staging' \in {staging, [staging EXCEPT ![b] = None]}
  PROVE  /\ attempt' \in [Builds -> Attempt]
         /\ staging' \in [Builds -> Artifacts \cup {None}]
         /\ \A c \in Builds : pc'[c] = pc[c] => Calm(c)
         /\ \A c \in Builds : c # b => attempt'[c] = attempt[c] /\ staging'[c] = staging[c]
         /\ attempt'[b].state = to /\ attempt'[b].artifact = attempt[b].artifact
<1>1. to \in Active \cup Terminal
  BY DEF Terminal
<1>2. /\ attempt' \in [Builds -> Attempt]
      /\ \A c \in Builds : c # b => attempt'[c] = attempt[c]
      /\ attempt'[b].state = to /\ attempt'[b].artifact = attempt[b].artifact
  BY <1>1, MoveStep
<1>3. /\ staging' \in [Builds -> Artifacts \cup {None}]
      /\ \A c \in Builds : c # b => staging'[c] = staging[c]
  BY DEF IInv, TypeOK
<1>4. \A c \in Builds : pc'[c] = pc[c] => Calm(c)
  BY <1>2, <1>3 DEF Calm, EndStays, IsActive, Active, Terminal
<1> QED BY <1>2, <1>3, <1>4

\* A pass goes on to its next row, or ends.
LEMMA PassStep ==
  ASSUME IInv, NEW n \in Nodes, NextRow(n) \/ AbortPass(n),
         UNCHANGED <<catalogVars, components, manifests, up, crashes>>,
         attempt' \in [Builds -> Attempt],
         staging' \in [Builds -> Artifacts \cup {None}],
         \A b \in Builds : pc'[b] = pc[b] => Calm(b)
  PROVE  IInv' /\ \A c \in Builds : EndStays(c)
<1>1. TypeOK
  BY DEF IInv
<1>2. PICK place \in {"rows", "idle"}, rows \in {todo[n], {}} :
        Goto(n, place) /\ todo' = [todo EXCEPT ![n] = rows]
  BY <1>1 DEF NextRow, AbortPass, TypeOK
<1>3. row' = [row EXCEPT ![n] = None]
  BY DEF NextRow, AbortPass
<1>4. /\ place \in ReconcilerPlaces /\ None \in Builds \cup {None}
      /\ None \in {row[n], None} \/ Settled(None)
      /\ (None # None) = (place \in {"resume", "error"} \cup Publishing)
  BY DEF ReconcilerPlaces, Publishing
<1>5. rows \in SUBSET (Builds \X BOOLEAN)
      /\ \A b \in Builds, lapsed \in BOOLEAN :
           <<b, lapsed>> \in rows => <<b, lapsed>> \in todo[n] \/ Settled(b)
  BY <1>1, <1>2 DEF TypeOK
<1>6. pc'[n] = place
  BY <1>1, <1>2 DEF Goto, TypeOK, Workers
<1>7. WorkerInv(n)'
  BY <1>6 DEF WorkerInv
<1> QED BY <1>2, <1>3, <1>4, <1>5, <1>7, NodeStep

LEMMA FinishInv ==
  ASSUME IInv, NEW w \in Workers, Finish(w)
  PROVE  IInv' /\ \A c \in Builds : EndStays(c)
<1> DEFINE b == AttemptOf(w)
<1>1. pc[w] = "finish" /\ pc[w] \in Publishing
  BY DEF Finish, Publishing
<1>2. /\ b \in Builds /\ Settled(b) /\ NamedBy(w) = attempt[b].artifact
      /\ w \in Builds => b = w /\ w \notin Nodes
      /\ w \in Nodes => b = row[w] /\ w \notin Builds
  BY <1>1, PublishFacts DEF NamedBy
<1>3. TypeOK /\ BuildInv(b) /\ IsVerified(attempt[b].artifact) /\ Bound
  BY <1>1, <1>2 DEF IInv, WorkerInv
<1>4. UNCHANGED <<catalogVars, components, manifests, up, crashes>>
  BY DEF Finish
<1>5. /\ attempt' \in [Builds -> Attempt]
      /\ staging' \in [Builds -> Artifacts \cup {None}]
      /\ \A c \in Builds : pc'[c] = pc[c] => Calm(c)
      /\ \A c \in Builds : c # b => attempt'[c] = attempt[c] /\ staging'[c] = staging[c]
      /\ attempt'[b].artifact = attempt[b].artifact
      /\ EndStays(b) /\ (attempt'[b].state = attempt[b].state \/ attempt'[b].state = "succeeded")
  <2>1. CASE IsActive(b)
    <3>1. Move(b, "succeeded", None) /\ staging' = [staging EXCEPT ![b] = None]
      BY <2>1 DEF Finish
    <3> QED BY <1>2, <1>3, <2>1, <3>1, EndAttempt DEF EndStays, IsActive, Active, Terminal
  <2>2. CASE ~IsActive(b)
    <3>1. UNCHANGED <<attempt, staging>>
      BY <2>2 DEF Finish
    <3> QED BY <1>3, <3>1 DEF TypeOK, Calm, EndStays
  <2> QED BY <2>1, <2>2
<1>6. CASE w \in Builds
  <2>1. Goto(w, "done") /\ UNCHANGED <<row, todo>> /\ b = w
    BY <1>2, <1>6 DEF Finish
  <2>2. pc'[w] = "done" /\ "done" \in BuildPlaces
        /\ \A c \in Builds : c # w => pc'[c] = pc[c]
    BY <1>3, <2>1 DEF Goto, TypeOK, Workers, BuildPlaces
  <2>3. Settled(w)'
    BY <1>2, <1>5, <2>1, <2>2 DEF Settled, Late
  <2>4. IsVerified(attempt[w].artifact)' /\ Bound'
    BY <1>3, <1>4, <1>5, <2>1 DEF catalogVars, IsVerified, Bound
  <2>5. BuildInv(w)'
    BY <1>2, <1>5, <2>1, <2>2, <2>3, <2>4 DEF BuildInv, Settled, Before
  <2>6. BuildKept(w) /\ WorkerInv(w)'
    BY <1>5, <2>1, <2>2, <2>3, <2>5 DEF BuildKept, SettledStays, WorkerInv
  <2>7. catalog' \in [Artifacts -> ArtifactState] /\ \A a \in Artifacts : IsVerified(a)' = IsVerified(a)
    BY <1>3, <1>4 DEF TypeOK, CatalogTypeOK, catalogVars, IsVerified
  <2> QED BY <1>4, <1>5, <1>6, <2>1, <2>2, <2>6, <2>7, OwnStep DEF catalogVars
<1>7. CASE w \in Nodes
  <2>1. NextRow(w) \/ AbortPass(w)
    BY <1>2, <1>7 DEF Finish
  <2> QED BY <1>4, <1>5, <1>7, <2>1, PassStep
<1> QED BY <1>6, <1>7 DEF Workers

\* Steps of a pass that end no attempt.
LEMMA PassInv ==
  ASSUME IInv, NEW n \in Nodes,
         \/ EndPass(n) \/ Resume(n) \/ (CallFails(n) /\ pc[n] \notin Publishing)
         \/ \E b \in Builds, lapsed \in BOOLEAN : SkipRow(n, b, lapsed) \/ StartResume(n, b, lapsed)
  PROVE  IInv' /\ \A c \in Builds : EndStays(c)
<1> DEFINE Goal == IInv' /\ \A c \in Builds : EndStays(c)
<1>1. TypeOK /\ n \notin Builds
  BY BuildsAssumption DEF IInv
<1>2. UNCHANGED <<catalogVars, attempt, staging, components, manifests, up, crashes>>
  BY DEF EndPass, Resume, CallFails, SkipRow, StartResume
<1>3. /\ attempt' \in [Builds -> Attempt]
      /\ staging' \in [Builds -> Artifacts \cup {None}]
      /\ \A b \in Builds : pc'[b] = pc[b] => Calm(b)
  BY <1>1, <1>2 DEF TypeOK, Calm, EndStays
<1>4. ASSUME NEW place \in ReconcilerPlaces, Goto(n, place),
             NEW r \in Builds \cup {None}, row' = [row EXCEPT ![n] = r],
             (r # None) = (place \in {"resume", "error"} \cup Publishing),
             r \in {row[n], None} \/ Settled(r),
             NEW rows \in SUBSET todo[n], todo' = [todo EXCEPT ![n] = rows],
             WorkerInv(n)'
      PROVE  Goal
  <2>1. rows \in SUBSET (Builds \X BOOLEAN)
    BY <1>1 DEF TypeOK
  <2>2. \A b \in Builds, lapsed \in BOOLEAN :
          <<b, lapsed>> \in rows => <<b, lapsed>> \in todo[n] \/ Settled(b)
    OBVIOUS
  <2> QED BY <1>2, <1>3, <1>4, <2>1, <2>2, NodeStep
<1> HIDE DEF Goal
<1>5. ASSUME NEW place \in ReconcilerPlaces, Goto(n, place) PROVE pc'[n] = place
  BY <1>1, <1>5 DEF Goto, TypeOK, Workers
<1>6. row = [row EXCEPT ![n] = row[n]] /\ todo = [todo EXCEPT ![n] = todo[n]]
      /\ row[n] \in Builds \cup {None}
      /\ (row[n] # None) = (pc[n] \in {"resume", "error"} \cup Publishing)
  BY <1>1 DEF TypeOK
<1>7. CASE EndPass(n)
  <2>1. "idle" \in ReconcilerPlaces /\ Goto(n, "idle") /\ UNCHANGED <<row, todo>> /\ pc[n] = "rows"
    BY <1>7 DEF EndPass, ReconcilerPlaces
  <2>2. WorkerInv(n)'
    BY <1>5, <2>1 DEF WorkerInv
  <2>3. (row[n] # None) = ("idle" \in {"resume", "error"} \cup Publishing)
    BY <1>6, <2>1 DEF Publishing
  <2>4. Goal
    BY <1>4, <1>6, <2>1, <2>2, <2>3
  <2> QED BY <2>4 DEF Goal
<1>8. CASE Resume(n)
  <2>1. pc[n] = "resume" /\ UNCHANGED <<row, todo>>
    BY <1>8 DEF Resume
  <2>2. PICK place \in {"error", "slot", "upload"} :
          Goto(n, place) /\ (place = "slot" => IsVerified(NamedBy(n)))
    BY <1>8 DEF Resume
  <2>3. place \in ReconcilerPlaces /\ place \in {"resume", "error"} \cup Publishing
    BY DEF ReconcilerPlaces, Publishing
  <2>4. NamedBy(n)' = NamedBy(n)
    BY <1>2, <2>1 DEF NamedBy, AttemptOf
  <2>5. WorkerInv(n)'
    BY <1>2, <1>5, <2>2, <2>3, <2>4 DEF WorkerInv, catalogVars, IsVerified
  <2>6. (row[n] # None) = (place \in {"resume", "error"} \cup Publishing)
    BY <1>6, <2>1, <2>3
  <2>7. Goal
    BY <1>4, <1>6, <2>1, <2>2, <2>3, <2>5, <2>6
  <2> QED BY <2>7 DEF Goal
<1>9. CASE CallFails(n) /\ pc[n] \notin Publishing
  <2>1. pc[n] \in ReconcilerPlaces
    BY <1>1 DEF TypeOK
  <2> QED BY <1>9, <2>1 DEF CallFails, Building, ReconcilerPlaces, Publishing
<1>10. ASSUME NEW b \in Builds, NEW lapsed \in BOOLEAN, SkipRow(n, b, lapsed) PROVE Goal
  <2>1. /\ pc[n] = "rows" /\ UNCHANGED <<pc, row>> /\ "rows" \in ReconcilerPlaces
        /\ todo' = [todo EXCEPT ![n] = todo[n] \ {<<b, lapsed>>}]
    BY <1>10 DEF SkipRow, ReconcilerPlaces
  <2>2. Goto(n, "rows")
    BY <1>1, <2>1 DEF Goto, TypeOK, Workers
  <2>3. WorkerInv(n)'
    BY <2>1 DEF WorkerInv
  <2>4. todo[n] \ {<<b, lapsed>>} \in SUBSET todo[n]
    OBVIOUS
  <2>5. (row[n] # None) = ("rows" \in {"resume", "error"} \cup Publishing)
    BY <1>6, <2>1
  <2> QED BY <1>4, <1>6, <2>1, <2>2, <2>3, <2>4, <2>5
<1>11. ASSUME NEW b \in Builds, NEW lapsed \in BOOLEAN, StartResume(n, b, lapsed) PROVE Goal
  <2>1. /\ Goto(n, "resume") /\ row' = [row EXCEPT ![n] = b] /\ "resume" \in ReconcilerPlaces
        /\ todo' = [todo EXCEPT ![n] = todo[n] \ {<<b, lapsed>>}]
        /\ <<b, lapsed>> \in todo[n]
    BY <1>11 DEF StartResume, ReconcilerPlaces
  <2>2. WorkerInv(n)'
    BY <1>5, <2>1 DEF WorkerInv
  <2>3. todo[n] \ {<<b, lapsed>>} \in SUBSET todo[n]
    OBVIOUS
  <2>4. Settled(b) /\ b # None
    BY <2>1, BuildsAssumption DEF IInv, NodeInv
  <2>5. (b # None) = ("resume" \in {"resume", "error"} \cup Publishing)
    BY <2>4
  <2> QED BY <1>4, <2>1, <2>2, <2>3, <2>4, <2>5
<1>12. Goal
  BY <1>7, <1>8, <1>9, <1>10, <1>11 DEF Goal
<1> QED BY <1>12 DEF Goal

LEMMA AbandonInv ==
  ASSUME IInv, NEW n \in Nodes, NEW b \in Builds, NEW lapsed \in BOOLEAN, Abandon(n, b, lapsed)
  PROVE  IInv' /\ \A c \in Builds : EndStays(c)
<1>1. TypeOK /\ Settled(b) /\ pc[n] = "rows"
  BY DEF IInv, NodeInv, Abandon
<1>2. UNCHANGED <<catalogVars, components, manifests, up, crashes>>
  BY DEF Abandon
<1>3. CASE IsActive(b)
  <2>1. /\ Move(b, "failed", None) /\ UNCHANGED <<pc, row>>
        /\ todo' = [todo EXCEPT ![n] = todo[n] \ {<<b, lapsed>>}]
        /\ staging' \in {staging, [staging EXCEPT ![b] = None]}
    BY <1>3 DEF Abandon, Unstaged
  <2>2. /\ attempt' \in [Builds -> Attempt]
        /\ staging' \in [Builds -> Artifacts \cup {None}]
        /\ \A c \in Builds : pc'[c] = pc[c] => Calm(c)
    BY <1>1, <1>3, <2>1, EndAttempt
  <2>3. Goto(n, "rows") /\ row' = [row EXCEPT ![n] = row[n]] /\ "rows" \in ReconcilerPlaces
        /\ row[n] \in Builds \cup {None}
        /\ (row[n] # None) = ("rows" \in {"resume", "error"} \cup Publishing)
    BY <1>1, <2>1 DEF Goto, TypeOK, Workers, ReconcilerPlaces
  <2>4. WorkerInv(n)'
    BY <1>1, <2>1 DEF WorkerInv
  <2>5. todo[n] \ {<<b, lapsed>>} \in SUBSET (Builds \X BOOLEAN)
    BY <1>1 DEF TypeOK
  <2>6. \A c \in Builds, l \in BOOLEAN :
          <<c, l>> \in todo[n] \ {<<b, lapsed>>} => <<c, l>> \in todo[n] \/ Settled(c)
    OBVIOUS
  <2>7. PICK rows \in SUBSET (Builds \X BOOLEAN) :
          /\ todo' = [todo EXCEPT ![n] = rows]
          /\ \A c \in Builds, l \in BOOLEAN :
               <<c, l>> \in rows => <<c, l>> \in todo[n] \/ Settled(c)
    BY <2>1, <2>5, <2>6
  <2>8. row[n] \in {row[n], None} \/ Settled(row[n])
    OBVIOUS
  <2> QED BY <1>2, <2>2, <2>3, <2>4, <2>7, <2>8, NodeStep
<1>4. CASE ~IsActive(b)
  <2>1. AbortPass(n) /\ UNCHANGED <<attempt, staging>>
    BY <1>4 DEF Abandon
  <2>2. /\ attempt' \in [Builds -> Attempt]
        /\ staging' \in [Builds -> Artifacts \cup {None}]
        /\ \A c \in Builds : pc'[c] = pc[c] => Calm(c)
    BY <1>1, <2>1 DEF TypeOK, Calm, EndStays
  <2> QED BY <1>2, <2>1, <2>2, PassStep
<1> QED BY <1>3, <1>4

LEMMA GiveUpInv ==
  ASSUME IInv, NEW n \in Nodes, GiveUp(n)
  PROVE  IInv' /\ \A c \in Builds : EndStays(c)
<1>1. TypeOK /\ row[n] \in Builds /\ Settled(row[n])
  BY PublishFacts DEF IInv, GiveUp, Workers
<1>2. UNCHANGED <<catalogVars, components, manifests, up, crashes>> /\ (NextRow(n) \/ AbortPass(n))
  BY DEF GiveUp
<1>3. /\ attempt' \in [Builds -> Attempt]
      /\ staging' \in [Builds -> Artifacts \cup {None}]
      /\ \A c \in Builds : pc'[c] = pc[c] => Calm(c)
  <2>1. CASE IsActive(row[n])
    <3>1. /\ Move(row[n], "failed", None)
          /\ staging' \in {staging, [staging EXCEPT ![row[n]] = None]}
      BY <2>1 DEF GiveUp
    <3> QED BY <1>1, <2>1, <3>1, EndAttempt
  <2>2. CASE ~IsActive(row[n])
    <3>1. UNCHANGED <<attempt, staging>>
      BY <2>2 DEF GiveUp
    <3> QED BY <1>1, <3>1 DEF TypeOK, Calm, EndStays
  <2> QED BY <2>1, <2>2
<1> QED BY <1>2, <1>3, PassStep

-----------------------------------------------------------------------------
(* Crashes, restarts, promotion. *)

LEMMA CrashInv ==
  ASSUME IInv, NEW n \in Nodes, Crash(n)
  PROVE  IInv' /\ \A c \in Builds : EndStays(c)
<1>1. TypeOK /\ Published
  BY DEF IInv
<1>2. /\ UNCHANGED <<catalogVars, attempt, components, manifests>>
      /\ row' = [row EXCEPT ![n] = None] /\ todo' = [todo EXCEPT ![n] = {}]
      /\ up' = up \ {n} /\ crashes' = crashes + 1 /\ crashes < MaxCrashes
  BY DEF Crash
<1>3. /\ \A w \in Workers : pc'[w] = IF HostOf(w) # n \/ pc[w] = "start" THEN pc[w]
                                     ELSE IF w \in Nodes THEN "idle" ELSE "done"
      /\ pc' = [w \in Workers |-> pc'[w]]
  BY DEF Crash
<1>4. /\ staging' \in [Builds -> Artifacts \cup {None}]
      /\ \A b \in Builds : NodeOf[b] # n => staging'[b] = staging[b]
  <2>1. PICK kept \in BOOLEAN :
          staging' = [b \in Builds |-> IF NodeOf[b] = n /\ ~kept THEN None ELSE staging[b]]
    BY DEF Crash
  <2> QED BY <1>1, <2>1 DEF TypeOK
<1>5. \A m \in Nodes : m \notin Builds /\ HostOf(m) = m /\ pc[m] # "start"
  BY <1>1, BuildsAssumption DEF HostOf, TypeOK, ReconcilerPlaces, Publishing
<1>6. \A b \in Builds : b \notin Nodes /\ HostOf(b) = NodeOf[b]
  BY BuildsAssumption DEF HostOf
<1>7. TypeOK'
  <2>1. \A c \in Builds : pc'[c] \in BuildPlaces
    BY <1>1, <1>3, <1>6 DEF TypeOK, BuildPlaces, Workers
  <2>2. \A m \in Nodes : pc'[m] = IF m = n THEN "idle" ELSE pc[m]
    BY <1>3, <1>5 DEF Workers
  <2>3. \A m \in Nodes : pc'[m] \in ReconcilerPlaces
    BY <1>1, <2>2 DEF TypeOK, ReconcilerPlaces
  <2>4. pc' \in [Workers -> BuildPlaces \cup ReconcilerPlaces]
    BY <1>3, <2>1, <2>3 DEF Workers
  <2>5. row' \in [Nodes -> Builds \cup {None}]
        /\ \A m \in Nodes : (row'[m] # None) = (pc'[m] \in {"resume", "error"} \cup Publishing)
    BY <1>1, <1>2, <2>2 DEF TypeOK, Publishing
  <2>6. todo' \in [Nodes -> SUBSET (Builds \X BOOLEAN)] /\ up' \subseteq Nodes
    BY <1>1, <1>2 DEF TypeOK
  <2>7. crashes' \in 0..MaxCrashes
    BY <1>1, <1>2, BuildsAssumption DEF TypeOK
  <2> QED BY <1>1, <1>2, <1>4, <2>1, <2>3, <2>4, <2>5, <2>6, <2>7
          DEF TypeOK, CatalogTypeOK, catalogVars
<1>8. Grows /\ Published'
  BY <1>1, <1>2 DEF Grows, Published, Bound, catalogVars, IsVerified
<1>9. ASSUME NEW b \in Builds PROVE BuildKept(b)
  <2>1. BuildInv(b)
    BY DEF IInv
  <2>2. CASE HostOf(b) # n
    <3>1. Calm(b)
      BY <1>2, <1>3, <1>4, <1>6, <2>2 DEF Calm, EndStays, Workers
    <3> QED BY <1>8, <3>1, CalmKept
  <2>3. CASE HostOf(b) = n /\ pc[b] = "start"
    <3>1. pc'[b] = "start" /\ ~Settled(b) /\ attempt[b].state = "none"
      BY <1>3, <2>1, <2>3 DEF Workers, Settled, Late, Publishing, BuildInv, Before
    <3>2. BuildInv(b)'
      BY <1>2, <3>1 DEF BuildInv, Publishing
    <3> QED BY <1>2, <3>1, <3>2 DEF BuildKept, SettledStays, EndStays
  <2>4. CASE HostOf(b) = n /\ pc[b] # "start"
    <3>1. pc'[b] = "done"
      BY <1>3, <1>6, <2>4 DEF Workers
    <3>2. BuildInv(b)' /\ (Settled(b) => Settled(b)')
      BY <1>2, <2>1, <3>1
        DEF BuildInv, Before, Late, Publishing, Settled, catalogVars, IsVerified, Bound
    <3> QED BY <1>2, <3>1, <3>2 DEF BuildKept, SettledStays, EndStays
  <2> QED BY <2>2, <2>3, <2>4
<1>10. ASSUME NEW w \in Workers
       PROVE  WorkerInv(w)' \/ (pc'[w] = pc[w] /\ (w \in Nodes => row'[w] = row[w]))
  <2>1. CASE HostOf(w) # n
    BY <1>1, <1>2, <1>3, <1>5, <2>1 DEF TypeOK
  <2>2. CASE HostOf(w) = n
    <3>1. pc'[w] \in {"idle", "done", "start"}
      BY <1>3, <2>2
    <3> QED BY <3>1 DEF WorkerInv
  <2> QED BY <2>1, <2>2
<1>11. \A m \in Nodes : /\ todo'[m] \subseteq todo[m] \/ NodeInv(m)'
                        /\ row'[m] \in {row[m], None} \/ NodeInv(m)'
  BY <1>1, <1>2 DEF TypeOK
<1> QED BY <1>7, <1>8, <1>9, <1>10, <1>11, Assemble

\* Steps in which every worker stands still.
LEMMA StillInv ==
  ASSUME IInv,
         \/ \E n \in Nodes : Restart(n)
         \/ Promote
         \/ UNCHANGED vars
  PROVE  IInv' /\ \A c \in Builds : EndStays(c)
<1>1. TypeOK /\ Published
  BY DEF IInv
<1>2. /\ UNCHANGED <<catalog, attempt, staging, components, manifests, pc, row, todo, crashes>>
      /\ up' \subseteq Nodes
  BY <1>1 DEF Restart, Promote, vars, catalogVars, buildVars, TypeOK
<1>3. CatalogTypeOK' /\ (Bound => Bound')
  <2>1. CASE UNCHANGED slot
    BY <1>1, <1>2, <2>1 DEF TypeOK, CatalogTypeOK, Bound
  <2>2. CASE Promote
    <3>1. PICK g \in Generations : PromoteStaged(g, GenerationOf("serving"))
      BY <2>2 DEF Promote
    <3>2. slot["staged"] \in Binding /\ slot["serving"] \in Binding \cup {None}
      BY <1>1, <3>1 DEF PromoteStaged, Promotable, TypeOK, CatalogTypeOK, Slots
    <3>3. GenerationOf("serving") + 1 \in Generations
      BY <3>1, <3>2, CatalogAssumption DEF PromoteStaged, GenerationOf, Binding, Generations
    <3>4. PICK new \in Binding :
            slot' = [slot EXCEPT !["serving"] = new, !["staged"] = None]
      BY <3>1, <3>2, <3>3 DEF PromoteStaged, Binding
    <3>5. new # None
      BY <3>4, CatalogAssumption
    <3> QED BY <1>1, <1>2, <3>4, <3>5 DEF TypeOK, CatalogTypeOK, Bound, Slots
  <2> QED BY <2>1, <2>2 DEF Restart, vars, catalogVars
<1>4. TypeOK'
  BY <1>1, <1>2, <1>3 DEF TypeOK
<1>5. Grows /\ Published'
  BY <1>1, <1>2, <1>3 DEF Grows, Published, IsVerified
<1>6. \A b \in Builds : Calm(b)
  BY <1>2 DEF Calm, EndStays
<1>7. \A b \in Builds : BuildKept(b)
  BY <1>5, <1>6, CalmKept
<1> QED BY <1>2, <1>4, <1>5, <1>7, Assemble

LEMMA InitInv == Init => IInv
<1> SUFFICES ASSUME Init PROVE IInv
  OBVIOUS
<1>1. \A w \in Workers : pc[w] = IF w \in Builds THEN "start" ELSE "idle"
  BY DEF Init
<1>2. \A n \in Nodes : n \notin Builds
  BY BuildsAssumption
<1>3. TypeOK
  BY <1>1, <1>2, BuildsAssumption
    DEF Init, CatalogInit, CatalogTypeOK, TypeOK, Attempt, ArtifactState, Workers, BuildPlaces,
        ReconcilerPlaces, Publishing, Building
<1>4. /\ \A b \in Builds : BuildInv(b)
      /\ \A w \in Workers : WorkerInv(w)
      /\ \A n \in Nodes : NodeInv(n)
  BY <1>1 DEF Init, BuildInv, WorkerInv, NodeInv, Workers, Publishing
<1>5. Published
  BY DEF Init, CatalogInit, Published, IsVerified
<1> QED BY <1>3, <1>4, <1>5 DEF IInv

LEMMA NextInv == IInv /\ [Next]_vars => IInv' /\ \A c \in Builds : EndStays(c)
<1> SUFFICES ASSUME IInv, [Next]_vars PROVE IInv' /\ \A c \in Builds : EndStays(c)
  OBVIOUS
<1> DEFINE Goal == IInv' /\ \A c \in Builds : EndStays(c)
<1>1. ASSUME NEW b \in Builds, BuildStep(b) \/ Lapse(b) \/ Beat(b) PROVE Goal
  BY <1>1, ClaimInv, BodyInv, LeaseInv DEF BuildStep
<1>2. ASSUME NEW w \in Workers, Publish(w) PROVE Goal
  BY <1>2, PublishInv, FinishInv DEF Publish
<1>3. ASSUME NEW w \in Workers, CallFails(w) PROVE Goal
  <2>1. CASE pc[w] \in Publishing
    BY <1>3, <2>1, PublishInv
  <2>2. CASE pc[w] \notin Publishing /\ w \in Nodes
    BY <1>3, <2>2, PassInv
  <2>3. CASE pc[w] \notin Publishing /\ w \in Builds
    <3>1. "error" \in BuildPlaces \ (Before \cup Publishing) /\ "error" \in Late
      BY DEF BuildPlaces, Before, Late, Publishing
    <3>2. /\ Goto(w, "error") /\ pc[w] \notin {"done"}
          /\ UNCHANGED <<catalogVars, attempt, staging, components, manifests, row, todo, up, crashes>>
      BY <1>3, <2>3 DEF CallFails, Building, Publishing
    <3> QED BY <2>3, <3>1, <3>2, PlainStep
  <2> QED BY <2>1, <2>2, <2>3 DEF Workers
<1>4. ASSUME NEW n \in Nodes, Reconcile(n) PROVE Goal
  BY <1>4, ScanInv, PassInv, AbandonInv, GiveUpInv DEF Reconcile
<1>5. ASSUME NEW n \in Nodes, Crash(n) PROVE Goal
  BY <1>5, CrashInv
<1>6. CASE (\E n \in Nodes : Restart(n)) \/ Promote \/ UNCHANGED vars
  BY <1>6, StillInv
<1> QED BY <1>1, <1>2, <1>3, <1>4, <1>5, <1>6 DEF Next

LEMMA Invariance == Spec => []IInv
<1>1. IInv /\ [Next]_vars => IInv'
  BY NextInv
<1> QED BY <1>1, InitInv, PTL DEF Spec

-----------------------------------------------------------------------------
(* The refinement: only three kinds of steps are seen by readers of the    *)
(* catalog.                                                                *)

Hidden == UNCHANGED <<catalogVars, components, manifests>>

LEMMA HiddenLife == Hidden => UNCHANGED Life!lifeVars
BY DEF Hidden, Life!lifeVars, catalogVars, IsVerified

\* Every step that touches the store, the catalog or the slots, by name.
Seen ==
  \/ \E b \in Builds : Catalogue(b)
  \/ \E w \in Workers : Upload(w) \/ PutManifest(w) \/ Verify(w) \/ BindStaged(w)
  \/ Promote

LEMMA SeenOrHidden == Next => Seen \/ Hidden
<1> SUFFICES ASSUME Next, ~Seen PROVE Hidden
  OBVIOUS
<1>1. ASSUME NEW b \in Builds, BuildStep(b) \/ Lapse(b) \/ Beat(b) PROVE Hidden
  BY <1>1 DEF BuildStep, Seen, Lapse, Beat, CheckReuse, CheckSealed, ExpireStale, Claim, Seal,
              CheckSeal, MarkSealed, Converge, Fail, Hidden, catalogVars
<1>2. ASSUME NEW w \in Workers, Publish(w) \/ CallFails(w) PROVE Hidden
  BY <1>2 DEF Publish, Seen, CallFails, ReadStaged, Finish, Hidden, catalogVars
<1>3. ASSUME NEW n \in Nodes, Reconcile(n) \/ Crash(n) \/ Restart(n) PROVE Hidden
  BY <1>3 DEF Reconcile, Scan, EndPass, Resume, GiveUp, SkipRow, Abandon, StartResume,
              Crash, Restart, Hidden, catalogVars
<1> QED BY <1>1, <1>2, <1>3 DEF Next, Seen

LEMMA SeenLife ==
  ASSUME IInv, Seen
  PROVE  Life!LifeNext \/ UNCHANGED Life!lifeVars
<1> DEFINE Goal == Life!LifeNext \/ UNCHANGED Life!lifeVars
<1>1. TypeOK /\ Published
  BY DEF IInv
<1>2. ASSUME NEW b \in Builds, Catalogue(b) PROVE Goal
  <2>1. \A a \in Artifacts : IsVerified(a)' = IsVerified(a)
    BY <1>1, <1>2 DEF Catalogue, InsertSealed, TypeOK, CatalogTypeOK, ArtifactState, IsVerified
  <2>2. {a \in Artifacts : IsVerified(a)'} = {a \in Artifacts : IsVerified(a)}
    BY <2>1
  <2> QED BY <1>2, <2>2 DEF Catalogue, Life!lifeVars
<1>3. ASSUME NEW w \in Workers, Upload(w) PROVE Goal
  <2>1. components \subseteq components' /\ UNCHANGED <<catalogVars, manifests>>
    BY <1>3 DEF Upload
  <2>2. components' \cap manifests' = components \cap manifests
    BY <1>1, <2>1 DEF Published
  <2> QED BY <2>1, <2>2 DEF Life!lifeVars, catalogVars, IsVerified
<1>4. ASSUME NEW w \in Workers, PutManifest(w) PROVE Goal
  <2>1. UNCHANGED <<catalogVars, components>> /\ pc[w] = "manifest"
    BY <1>4 DEF PutManifest
  <2>2. NamedBy(w) \in Artifacts /\ NamedBy(w) \in components
    BY <2>1, PublishFacts DEF Publishing, IInv, WorkerInv
  <2>3. CASE UNCHANGED manifests
    BY <2>1, <2>3, HiddenLife DEF Hidden
  <2>4. CASE manifests' = manifests \cup {NamedBy(w)}
    <3>1. components' \cap manifests' = (components \cap manifests) \cup {NamedBy(w)}
      BY <2>1, <2>2, <2>4
    <3>2. Life!Store(NamedBy(w))
      BY <2>1, <3>1 DEF Life!Store, catalogVars, IsVerified
    <3> QED BY <2>2, <3>2 DEF Life!LifeNext
  <2> QED BY <1>4, <2>3, <2>4 DEF PutManifest
<1>5. ASSUME NEW w \in Workers, Verify(w) PROVE Goal
  <2>1. UNCHANGED <<slot, components, manifests>> /\ pc[w] = "verify"
    BY <1>5 DEF Verify
  <2>2. NamedBy(w) \in Artifacts /\ NamedBy(w) \in components \cap manifests
    BY <1>1, <2>1, PublishFacts DEF Publishing, Published, IInv, WorkerInv
  <2>3. CASE UNCHANGED catalog
    BY <2>1, <2>3, HiddenLife DEF Hidden, catalogVars
  <2>4. CASE MarkVerified(NamedBy(w))
    <3>1. {a \in Artifacts : IsVerified(a)'} = {a \in Artifacts : IsVerified(a)} \cup {NamedBy(w)}
      BY <1>1, <2>2, <2>4 DEF MarkVerified, IsVerified, TypeOK, CatalogTypeOK
    <3>2. Life!Approve(NamedBy(w))
      BY <2>1, <2>2, <3>1 DEF Life!Approve
    <3> QED BY <2>2, <3>2 DEF Life!LifeNext
  <2> QED BY <1>5, <2>3, <2>4 DEF Verify
<1>6. ASSUME NEW w \in Workers, BindStaged(w) PROVE Goal
  <2>1. UNCHANGED <<catalog, components, manifests>> /\ slot'["serving"] = slot["serving"]
    BY <1>1, <1>6 DEF BindStaged, BindNew, TypeOK, CatalogTypeOK, Slots
  <2> QED BY <2>1 DEF Life!lifeVars, IsVerified
<1>7. CASE Promote
  <2>1. UNCHANGED <<catalog, components, manifests>>
    BY <1>7 DEF Promote, buildVars
  <2>2. PICK g \in Generations : PromoteStaged(g, GenerationOf("serving"))
    BY <1>7 DEF Promote
  <2> DEFINE new == [artifact |-> slot["staged"].artifact, generation |-> GenerationOf("serving") + 1]
  <2>3. slot["staged"] \in Binding /\ slot["serving"] \in Binding \cup {None}
        /\ IsVerified(slot["staged"].artifact)
    BY <1>1, <2>2 DEF PromoteStaged, Promotable, TypeOK, CatalogTypeOK, Slots
  <2>4. new \in Binding
    BY <2>2, <2>3, CatalogAssumption DEF PromoteStaged, GenerationOf, Binding, Generations
  <2>5. slot'["serving"] = new
    BY <1>1, <2>2 DEF PromoteStaged, TypeOK, CatalogTypeOK, Slots
  <2>6. slot'["serving"] # None /\ slot'["serving"].artifact = slot["staged"].artifact
    BY <2>4, <2>5, CatalogAssumption
  <2>7. slot["staged"].artifact \in {a \in Artifacts : IsVerified(a)}
    BY <2>3 DEF Binding
  <2>8. Life!Serve(slot["staged"].artifact)
    BY <2>1, <2>6, <2>7 DEF Life!Serve, IsVerified
  <2> QED BY <2>7, <2>8 DEF Life!LifeNext
<1> QED BY <1>2, <1>3, <1>4, <1>5, <1>6, <1>7 DEF Seen

-----------------------------------------------------------------------------
\* Attempts, the catalog and the workers of a node are well formed; a
\* reconciler holds a row exactly while it resumes it (reconcile_attempts).
THEOREM BuildsTypeOK == Spec => []TypeOK
<1>1. IInv => TypeOK
  BY DEF IInv
<1> QED BY <1>1, Invariance, PTL

\* Nothing succeeds or converges over a result that cannot be served
\* (mark_succeeded after bind_staged_if_empty, mark_converged).
THEOREM WellEndedIsServable == Spec => []EndedWellIsServable
<1>1. IInv => EndedWellIsServable
  <2> SUFFICES ASSUME IInv, NEW b \in Builds, attempt[b].state \in {"succeeded", "converged"}
               PROVE  /\ attempt[b].artifact # None
                      /\ IsVerified(attempt[b].artifact)
                      /\ attempt[b].state = "succeeded" => \E s \in Slots : slot[s] # None
    BY DEF EndedWellIsServable
  <2> QED BY CatalogAssumption DEF IInv, BuildInv, Bound
<1> QED BY <1>1, Invariance, PTL

\* An attempt that has ended is never touched again, whoever holds its row
\* still (transition).
THEOREM EndsAreFinal == Spec => EndedStays
<1>1. IInv /\ [Next]_vars =>
        [\A b \in Builds : attempt[b].state \in Terminal => attempt'[b] = attempt[b]]_vars
  BY NextInv DEF EndStays
<1> QED BY <1>1, Invariance, PTL DEF Spec, EndedStays

\* Builds, reconcilers, crashes and promotions together do what ArtifactLife
\* promises: bytes, then verification, then serving, and nothing taken back
\* (publish_and_verify, resume_publication, promote_staged).
THEOREM CatalogKeepsItsPromise == Spec => ImplementsLife
<1>1. Init => Life!LifeInit
  BY DEF Init, CatalogInit, Life!LifeInit, IsVerified, Slots
<1>2. IInv /\ [Next]_vars => [Life!LifeNext]_(Life!lifeVars)
  <2> SUFFICES ASSUME IInv, [Next]_vars PROVE Life!LifeNext \/ UNCHANGED Life!lifeVars
    OBVIOUS
  <2>1. CASE Next
    BY <2>1, SeenOrHidden, SeenLife, HiddenLife
  <2>2. CASE UNCHANGED vars
    BY <2>2, HiddenLife DEF Hidden, vars, catalogVars, buildVars
  <2> QED BY <2>1, <2>2
<1> QED BY <1>1, <1>2, Invariance, PTL DEF Spec, ImplementsLife, Life!LifeSpec
=============================================================================
