---------------------------- MODULE LedgerProofs ----------------------------
(***************************************************************************)
(* Theorems about Ledger, for every set of versions, keys, values and      *)
(* commands and every bound.                                               *)
(*                                                                         *)
(*   however clients branch   type correctness; disputes are explained     *)
(*   no writes above a child  pins are exact for facts and anchors, what a *)
(*                            command gated against is the canon, accepted *)
(*                            claims respect it, commands are serial       *)
(*   a single line            promises too; no stamp is given out twice    *)
(*                                                                         *)
(* The hypothesis is the constant Growth; the argument starts from what a  *)
(* step does to the tables (StepShape): it writes one version that may be  *)
(* written, and stamps what is new above that version's head.              *)
(***************************************************************************)
EXTENDS Ledger, TLAPS, WellFoundedInduction

\* A non-empty set of stamps has a largest element, and Max picks it.
LEMMA MaxOfStamps ==
  ASSUME NEW S, S \subseteq Pins, S # {}
  PROVE  Max(S) \in S /\ \A y \in S : y <= Max(S)
<1> DEFINE U == {n \in Nat : \A y \in S : y <= n}
<1>1. S \subseteq Nat /\ MaxSeq \in U
  BY BoundsAssumption DEF Pins
<1>2. PICK m \in U : \A n \in U : ~(<<n, m>> \in OpToRel(<, Nat))
  BY <1>1, NatLessThanWellFounded, WFMin
<1>3. \A n \in U : ~(n < m)
  BY <1>2 DEF OpToRel
<1>4. m \in S
  <2>1. SUFFICES ASSUME m \notin S PROVE FALSE
    OBVIOUS
  <2>2. PICK y \in S : TRUE
    OBVIOUS
  <2>3. m - 1 \in U
    BY <1>1, <2>1, <2>2
  <2>. QED
    BY <1>1, <1>3, <2>3
<1>5. \E x \in S : \A y \in S : x >= y
  BY <1>1, <1>4
<1>. QED
  BY <1>1, <1>5 DEF Max

\* Every stamp a version sees lies within the bound.
LEMMA StampsArePins ==
  ASSUME TypeOK, NEW v \in Versions
  PROVE  {0} \cup ChainStamps(v) \subseteq Pins
BY BoundsAssumption DEF TypeOK, ChainStamps, OfChain, Pins, Stamps, Claim, Anchor, Promise, Counter

\* The head of a version is a stamp no row it sees exceeds.
LEMMA HeadBounds ==
  ASSUME TypeOK, NEW v \in Versions
  PROVE  /\ HeadOf(v) \in Pins
         /\ \A n \in ChainStamps(v) : n <= HeadOf(v)
<1>1. {0} \cup ChainStamps(v) \subseteq Pins
  BY StampsArePins
<1>. QED
  BY <1>1, MaxOfStamps DEF HeadOf

-----------------------------------------------------------------------------
(* Type correctness. *)

\* What a pinned read returns are rows of the tables.
LEMMA ReadsTyped ==
  ASSUME TypeOK, NEW v \in Versions, NEW pin
  PROVE  /\ Facts(v, pin) \subseteq Claim
         /\ LockedAnchors(v, pin) \subseteq Anchor
BY DEF TypeOK, Facts, LockedAnchors, Pinned, OfChain

\* The batches the runs offer are batches.
LEMMA KnownBatchTyped == KnownBatch \subseteq Batch
BY DEF KnownBatch, KnownProposal, Batch

\* A batch is a non-empty sequence of proposals.
LEMMA BatchShape ==
  ASSUME NEW batch \in Batch
  PROVE  /\ \A i \in DOMAIN batch : i \in Nat \ {0} /\ batch[i] \in Proposal
         /\ Len(batch) \in DOMAIN batch
<1>1. PICK n \in 1..MaxBatch : batch \in [1..n -> Proposal]
  BY DEF Batch
<1>2. n \in Nat \ {0} /\ batch \in Seq(Proposal)
  BY <1>1, BoundsAssumption
<1>3. Len(batch) = n
  BY <1>1, <1>2
<1>. QED
  BY <1>1, <1>2, <1>3

\* The next stamp fits below the limit when the head is below it.
LEMMA NextStamp ==
  ASSUME TypeOK, NEW v \in Versions, HeadOf(v) < MaxSeq
  PROVE  HeadOf(v) + 1 \in Stamps
BY HeadBounds, BoundsAssumption DEF Pins, Stamps

\* What Land writes has the type of the tables.
LEMMA LandTyped ==
  ASSUME TypeOK, NEW c \in Commands, cmd[c] \in Command, Appendable(c),
         NEW shapeBlocked \in SUBSET Keys, Land(c, shapeBlocked)
  PROVE  claims' \subseteq Claim /\ findings' \subseteq Finding
<1> DEFINE batch == cmd[c].batch
           head == HeadOf(cmd[c].version)
           blocked == BlockedKeys(cmd[c].facts, cmd[c].anchors, batch) \cup shapeBlocked
<1>1. batch \in Batch /\ cmd[c].version \in Versions
  BY DEF Command
<1>2. head \in Nat
  BY <1>1, HeadBounds, BoundsAssumption DEF Pins
<1>3. \A i \in DOMAIN batch : head + i \in Stamps /\ batch[i] \in Proposal
  BY <1>1, <1>2, BatchShape, BoundsAssumption DEF Appendable, Stamps
<1>4. blocked \subseteq Keys
  BY <1>3 DEF BlockedKeys, Proposals, Proposal
<1>5. \A i \in DOMAIN batch : StoredClaim(c, i, blocked) \in Claim
  BY <1>1, <1>2, <1>3, HeadBounds DEF StoredClaim, Claim, Proposal
<1>6. head + Len(batch) \in Stamps
  BY <1>1, <1>3, BatchShape
<1>. HIDE DEF batch, head, blocked
<1>7. claims' = claims \cup {StoredClaim(c, i, blocked) : i \in DOMAIN batch}
  BY DEF Land, batch, blocked
<1>8. findings' = findings \cup
        {[version |-> cmd[c].version, seq |-> head + Len(batch), key |-> k] : k \in blocked}
  BY DEF Land, batch, blocked, head
<1>9. claims' \subseteq Claim
  BY <1>5, <1>7 DEF TypeOK
<1>10. findings' \subseteq Finding
  BY <1>1, <1>4, <1>6, <1>8 DEF TypeOK, Finding
<1>. QED
  BY <1>9, <1>10

\* A command in flight has the fields of one.
LEMMA InFlightTyped ==
  ASSUME TypeOK, NEW c \in Commands, cmd[c].at # "idle"
  PROVE  cmd[c] \in Command
BY DEF TypeOK, Idle

\* Every step keeps the types: one step per action, Land's rows by LandTyped.
LEMMA TypeStep == TypeOK /\ [Next]_vars => TypeOK'
<1>. SUFFICES ASSUME TypeOK, [Next]_vars PROVE TypeOK'
  OBVIOUS
<1>1. ASSUME NEW v \in Versions, WriteStep(v) PROVE TypeOK'
  <2>1. CASE CreateRoot(v)
    BY <2>1 DEF CreateRoot, TypeOK
  <2>2. ASSUME NEW parent \in Versions, CreateChild(v, parent) PROVE TypeOK'
    BY <2>2 DEF CreateChild, TypeOK
  <2>3. ASSUME NEW key \in Keys, NEW value \in Values, AppendUngated(v, key, value) PROVE TypeOK'
    <3>1. HeadOf(v) + 1 \in Stamps /\ HeadOf(v) \in Pins
      BY <2>3, NextStamp, HeadBounds DEF AppendUngated
    <3>2. {} \in Supersedes
      BY DEF Supersedes
    <3>3. [version |-> v, seq |-> HeadOf(v) + 1, key |-> key, value |-> value,
           correction |-> FALSE, supersedes |-> {}, status |-> "accepted",
           observed |-> HeadOf(v), gated |-> FALSE] \in Claim
      BY <3>1, <3>2 DEF Claim
    <3>. QED
      BY <2>3, <3>3 DEF AppendUngated, TypeOK
  <2>4. ASSUME NEW key \in Keys, NEW value \in Values, LockAnchor(v, key, value) PROVE TypeOK'
    BY <2>4, NextStamp DEF LockAnchor, TypeOK, Anchor
  <2>5. ASSUME NEW key \in PromiseKeys, RegisterPromise(v, key) PROVE TypeOK'
    BY <2>5, NextStamp, BoundsAssumption DEF RegisterPromise, TypeOK, Promise, Pins
  <2>6. ASSUME NEW key \in PromiseKeys, FulfillPromise(v, key) PROVE TypeOK'
    <3>1. HeadOf(v) + 1 \in Pins
      BY <2>6, NextStamp, BoundsAssumption DEF FulfillPromise, Stamps, Pins
    <3>2. PICK p \in OpenPromises(v, key) :
            promises' = (promises \ {p}) \cup {[p EXCEPT !.fulfilled = HeadOf(v) + 1]}
      BY <2>6 DEF FulfillPromise
    <3>3. p \in Promise
      BY <3>2 DEF OpenPromises, OfChain, TypeOK
    <3>. QED
      BY <2>6, <3>1, <3>2, <3>3 DEF FulfillPromise, TypeOK, Promise
  <2>7. ASSUME NEW key \in CounterKeys, NEW count \in 0..MaxCount, RecordCounts(v, key, count)
        PROVE TypeOK'
    BY <2>7, NextStamp DEF RecordCounts, TypeOK, Counter
  <2>. QED
    BY <1>1, <2>1, <2>2, <2>3, <2>4, <2>5, <2>6, <2>7 DEF WriteStep
<1>2. ASSUME NEW c \in Commands, NEW v \in Versions, NEW batch \in KnownBatch,
             NEW pin \in {{}, {HeadOf(v)}}, Submit(c, v, batch, pin)
      PROVE TypeOK'
  <2>1. batch \in Batch /\ pin \in {{}} \cup {{n} : n \in Pins}
    BY KnownBatchTyped, HeadBounds
  <2>2. [at |-> "head", version |-> v, batch |-> batch, pin |-> pin, attempt |-> 1,
         head |-> 0, facts |-> {}, anchors |-> {}] \in Command
    BY <2>1, BoundsAssumption DEF Command, Pins
  <2>. QED
    BY <1>2, <2>2 DEF Submit, CanSubmit, TypeOK, store
<1>3. ASSUME NEW c \in Commands, CommandStep(c) PROVE TypeOK'
  <2>1. CASE ReadHead(c)
    <3>1. cmd[c] \in Command
      BY <2>1, InFlightTyped DEF ReadHead
    <3>2. HeadOf(cmd[c].version) \in Pins
      BY <3>1, HeadBounds DEF Command
    <3>. QED
      BY <2>1, <3>1, <3>2 DEF ReadHead, TypeOK, Command, store
  <2>2. CASE ReadFacts(c)
    <3>1. cmd[c] \in Command
      BY <2>2, InFlightTyped DEF ReadFacts
    <3>2. Facts(cmd[c].version, cmd[c].head) \in SUBSET Claim
      BY <3>1, ReadsTyped DEF Command
    <3>. QED
      BY <2>2, <3>1, <3>2 DEF ReadFacts, TypeOK, Command, store
  <2>3. CASE ReadAnchors(c)
    <3>1. cmd[c] \in Command
      BY <2>3, InFlightTyped DEF ReadAnchors
    <3>2. LockedAnchors(cmd[c].version, cmd[c].head) \in SUBSET Anchor
      BY <3>1, ReadsTyped DEF Command
    <3>. QED
      BY <2>3, <3>1, <3>2 DEF ReadAnchors, TypeOK, Command, store
  <2>4. CASE Regate(c)
    <3>1. cmd[c] \in Command
      BY <2>4, InFlightTyped DEF Regate
    <3>2. cmd[c].attempt + 1 \in 1..MaxAttempts /\ 0 \in Pins
      BY <2>4, <3>1, BoundsAssumption DEF Regate, Command, Pins
    <3>. QED
      BY <2>4, <3>1, <3>2 DEF Regate, TypeOK, Command, store
  <2>5. CASE Refuse(c)
    BY <2>5 DEF Refuse, TypeOK, store
  <2>6. ASSUME NEW shapeBlocked \in SUBSET Keys, AppendEvaluated(c, shapeBlocked) PROVE TypeOK'
    <3>1. cmd[c] \in Command
      BY <2>6, InFlightTyped DEF AppendEvaluated
    <3>2. claims' \subseteq Claim /\ findings' \subseteq Finding
      BY <2>6, <3>1, LandTyped DEF AppendEvaluated
    <3>. QED
      BY <2>6, <3>2 DEF AppendEvaluated, Land, TypeOK
  <2>. QED
    BY <1>3, <2>1, <2>2, <2>3, <2>4, <2>5, <2>6 DEF CommandStep
<1>4. CASE UNCHANGED vars
  BY <1>4 DEF vars, TypeOK
<1>. QED
  BY <1>1, <1>2, <1>3, <1>4 DEF Next

\* Every reachable store and command is well formed; in particular no write
\* ever stamps a row beyond the limit of the stamp column.
THEOREM LedgerTypeOK == Spec => []TypeOK
<1>1. Init => TypeOK
  BY DEF Init, TypeOK
<1>. QED
  BY <1>1, TypeStep, PTL DEF Spec
-----------------------------------------------------------------------------
(***************************************************************************)
(* Pinned facts.  Only the writing version can be disturbed by a write,    *)
(* for no other version has it in its chain, and what is written there is  *)
(* stamped above every pin that version had reached.  A command lands      *)
(* without looking at the tree again, so the argument needs that a version *)
(* with a command under way stays writable.                                *)
(***************************************************************************)

InFlightWritable == \A c \in Commands : cmd[c] # Idle => Writable(cmd[c].version)

LedgerInv == TypeOK /\ InFlightWritable

\* No step gives a child to a version a command is writing to, and no command
\* starts on a version that has one.
LEMMA InFlightWritableStep ==
  ASSUME LedgerInv, [Next]_vars
  PROVE  InFlightWritable'
<1>. USE DEF LedgerInv
<1>1. ASSUME NEW v \in Versions, WriteStep(v) PROVE InFlightWritable'
  <2>1. CASE CreateRoot(v)
    <3>. SUFFICES ASSUME NEW c \in Commands, cmd'[c] # Idle PROVE Writable(cmd[c].version)'
      BY DEF InFlightWritable
    <3>. QED
      BY <2>1, InFlightTyped
         DEF CreateRoot, InFlightWritable, Writable, Created, HasChild, TypeOK, Command
  <2>2. ASSUME NEW parent \in Versions, CreateChild(v, parent) PROVE InFlightWritable'
    <3>. SUFFICES ASSUME NEW c \in Commands, cmd'[c] # Idle PROVE Writable(cmd[c].version)'
      BY DEF InFlightWritable
    <3>1. cmd[c] # Idle /\ cmd'[c] = cmd[c] /\ cmd[c] \in Command
      BY <2>2 DEF CreateChild, TypeOK
    <3>. DEFINE u == cmd[c].version
    <3>2. u \in Versions /\ Created(u) /\ (Growth = "any" \/ ~HasChild(u))
      BY <3>1 DEF Command, InFlightWritable, Writable
    <3>3. u # v /\ Created(u)'
      BY <2>2, <3>2 DEF CreateChild, Created, TypeOK
    <3>4. ASSUME Growth # "any" PROVE ~HasChild(u)'
      <4>1. u # parent
        BY <2>2, <3>1, <3>4 DEF CreateChild, Extensible, InFlight
      <4>2. u \notin chain[parent]
        BY <3>2, <3>4, <4>1 DEF HasChild
      <4>. QED
        BY <2>2, <3>2, <3>3, <3>4, <4>2 DEF CreateChild, HasChild, TypeOK
    <3>. QED
      BY <3>1, <3>3, <3>4 DEF Writable
  <2>3. CASE UNCHANGED <<chain, cmd>>
    BY <2>3 DEF InFlightWritable, Writable, Created, HasChild
  <2>. QED
    BY <1>1, <2>1, <2>2, <2>3
       DEF WriteStep, AppendUngated, LockAnchor, RegisterPromise, FulfillPromise, RecordCounts
<1>2. ASSUME NEW c \in Commands, NEW v \in Versions, NEW batch \in KnownBatch,
             NEW pin \in {{}, {HeadOf(v)}}, Submit(c, v, batch, pin)
      PROVE InFlightWritable'
  BY <1>2 DEF Submit, CanSubmit, InFlightWritable, Writable, Created, HasChild, store, TypeOK
<1>3. ASSUME NEW c \in Commands, CommandStep(c) PROVE InFlightWritable'
  <2>1. chain' = chain
    BY <1>3 DEF CommandStep, ReadHead, ReadFacts, ReadAnchors, Regate, Refuse,
                AppendEvaluated, Land, store
  <2>2. \A d \in Commands : cmd'[d] # Idle => cmd[d] # Idle /\ cmd'[d].version = cmd[d].version
    <3>1. cmd[c] # Idle
      BY <1>3 DEF CommandStep, ReadHead, ReadFacts, ReadAnchors, Regate, Refuse,
                  AppendEvaluated, Idle
    <3>2. cmd[c] \in Command
      BY <3>1 DEF TypeOK
    <3>3. CASE ReadHead(c)
      BY <3>1, <3>2, <3>3 DEF ReadHead, TypeOK, Command
    <3>4. CASE ReadFacts(c) \/ ReadAnchors(c) \/ Regate(c)
      BY <3>1, <3>2, <3>4 DEF ReadFacts, ReadAnchors, Regate, TypeOK, Command
    <3>5. CASE cmd' = [cmd EXCEPT ![c] = Idle]
      BY <3>1, <3>5 DEF TypeOK
    <3>. QED
      BY <1>3, <3>3, <3>4, <3>5 DEF CommandStep, Refuse, AppendEvaluated, Land
  <2>. QED
    BY <2>1, <2>2 DEF InFlightWritable, Writable, Created, HasChild
<1>4. CASE UNCHANGED vars
  BY <1>4 DEF vars, InFlightWritable, Writable, Created, HasChild
<1>. QED
  BY <1>1, <1>2, <1>3, <1>4 DEF Next

\* Claims added to a version without children, above its head, are seen at
\* no pin that any version has reached.
LEMMA FactsUndisturbed ==
  ASSUME TypeOK, NEW u \in Versions, ~HasChild(u), chain' = chain,
         NEW new, claims' = claims \cup new,
         \A x \in new : x.version = u /\ x.seq \in Nat /\ x.seq > HeadOf(u),
         NEW v \in Versions, NEW pin \in 0..HeadOf(v)
  PROVE  Facts(v, pin)' = Facts(v, pin)
<1>1. HeadOf(u) \in Nat /\ HeadOf(v) \in Nat
  BY HeadBounds, BoundsAssumption DEF Pins
<1>2. ASSUME NEW x \in new, x.version \in chain[v] PROVE ~(x.seq <= pin)
  <2>1. v = u
    BY <1>2 DEF HasChild
  <2>. QED
    BY <1>1, <2>1
<1>3. Pinned(claims, v, pin)' = Pinned(claims, v, pin)
  BY <1>2 DEF Pinned, OfChain
<1>. QED
  BY <1>3 DEF Facts, IdOf

\* No step changes the facts a version had at a stamp it has reached.
LEMMA PinnedFactsStep ==
  ASSUME Growth # "any", LedgerInv, [Next]_vars,
         NEW v \in Versions, NEW pin \in 0..HeadOf(v)
  PROVE  Facts(v, pin)' = Facts(v, pin)
<1>. USE DEF LedgerInv
<1>1. CASE UNCHANGED <<chain, claims>>
  BY <1>1 DEF Facts, Pinned, OfChain, IdOf
<1>2. ASSUME NEW u \in Versions, ~Created(u), claims' = claims,
             \A w \in Versions \ {u} : chain'[w] = chain[w]
      PROVE Facts(v, pin)' = Facts(v, pin)
  <2>1. CASE v # u
    BY <1>2, <2>1 DEF Facts, Pinned, OfChain, IdOf
  <2>2. CASE v = u
    <3>1. ChainStamps(v) = {}
      BY <1>2, <2>2 DEF ChainStamps, OfChain, Created
    <3>2. HeadOf(v) = 0
      BY <3>1, MaxOfStamps, BoundsAssumption DEF HeadOf, Pins
    <3>3. pin = 0
      BY <3>2
    <3>4. Pinned(claims, v, pin) = {} /\ Pinned(claims, v, pin)' = {}
      BY <1>2, <3>3, BoundsAssumption DEF Pinned, OfChain, TypeOK, Claim, Stamps
    <3>. QED
      BY <3>4 DEF Facts
  <2>. QED
    BY <2>1, <2>2
<1>3. ASSUME NEW u \in Versions, WriteStep(u) PROVE Facts(v, pin)' = Facts(v, pin)
  <2>1. CASE CreateRoot(u) \/ \E parent \in Versions : CreateChild(u, parent)
    BY <1>2, <2>1 DEF CreateRoot, CreateChild, TypeOK
  <2>2. ASSUME NEW key \in Keys, NEW value \in Values, AppendUngated(u, key, value)
        PROVE Facts(v, pin)' = Facts(v, pin)
    <3>1. ~HasChild(u) /\ HeadOf(u) \in Nat
      BY <2>2, HeadBounds, BoundsAssumption DEF AppendUngated, Writable, Pins
    <3>. DEFINE new == {[version |-> u, seq |-> HeadOf(u) + 1, key |-> key, value |-> value,
                         correction |-> FALSE, supersedes |-> {}, status |-> "accepted",
                         observed |-> HeadOf(u), gated |-> FALSE]}
    <3>2. claims' = claims \cup new /\ chain' = chain
      BY <2>2 DEF AppendUngated
    <3>3. \A x \in new : x.version = u /\ x.seq \in Nat /\ x.seq > HeadOf(u)
      BY <3>1
    <3>. HIDE DEF new
    <3>. QED
      BY <3>1, <3>2, <3>3, FactsUndisturbed
  <2>3. CASE UNCHANGED <<chain, claims>>
    BY <1>1, <2>3
  <2>. QED
    BY <1>3, <2>1, <2>2, <2>3
       DEF WriteStep, LockAnchor, RegisterPromise, FulfillPromise, RecordCounts
<1>4. ASSUME NEW c \in Commands, CommandStep(c) PROVE Facts(v, pin)' = Facts(v, pin)
  <2>1. CASE UNCHANGED <<chain, claims>>
    BY <1>1, <2>1
  <2>2. ASSUME NEW shapeBlocked \in SUBSET Keys, AppendEvaluated(c, shapeBlocked)
        PROVE Facts(v, pin)' = Facts(v, pin)
    <3>. DEFINE u == cmd[c].version
                batch == cmd[c].batch
                blocked == BlockedKeys(cmd[c].facts, cmd[c].anchors, batch) \cup shapeBlocked
                new == {StoredClaim(c, i, blocked) : i \in DOMAIN batch}
    <3>1. cmd[c] \in Command /\ cmd[c] # Idle
      BY <2>2, InFlightTyped DEF AppendEvaluated, Idle
    <3>2. u \in Versions /\ batch \in Batch
      BY <3>1 DEF Command
    <3>3. ~HasChild(u) /\ HeadOf(u) \in Nat
      BY <3>1, <3>2, HeadBounds, BoundsAssumption DEF InFlightWritable, Writable, Pins
    <3>4. claims' = claims \cup new /\ chain' = chain
      BY <2>2 DEF AppendEvaluated, Land
    <3>5. \A x \in new : x.version = u /\ x.seq \in Nat /\ x.seq > HeadOf(u)
      BY <3>2, <3>3, BatchShape DEF StoredClaim
    <3>. HIDE DEF u, new
    <3>. QED
      BY <3>2, <3>3, <3>4, <3>5, FactsUndisturbed
  <2>. QED
    BY <1>4, <2>1, <2>2 DEF CommandStep, ReadHead, ReadFacts, ReadAnchors, Regate, Refuse, store
<1>5. CASE UNCHANGED vars
  BY <1>1, <1>5 DEF vars
<1>. QED
  BY <1>1, <1>3, <1>4, <1>5 DEF Next, Submit, store

\* While no version is written after it has a child, the facts read at a pin
\* a version has reached are the same for ever.
THEOREM PinnedFactsStableTheorem ==
  ASSUME Growth # "any"
  PROVE  Spec => PinnedFactsStable
<1>1. Init => LedgerInv
  BY DEF Init, LedgerInv, TypeOK, InFlightWritable
<1>2. LedgerInv /\ [Next]_vars => LedgerInv'
  BY TypeStep, InFlightWritableStep DEF LedgerInv
<1>3. LedgerInv /\ [Next]_vars =>
        [\A v \in Versions : \A pin \in 0..HeadOf(v) : Facts(v, pin)' = Facts(v, pin)]_vars
  BY PinnedFactsStep
<1>. QED
  BY <1>1, <1>2, <1>3, PTL DEF Spec, PinnedFactsStable

-----------------------------------------------------------------------------
(***************************************************************************)
(* The shape of a step.  What the other properties need to know of a step  *)
(* is only this: it leaves the tables alone, or it adds a version below    *)
(* another one, or it writes to one version, above its head.               *)
(***************************************************************************)

\* The ancestors of a version exist and are its own ancestors' too, and rows
\* belong to versions that exist.
Lineage ==
  /\ \A v \in Versions : Created(v) => v \in chain[v]
  /\ \A v \in Versions : \A w \in chain[v] : Created(w) /\ chain[w] \subseteq chain[v]
  /\ \A r \in claims \cup anchors \cup promises \cup counters : Created(r.version)

StoreInv == LedgerInv /\ Lineage

\* New rows of a version, one tick each, after its head.
Stamped(new, u) ==
  \A x \in new : /\ x.version = u /\ x.seq \in Stamps /\ x.seq > HeadOf(u)
                 /\ \A y \in new : x.seq = y.seq => x = y

Grows(u) ==
  /\ ~Created(u)
  /\ \A w \in Versions \ {u} : chain'[w] = chain[w]
  /\ \/ chain'[u] = {u}
     \/ \E parent \in Versions : Extensible(parent) /\ chain'[u] = chain[parent] \cup {u}
  /\ UNCHANGED <<claims, anchors, promises, counters>>

AddsClaims(u) ==
  /\ \E new : Stamped(new, u) /\ claims' = claims \cup new
  /\ UNCHANGED <<anchors, promises, counters>>

AddsAnchors(u) ==
  /\ \E new : Stamped(new, u) /\ anchors' = anchors \cup new
  /\ UNCHANGED <<claims, promises, counters>>

AddsPromises(u) ==
  /\ \E new : /\ Stamped(new, u) /\ promises' = promises \cup new
              /\ \A p \in new : p.fulfilled = 0
  /\ UNCHANGED <<claims, anchors, counters>>

Fulfills(u) ==
  /\ HeadOf(u) + 1 \in Stamps
  /\ \E p \in OfChain(promises, u) :
       /\ p.fulfilled = 0
       /\ promises' = (promises \ {p}) \cup {[p EXCEPT !.fulfilled = HeadOf(u) + 1]}
  /\ UNCHANGED <<claims, anchors, counters>>

ReplacesCounters(u) ==
  /\ \E old, new : /\ \A r \in old : r.version = u
                   /\ new # {} /\ Stamped(new, u)
                   /\ counters' = (counters \ old) \cup new
  /\ UNCHANGED <<claims, anchors, promises>>

Writes(u) ==
  /\ Writable(u)
  /\ chain' = chain
  /\ AddsClaims(u) \/ AddsAnchors(u) \/ AddsPromises(u) \/ Fulfills(u) \/ ReplacesCounters(u)

\* The rows a gated append stores are stamped one by one after the head.
LEMMA LandStamped ==
  ASSUME TypeOK, NEW c \in Commands, cmd[c] \in Command, Appendable(c),
         NEW shapeBlocked \in SUBSET Keys, Land(c, shapeBlocked)
  PROVE  \E new : Stamped(new, cmd[c].version) /\ claims' = claims \cup new
<1> DEFINE u == cmd[c].version
           batch == cmd[c].batch
           blocked == BlockedKeys(cmd[c].facts, cmd[c].anchors, batch) \cup shapeBlocked
           new == {StoredClaim(c, i, blocked) : i \in DOMAIN batch}
<1>1. u \in Versions /\ batch \in Batch
  BY DEF Command
<1>2. HeadOf(u) \in Nat
  BY <1>1, HeadBounds, BoundsAssumption DEF Pins
<1>3. \A i \in DOMAIN batch : i \in Nat \ {0} /\ HeadOf(u) + i \in Stamps
  BY <1>1, <1>2, BatchShape, BoundsAssumption DEF Appendable, Stamps
<1>4. \A i \in DOMAIN batch : /\ StoredClaim(c, i, blocked).version = u
                              /\ StoredClaim(c, i, blocked).seq = HeadOf(u) + i
  BY DEF StoredClaim
<1>5. Stamped(new, u)
  <2>1. ASSUME NEW i \in DOMAIN batch, NEW j \in DOMAIN batch, HeadOf(u) + i = HeadOf(u) + j
        PROVE  i = j
    BY <1>2, <1>3, <2>1
  <2>2. \A i \in DOMAIN batch : HeadOf(u) + i > HeadOf(u)
    BY <1>2, <1>3
  <2>. DEFINE row(i) == StoredClaim(c, i, blocked)
  <2>3. \A i \in DOMAIN batch : /\ row(i).version = u
                                /\ row(i).seq = HeadOf(u) + i
                                /\ row(i).seq \in Stamps
                                /\ row(i).seq > HeadOf(u)
    BY <1>3, <1>4, <2>2
  <2>4. \A i, j \in DOMAIN batch : row(i).seq = row(j).seq => i = j
    BY <2>1, <2>3
  <2>5. new = {row(i) : i \in DOMAIN batch}
    OBVIOUS
  <2>. HIDE DEF row, new, blocked, batch, u
  <2>. QED
    BY <2>3, <2>4, <2>5 DEF Stamped
<1>. QED
  BY <1>5 DEF Land

\* Every step has the shape.
LEMMA StepShape ==
  ASSUME LedgerInv, [Next]_vars
  PROVE  \/ UNCHANGED <<chain, claims, anchors, promises, counters>>
         \/ \E u \in Versions : Grows(u) \/ Writes(u)
<1>. USE DEF LedgerInv
<1>1. ASSUME NEW u \in Versions, WriteStep(u)
      PROVE  Grows(u) \/ Writes(u)
  <2>0. HeadOf(u) \in Nat
    BY HeadBounds, BoundsAssumption DEF Pins
  <2>1. CASE CreateRoot(u) \/ \E parent \in Versions : CreateChild(u, parent)
    BY <2>1 DEF CreateRoot, CreateChild, Grows, TypeOK
  <2>2. ASSUME NEW key \in Keys, NEW value \in Values, AppendUngated(u, key, value)
        PROVE  Writes(u)
    <3>. DEFINE new == {[version |-> u, seq |-> HeadOf(u) + 1, key |-> key, value |-> value,
                         correction |-> FALSE, supersedes |-> {}, status |-> "accepted",
                         observed |-> HeadOf(u), gated |-> FALSE]}
    <3>1. Stamped(new, u)
      BY <2>0, <2>2, NextStamp DEF AppendUngated, Stamped
    <3>. QED
      BY <2>2, <3>1 DEF AppendUngated, Writes, AddsClaims
  <2>3. ASSUME NEW key \in Keys, NEW value \in Values, LockAnchor(u, key, value)
        PROVE  Writes(u)
    <3>. DEFINE new == {[version |-> u, seq |-> HeadOf(u) + 1, key |-> key, value |-> value]}
    <3>1. Stamped(new, u)
      BY <2>0, <2>3, NextStamp DEF LockAnchor, Stamped
    <3>. QED
      BY <2>3, <3>1 DEF LockAnchor, Writes, AddsAnchors
  <2>4. ASSUME NEW key \in PromiseKeys, RegisterPromise(u, key)
        PROVE  Writes(u)
    <3>. DEFINE new == {[version |-> u, seq |-> HeadOf(u) + 1, key |-> key, fulfilled |-> 0]}
    <3>1. Stamped(new, u) /\ \A p \in new : p.fulfilled = 0
      BY <2>0, <2>4, NextStamp DEF RegisterPromise, Stamped
    <3>. QED
      BY <2>4, <3>1 DEF RegisterPromise, Writes, AddsPromises
  <2>5. ASSUME NEW key \in PromiseKeys, FulfillPromise(u, key)
        PROVE  Writes(u)
    BY <2>5, NextStamp DEF FulfillPromise, OpenPromises, Writes, Fulfills
  <2>6. ASSUME NEW key \in CounterKeys, NEW count \in 0..MaxCount, RecordCounts(u, key, count)
        PROVE  Writes(u)
    <3>. DEFINE old == {r \in counters : r.version = u /\ r.key = key}
                new == {[version |-> u, seq |-> HeadOf(u) + 1, key |-> key, count |-> count]}
    <3>1. Stamped(new, u) /\ new # {}
      BY <2>0, <2>6, NextStamp DEF RecordCounts, Stamped
    <3>2. counters' = (counters \ old) \cup new
      BY <2>6 DEF RecordCounts
    <3>. QED
      BY <2>6, <3>1, <3>2 DEF RecordCounts, Writes, ReplacesCounters
  <2>. QED
    BY <1>1, <2>1, <2>2, <2>3, <2>4, <2>5, <2>6 DEF WriteStep
<1>2. ASSUME NEW c \in Commands, NEW shapeBlocked \in SUBSET Keys, AppendEvaluated(c, shapeBlocked)
      PROVE  \E u \in Versions : Writes(u)
  <2>1. cmd[c] \in Command /\ cmd[c] # Idle
    BY <1>2, InFlightTyped DEF AppendEvaluated, Idle
  <2>2. cmd[c].version \in Versions /\ Writable(cmd[c].version)
    BY <2>1 DEF Command, InFlightWritable
  <2>3. AddsClaims(cmd[c].version) /\ chain' = chain
    BY <1>2, <2>1, LandStamped DEF AppendEvaluated, Land, AddsClaims
  <2>. QED
    BY <2>2, <2>3 DEF Writes
<1>3. CASE UNCHANGED store
  BY <1>3 DEF store
<1>4. ASSUME NEW c \in Commands, CommandStep(c)
      PROVE  UNCHANGED store \/ \E u \in Versions : Writes(u)
  BY <1>2, <1>4 DEF CommandStep, ReadHead, ReadFacts, ReadAnchors, Regate, Refuse
<1>. QED
  BY <1>1, <1>3, <1>4 DEF Next, Submit, vars, store

-----------------------------------------------------------------------------
(* Lineages and heads. *)

\* Every step keeps the lineages.
LEMMA LineageStep == StoreInv /\ [Next]_vars => Lineage'
<1>. SUFFICES ASSUME StoreInv, [Next]_vars PROVE Lineage'
  OBVIOUS
<1>. USE DEF StoreInv, LedgerInv
<1>1. CASE UNCHANGED <<chain, claims, anchors, promises, counters>>
  BY <1>1 DEF Lineage, Created
<1>2. ASSUME NEW u \in Versions, Grows(u) PROVE Lineage'
  <2>1. \A w \in Versions \ {u} : chain'[w] = chain[w]
    BY <1>2 DEF Grows
  <2>2. u \in chain'[u] /\ \A w \in chain'[u] : w # u => Created(w) /\ chain[w] \subseteq chain'[u]
    BY <1>2 DEF Grows, Extensible, Lineage
  <2>3. \A v \in Versions : chain[v] \subseteq Versions
    BY DEF TypeOK
  <2>4. chain'[u] \subseteq Versions
    BY <1>2, <2>3 DEF Grows
  <2>5. \A v \in Versions : u \notin chain[v]
    BY <1>2 DEF Grows, Lineage
  <2>6. \A v \in Versions : Created(v)' => v \in chain'[v]
    BY <2>1, <2>2 DEF Lineage, Created
  <2>7. \A v \in Versions : \A w \in chain'[v] : Created(w)' /\ chain'[w] \subseteq chain'[v]
    <3>. SUFFICES ASSUME NEW v \in Versions, NEW w \in chain'[v]
                  PROVE  Created(w)' /\ chain'[w] \subseteq chain'[v]
      OBVIOUS
    <3>1. CASE v = u
      BY <2>1, <2>2, <2>4, <3>1 DEF Created
    <3>2. CASE v # u
      BY <2>1, <2>3, <2>5, <3>2 DEF Lineage, Created
    <3>. QED
      BY <3>1, <3>2
  <2>8. \A r \in claims \cup anchors \cup promises \cup counters : r.version \in Versions
    BY DEF TypeOK, Claim, Anchor, Promise, Counter
  <2>9. \A r \in (claims \cup anchors \cup promises \cup counters)' : Created(r.version)'
    BY <1>2, <2>1, <2>2, <2>8 DEF Grows, Lineage, Created
  <2>. QED
    BY <2>6, <2>7, <2>9 DEF Lineage
<1>3. ASSUME NEW u \in Versions, Writes(u) PROVE Lineage'
  <2>1. Created(u)
    BY <1>3 DEF Writes, Writable
  <2>2. \A r \in (claims \cup anchors \cup promises \cup counters)' : Created(r.version)
    <3>1. CASE AddsClaims(u) \/ AddsAnchors(u) \/ AddsPromises(u) \/ ReplacesCounters(u)
      BY <2>1, <3>1
         DEF AddsClaims, AddsAnchors, AddsPromises, ReplacesCounters, Stamped, Lineage
    <3>2. CASE Fulfills(u)
      <4>1. PICK p \in promises :
              promises' = (promises \ {p}) \cup {[p EXCEPT !.fulfilled = HeadOf(u) + 1]}
        BY <3>2 DEF Fulfills, OfChain
      <4>2. [p EXCEPT !.fulfilled = HeadOf(u) + 1].version = p.version
        BY DEF TypeOK, Promise
      <4>. QED
        BY <3>2, <4>1, <4>2 DEF Fulfills, Lineage
    <3>. QED
      BY <1>3, <3>1, <3>2 DEF Writes
  <2>. QED
    BY <1>3, <2>2 DEF Writes, Lineage, Created
<1>. QED
  BY <1>1, <1>2, <1>3, StepShape

\* The tables, the commands and the lineages are as they should be in every
\* reachable state.
LEMMA StoreInvStep == StoreInv /\ [Next]_vars => StoreInv'
BY TypeStep, InFlightWritableStep, LineageStep DEF StoreInv, LedgerInv

LEMMA StoreInvInit == Init => StoreInv
BY DEF Init, StoreInv, LedgerInv, TypeOK, InFlightWritable, Lineage, Created

\* A version that does not exist has no stamps.
LEMMA NoHeadYet ==
  ASSUME NEW v \in Versions, ~Created(v)
  PROVE  HeadOf(v) = 0
<1>1. ChainStamps(v) = {}
  BY DEF ChainStamps, OfChain, Created
<1>. QED
  BY <1>1, MaxOfStamps, BoundsAssumption DEF HeadOf, Pins

\* The head after a step is a stamp no row then exceeds.
LEMMA HeadBoundsNext ==
  ASSUME TypeOK', NEW v \in Versions
  PROVE  /\ HeadOf(v)' \in Pins
         /\ \A n \in ChainStamps(v)' : n <= HeadOf(v)'
<1>1. {0} \cup ChainStamps(v)' \subseteq Pins
  BY BoundsAssumption DEF TypeOK, ChainStamps, OfChain, Pins, Stamps, Claim, Anchor, Promise, Counter
<1>2. {0} \cup ChainStamps(v)' # {}
  OBVIOUS
<1>. QED
  BY <1>1, <1>2, MaxOfStamps DEF HeadOf

\* No head ever goes back, not even when a counter's row is replaced or a
\* promise of an ancestor is fulfilled.
LEMMA HeadGrows ==
  ASSUME StoreInv, [Next]_vars, NEW v \in Versions
  PROVE  HeadOf(v) <= HeadOf(v)'
<1>. USE DEF StoreInv, LedgerInv
<1>0. TypeOK'
  BY TypeStep
<1>1. /\ HeadOf(v) \in Nat /\ HeadOf(v)' \in Nat
      /\ \A n \in ChainStamps(v)' : n <= HeadOf(v)'
  BY <1>0, HeadBounds, HeadBoundsNext, BoundsAssumption DEF Pins
<1>2. HeadOf(v) \in {0} \cup ChainStamps(v)
  <2>1. {0} \cup ChainStamps(v) \subseteq Pins /\ {0} \cup ChainStamps(v) # {}
    BY StampsArePins
  <2>. QED
    BY <2>1, MaxOfStamps DEF HeadOf
<1>3. \A n \in ChainStamps(v)' : n \in Nat
  BY <1>0, BoundsAssumption DEF TypeOK, ChainStamps, OfChain, Pins, Stamps, Claim, Anchor, Promise, Counter
<1>4. SUFFICES ASSUME HeadOf(v) # 0 PROVE \E n \in ChainStamps(v)' : n >= HeadOf(v)
  BY <1>1, <1>3
<1>5. HeadOf(v) \in ChainStamps(v) /\ HeadOf(v) >= HeadOf(v)
  BY <1>1, <1>2, <1>4
<1>6. SUFFICES ASSUME HeadOf(v) \notin ChainStamps(v)'
               PROVE  \E n \in ChainStamps(v)' : n >= HeadOf(v)
  BY <1>5
<1>7. ASSUME UNCHANGED <<chain, claims, anchors, promises, counters>> PROVE FALSE
  BY <1>5, <1>6, <1>7 DEF ChainStamps, OfChain
<1>8. ASSUME NEW u \in Versions, Grows(u) PROVE FALSE
  <2>1. v # u
    BY <1>4, <1>8, NoHeadYet DEF Grows
  <2>. QED
    BY <1>5, <1>6, <1>8, <2>1 DEF Grows, ChainStamps, OfChain
<1>9. ASSUME NEW u \in Versions, Writes(u) PROVE \E n \in ChainStamps(v)' : n >= HeadOf(v)
  <2>1. chain' = chain /\ u \in chain[u]
    BY <1>9 DEF Writes, Writable, Lineage
  <2>2. ASSUME AddsClaims(u) \/ AddsAnchors(u) \/ AddsPromises(u) PROVE FALSE
    BY <1>5, <1>6, <2>1, <2>2 DEF AddsClaims, AddsAnchors, AddsPromises, ChainStamps, OfChain
  <2>3. CASE Fulfills(u)
    <3>1. PICK p \in promises :
            /\ p.fulfilled = 0
            /\ promises' = (promises \ {p}) \cup {[p EXCEPT !.fulfilled = HeadOf(u) + 1]}
      BY <2>3 DEF Fulfills, OfChain
    <3>2. PICK q \in promises' : q.version = p.version /\ q.seq = p.seq
      <4>. DEFINE done == [p EXCEPT !.fulfilled = HeadOf(u) + 1]
      <4>1. done.version = p.version /\ done.seq = p.seq
        BY DEF TypeOK, Promise
      <4>2. done \in promises'
        BY <3>1
      <4>. QED
        BY <4>1, <4>2
    <3>3. \A r \in promises : r # p => r \in promises'
      BY <3>1
    <3>4. \A n \in ChainStamps(v) : n # 0 => n \in ChainStamps(v)'
      BY <2>1, <2>3, <3>1, <3>2, <3>3 DEF Fulfills, ChainStamps, OfChain
    <3>. QED
      BY <1>4, <1>5, <3>4
  <2>4. CASE ReplacesCounters(u)
    <3>1. PICK old, new : /\ \A r \in old : r.version = u
                          /\ new # {} /\ Stamped(new, u)
                          /\ counters' = (counters \ old) \cup new
      BY <2>4 DEF ReplacesCounters
    <3>2. PICK r \in counters : r \in old /\ r.version \in chain[v] /\ r.seq = HeadOf(v)
      BY <1>5, <1>6, <2>1, <2>4, <3>1 DEF ReplacesCounters, ChainStamps, OfChain
    <3>3. PICK x \in new : x.version = u /\ x.seq \in Stamps /\ x.seq > HeadOf(u)
      BY <3>1 DEF Stamped
    <3>4. u \in chain[v] /\ x \in counters'
      BY <3>1, <3>2, <3>3
    <3>5. x.seq \in ChainStamps(v)'
      BY <2>1, <3>3, <3>4 DEF ChainStamps, OfChain
    <3>6. r.seq \in ChainStamps(u)
      BY <2>1, <3>1, <3>2 DEF ChainStamps, OfChain
    <3>7. HeadOf(u) \in Nat /\ r.seq <= HeadOf(u)
      BY <3>6, HeadBounds, BoundsAssumption DEF Pins
    <3>. QED
      BY <1>1, <3>2, <3>3, <3>5, <3>7, BoundsAssumption DEF Stamps
  <2>. QED
    BY <1>9, <2>2, <2>3, <2>4 DEF Writes
<1>. QED
  BY <1>7, <1>8, <1>9, StepShape

-----------------------------------------------------------------------------
(***************************************************************************)
(* Pinned anchors and promises.  As for facts, what a write adds is above  *)
(* every pin reached by a version that sees it.                            *)
(***************************************************************************)

\* New rows of a version without children are seen at no pin reached so far.
LEMMA NewRowsUnseen ==
  ASSUME TypeOK, NEW u \in Versions, ~HasChild(u), NEW new, Stamped(new, u),
         NEW v \in Versions, NEW pin \in 0..HeadOf(v), NEW rows
  PROVE  Pinned(rows \cup new, v, pin) = Pinned(rows, v, pin)
<1>1. HeadOf(u) \in Nat /\ HeadOf(v) \in Nat
  BY HeadBounds, BoundsAssumption DEF Pins
<1>2. ASSUME NEW x \in new, x.version \in chain[v] PROVE ~(x.seq <= pin)
  <2>1. v = u /\ x.seq > HeadOf(u) /\ x.seq \in Nat
    BY <1>2, BoundsAssumption DEF HasChild, Stamped, Stamps
  <2>. QED
    BY <1>1, <2>1
<1>. QED
  BY <1>2 DEF Pinned, OfChain

\* A new version has no rows at the only pin it has reached.
LEMMA NothingPinnedYet ==
  ASSUME StoreInv, NEW u \in Versions, Grows(u), NEW pin \in 0..HeadOf(u)
  PROVE  /\ Pinned(anchors, u, pin) = {} /\ Pinned(anchors, u, pin)' = {}
         /\ Pinned(promises, u, pin) = {} /\ Pinned(promises, u, pin)' = {}
<1>1. pin = 0
  BY NoHeadYet DEF Grows
<1>2. \A r \in anchors \cup promises : ~(r.seq <= 0)
  BY BoundsAssumption DEF StoreInv, LedgerInv, TypeOK, Anchor, Promise, Stamps
<1>. QED
  BY <1>1, <1>2 DEF Pinned, OfChain, Grows

\* No step changes the anchors a version had at a stamp it has reached.
LEMMA PinnedAnchorsStep ==
  ASSUME Growth # "any", StoreInv, [Next]_vars,
         NEW v \in Versions, NEW pin \in 0..HeadOf(v)
  PROVE  LockedAnchors(v, pin)' = LockedAnchors(v, pin)
<1>. USE DEF StoreInv, LedgerInv
<1>1. CASE UNCHANGED <<chain, anchors>>
  BY <1>1 DEF LockedAnchors, Pinned, OfChain, Overwrites
<1>2. ASSUME NEW u \in Versions, Grows(u) PROVE LockedAnchors(v, pin)' = LockedAnchors(v, pin)
  <2>1. CASE v = u
    BY <1>2, <2>1, NothingPinnedYet DEF LockedAnchors
  <2>2. CASE v # u
    <3>1. Pinned(anchors, v, pin)' = Pinned(anchors, v, pin)
      BY <1>2, <2>2 DEF Grows, Pinned, OfChain
    <3>2. \A a \in anchors : a.version \in Versions /\ a.version # u
      BY <1>2 DEF Grows, Lineage, TypeOK, Anchor
    <3>3. \A a, b \in anchors : Overwrites(b, a)' <=> Overwrites(b, a)
      BY <1>2, <3>2 DEF Grows, Overwrites
    <3>4. Pinned(anchors, v, pin) \subseteq anchors
      BY DEF Pinned, OfChain
    <3>. QED
      BY <3>1, <3>3, <3>4 DEF LockedAnchors
  <2>. QED
    BY <2>1, <2>2
<1>3. ASSUME NEW u \in Versions, Writes(u), AddsAnchors(u)
      PROVE  LockedAnchors(v, pin)' = LockedAnchors(v, pin)
  <2>1. PICK new : Stamped(new, u) /\ anchors' = anchors \cup new
    BY <1>3 DEF AddsAnchors
  <2>2. ~HasChild(u) /\ chain' = chain
    BY <1>3 DEF Writes, Writable
  <2>3. Pinned(anchors, v, pin)' = Pinned(anchors \cup new, v, pin)
    BY <2>1, <2>2 DEF Pinned, OfChain
  <2>4. Pinned(anchors, v, pin)' = Pinned(anchors, v, pin)
    BY <2>1, <2>2, <2>3, NewRowsUnseen
  <2>. QED
    BY <2>2, <2>4 DEF LockedAnchors, Overwrites
<1>4. ASSUME NEW u \in Versions, Writes(u), ~AddsAnchors(u)
      PROVE  UNCHANGED <<chain, anchors>>
  BY <1>4 DEF Writes, AddsClaims, AddsPromises, Fulfills, ReplacesCounters
<1>. QED
  BY <1>1, <1>2, <1>3, <1>4, StepShape

\* While no version is written after it has a child, a later lock never
\* rewrites what was locked at a pin a version has reached (the anchors query).
THEOREM PinnedAnchorsStableTheorem ==
  ASSUME Growth # "any"
  PROVE  Spec => PinnedAnchorsStable
<1>1. StoreInv /\ [Next]_vars =>
        [\A v \in Versions : \A pin \in 0..HeadOf(v) :
           LockedAnchors(v, pin)' = LockedAnchors(v, pin)]_vars
  BY PinnedAnchorsStep
<1>. QED
  BY <1>1, StoreInvInit, StoreInvStep, PTL DEF Spec, PinnedAnchorsStable

\* Versions that share an ancestor lie on one line.
OneLine ==
  \A v, w \in Versions : chain[v] \cap chain[w] # {} => v \in chain[w] \/ w \in chain[v]

\* As long as clients give a version at most one child, versions that share
\* an ancestor stay on one line.
LEMMA OneLineStep ==
  ASSUME Growth = "line", StoreInv, OneLine, [Next]_vars
  PROVE  OneLine'
<1>. USE DEF StoreInv, LedgerInv
<1>1. ASSUME NEW u \in Versions, Grows(u) PROVE OneLine'
  <2>1. \A w \in Versions \ {u} : chain'[w] = chain[w] /\ u \notin chain[w]
    BY <1>1 DEF Grows, Lineage
  <2>2. u \in chain'[u]
    BY <1>1 DEF Grows
  <2>3. ASSUME NEW w \in Versions \ {u}, chain[w] \cap chain'[u] # {}
        PROVE  w \in chain'[u]
    <3>1. PICK parent \in Versions : Extensible(parent) /\ chain'[u] = chain[parent] \cup {u}
      BY <1>1, <2>1, <2>3 DEF Grows
    <3>2. w \in chain[parent] \/ parent \in chain[w]
      BY <2>1, <2>3, <3>1 DEF OneLine
    <3>3. parent \in chain[w] => parent = w
      BY <3>1 DEF Extensible, HasChild
    <3>4. parent \in chain[parent]
      BY <3>1 DEF Extensible, Lineage
    <3>. QED
      BY <3>1, <3>2, <3>3, <3>4
  <2>. QED
    BY <2>1, <2>2, <2>3 DEF OneLine
<1>2. CASE chain' = chain
  BY <1>2 DEF OneLine
<1>. QED
  BY <1>1, <1>2, StepShape DEF Writes

\* On a line, whoever sees a row of a childless version's lineage is one of
\* its ancestors, and has reached no stamp that it has not.
LEMMA AncestorsBehind ==
  ASSUME StoreInv, OneLine, NEW u \in Versions, ~HasChild(u),
         NEW v \in Versions, chain[v] \cap chain[u] # {}
  PROVE  /\ chain[v] \subseteq chain[u]
         /\ ChainStamps(v) \subseteq ChainStamps(u)
         /\ HeadOf(v) <= HeadOf(u)
<1>. USE DEF StoreInv, LedgerInv
<1>1. v \in chain[u]
  <2>1. v \in chain[u] \/ u \in chain[v]
    BY DEF OneLine
  <2>2. u \in chain[v] => u = v
    BY DEF HasChild
  <2>3. Created(v)
    BY DEF Created
  <2>. QED
    BY <2>1, <2>2, <2>3 DEF Lineage
<1>2. chain[v] \subseteq chain[u]
  BY <1>1 DEF Lineage
<1>3. ChainStamps(v) \subseteq ChainStamps(u)
  BY <1>2 DEF ChainStamps, OfChain
<1>4. HeadOf(v) \in {0} \cup ChainStamps(v)
  <2>1. {0} \cup ChainStamps(v) \subseteq Pins /\ {0} \cup ChainStamps(v) # {}
    BY StampsArePins
  <2>. QED
    BY <2>1, MaxOfStamps DEF HeadOf
<1>5. HeadOf(v) <= HeadOf(u)
  BY <1>3, <1>4, HeadBounds, BoundsAssumption DEF Pins
<1>. QED
  BY <1>2, <1>3, <1>5

\* No step changes how a promise reads at a stamp a version has reached.
LEMMA PinnedPromisesStep ==
  ASSUME Growth = "line", StoreInv, OneLine, [Next]_vars,
         NEW v \in Versions, NEW pin \in 0..HeadOf(v)
  PROVE  PromiseView(v, pin)' = PromiseView(v, pin)
<1>. USE DEF StoreInv, LedgerInv
<1>0. HeadOf(v) \in Nat /\ pin \in Nat
  BY HeadBounds, BoundsAssumption DEF Pins
<1>1. ASSUME Pinned(promises, v, pin)' = Pinned(promises, v, pin)
      PROVE  PromiseView(v, pin)' = PromiseView(v, pin)
  BY <1>1 DEF PromiseView
<1>2. CASE UNCHANGED <<chain, promises>>
  BY <1>1, <1>2 DEF Pinned, OfChain
<1>3. ASSUME NEW u \in Versions, Grows(u) PROVE PromiseView(v, pin)' = PromiseView(v, pin)
  <2>1. CASE v = u
    BY <1>1, <1>3, <2>1, NothingPinnedYet
  <2>2. CASE v # u
    BY <1>1, <1>3, <2>2 DEF Grows, Pinned, OfChain
  <2>. QED
    BY <2>1, <2>2
<1>4. ASSUME NEW u \in Versions, Writes(u), AddsPromises(u)
      PROVE  PromiseView(v, pin)' = PromiseView(v, pin)
  <2>1. PICK new : Stamped(new, u) /\ promises' = promises \cup new
    BY <1>4 DEF AddsPromises
  <2>2. ~HasChild(u) /\ chain' = chain
    BY <1>4 DEF Writes, Writable
  <2>3. Pinned(promises, v, pin)' = Pinned(promises \cup new, v, pin)
    BY <2>1, <2>2 DEF Pinned, OfChain
  <2>. QED
    BY <1>1, <2>1, <2>2, <2>3, NewRowsUnseen
<1>5. ASSUME NEW u \in Versions, Writes(u), Fulfills(u)
      PROVE  PromiseView(v, pin)' = PromiseView(v, pin)
  <2>1. ~HasChild(u) /\ chain' = chain
    BY <1>5 DEF Writes, Writable
  <2>2. PICK p \in OfChain(promises, u) :
          /\ p.fulfilled = 0
          /\ promises' = (promises \ {p}) \cup {[p EXCEPT !.fulfilled = HeadOf(u) + 1]}
    BY <1>5 DEF Fulfills
  <2>. DEFINE done == [p EXCEPT !.fulfilled = HeadOf(u) + 1]
              View(q) == IF q.fulfilled > pin THEN [q EXCEPT !.fulfilled = 0] ELSE q
  <2>3. p \in Promise /\ p \in promises /\ p.version \in chain[u]
    BY <2>2 DEF OfChain, TypeOK
  <2>4. done.version = p.version /\ done.seq = p.seq /\ done.fulfilled = HeadOf(u) + 1
    BY <2>3 DEF Promise
  <2>5. CASE p \notin Pinned(promises, v, pin)
    <3>1. Pinned(promises, v, pin)' = Pinned(promises, v, pin)
      BY <2>1, <2>2, <2>3, <2>4, <2>5 DEF Pinned, OfChain
    <3>. QED
      BY <1>1, <3>1
  <2>6. CASE p \in Pinned(promises, v, pin)
    <3>1. HeadOf(v) <= HeadOf(u)
      BY <2>1, <2>3, <2>6, AncestorsBehind DEF Pinned, OfChain
    <3>2. HeadOf(u) \in Nat
      BY HeadBounds, BoundsAssumption DEF Pins
    <3>3. HeadOf(u) + 1 > pin /\ ~(0 > pin)
      BY <1>0, <3>1, <3>2
    <3>4. [done EXCEPT !.fulfilled = 0] = p
      BY <2>2, <2>3 DEF Promise
    <3>5. View(done) = p /\ View(p) = p
      BY <2>2, <2>4, <3>3, <3>4
    <3>6. Pinned(promises, v, pin)' = (Pinned(promises, v, pin) \ {p}) \cup {done}
      BY <2>1, <2>2, <2>3, <2>4, <2>6 DEF Pinned, OfChain
    <3>7. /\ PromiseView(v, pin) = {View(q) : q \in Pinned(promises, v, pin)}
          /\ PromiseView(v, pin)' = {View(q) : q \in Pinned(promises, v, pin)'}
      BY DEF PromiseView
    <3>. HIDE DEF done, View
    <3>. QED
      BY <2>6, <3>5, <3>6, <3>7
  <2>. QED
    BY <2>5, <2>6
<1>6. ASSUME NEW u \in Versions, Writes(u), ~AddsPromises(u), ~Fulfills(u)
      PROVE  UNCHANGED <<chain, promises>>
  BY <1>6 DEF Writes, AddsClaims, AddsAnchors, ReplacesCounters
<1>. QED
  BY <1>2, <1>3, <1>4, <1>5, <1>6, StepShape

\* On a line of versions a promise fulfilled in place after a pin still reads
\* open there, whoever reads and whoever fulfilled it (status_as_of).
THEOREM PinnedPromisesStableTheorem ==
  ASSUME Growth = "line"
  PROVE  Spec => PinnedPromisesStable
<1>1. Init => OneLine
  BY DEF Init, OneLine
<1>2. StoreInv /\ OneLine /\ [Next]_vars =>
        [\A v \in Versions : \A pin \in 0..HeadOf(v) :
           PromiseView(v, pin)' = PromiseView(v, pin)]_vars
  BY PinnedPromisesStep
<1>3. StoreInv /\ OneLine /\ [Next]_vars => OneLine'
  BY OneLineStep
<1>. QED
  BY <1>1, <1>2, <1>3, StoreInvInit, StoreInvStep, PTL DEF Spec, PinnedPromisesStable

-----------------------------------------------------------------------------
(***************************************************************************)
(* One clock.  A write is stamped above everything its version sees, and   *)
(* on a line no other version sees more than the writing one does.         *)
(***************************************************************************)

Seen(v) ==
  OfChain(claims, v) \cup OfChain(anchors, v) \cup OfChain(promises, v) \cup OfChain(counters, v)

Fulfilled(v) == {p \in OfChain(promises, v) : p.fulfilled > 0}

OneTick(rows, fulfilments) ==
  /\ \A r, s \in rows : r.seq = s.seq => r = s
  /\ \A p, q \in fulfilments : p.fulfilled = q.fulfilled => p = q
  /\ \A r \in rows, p \in fulfilments : r.seq # p.fulfilled

LEMMA OneTickPerVersion == OneTickPerWrite <=> \A v \in Versions : OneTick(Seen(v), Fulfilled(v))
BY DEF OneTickPerWrite, OneTick, Seen, Fulfilled

\* The stamps of what a version sees are natural numbers up to its head.
LEMMA SeenUpToHead ==
  ASSUME TypeOK, NEW v \in Versions
  PROVE  /\ HeadOf(v) \in Nat
         /\ \A r \in Seen(v) : r.seq \in Nat /\ r.seq <= HeadOf(v)
         /\ \A p \in Fulfilled(v) : p.fulfilled \in Nat /\ p.fulfilled <= HeadOf(v)
<1>1. HeadOf(v) \in Nat /\ \A n \in ChainStamps(v) : n \in Nat /\ n <= HeadOf(v)
  BY HeadBounds, StampsArePins, BoundsAssumption DEF Pins
<1>2. \A r \in Seen(v) : r.seq \in ChainStamps(v)
  BY DEF Seen, ChainStamps
<1>3. \A p \in Fulfilled(v) : p.fulfilled \in ChainStamps(v)
  BY DEF Fulfilled, ChainStamps
<1>. QED
  BY <1>1, <1>2, <1>3

\* Rows of four tables are told apart by their columns.
LEMMA PromisesApart ==
  ASSUME NEW p \in Promise
  PROVE  p \notin Claim /\ p \notin Anchor /\ p \notin Counter
<1>1. DOMAIN p = {"version", "seq", "key", "fulfilled"}
  BY DEF Promise
<1>2. "fulfilled" \in DOMAIN p
  BY <1>1
<1>3. \A x \in Claim \cup Anchor \cup Counter : "fulfilled" \notin DOMAIN x
  BY DEF Claim, Anchor, Counter
<1>. QED
  BY <1>2, <1>3

\* Rows stamped after the head of a version that sees them keep one clock.
LEMMA AddedTicks ==
  ASSUME TypeOK, NEW u \in Versions, OneTick(Seen(u), Fulfilled(u)),
         NEW new, Stamped(new, u), Seen(u)' \subseteq Seen(u) \cup new,
         Fulfilled(u)' \subseteq Fulfilled(u)
  PROVE  OneTick(Seen(u)', Fulfilled(u)')
<1>1. \A x \in new : x.seq \in Nat /\ x.seq > HeadOf(u)
  BY BoundsAssumption DEF Stamped, Stamps
<1>2. \A r \in Seen(u) : \A x \in new : r.seq # x.seq
  BY <1>1, SeenUpToHead
<1>3. \A p \in Fulfilled(u) : \A x \in new : p.fulfilled # x.seq
  BY <1>1, SeenUpToHead
<1>. QED
  BY <1>2, <1>3 DEF OneTick, Stamped

\* Every write takes a stamp of its own.
LEMMA OneTickStep ==
  ASSUME Growth = "line", StoreInv, OneLine, OneTickPerWrite, [Next]_vars, NEW v \in Versions
  PROVE  OneTick(Seen(v)', Fulfilled(v)')
<1>. USE DEF StoreInv, LedgerInv
<1>0. \A w \in Versions : OneTick(Seen(w), Fulfilled(w))
  BY OneTickPerVersion
<1>1. ASSUME Seen(v)' = Seen(v), Fulfilled(v)' = Fulfilled(v)
      PROVE  OneTick(Seen(v)', Fulfilled(v)')
  BY <1>0, <1>1
<1>2. CASE UNCHANGED <<chain, claims, anchors, promises, counters>>
  BY <1>1, <1>2 DEF Seen, Fulfilled, OfChain
<1>3. ASSUME NEW u \in Versions, Grows(u)
      PROVE  OneTick(Seen(v)', Fulfilled(v)')
  <2>1. CASE v # u
    BY <1>1, <1>3, <2>1 DEF Grows, Seen, Fulfilled, OfChain
  <2>2. CASE v = u
    <3>1. \A r \in claims \cup anchors \cup promises \cup counters : r.version # u
      BY <1>3 DEF Grows, Lineage
    <3>2. CASE chain'[u] = {u}
      <4>1. Seen(u)' = {} /\ Fulfilled(u)' = {}
        BY <1>3, <3>1, <3>2 DEF Grows, Seen, Fulfilled, OfChain
      <4>. QED
        BY <2>2, <4>1 DEF OneTick
    <3>3. ASSUME NEW parent \in Versions, chain'[u] = chain[parent] \cup {u}
          PROVE  OneTick(Seen(v)', Fulfilled(v)')
      <4>1. Seen(u)' = Seen(parent) /\ Fulfilled(u)' = Fulfilled(parent)
        BY <1>3, <3>1, <3>3 DEF Grows, Seen, Fulfilled, OfChain
      <4>. QED
        BY <1>0, <2>2, <4>1
    <3>. QED
      BY <1>3, <3>2, <3>3 DEF Grows
  <2>. QED
    BY <2>1, <2>2
<1>4. ASSUME NEW u \in Versions, Writes(u), ~Fulfills(u)
      PROVE  OneTick(Seen(v)', Fulfilled(v)')
  <2>1. ~HasChild(u) /\ chain' = chain /\ u \in chain[u]
    BY <1>4 DEF Writes, Writable, Lineage
  <2>2. \A new, w : Stamped(new, u) /\ w \in Versions /\ w # u => OfChain(new, w) = {}
    BY <2>1 DEF Stamped, OfChain, HasChild
  <2>3. \E new : /\ Stamped(new, u)
                 /\ Seen(u)' \subseteq Seen(u) \cup new
                 /\ Fulfilled(u)' \subseteq Fulfilled(u)
                 /\ v # u => Seen(v)' = Seen(v) /\ Fulfilled(v)' = Fulfilled(v)
    <3>1. CASE AddsClaims(u)
      BY <2>1, <2>2, <3>1 DEF AddsClaims, Seen, Fulfilled, OfChain
    <3>2. CASE AddsAnchors(u)
      BY <2>1, <2>2, <3>2 DEF AddsAnchors, Seen, Fulfilled, OfChain
    <3>3. CASE AddsPromises(u)
      BY <2>1, <2>2, <3>3 DEF AddsPromises, Seen, Fulfilled, OfChain
    <3>4. CASE ReplacesCounters(u)
      <4>1. PICK old, new : /\ \A r \in old : r.version = u
                            /\ Stamped(new, u)
                            /\ counters' = (counters \ old) \cup new
        BY <3>4 DEF ReplacesCounters
      <4>2. v # u => u \notin chain[v]
        BY <2>1 DEF HasChild
      <4>3. v # u => OfChain(counters, v)' = OfChain(counters, v)
        BY <2>1, <4>1, <4>2 DEF OfChain, Stamped
      <4>4. OfChain(counters, u)' \subseteq OfChain(counters, u) \cup new
        BY <2>1, <4>1 DEF OfChain
      <4>5. \A w \in Versions : /\ OfChain(claims, w)' = OfChain(claims, w)
                                /\ OfChain(anchors, w)' = OfChain(anchors, w)
                                /\ OfChain(promises, w)' = OfChain(promises, w)
        BY <2>1, <3>4 DEF ReplacesCounters, OfChain
      <4>. QED
        BY <4>1, <4>3, <4>4, <4>5 DEF Seen, Fulfilled
    <3>. QED
      BY <1>4, <3>1, <3>2, <3>3, <3>4 DEF Writes
  <2>4. CASE v = u
    BY <1>0, <2>3, <2>4, AddedTicks
  <2>5. CASE v # u
    BY <1>1, <2>3, <2>5
  <2>. QED
    BY <2>4, <2>5
<1>5. ASSUME NEW u \in Versions, Writes(u), Fulfills(u)
      PROVE  OneTick(Seen(v)', Fulfilled(v)')
  <2>1. ~HasChild(u) /\ chain' = chain
    BY <1>5 DEF Writes, Writable
  <2>2. PICK p \in OfChain(promises, u) :
          /\ p.fulfilled = 0
          /\ promises' = (promises \ {p}) \cup {[p EXCEPT !.fulfilled = HeadOf(u) + 1]}
    BY <1>5 DEF Fulfills
  <2>3. p \in Promise /\ p \in promises /\ p.version \in chain[u]
    BY <2>2 DEF OfChain, TypeOK
  <2>4. PICK done : /\ promises' = (promises \ {p}) \cup {done}
                    /\ done.version = p.version /\ done.seq = p.seq
                    /\ done.fulfilled = HeadOf(u) + 1
    <3>. DEFINE d == [p EXCEPT !.fulfilled = HeadOf(u) + 1]
    <3>1. d.version = p.version /\ d.seq = p.seq /\ d.fulfilled = HeadOf(u) + 1
      BY <2>3 DEF Promise
    <3>2. promises' = (promises \ {p}) \cup {d}
      BY <2>2
    <3>. HIDE DEF d
    <3>. QED
      BY <3>1, <3>2
  <2>5. UNCHANGED <<claims, anchors, counters>>
    BY <1>5 DEF Fulfills
  <2>6. CASE p.version \notin chain[v]
    <3>1. OfChain(promises, v)' = OfChain(promises, v)
      BY <2>1, <2>4, <2>6 DEF OfChain
    <3>. QED
      BY <1>1, <2>1, <2>5, <3>1 DEF Seen, Fulfilled, OfChain
  <2>7. CASE p.version \in chain[v]
    <3>1. HeadOf(v) <= HeadOf(u)
      BY <2>1, <2>3, <2>7, AncestorsBehind
    <3>2. HeadOf(u) \in Nat /\ HeadOf(v) \in Nat
      BY SeenUpToHead
    <3>3. OfChain(promises, v)' = (OfChain(promises, v) \ {p}) \cup {done}
      BY <2>1, <2>4, <2>7 DEF OfChain
    <3>4. p \in Seen(v) /\ p \notin OfChain(claims, v) \cup OfChain(anchors, v) \cup OfChain(counters, v)
      BY <2>3, <2>7, PromisesApart DEF Seen, OfChain, TypeOK
    <3>5. Seen(v)' = (Seen(v) \ {p}) \cup {done}
      BY <2>1, <2>5, <3>3, <3>4 DEF Seen, OfChain
    <3>6. Fulfilled(v)' \subseteq Fulfilled(v) \cup {done}
      BY <3>3 DEF Fulfilled
    <3>7. \A r \in Seen(v) : r.seq # done.fulfilled
      BY <2>4, <3>1, <3>2, SeenUpToHead
    <3>8. \A q \in Fulfilled(v) : q.fulfilled # done.fulfilled
      BY <2>4, <3>1, <3>2, SeenUpToHead
    <3>9. \A r \in Seen(v) \ {p} : r.seq # done.seq
      BY <1>0, <2>4, <3>4 DEF OneTick
    <3>10. done.seq # done.fulfilled /\ \A q \in Fulfilled(v) : done.seq # q.fulfilled
      BY <1>0, <2>4, <3>4, <3>7 DEF OneTick
    <3>. QED
      BY <1>0, <3>5, <3>6, <3>7, <3>8, <3>9, <3>10 DEF OneTick
  <2>. QED
    BY <2>6, <2>7
<1>. QED
  BY <1>2, <1>3, <1>4, <1>5, StepShape

\* On a line of versions the four kinds of write share one clock: within what
\* a version sees no stamp is given out twice, for rows or for fulfilments.
THEOREM WritesShareOneClock ==
  ASSUME Growth = "line"
  PROVE  Spec => []OneTickPerWrite
<1>1. Init => OneLine /\ OneTickPerWrite
  BY DEF Init, OneLine, OneTickPerWrite, OfChain
<1>2. StoreInv /\ OneLine /\ OneTickPerWrite /\ [Next]_vars => OneTickPerWrite'
  <2>. SUFFICES ASSUME StoreInv, OneLine, OneTickPerWrite, [Next]_vars
                PROVE  OneTickPerWrite'
    OBVIOUS
  <2>1. \A v \in Versions : OneTick(Seen(v)', Fulfilled(v)')
    BY OneTickStep
  <2>. QED
    BY <2>1 DEF OneTickPerWrite, OneTick, Seen, Fulfilled
<1>3. StoreInv /\ OneLine /\ [Next]_vars => OneLine'
  BY OneLineStep
<1>. QED
  BY <1>1, <1>2, <1>3, StoreInvInit, StoreInvStep, PTL DEF Spec

-----------------------------------------------------------------------------
(***************************************************************************)
(* Gated commands.  A command reads head, facts and anchors one after the  *)
(* other while others write; what it holds is what its version's canon is  *)
(* at the head it read, because that pin had been reached by then.         *)
(***************************************************************************)

Snapshot(r) ==
  /\ r.at \in {"facts", "anchors", "append"} => r.head <= HeadOf(r.version)
  /\ r.at \in {"anchors", "append"} => r.facts = Facts(r.version, r.head)
  /\ r.at = "append" => r.anchors = LockedAnchors(r.version, r.head)

SnapshotInv == \A c \in Commands : Snapshot(cmd[c])

\* Whatever is written meanwhile, a command that waits keeps its snapshot.
LEMMA WaitingSnapshot ==
  ASSUME Growth # "any", StoreInv, SnapshotInv, [Next]_vars,
         NEW c \in Commands, cmd'[c] = cmd[c]
  PROVE  Snapshot(cmd[c])'
<1>. USE DEF StoreInv, LedgerInv
<1>1. CASE cmd[c].at \notin {"facts", "anchors", "append"}
  BY <1>1 DEF Snapshot
<1>2. CASE cmd[c].at \in {"facts", "anchors", "append"}
  <2>. DEFINE v == cmd[c].version
              head == cmd[c].head
  <2>1. cmd[c] \in Command
    BY <1>2, InFlightTyped
  <2>2. v \in Versions /\ head \in Nat
    BY <2>1, BoundsAssumption DEF Command, Pins
  <2>3. HeadOf(v) \in Nat /\ HeadOf(v)' \in Nat /\ HeadOf(v) <= HeadOf(v)'
    BY <2>2, TypeStep, HeadBounds, HeadBoundsNext, HeadGrows, BoundsAssumption DEF Pins
  <2>4. head \in 0..HeadOf(v)
    BY <1>2, <2>2, <2>3 DEF SnapshotInv, Snapshot
  <2>5. Facts(v, head)' = Facts(v, head) /\ LockedAnchors(v, head)' = LockedAnchors(v, head)
    <3>1. \A pin \in 0..HeadOf(v) : /\ Facts(v, pin)' = Facts(v, pin)
                                    /\ LockedAnchors(v, pin)' = LockedAnchors(v, pin)
      BY <2>2, PinnedFactsStep, PinnedAnchorsStep
    <3>. QED
      BY <2>4, <3>1
  <2>. QED
    BY <2>2, <2>3, <2>4, <2>5 DEF SnapshotInv, Snapshot
<1>. QED
  BY <1>1, <1>2


\* A step of a command reads at the head it has seen, or forgets what it held.
LEMMA MovingSnapshot ==
  ASSUME StoreInv, SnapshotInv, NEW c \in Commands, CommandStep(c)
  PROVE  Snapshot(cmd[c])' /\ \A d \in Commands \ {c} : cmd'[d] = cmd[d]
<1>. USE DEF StoreInv, LedgerInv
<1>1. cmd[c] \in Command
  BY InFlightTyped DEF CommandStep, ReadHead, ReadFacts, ReadAnchors, Regate, Refuse, AppendEvaluated
<1>2. \A d \in Commands \ {c} : cmd'[d] = cmd[d]
  BY DEF CommandStep, ReadHead, ReadFacts, ReadAnchors, Regate, Refuse, AppendEvaluated, Land, TypeOK
<1>3. ASSUME cmd'[c].at \in {"idle", "head"} PROVE Snapshot(cmd[c])'
  BY <1>3 DEF Snapshot
<1>4. ASSUME UNCHANGED store
      PROVE  \A v, pin : /\ HeadOf(v)' = HeadOf(v)
                         /\ Facts(v, pin)' = Facts(v, pin)
                         /\ LockedAnchors(v, pin)' = LockedAnchors(v, pin)
  BY <1>4 DEF store, HeadOf, ChainStamps, OfChain, Facts, LockedAnchors, Pinned, Overwrites
<1>5. HeadOf(cmd[c].version) \in Nat /\ HeadOf(cmd[c].version) <= HeadOf(cmd[c].version)
  BY <1>1, HeadBounds, BoundsAssumption DEF Command, Pins
<1>6. ASSUME ReadHead(c) PROVE Snapshot(cmd[c])'
  <2>1. CASE cmd'[c] = Idle
    BY <1>3, <2>1 DEF Idle
  <2>2. CASE cmd'[c] = [cmd[c] EXCEPT !.at = "facts", !.head = HeadOf(cmd[c].version)]
    <3>1. /\ cmd'[c].at = "facts" /\ cmd'[c].version = cmd[c].version
          /\ cmd'[c].head = HeadOf(cmd[c].version)
      BY <1>1, <2>2 DEF Command
    <3>2. \A v : HeadOf(v)' = HeadOf(v)
      BY <1>4, <1>6 DEF ReadHead
    <3>3. cmd'[c].head <= HeadOf(cmd[c].version)'
      BY <1>5, <3>1, <3>2
    <3>. QED
      BY <3>1, <3>3 DEF Snapshot
  <2>. QED
    BY <1>6, <2>1, <2>2 DEF ReadHead, TypeOK
<1>7. ASSUME ReadFacts(c) PROVE Snapshot(cmd[c])'
  <2>1. /\ cmd'[c].at = "anchors" /\ cmd'[c].version = cmd[c].version /\ cmd'[c].head = cmd[c].head
        /\ cmd'[c].facts = Facts(cmd[c].version, cmd[c].head)
    BY <1>1, <1>7 DEF ReadFacts, TypeOK, Command
  <2>2. cmd[c].head <= HeadOf(cmd[c].version)
    BY <1>7 DEF ReadFacts, SnapshotInv, Snapshot
  <2>3. \A v, pin : HeadOf(v)' = HeadOf(v) /\ Facts(v, pin)' = Facts(v, pin)
    BY <1>4, <1>7 DEF ReadFacts
  <2>. QED
    BY <2>1, <2>2, <2>3 DEF Snapshot
<1>8. ASSUME ReadAnchors(c) PROVE Snapshot(cmd[c])'
  <2>1. /\ cmd'[c].at = "append" /\ cmd'[c].version = cmd[c].version /\ cmd'[c].head = cmd[c].head
        /\ cmd'[c].facts = cmd[c].facts
        /\ cmd'[c].anchors = LockedAnchors(cmd[c].version, cmd[c].head)
    BY <1>1, <1>8 DEF ReadAnchors, TypeOK, Command
  <2>2. /\ cmd[c].head <= HeadOf(cmd[c].version)
        /\ cmd[c].facts = Facts(cmd[c].version, cmd[c].head)
    BY <1>8 DEF ReadAnchors, SnapshotInv, Snapshot
  <2>3. \A v, pin : /\ HeadOf(v)' = HeadOf(v) /\ Facts(v, pin)' = Facts(v, pin)
                    /\ LockedAnchors(v, pin)' = LockedAnchors(v, pin)
    BY <1>4, <1>8 DEF ReadAnchors
  <2>. QED
    BY <2>1, <2>2, <2>3 DEF Snapshot
<1>9. ASSUME Regate(c) PROVE Snapshot(cmd[c])'
  <2>1. cmd'[c].at = "head"
    BY <1>1, <1>9 DEF Regate, TypeOK, Command
  <2>. QED
    BY <1>3, <2>1
<1>10. ASSUME Refuse(c) \/ \E shapeBlocked \in SUBSET Keys : AppendEvaluated(c, shapeBlocked) PROVE Snapshot(cmd[c])'
  <2>1. cmd'[c] = Idle
    BY <1>10 DEF Refuse, AppendEvaluated, Land, TypeOK
  <2>. QED
    BY <1>3, <2>1 DEF Idle
<1>11. Snapshot(cmd[c])'
  BY <1>6, <1>7, <1>8, <1>9, <1>10 DEF CommandStep
<1>. QED
  BY <1>2, <1>11

\* Every step keeps the snapshots.
LEMMA SnapshotStep ==
  ASSUME Growth # "any", StoreInv, SnapshotInv, [Next]_vars
  PROVE  SnapshotInv'
<1>. SUFFICES ASSUME NEW c \in Commands PROVE Snapshot(cmd[c])'
  BY DEF SnapshotInv
<1>1. CASE cmd'[c] = cmd[c]
  BY <1>1, WaitingSnapshot
<1>2. CASE cmd'[c] # cmd[c]
  <2>1. ASSUME NEW d \in Commands, CommandStep(d) PROVE Snapshot(cmd[c])'
    BY <1>2, <2>1, MovingSnapshot
  <2>2. ASSUME NEW d \in Commands, NEW v \in Versions, NEW batch \in KnownBatch,
               NEW pin \in {{}, {HeadOf(v)}}, Submit(d, v, batch, pin)
        PROVE  Snapshot(cmd[c])'
    <3>1. cmd'[c].at = "head"
      BY <1>2, <2>2 DEF Submit, StoreInv, LedgerInv, TypeOK
    <3>. QED
      BY <3>1 DEF Snapshot
  <2>3. ASSUME NEW v \in Versions, WriteStep(v) PROVE FALSE
    BY <1>2, <2>3 DEF WriteStep, CreateRoot, CreateChild, AppendUngated, LockAnchor,
                      RegisterPromise, FulfillPromise, RecordCounts
  <2>. QED
    BY <1>2, <2>1, <2>2, <2>3 DEF Next, vars
<1>. QED
  BY <1>1, <1>2

\* Nothing a version sees is stamped between its head and the end of the column.
LEMMA PinAtHead ==
  ASSUME TypeOK, NEW v \in Versions
  PROVE  /\ Facts(v, HeadOf(v)) = Facts(v, MaxSeq)
         /\ LockedAnchors(v, HeadOf(v)) = LockedAnchors(v, MaxSeq)
<1>1. \A x \in OfChain(claims, v) \cup OfChain(anchors, v) : x.seq <= HeadOf(v) /\ x.seq <= MaxSeq
  <2>1. \A x \in OfChain(claims, v) \cup OfChain(anchors, v) : x.seq \in ChainStamps(v)
    BY DEF ChainStamps
  <2>2. \A n \in ChainStamps(v) : n <= HeadOf(v) /\ n <= MaxSeq
    BY HeadBounds, StampsArePins, BoundsAssumption DEF Pins
  <2>. QED
    BY <2>1, <2>2
<1>2. /\ Pinned(claims, v, HeadOf(v)) = Pinned(claims, v, MaxSeq)
      /\ Pinned(anchors, v, HeadOf(v)) = Pinned(anchors, v, MaxSeq)
  BY <1>1 DEF Pinned
<1>. QED
  BY <1>2 DEF Facts, LockedAnchors

\* The compare-and-append is sound while no version is written after it has a
\* child: if the head has not moved, the facts and anchors a command gated
\* against are the canon, although three queries read them.
THEOREM SnapshotsAreFresh ==
  ASSUME Growth # "any"
  PROVE  Spec => []SnapshotFresh
<1>1. Init => SnapshotInv
  BY DEF Init, SnapshotInv, Snapshot, Idle
<1>2. StoreInv /\ SnapshotInv => SnapshotFresh
  <2>. SUFFICES ASSUME StoreInv, SnapshotInv,
                       NEW c \in Commands, cmd[c].at = "append", ~HeadMoved(c)
                PROVE  /\ cmd[c].facts = Facts(cmd[c].version, MaxSeq)
                       /\ cmd[c].anchors = LockedAnchors(cmd[c].version, MaxSeq)
    BY DEF SnapshotFresh
  <2>1. TypeOK /\ cmd[c].version \in Versions
    BY InFlightTyped DEF StoreInv, LedgerInv, Command
  <2>2. cmd[c].head = HeadOf(cmd[c].version)
    BY DEF HeadMoved
  <2>. QED
    BY <2>1, <2>2, PinAtHead DEF SnapshotInv, Snapshot
<1>3. StoreInv /\ SnapshotInv /\ [Next]_vars => SnapshotInv'
  BY SnapshotStep
<1>. QED
  BY <1>1, <1>2, <1>3, StoreInvInit, StoreInvStep, PTL DEF Spec

-----------------------------------------------------------------------------
(***************************************************************************)
(* What the gates promise of the stored ledger.                            *)
(***************************************************************************)

\* A claim was observed at a pin its version had reached.
ObservedReached == \A x \in claims : x.observed <= HeadOf(x.version)

\* The claims a step stores were observed at the head they are stamped after;
\* those of a command come from its batch.
LEMMA NewClaims ==
  ASSUME StoreInv, [Next]_vars, NEW x \in claims', x \notin claims
  PROVE  /\ x.version \in Versions /\ Created(x.version)
         /\ x.observed = HeadOf(x.version) /\ x.seq \in Nat /\ x.seq > HeadOf(x.version)
         /\ x.gated \/ x.status = "accepted"
         /\ x.gated =>
              \E c \in Commands : \E shapeBlocked \in SUBSET Keys : \E i \in DOMAIN cmd[c].batch :
                LET blocked == BlockedKeys(cmd[c].facts, cmd[c].anchors, cmd[c].batch) \cup shapeBlocked
                IN  AppendEvaluated(c, shapeBlocked) /\ x = StoredClaim(c, i, blocked)
<1>. USE DEF StoreInv, LedgerInv
<1>1. ASSUME NEW v \in Versions, WriteStep(v)
      PROVE  /\ x.version = v /\ Created(v)
             /\ x.observed = HeadOf(v) /\ x.seq = HeadOf(v) + 1
             /\ ~x.gated /\ x.status = "accepted"
  BY <1>1 DEF WriteStep, CreateRoot, CreateChild, AppendUngated, LockAnchor, RegisterPromise,
              FulfillPromise, RecordCounts, Writable
<1>2. ASSUME NEW c \in Commands, CommandStep(c)
      PROVE  \E shapeBlocked \in SUBSET Keys : \E i \in DOMAIN cmd[c].batch :
               LET blocked == BlockedKeys(cmd[c].facts, cmd[c].anchors, cmd[c].batch) \cup shapeBlocked
               IN  AppendEvaluated(c, shapeBlocked) /\ x = StoredClaim(c, i, blocked)
  <2>1. PICK shapeBlocked \in SUBSET Keys : AppendEvaluated(c, shapeBlocked)
    BY <1>2 DEF CommandStep, ReadHead, ReadFacts, ReadAnchors, Regate, Refuse, store
  <2>. QED
    BY <2>1 DEF AppendEvaluated, Land
<1>3. CASE \E v \in Versions : WriteStep(v)
  <2>1. \A v \in Versions : HeadOf(v) \in Nat
    BY HeadBounds, BoundsAssumption DEF Pins
  <2>. QED
    BY <1>1, <1>3, <2>1
<1>4. ASSUME NEW c \in Commands, CommandStep(c)
      PROVE  /\ x.version \in Versions /\ Created(x.version)
             /\ x.observed = HeadOf(x.version) /\ x.seq \in Nat /\ x.seq > HeadOf(x.version)
             /\ x.gated
  <2>1. PICK shapeBlocked \in SUBSET Keys : \E i \in DOMAIN cmd[c].batch :
          LET blocked == BlockedKeys(cmd[c].facts, cmd[c].anchors, cmd[c].batch) \cup shapeBlocked
          IN  AppendEvaluated(c, shapeBlocked) /\ x = StoredClaim(c, i, blocked)
    BY <1>2, <1>4
  <2>2. cmd[c] \in Command /\ cmd[c] # Idle
    BY <2>1, InFlightTyped DEF AppendEvaluated, Idle
  <2>3. PICK i \in DOMAIN cmd[c].batch :
          LET blocked == BlockedKeys(cmd[c].facts, cmd[c].anchors, cmd[c].batch) \cup shapeBlocked
          IN  x = StoredClaim(c, i, blocked)
    BY <2>1
  <2>4. cmd[c].version \in Versions /\ Created(cmd[c].version) /\ i \in Nat \ {0}
    BY <2>2, BatchShape DEF Command, InFlightWritable, Writable
  <2>5. HeadOf(cmd[c].version) \in Nat
    BY <2>4, HeadBounds, BoundsAssumption DEF Pins
  <2>6. /\ x.version = cmd[c].version /\ x.observed = HeadOf(cmd[c].version)
        /\ x.seq = HeadOf(cmd[c].version) + i /\ x.gated
    BY <2>3 DEF StoredClaim
  <2>. QED
    BY <2>4, <2>5, <2>6
<1>5. (\E v \in Versions : WriteStep(v)) \/ (\E c \in Commands : CommandStep(c))
  BY DEF Next, Submit, store, vars
<1>. QED
  BY <1>2, <1>3, <1>4, <1>5, <1>1

LEMMA ObservedReachedStep ==
  ASSUME StoreInv, ObservedReached, [Next]_vars
  PROVE  ObservedReached'
<1>. USE DEF StoreInv, LedgerInv
<1>1. SUFFICES ASSUME NEW x \in claims' PROVE x.observed <= HeadOf(x.version)'
  BY DEF ObservedReached
<1>2. x.version \in Versions /\ x.observed \in Nat
  BY TypeStep, BoundsAssumption DEF TypeOK, Claim, Pins
<1>3. HeadOf(x.version) \in Nat /\ HeadOf(x.version)' \in Nat /\ HeadOf(x.version) <= HeadOf(x.version)'
  BY <1>2, TypeStep, HeadBounds, HeadBoundsNext, HeadGrows, BoundsAssumption DEF Pins
<1>4. x.observed <= HeadOf(x.version)
  BY <1>2, <1>3, NewClaims DEF ObservedReached
<1>. QED
  BY <1>2, <1>3, <1>4

\* The gates let an accepted claim of a batch pass.
LEMMA AcceptedPassed ==
  ASSUME NEW c \in Commands, NEW i \in DOMAIN cmd[c].batch, NEW shapeBlocked, NEW x,
         x = StoredClaim(c, i, BlockedKeys(cmd[c].facts, cmd[c].anchors, cmd[c].batch) \cup shapeBlocked),
         x.status = "accepted"
  PROVE  ~AnchorConflict(cmd[c].anchors, x) /\ ~LedgerConflict(cmd[c].facts, x)
<1>. DEFINE p == cmd[c].batch[i]
<1>1. p.key \notin BlockedKeys(cmd[c].facts, cmd[c].anchors, cmd[c].batch)
  BY DEF StoredClaim
<1>2. ~GateBlocks(cmd[c].facts, cmd[c].anchors, p)
  BY <1>1 DEF BlockedKeys, Proposals
<1>3. /\ x.key = p.key /\ x.value = p.value
      /\ x.correction = p.correction /\ x.supersedes = p.supersedes
  BY DEF StoredClaim
<1>. QED
  BY <1>2, <1>3 DEF GateBlocks, AnchorConflict, LedgerConflict

LEMMA AcceptedStep ==
  ASSUME Growth # "any", StoreInv, SnapshotInv, ObservedReached, AcceptedRespectsCanon, [Next]_vars
  PROVE  AcceptedRespectsCanon'
<1>. USE DEF StoreInv, LedgerInv
<1>1. SUFFICES ASSUME NEW x \in claims', x.gated, x.status = "accepted"
               PROVE  /\ ~AnchorConflict(LockedAnchors(x.version, x.observed), x)'
                      /\ ~LedgerConflict(Facts(x.version, x.observed), x)'
  BY DEF AcceptedRespectsCanon
<1>2. x.version \in Versions /\ x.observed \in Nat
  BY TypeStep, BoundsAssumption DEF TypeOK, Claim, Pins
<1>3. HeadOf(x.version) \in Nat /\ x.observed <= HeadOf(x.version)
  BY <1>2, HeadBounds, NewClaims, BoundsAssumption DEF ObservedReached, Pins
<1>4. /\ Facts(x.version, x.observed)' = Facts(x.version, x.observed)
      /\ LockedAnchors(x.version, x.observed)' = LockedAnchors(x.version, x.observed)
  BY <1>2, <1>3, PinnedFactsStep, PinnedAnchorsStep
<1>5. /\ ~AnchorConflict(LockedAnchors(x.version, x.observed), x)
      /\ ~LedgerConflict(Facts(x.version, x.observed), x)
  <2>1. CASE x \in claims
    BY <1>1, <2>1 DEF AcceptedRespectsCanon
  <2>2. CASE x \notin claims
    <3>1. PICK c \in Commands, shapeBlocked \in SUBSET Keys : \E i \in DOMAIN cmd[c].batch :
            /\ AppendEvaluated(c, shapeBlocked)
            /\ x = StoredClaim(c, i, BlockedKeys(cmd[c].facts, cmd[c].anchors, cmd[c].batch) \cup shapeBlocked)
      BY <1>1, <2>2, NewClaims
    <3>2. PICK i \in DOMAIN cmd[c].batch :
            /\ AppendEvaluated(c, shapeBlocked)
            /\ x = StoredClaim(c, i, BlockedKeys(cmd[c].facts, cmd[c].anchors, cmd[c].batch) \cup shapeBlocked)
      BY <3>1
    <3>3. x.version = cmd[c].version /\ x.observed = cmd[c].head /\ cmd[c].at = "append"
      BY <3>2 DEF AppendEvaluated, HeadMoved, StoredClaim
    <3>4. /\ cmd[c].facts = Facts(x.version, x.observed)
          /\ cmd[c].anchors = LockedAnchors(x.version, x.observed)
      BY <3>3 DEF SnapshotInv, Snapshot
    <3>. QED
      BY <1>1, <3>2, <3>4, AcceptedPassed
  <2>. QED
    BY <2>1, <2>2
<1>. QED
  BY <1>4, <1>5 DEF AnchorConflict, LedgerConflict, Newest

\* A claim the gates accepted contradicts neither an anchor locked before it
\* nor, unless it declares a supersession, the newest fact before it; and no
\* later write makes it look as if it did (run_gates, append_evaluated).
THEOREM AcceptedClaimsRespectCanon ==
  ASSUME Growth # "any"
  PROVE  Spec => []AcceptedRespectsCanon
<1>1. Init => SnapshotInv /\ ObservedReached /\ AcceptedRespectsCanon
  BY DEF Init, SnapshotInv, Snapshot, Idle, ObservedReached, AcceptedRespectsCanon
<1>2. StoreInv /\ SnapshotInv /\ ObservedReached /\ AcceptedRespectsCanon /\ [Next]_vars
        => SnapshotInv' /\ ObservedReached' /\ AcceptedRespectsCanon'
  BY SnapshotStep, ObservedReachedStep, AcceptedStep
<1>. QED
  BY <1>1, <1>2, StoreInvInit, StoreInvStep, PTL DEF Spec

\* A finding is stamped no later than its version's head.
FindingsReached ==
  \A f \in findings : f.seq <= HeadOf(f.version)

\* A batch is numbered up to its length.
LEMMA BatchLength ==
  ASSUME NEW batch \in Batch, NEW i \in DOMAIN batch
  PROVE  i <= Len(batch) /\ Len(batch) \in Nat
<1>1. PICK n \in 1..MaxBatch : batch \in [1..n -> Proposal]
  BY DEF Batch
<1>2. n \in Nat \ {0} /\ batch \in Seq(Proposal)
  BY <1>1, BoundsAssumption
<1>3. Len(batch) = n
  BY <1>1, <1>2
<1>. QED
  BY <1>1, <1>2, <1>3

LEMMA FindingsReachedStep ==
  ASSUME StoreInv, FindingsReached, [Next]_vars
  PROVE  FindingsReached'
<1>. USE DEF StoreInv, LedgerInv
<1>1. SUFFICES ASSUME NEW f \in findings' PROVE f.seq <= HeadOf(f.version)'
  BY DEF FindingsReached
<1>2. f.version \in Versions /\ f.seq \in Nat
  BY TypeStep, BoundsAssumption DEF TypeOK, Finding, Stamps
<1>3. HeadOf(f.version) \in Nat /\ HeadOf(f.version)' \in Nat /\ HeadOf(f.version) <= HeadOf(f.version)'
  BY <1>2, TypeStep, HeadBounds, HeadBoundsNext, HeadGrows, BoundsAssumption DEF Pins
<1>4. CASE f \in findings
  BY <1>2, <1>3, <1>4 DEF FindingsReached
<1>5. CASE f \notin findings
  <2>1. PICK c \in Commands, shapeBlocked \in SUBSET Keys : AppendEvaluated(c, shapeBlocked)
    BY <1>5 DEF Next, WriteStep, CreateRoot, CreateChild, AppendUngated, LockAnchor,
                RegisterPromise, FulfillPromise, RecordCounts, Submit, CommandStep, ReadHead,
                ReadFacts, ReadAnchors, Regate, Refuse, store, vars
  <2>. DEFINE u == cmd[c].version
              last == Len(cmd[c].batch)
              blocked == BlockedKeys(cmd[c].facts, cmd[c].anchors, cmd[c].batch) \cup shapeBlocked
  <2>2. cmd[c] \in Command /\ cmd[c] # Idle
    BY <2>1, InFlightTyped DEF AppendEvaluated, Idle
  <2>3. last \in DOMAIN cmd[c].batch /\ u \in Versions /\ u \in chain[u]
    BY <2>2, BatchShape DEF Command, InFlightWritable, Writable, Lineage
  <2>4. f.version = u /\ f.seq = HeadOf(u) + last
    BY <1>5, <2>1 DEF AppendEvaluated, Land
  <2>5. StoredClaim(c, last, blocked) \in claims' /\ chain' = chain
    BY <2>1, <2>3 DEF AppendEvaluated, Land
  <2>6. StoredClaim(c, last, blocked).version = u /\ StoredClaim(c, last, blocked).seq = f.seq
    BY <2>4 DEF StoredClaim
  <2>. HIDE DEF u, last, blocked
  <2>7. \E x \in claims' : x.version = f.version /\ x.seq = f.seq
    BY <2>4, <2>5, <2>6
  <2>8. f.seq \in ChainStamps(f.version)'
    BY <2>3, <2>4, <2>5, <2>7 DEF ChainStamps, OfChain
  <2>. QED
    BY <1>2, <2>8, TypeStep, HeadBoundsNext
<1>. QED
  BY <1>4, <1>5


\* A disputed claim has its finding from the start, and what is stored later is
\* stamped after the end of its batch.
LEMMA DisputeStep ==
  ASSUME StoreInv, FindingsReached, DisputeExplained, [Next]_vars
  PROVE  DisputeExplained'
<1>. USE DEF StoreInv, LedgerInv
<1>0. claims \subseteq claims' /\ findings \subseteq findings'
  BY DEF Next, WriteStep, CreateRoot, CreateChild, AppendUngated, LockAnchor,
         RegisterPromise, FulfillPromise, RecordCounts, Submit, CommandStep, ReadHead,
         ReadFacts, ReadAnchors, Regate, Refuse, AppendEvaluated, Land, store, vars
<1>1. SUFFICES ASSUME NEW x \in claims', x.status = "disputed"
               PROVE  \E f \in findings' :
                        /\ f.version = x.version /\ f.key = x.key /\ f.seq >= x.seq
                        /\ \A y \in claims' :
                             y.version = x.version /\ y.seq \in x.seq..f.seq => y.observed = x.observed
  BY DEF DisputeExplained
<1>2. CASE x \in claims
  <2>1. PICK f \in findings :
          /\ f.version = x.version /\ f.key = x.key /\ f.seq >= x.seq
          /\ \A y \in claims :
               y.version = x.version /\ y.seq \in x.seq..f.seq => y.observed = x.observed
    BY <1>1, <1>2 DEF DisputeExplained
  <2>2. f.version \in Versions /\ f.seq \in Nat /\ f.seq <= HeadOf(f.version)
    BY BoundsAssumption DEF TypeOK, Finding, Stamps, FindingsReached
  <2>3. HeadOf(f.version) \in Nat
    BY <2>2, HeadBounds, BoundsAssumption DEF Pins
  <2>4. ASSUME NEW y \in claims', y \notin claims, y.version = f.version PROVE ~(y.seq <= f.seq)
    BY <2>2, <2>3, <2>4, NewClaims
  <2>. QED
    BY <1>0, <2>1, <2>2, <2>4
<1>3. CASE x \notin claims
  <2>1. x.gated
    BY <1>1, <1>3, NewClaims
  <2>2. PICK c \in Commands, shapeBlocked \in SUBSET Keys : \E i \in DOMAIN cmd[c].batch :
          /\ AppendEvaluated(c, shapeBlocked)
          /\ x = StoredClaim(c, i, BlockedKeys(cmd[c].facts, cmd[c].anchors, cmd[c].batch) \cup shapeBlocked)
    BY <1>3, <2>1, NewClaims
  <2>. DEFINE u == cmd[c].version
              last == Len(cmd[c].batch)
              blocked == BlockedKeys(cmd[c].facts, cmd[c].anchors, cmd[c].batch) \cup shapeBlocked
              f == [version |-> u, seq |-> HeadOf(u) + last, key |-> x.key]
  <2>3. PICK i \in DOMAIN cmd[c].batch : x = StoredClaim(c, i, blocked)
    BY <2>2
  <2>4. cmd[c] \in Command
    BY <2>2, InFlightTyped DEF AppendEvaluated
  <2>5. u \in Versions /\ i \in Nat \ {0} /\ i <= last /\ last \in Nat
    BY <2>4, BatchShape, BatchLength DEF Command
  <2>6. HeadOf(u) \in Nat
    BY <2>5, HeadBounds, BoundsAssumption DEF Pins
  <2>7. /\ x.version = u /\ x.seq = HeadOf(u) + i /\ x.observed = HeadOf(u)
        /\ x.key \in blocked
    BY <1>1, <2>3 DEF StoredClaim
  <2>8. f \in findings'
    <3>1. findings' = findings \cup {[version |-> u, seq |-> HeadOf(u) + last, key |-> k] : k \in blocked}
      BY <2>2 DEF AppendEvaluated, Land
    <3>. QED
      BY <2>7, <3>1
  <2>9. f.version = x.version /\ f.key = x.key /\ f.seq >= x.seq
    BY <2>5, <2>6, <2>7
  <2>10. ASSUME NEW y \in claims', y.version = u, y.seq \in x.seq..f.seq
         PROVE  y.observed = x.observed
    <3>1. CASE y \in claims
      <4>1. Created(u)
        BY <1>3, <2>7, NewClaims
      <4>2. y.seq \in ChainStamps(u)
        BY <2>5, <2>10, <3>1, <4>1 DEF ChainStamps, OfChain, Lineage
      <4>3. y.seq <= HeadOf(u)
        BY <2>5, <4>2, HeadBounds
      <4>4. y.seq >= HeadOf(u) + i
        BY <2>7, <2>10
      <4>5. y.seq \in Nat
        BY <3>1, BoundsAssumption DEF TypeOK, Claim, Stamps
      <4>. QED
        BY <2>5, <2>6, <4>3, <4>4, <4>5
    <3>2. CASE y \notin claims
      BY <2>7, <2>10, <3>2, NewClaims
    <3>. QED
      BY <3>1, <3>2
  <2>. HIDE DEF f
  <2>. QED
    BY <2>7, <2>8, <2>9, <2>10
<1>. QED
  BY <1>2, <1>3

\* However the clients branch and write: a disputed claim always has a blocking
\* finding of its key, stamped with the end of the claim's own batch.
THEOREM DisputesAreExplained == Spec => []DisputeExplained
<1>1. Init => FindingsReached /\ DisputeExplained
  BY DEF Init, FindingsReached, DisputeExplained
<1>2. StoreInv /\ FindingsReached /\ DisputeExplained /\ [Next]_vars
        => FindingsReached' /\ DisputeExplained'
  BY FindingsReachedStep, DisputeStep
<1>. QED
  BY <1>1, <1>2, StoreInvInit, StoreInvStep, PTL DEF Spec

-----------------------------------------------------------------------------
(***************************************************************************)
(* What the commands implement: an append_events that reads, gates and     *)
(* appends in one step, against the canon of that very moment.  The gates  *)
(* run over an earlier snapshot and the append only compares one number;   *)
(* the store cannot tell the difference.                                   *)
(***************************************************************************)

\* The claim that item i of a batch becomes in the state it is appended to.
SerialClaim(v, batch, i, blocked) ==
  [version |-> v, seq |-> HeadOf(v) + i,
   key |-> batch[i].key, value |-> batch[i].value,
   correction |-> batch[i].correction, supersedes |-> batch[i].supersedes,
   status |-> IF batch[i].key \in blocked THEN "disputed" ELSE "accepted",
   observed |-> HeadOf(v), gated |-> TRUE]

SerialAppend(v, batch, shapeBlocked) ==
  LET blocked == BlockedKeys(Facts(v, MaxSeq), LockedAnchors(v, MaxSeq), batch) \cup shapeBlocked
  IN  /\ Writable(v)
      /\ \A i \in DOMAIN batch : HeadOf(v) + i <= MaxSeq
      /\ \A p \in Proposals(batch) : p.supersedes \subseteq {IdOf(x) : x \in OfChain(claims, v)}
      /\ shapeBlocked \subseteq {p.key : p \in Proposals(batch)}
      /\ claims' = claims \cup {SerialClaim(v, batch, i, blocked) : i \in DOMAIN batch}
      /\ findings' = findings \cup
           {[version |-> v, seq |-> HeadOf(v) + Len(batch), key |-> k] : k \in blocked}
      /\ UNCHANGED <<chain, anchors, promises, counters>>

SerialStep ==
  \/ \E v \in Versions : WriteStep(v)
  \/ \E v \in Versions, batch \in Batch, shapeBlocked \in SUBSET Keys : SerialAppend(v, batch, shapeBlocked)

\* A command that lands does what the atomic command would.
LEMMA LandIsSerial ==
  ASSUME StoreInv, SnapshotInv, NEW c \in Commands, NEW shapeBlocked \in SUBSET Keys,
         AppendEvaluated(c, shapeBlocked)
  PROVE  SerialAppend(cmd[c].version, cmd[c].batch, shapeBlocked)
<1>. USE DEF StoreInv, LedgerInv
<1>1. cmd[c] \in Command /\ cmd[c] # Idle
  BY InFlightTyped DEF AppendEvaluated, Idle
<1>2. cmd[c].version \in Versions /\ Writable(cmd[c].version)
  BY <1>1 DEF Command, InFlightWritable
<1>3. /\ cmd[c].facts = Facts(cmd[c].version, MaxSeq)
      /\ cmd[c].anchors = LockedAnchors(cmd[c].version, MaxSeq)
  BY <1>2, PinAtHead DEF AppendEvaluated, HeadMoved, SnapshotInv, Snapshot
<1>4. \A i, blocked : StoredClaim(c, i, blocked) = SerialClaim(cmd[c].version, cmd[c].batch, i, blocked)
  BY DEF StoredClaim, SerialClaim
<1>. QED
  BY <1>2, <1>3, <1>4 DEF AppendEvaluated, Appendable, Land, SerialAppend

\* While no version is written after it has a child, every behaviour of the
\* store, with commands that read in separate queries, gate again and race with
\* direct writes, is one of a ledger whose commands are atomic.
THEOREM CommandsAreSerial ==
  ASSUME Growth # "any"
  PROVE  Spec => [][SerialStep]_store
<1>1. Init => SnapshotInv
  BY DEF Init, SnapshotInv, Snapshot, Idle
<1>2. StoreInv /\ SnapshotInv /\ [Next]_vars => [SerialStep]_store
  <2>. SUFFICES ASSUME StoreInv, SnapshotInv, [Next]_vars PROVE SerialStep \/ UNCHANGED store
    OBVIOUS
  <2>1. ASSUME NEW v \in Versions, WriteStep(v) PROVE SerialStep
    BY <2>1 DEF SerialStep
  <2>2. ASSUME NEW c \in Commands, CommandStep(c) PROVE SerialStep \/ UNCHANGED store
    <3>1. ASSUME NEW shapeBlocked \in SUBSET Keys, AppendEvaluated(c, shapeBlocked) PROVE SerialStep
      <4>1. cmd[c] \in Command
        BY <3>1, InFlightTyped DEF AppendEvaluated, StoreInv, LedgerInv
      <4>2. cmd[c].version \in Versions /\ cmd[c].batch \in Batch
        BY <4>1 DEF Command
      <4>. QED
        BY <3>1, <4>2, LandIsSerial DEF SerialStep
    <3>. QED
      BY <2>2, <3>1 DEF CommandStep, ReadHead, ReadFacts, ReadAnchors, Regate, Refuse
  <2>3. ASSUME NEW c \in Commands, NEW v \in Versions, NEW batch \in KnownBatch,
               NEW pin \in {{}, {HeadOf(v)}}, Submit(c, v, batch, pin)
        PROVE  UNCHANGED store
    BY <2>3 DEF Submit
  <2>4. CASE UNCHANGED vars
    BY <2>4 DEF vars, store
  <2>. QED
    BY <2>1, <2>2, <2>3, <2>4 DEF Next
<1>3. StoreInv /\ SnapshotInv /\ [Next]_vars => SnapshotInv'
  BY SnapshotStep
<1>. QED
  BY <1>1, <1>2, <1>3, StoreInvInit, StoreInvStep, PTL DEF Spec

=============================================================================
