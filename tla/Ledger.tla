------------------------------- MODULE Ledger -------------------------------
(***************************************************************************)
(* The fact ledger: memory versions in a lineage tree, claims, anchors,    *)
(* promises and counters stamped from one sequence, and the gated command  *)
(* path that appends claims.                                               *)
(*                                                                         *)
(*   store     munarium-store-pg/src/lib.rs   (munarium-store-mem agrees)  *)
(*   reads     munarium-core/src/ledger.rs, promises.rs, storage.rs        *)
(*   gates     munarium-core/src/gates.rs                                  *)
(*   commands  munarium-server/src/service.rs (append_events)              *)
(*                                                                         *)
(* A store write is one action: it runs in one transaction under the       *)
(* FOR UPDATE lock on the lineage head row.  A command is several actions: *)
(* it reads the head, the facts and the anchors in separate queries and    *)
(* appends later, and anything may be written in between.                  *)
(***************************************************************************)
EXTENDS Naturals, FiniteSets, FiniteSetsExt, Sequences

CONSTANTS Versions,      \* memory version ids
          Keys,          \* subject.key pairs of claims and anchors
          Values,        \* claim values, up to the comparison policy
          PromiseKeys,
          CounterKeys,   \* (key, scope_path) pairs of a counter row
          Commands,      \* concurrent append_events calls
          MaxSeq,        \* the largest stamp a BIGINT column holds
          MaxAttempts,   \* MAX_REGATE_ATTEMPTS
          MaxBatch,      \* longest command batch explored
          MaxCount,      \* largest count explored
          Growth         \* which versions the clients write and extend

ASSUME BoundsAssumption ==
  /\ MaxSeq \in Nat
  /\ MaxAttempts \in Nat \ {0}
  /\ MaxBatch \in Nat
  /\ MaxCount \in Nat
  /\ Growth \in {"line", "tree", "any"}

VARIABLES
  chain,     \* chain[v]: v and its ancestors; {} before v is created
  claims,    \* rows of the claims table, with their ledger event's fields
  anchors,   \* rows of the anchors table
  promises,  \* rows of the promises table; fulfilled = 0 while open
  counters,  \* rows of the mesh_counters table
  findings,  \* blocking rows of the gate_findings table
  cmd        \* each command's place, arguments and local variables

store == <<chain, claims, anchors, promises, counters, findings>>
vars == <<chain, claims, anchors, promises, counters, findings, cmd>>

Stamps == 1..MaxSeq
Pins == 0..MaxSeq

\* A claim id is a fresh uuid; within a version a stamp is used once, so the
\* pair names the row.
ClaimIds == Versions \X Stamps
Supersedes == {{}} \cup {{id} : id \in ClaimIds}

Claim == [version : Versions, seq : Stamps, key : Keys, value : Values,
          correction : BOOLEAN, supersedes : Supersedes,
          status : {"accepted", "disputed"},
          observed : Pins,     \* observed_head of the ledger event
          gated : BOOLEAN]     \* written by append_events
Anchor == [version : Versions, seq : Stamps, key : Keys, value : Values]
Promise == [version : Versions, seq : Stamps, key : PromiseKeys, fulfilled : Pins]
Counter == [version : Versions, seq : Stamps, key : CounterKeys, count : 0..MaxCount]
Finding == [version : Versions, seq : Stamps, key : Keys]

Proposal == [key : Keys, value : Values, correction : BOOLEAN, supersedes : Supersedes]
Batch == UNION {[1..n -> Proposal] : n \in 1..MaxBatch}
Command == [at : {"head", "facts", "anchors", "append"},
            version : Versions, batch : Batch,
            pin : {{}} \cup {{n} : n \in Pins},   \* the caller's expected_head
            attempt : 1..MaxAttempts,
            head : Pins, facts : SUBSET Claim, anchors : SUBSET Anchor]

Idle == [at |-> "idle"]

IdOf(c) == <<c.version, c.seq>>

(***************************************************************************)
(* Reads.                                                                  *)
(***************************************************************************)

\* The rows of a table a version's lineage sees.
OfChain(rows, v) == {r \in rows : r.version \in chain[v]}

\* Mutant: a fulfilment does not advance the clock.
ChainStampsWithoutFulfilments(v) ==
  {c.seq : c \in OfChain(claims, v)}
  \cup {a.seq : a \in OfChain(anchors, v)}
  \cup {p.seq : p \in OfChain(promises, v)}
  \cup {r.seq : r \in OfChain(counters, v)}

\* Mutant: locking an anchor does not advance the clock.
ChainStampsWithoutAnchors(v) ==
  {c.seq : c \in OfChain(claims, v)}
  \cup {p.seq : p \in OfChain(promises, v)}
  \cup {p.fulfilled : p \in OfChain(promises, v)}
  \cup {r.seq : r \in OfChain(counters, v)}

ChainStamps(v) ==
  {c.seq : c \in OfChain(claims, v)}
  \cup {a.seq : a \in OfChain(anchors, v)}
  \cup {p.seq : p \in OfChain(promises, v)}
  \cup {p.fulfilled : p \in OfChain(promises, v)}
  \cup {r.seq : r \in OfChain(counters, v)}

HeadOf(v) == Max({0} \cup ChainStamps(v))

Pinned(rows, v, pin) == {r \in OfChain(rows, v) : r.seq <= pin}

\* Mutant: supersession is resolved over the whole chain, not as of the pin.
FactsSupersededLater(v, pin) ==
  LET superseded == UNION {c.supersedes : c \in OfChain(claims, v)}
  IN  {c \in Pinned(claims, v, pin) : c.status = "accepted" /\ IdOf(c) \notin superseded}

\* The accepted facts of a version as of a pin.  Supersession is resolved
\* inside the pinned view, and a disputed claim supersedes too.
Facts(v, pin) ==
  LET visible == Pinned(claims, v, pin)
      superseded == UNION {c.supersedes : c \in visible}
  IN  {c \in visible : c.status = "accepted" /\ IdOf(c) \notin superseded}

\* b overwrites a in the map that the anchors query builds root to leaf.
Overwrites(b, a) ==
  /\ b.key = a.key
  /\ \/ chain[b.version] # chain[a.version] /\ chain[a.version] \subseteq chain[b.version]
     \/ b.version = a.version /\ b.seq > a.seq

LockedAnchors(v, pin) ==
  LET visible == Pinned(anchors, v, pin)
  IN  {a \in visible : \A b \in visible : ~Overwrites(b, a)}

\* Mutant: the stored status is returned whatever the pin.
PromiseViewNow(v, pin) == Pinned(promises, v, pin)

\* A registration after the pin is hidden; a fulfilment after it reads open.
PromiseView(v, pin) ==
  {IF p.fulfilled > pin THEN [p EXCEPT !.fulfilled = 0] ELSE p
     : p \in Pinned(promises, v, pin)}

(***************************************************************************)
(* Gates.  The three warning gates and the wording of findings do not      *)
(* change what is stored; the shape and chronology verdicts are an input.  *)
(***************************************************************************)

\* The facts that may be last for a key: one, unless stamps collide.
Newest(facts, key) ==
  {f \in facts : /\ f.key = key
                 /\ \A g \in facts : g.key = key => g.seq <= f.seq}

AnchorConflict(locked, p) == \E a \in locked : a.key = p.key /\ a.value # p.value

LedgerConflict(facts, p) ==
  /\ ~p.correction
  /\ p.supersedes = {}
  /\ \E f \in Newest(facts, p.key) : f.value # p.value

GateBlocks(facts, locked, p) == AnchorConflict(locked, p) \/ LedgerConflict(facts, p)

Proposals(batch) == {batch[i] : i \in DOMAIN batch}

\* Blocking is by claim key: one blocked proposal disputes its key's others.
BlockedKeys(facts, locked, batch) ==
  {p.key : p \in {q \in Proposals(batch) : GateBlocks(facts, locked, q)}}

(***************************************************************************)
(* Versions and direct writes.                                             *)
(***************************************************************************)

Created(v) == chain[v] # {}
HasChild(v) == \E w \in Versions : w # v /\ v \in chain[w]
InFlight(v) == \E c \in Commands : cmd[c] # Idle /\ cmd[c].version = v

\* The code lets any version be written and extended ("any").  The weaker
\* behaviours are disciplines of the clients: "tree", a version with a child is
\* not written any more, nor extended while a command on it is under way;
\* "line", besides, a version has at most one child.
Writable(v) == Created(v) /\ (Growth = "any" \/ ~HasChild(v))
Extensible(v) ==
  /\ Created(v)
  /\ Growth # "any" => ~InFlight(v)
  /\ Growth = "line" => ~HasChild(v)

CreateRoot(v) ==
  /\ ~Created(v)
  /\ chain' = [chain EXCEPT ![v] = {v}]
  /\ UNCHANGED <<claims, anchors, promises, counters, findings, cmd>>

CreateChild(v, parent) ==
  /\ ~Created(v)
  /\ Extensible(parent)
  /\ chain' = [chain EXCEPT ![v] = chain[parent] \cup {v}]
  /\ UNCHANGED <<claims, anchors, promises, counters, findings, cmd>>

\* append_claim without gates and without an expected head: record_ingest,
\* provider calls and runbook step events.
AppendUngated(v, key, value) ==
  /\ Writable(v)
  /\ HeadOf(v) < MaxSeq
  /\ claims' = claims \cup
       {[version |-> v, seq |-> HeadOf(v) + 1, key |-> key, value |-> value,
         correction |-> FALSE, supersedes |-> {}, status |-> "accepted",
         observed |-> HeadOf(v), gated |-> FALSE]}
  /\ UNCHANGED <<chain, anchors, promises, counters, findings, cmd>>

\* Mutant: the lock is stamped with the head instead of the next sequence.
LockAnchorAtHead(v, key, value) ==
  /\ Writable(v)
  /\ anchors' = anchors \cup
       {[version |-> v, seq |-> HeadOf(v), key |-> key, value |-> value]}
  /\ UNCHANGED <<chain, claims, promises, counters, findings, cmd>>

LockAnchor(v, key, value) ==
  /\ Writable(v)
  /\ HeadOf(v) < MaxSeq
  /\ anchors' = anchors \cup
       {[version |-> v, seq |-> HeadOf(v) + 1, key |-> key, value |-> value]}
  /\ UNCHANGED <<chain, claims, promises, counters, findings, cmd>>

RegisterPromise(v, key) ==
  /\ Writable(v)
  /\ HeadOf(v) < MaxSeq
  /\ promises' = promises \cup
       {[version |-> v, seq |-> HeadOf(v) + 1, key |-> key, fulfilled |-> 0]}
  /\ UNCHANGED <<chain, claims, anchors, counters, findings, cmd>>

OpenPromises(v, key) ==
  {p \in OfChain(promises, v) : p.key = key /\ p.fulfilled = 0}

\* The oldest open promise of the key anywhere in the chain is closed, in
\* place, at the writing version's head + 1.
FulfillPromise(v, key) ==
  /\ Writable(v)
  /\ HeadOf(v) < MaxSeq
  /\ \E p \in OpenPromises(v, key) :
       /\ \A q \in OpenPromises(v, key) : p.seq <= q.seq
       /\ promises' = (promises \ {p}) \cup {[p EXCEPT !.fulfilled = HeadOf(v) + 1]}
  /\ UNCHANGED <<chain, claims, anchors, counters, findings, cmd>>

\* The upsert replaces the row of (version, key) and stamps it anew.
RecordCounts(v, key, count) ==
  /\ Writable(v)
  /\ HeadOf(v) < MaxSeq
  /\ counters' = {r \in counters : ~(r.version = v /\ r.key = key)} \cup
       {[version |-> v, seq |-> HeadOf(v) + 1, key |-> key, count |-> count]}
  /\ UNCHANGED <<chain, claims, anchors, promises, findings, cmd>>

(***************************************************************************)
(* append_events: head, facts, anchors, then the gated append.             *)
(***************************************************************************)

\* A caller may name any stored claim as superseded, of this lineage or not,
\* and may pin the head it has just seen.
KnownProposal == {p \in Proposal : p.supersedes \subseteq {IdOf(x) : x \in claims}}
KnownBatch == UNION {[1..n -> KnownProposal] : n \in 1..MaxBatch}

\* Commands do not queue, and a discipline may forbid the version.
CanSubmit(c, v) == cmd[c] = Idle /\ Writable(v)

Submit(c, v, batch, pin) ==
  /\ CanSubmit(c, v)
  /\ cmd' = [cmd EXCEPT ![c] = [at |-> "head", version |-> v, batch |-> batch, pin |-> pin, attempt |-> 1,
                                head |-> 0, facts |-> {}, anchors |-> {}]]
  /\ UNCHANGED store

ReadHead(c) ==
  /\ cmd[c].at = "head"
  /\ LET head == HeadOf(cmd[c].version)
         moved == cmd[c].pin # {} /\ cmd[c].pin # {head}
     IN  cmd' = [cmd EXCEPT ![c] = IF moved THEN Idle ELSE [@ EXCEPT !.at = "facts", !.head = head]]
  /\ UNCHANGED store

ReadFacts(c) ==
  /\ cmd[c].at = "facts"
  /\ cmd' = [cmd EXCEPT ![c].at = "anchors",
                        ![c].facts = Facts(cmd[c].version, cmd[c].head)]
  /\ UNCHANGED store

ReadAnchors(c) ==
  /\ cmd[c].at = "anchors"
  /\ cmd' = [cmd EXCEPT ![c].at = "append",
                        ![c].anchors = LockedAnchors(cmd[c].version, cmd[c].head)]
  /\ UNCHANGED store

HeadMoved(c) == HeadOf(cmd[c].version) # cmd[c].head

\* HeadConflict without a caller pin: read, gate and append again.
Regate(c) ==
  /\ cmd[c].at = "append"
  /\ HeadMoved(c)
  /\ cmd[c].pin = {}
  /\ cmd[c].attempt < MaxAttempts
  /\ cmd' = [cmd EXCEPT ![c].at = "head", ![c].attempt = @ + 1,
                        ![c].head = 0, ![c].facts = {}, ![c].anchors = {}]
  /\ UNCHANGED store

\* Mutant: the overflow check of the whole batch is missing.
AppendableUnchecked(c) ==
  \A p \in Proposals(cmd[c].batch) :
    p.supersedes \subseteq {IdOf(x) : x \in OfChain(claims, cmd[c].version)}

\* The batch fits below the stamp limit and supersedes claims of the chain.
Appendable(c) ==
  /\ \A i \in DOMAIN cmd[c].batch : HeadOf(cmd[c].version) + i <= MaxSeq
  /\ \A p \in Proposals(cmd[c].batch) :
       p.supersedes \subseteq {IdOf(x) : x \in OfChain(claims, cmd[c].version)}

\* The caller gets an error and the transaction is rolled back.
Refuse(c) ==
  /\ cmd[c].at = "append"
  /\ IF HeadMoved(c) THEN cmd[c].pin # {} \/ cmd[c].attempt = MaxAttempts
                     ELSE ~Appendable(c)
  /\ cmd' = [cmd EXCEPT ![c] = Idle]
  /\ UNCHANGED store

StoredClaim(c, i, blocked) ==
  [version |-> cmd[c].version, seq |-> HeadOf(cmd[c].version) + i,
   key |-> cmd[c].batch[i].key, value |-> cmd[c].batch[i].value,
   correction |-> cmd[c].batch[i].correction, supersedes |-> cmd[c].batch[i].supersedes,
   status |-> IF cmd[c].batch[i].key \in blocked THEN "disputed" ELSE "accepted",
   observed |-> HeadOf(cmd[c].version), gated |-> TRUE]

\* Mutant: the findings are not written with the batch.
LandWithoutFindings(c, shapeBlocked) ==
  LET batch == cmd[c].batch
      blocked == BlockedKeys(cmd[c].facts, cmd[c].anchors, batch) \cup shapeBlocked
  IN  /\ claims' = claims \cup {StoredClaim(c, i, blocked) : i \in DOMAIN batch}
      /\ cmd' = [cmd EXCEPT ![c] = Idle]
      /\ UNCHANGED <<chain, anchors, promises, counters, findings>>

\* The batch and its findings in one transaction, stamped head + 1 on.
Land(c, shapeBlocked) ==
  LET batch == cmd[c].batch
      blocked == BlockedKeys(cmd[c].facts, cmd[c].anchors, batch) \cup shapeBlocked
  IN  /\ claims' = claims \cup {StoredClaim(c, i, blocked) : i \in DOMAIN batch}
      /\ findings' = findings \cup
           {[version |-> cmd[c].version, seq |-> HeadOf(cmd[c].version) + Len(batch), key |-> k] : k \in blocked}
      /\ cmd' = [cmd EXCEPT ![c] = Idle]
      /\ UNCHANGED <<chain, anchors, promises, counters>>

\* Mutant: the append does not compare the observed head.
AppendUncompared(c, shapeBlocked) ==
  /\ cmd[c].at = "append"
  /\ Appendable(c)
  /\ shapeBlocked \subseteq {p.key : p \in Proposals(cmd[c].batch)}
  /\ Land(c, shapeBlocked)

AppendEvaluated(c, shapeBlocked) ==
  /\ cmd[c].at = "append"
  /\ ~HeadMoved(c)
  /\ Appendable(c)
  /\ shapeBlocked \subseteq {p.key : p \in Proposals(cmd[c].batch)}
  /\ Land(c, shapeBlocked)

Init ==
  /\ chain = [v \in Versions |-> {}]
  /\ claims = {} /\ anchors = {} /\ promises = {} /\ counters = {} /\ findings = {}
  /\ cmd = [c \in Commands |-> Idle]

CommandStep(c) ==
  \/ ReadHead(c) \/ ReadFacts(c) \/ ReadAnchors(c) \/ Regate(c) \/ Refuse(c)
  \/ \E shapeBlocked \in SUBSET Keys : AppendEvaluated(c, shapeBlocked)

WriteStep(v) ==
  \/ CreateRoot(v)
  \/ \E parent \in Versions : CreateChild(v, parent)
  \/ \E key \in Keys, value \in Values : AppendUngated(v, key, value) \/ LockAnchor(v, key, value)
  \/ \E key \in PromiseKeys : RegisterPromise(v, key) \/ FulfillPromise(v, key)
  \/ \E key \in CounterKeys, count \in 0..MaxCount : RecordCounts(v, key, count)

Next ==
  \/ \E v \in Versions : WriteStep(v)
  \/ \E c \in Commands, v \in Versions :
       /\ CanSubmit(c, v)
       /\ \E batch \in KnownBatch : \E pin \in {{}, {HeadOf(v)}} : Submit(c, v, batch, pin)
  \/ \E c \in Commands : CommandStep(c)

Spec == Init /\ [][Next]_vars

(***************************************************************************)
(* Properties.                                                             *)
(***************************************************************************)

\* The tables and the commands in flight are well formed: no row is stamped
\* beyond the stamp column, and counters stay in their range.
TypeOK ==
  /\ chain \in [Versions -> SUBSET Versions]
  /\ claims \subseteq Claim
  /\ anchors \subseteq Anchor
  /\ promises \subseteq Promise
  /\ counters \subseteq Counter
  /\ findings \subseteq Finding
  /\ cmd \in [Commands -> Command \cup {Idle}]

\* A pin is exact for facts: whatever is written later, by whichever version
\* of the lineage, the facts a version reads at a pin it has reached never
\* change (resolve_slice under the one sequence per lineage).
PinnedFactsStable ==
  [][\A v \in Versions : \A pin \in 0..HeadOf(v) : Facts(v, pin)' = Facts(v, pin)]_vars

\* A pin is exact for anchors: a later lock never rewrites what the anchors
\* query returned at an earlier pin.
PinnedAnchorsStable ==
  [][\A v \in Versions : \A pin \in 0..HeadOf(v) :
       LockedAnchors(v, pin)' = LockedAnchors(v, pin)]_vars

\* A pin is exact for promises: a promise fulfilled in place after the pin
\* still reads open there (promises, status_as_of, fulfill_promise).
PinnedPromisesStable ==
  [][\A v \in Versions : \A pin \in 0..HeadOf(v) :
       PromiseView(v, pin)' = PromiseView(v, pin)]_vars

\* The four kinds of write draw from one counting domain: within what one
\* version sees, no stamp is given out twice.
OneTickPerWrite ==
  \A v \in Versions :
    LET rows == OfChain(claims, v) \cup OfChain(anchors, v)
                  \cup OfChain(promises, v) \cup OfChain(counters, v)
        fulfilments == {p \in OfChain(promises, v) : p.fulfilled > 0}
    IN  /\ \A r, s \in rows : r.seq = s.seq => r = s
        /\ \A p, q \in fulfilments : p.fulfilled = q.fulfilled => p = q
        /\ \A r \in rows, p \in fulfilments : r.seq # p.fulfilled

\* The compare-and-append of append_events is sound: if the head a command
\* observed is still the head, then the facts and anchors it gated against
\* are still the canon, although they were read in separate queries.
SnapshotFresh ==
  \A c \in Commands :
    cmd[c].at = "append" /\ ~HeadMoved(c) =>
      /\ cmd[c].facts = Facts(cmd[c].version, MaxSeq)
      /\ cmd[c].anchors = LockedAnchors(cmd[c].version, MaxSeq)

\* What the gates promise of the stored ledger: a claim that a command had
\* accepted contradicts neither an anchor locked before it nor, unless it
\* declares a supersession, the newest fact of its key before it.
AcceptedRespectsCanon ==
  \A x \in claims : x.gated /\ x.status = "accepted" =>
    /\ ~AnchorConflict(LockedAnchors(x.version, x.observed), x)
    /\ ~LedgerConflict(Facts(x.version, x.observed), x)

\* A dispute is always explained: the batch and its findings are committed
\* together, so a disputed claim has a blocking finding of its key, stamped
\* with the end of the claim's own batch.
DisputeExplained ==
  \A x \in claims : x.status = "disputed" =>
    \E f \in findings : /\ f.version = x.version /\ f.key = x.key /\ f.seq >= x.seq
                        /\ \A y \in claims :
                             y.version = x.version /\ y.seq \in x.seq..f.seq
                               => y.observed = x.observed

=============================================================================
