-------------------------- MODULE CommandRecovery --------------------------
(***************************************************************************)
(* Keyed commands: replay of stored responses, and the opt-in guarded-v1   *)
(* policy, which claims a key durably before the command executes.         *)
(*                                                                         *)
(*   admission and completion  munarium-server/src/command_recovery.rs     *)
(*   the wrapper around a command   rest.rs and grpc.rs, with_idempotency  *)
(*   legacy replay and the janitor  state.rs                               *)
(*                                                                         *)
(* A request is a sequence of database round trips; it may stop between    *)
(* any two of them (its process dies or its client goes away) and nothing  *)
(* resumes it.                                                             *)
(***************************************************************************)
EXTENDS Naturals, FiniteSets

CONSTANTS Requests,    \* individual calls, duplicates included
          Keys,        \* idempotency keys of one tenant
          Operations,  \* operation and target
          Hashes       \* hashes of plane and request body

VARIABLES
  policy,     \* guarded-v1 is activated for the tenant
  receipts,   \* rows of command_receipts; by: the call that claimed the key
  stored,     \* rows of idempotency_keys; by: the call whose response it is
  call,       \* each call: its arguments and where it is
  executed,   \* calls whose command was run
  forgotten,  \* executed calls of which no row is left
  answer      \* the call whose response each call was answered with, if any

vars == <<policy, receipts, stored, call, executed, forgotten, answer>>

Receipt == [key : Keys, op : Operations, hash : Hashes, by : Requests,
            state : {"unresolved", "completed"}]
Stored == [key : Keys, hash : Hashes, by : Requests]
Places == {"policy", "replay", "claim", "execute", "record", "over"}
Call == [at : Places, key : Keys, op : Operations, hash : Hashes, guarded : BOOLEAN]
Unsent == [at |-> "unsent"]

ReceiptsOf(key) == {row \in receipts : row.key = key}
StoredOf(key) == {row \in stored : row.key = key}

Move(r, place) == call' = [call EXCEPT ![r].at = place]
AnswerFrom(r, by) == answer' = [answer EXCEPT ![r] = @ \cup {by}]

\* A client sends a command, or sends it again, under a key it chose.
Send(r, key, op, hash) ==
  /\ call[r] = Unsent
  /\ call' = [call EXCEPT ![r] = [at |-> "policy", key |-> key, op |-> op,
                                  hash |-> hash, guarded |-> FALSE]]
  /\ UNCHANGED <<policy, receipts, stored, executed, forgotten, answer>>

ReadPolicy(r) ==
  /\ call[r].at = "policy"
  /\ Move(r, IF policy THEN "claim" ELSE "replay")
  /\ UNCHANGED <<policy, receipts, stored, executed, forgotten, answer>>

\* idem_check: a stored response of the same hash is replayed, one of another
\* hash is a mismatch, and without one the command is run.
CheckStored(r) ==
  /\ call[r].at = "replay"
  /\ \/ /\ StoredOf(call[r].key) = {}
        /\ Move(r, "execute")
        /\ UNCHANGED answer
     \/ \E row \in StoredOf(call[r].key) :
          /\ Move(r, "over")
          /\ IF row.hash = call[r].hash THEN AnswerFrom(r, row.by) ELSE UNCHANGED answer
  /\ UNCHANGED <<policy, receipts, stored, executed, forgotten>>

Claimed(r) ==
  /\ receipts' = receipts \cup
       {[key |-> call[r].key, op |-> call[r].op, hash |-> call[r].hash, by |-> r,
         state |-> "unresolved"]}
  /\ call' = [call EXCEPT ![r].at = "execute", ![r].guarded = TRUE]
  /\ UNCHANGED <<policy, stored, executed, forgotten, answer>>

\* Mutant: an unresolved claim of the same request is taken over, as if its
\* owner's lease had expired.
ClaimTakingOver(r) ==
  /\ call[r].at = "claim"
  /\ \A row \in ReceiptsOf(call[r].key) : row.state = "unresolved" /\ row.hash = call[r].hash
  /\ StoredOf(call[r].key) = {}
  /\ receipts' = (receipts \ ReceiptsOf(call[r].key)) \cup
       {[key |-> call[r].key, op |-> call[r].op, hash |-> call[r].hash, by |-> r,
         state |-> "unresolved"]}
  /\ call' = [call EXCEPT ![r].at = "execute", ![r].guarded = TRUE]
  /\ UNCHANGED <<policy, stored, executed, forgotten, answer>>

\* begin, past the policy: the key is free and is claimed before anything is
\* executed.  The transaction holds the advisory lock of the key.
Claim(r) ==
  /\ call[r].at = "claim"
  /\ ReceiptsOf(call[r].key) = {}
  /\ StoredOf(call[r].key) = {}
  /\ Claimed(r)

\* Mutant: a completed claim is replayed to a request with another body.
ReplayAnyReceipt(r) ==
  /\ call[r].at = "claim"
  /\ \E row \in ReceiptsOf(call[r].key) :
       IF row.state = "completed" THEN AnswerFrom(r, row.by) ELSE UNCHANGED answer
  /\ Move(r, "over")
  /\ UNCHANGED <<policy, receipts, stored, executed, forgotten>>

\* begin, with a claim of the key: replayed when it is the same command and
\* completed, refused as a mismatch or as unresolved otherwise.
ReplayReceipt(r) ==
  /\ call[r].at = "claim"
  /\ \E row \in ReceiptsOf(call[r].key) :
       IF row.op = call[r].op /\ row.hash = call[r].hash /\ row.state = "completed"
       THEN AnswerFrom(r, row.by) ELSE UNCHANGED answer
  /\ Move(r, "over")
  /\ UNCHANGED <<policy, receipts, stored, executed, forgotten>>

\* begin, with a response stored without a claim: bound to the hash only.
ReplayLegacy(r) ==
  /\ call[r].at = "claim"
  /\ ReceiptsOf(call[r].key) = {}
  /\ \E row \in StoredOf(call[r].key) :
       IF row.hash = call[r].hash THEN AnswerFrom(r, row.by) ELSE UNCHANGED answer
  /\ Move(r, "over")
  /\ UNCHANGED <<policy, receipts, stored, executed, forgotten>>

\* The command runs, in whole or in part; it fails or has a response to record.
Execute(r) ==
  /\ call[r].at = "execute"
  /\ executed' = executed \cup {r}
  /\ \E place \in {"record", "over"} : Move(r, place)
  /\ UNCHANGED <<policy, receipts, stored, forgotten, answer>>

\* Mutant: without the ON CONFLICT clause and the primary key behind it.
StoreResponseAlways(r) ==
  stored' = stored \cup {[key |-> call[r].key, hash |-> call[r].hash, by |-> r]}

\* INSERT ... ON CONFLICT (tenant_id, key) DO NOTHING.
StoreResponse(r) ==
  IF StoredOf(call[r].key) = {}
  THEN stored' = stored \cup {[key |-> call[r].key, hash |-> call[r].hash, by |-> r]}
  ELSE UNCHANGED stored

OwnClaim(r) ==
  {row \in ReceiptsOf(call[r].key) :
     row.op = call[r].op /\ row.hash = call[r].hash /\ row.state = "unresolved"}

\* Mutant: the claim is dropped on completion; the stored response is enough.
FinishDroppingClaim(r) ==
  /\ call[r].at = "record"
  /\ call[r].guarded
  /\ OwnClaim(r) # {}
  /\ receipts' = receipts \ OwnClaim(r)
  /\ AnswerFrom(r, r)
  /\ Move(r, "over")
  /\ UNCHANGED <<policy, stored, executed, forgotten>>

\* finish: the claim is completed and the response stored in one transaction.
Finish(r) ==
  /\ call[r].at = "record"
  /\ call[r].guarded
  /\ \E row \in OwnClaim(r) :
       receipts' = (receipts \ {row}) \cup {[row EXCEPT !.state = "completed"]}
  /\ StoreResponse(r)
  /\ AnswerFrom(r, r)
  /\ Move(r, "over")
  /\ UNCHANGED <<policy, executed, forgotten>>

\* idem_store: best effort, the response is returned even when it is not stored.
StoreLegacy(r) ==
  /\ call[r].at = "record"
  /\ ~call[r].guarded
  /\ StoreResponse(r) \/ UNCHANGED stored
  /\ AnswerFrom(r, r)
  /\ Move(r, "over")
  /\ UNCHANGED <<policy, receipts, executed, forgotten>>

\* The process dies, the database fails the call, or the client cancels it; a
\* handler future that is dropped leaves what it has committed.
Stop(r) ==
  /\ call[r].at \in Places \ {"over"}
  /\ Move(r, "over")
  /\ UNCHANGED <<policy, receipts, stored, executed, forgotten, answer>>

\* Activation, which is one-way.  Operators are told to drain the command writers
\* first, but nothing checks it, so calls may be under way.
Enable ==
  /\ ~policy
  /\ policy' = TRUE
  /\ UNCHANGED <<receipts, stored, call, executed, forgotten, answer>>

\* Ghost: the calls of a key are forgotten with the last row that names it.
Forget(key) ==
  forgotten' = IF \E row \in receipts' \cup stored' : row.key = key
               THEN forgotten
               ELSE forgotten \cup {r \in executed : call[r].key = key}

PruneStored(key) ==
  /\ StoredOf(key) # {}
  /\ stored' = stored \ StoredOf(key)
  /\ receipts' = receipts
  /\ Forget(key)
  /\ UNCHANGED <<policy, call, executed, answer>>

CompletedOf(key) == {row \in ReceiptsOf(key) : row.state = "completed"}

\* Mutant: the janitor deletes old claims whatever their state.
PruneReceiptsOfAnyState(key) ==
  /\ ReceiptsOf(key) # {}
  /\ receipts' = receipts \ ReceiptsOf(key)
  /\ stored' = stored
  /\ UNCHANGED <<policy, call, executed, forgotten, answer>>

\* prune_completed: an unresolved claim never expires.
PruneReceipts(key) ==
  /\ CompletedOf(key) # {}
  /\ receipts' = receipts \ CompletedOf(key)
  /\ stored' = stored
  /\ Forget(key)
  /\ UNCHANGED <<policy, call, executed, answer>>

Init ==
  /\ policy = FALSE
  /\ receipts = {} /\ stored = {}
  /\ call = [r \in Requests |-> Unsent]
  /\ executed = {} /\ forgotten = {}
  /\ answer = [r \in Requests |-> {}]

CallStep(r) ==
  \/ ReadPolicy(r) \/ CheckStored(r)
  \/ Claim(r) \/ ReplayReceipt(r) \/ ReplayLegacy(r)
  \/ Execute(r) \/ Finish(r) \/ StoreLegacy(r)
  \/ Stop(r)

Next ==
  \/ \E r \in Requests, key \in Keys, op \in Operations, hash \in Hashes : Send(r, key, op, hash)
  \/ \E r \in Requests : CallStep(r)
  \/ Enable
  \/ \E key \in Keys : PruneStored(key) \/ PruneReceipts(key)

Spec == Init /\ [][Next]_vars

(***************************************************************************)
(* Properties.                                                             *)
(***************************************************************************)

\* The types, with the primary key (tenant, key) of both tables.
TypeOK ==
  /\ policy \in BOOLEAN
  /\ receipts \subseteq Receipt
  /\ stored \subseteq Stored
  /\ call \in [Requests -> Call \cup {Unsent}]
  /\ executed \subseteq Requests
  /\ forgotten \subseteq executed
  /\ answer \in [Requests -> SUBSET Requests]
  /\ \A row, other \in receipts : row.key = other.key => row = other
  /\ \A row, other \in stored : row.key = other.key => row = other

\* The promise of guarded-v1: a key is executed once, whatever duplicates,
\* cancellations and crashes there are, until the janitor has removed every
\* row of it (begin, finish, prune_completed).
OneGuardedExecution ==
  \A r, s \in executed \ forgotten :
    call[r].guarded /\ call[s].guarded /\ call[r].key = call[s].key => r = s

\* A guarded execution whose outcome is unknown stays visible for good: unless
\* its own call was answered, its claim is there, unresolved, and blocks the
\* key, whatever crashed and whatever the janitor pruned (finish,
\* prune_completed).
UnresolvedStays ==
  \A r \in executed : call[r].guarded =>
    \/ r \in answer[r]
    \/ \E row \in receipts : row.by = r /\ row.state = "unresolved"

\* A response is only ever replayed to the request it answers: the call it
\* comes from ran under the same key with the same hash
\* (begin's comparison of operation and hash, idem_check's of the hash).
ReplayBindsRequest ==
  \A r \in Requests : \A by \in answer[r] :
    /\ by \in executed
    /\ call[by].key = call[r].key
    /\ call[by].hash = call[r].hash

\* Once guarded, no call runs a key for which a response is already known:
\* a completed command is answered from its rows as long as one is left.
CompletedIsReplayed ==
  [][\A r \in Requests :
       /\ call[r].at = "claim"
       /\ \E s \in executed \ forgotten : s \in answer[s] /\ call[s].guarded /\ call[s].key = call[r].key
       => call'[r].at # "execute"]_vars

=============================================================================
