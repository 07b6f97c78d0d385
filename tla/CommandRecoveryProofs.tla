----------------------- MODULE CommandRecoveryProofs -----------------------
(***************************************************************************)
(* Proofs about CommandRecovery.  The argument: the unresolved claim of a  *)
(* guarded call is removed by nothing but its own completion, and its key  *)
(* is forgotten only with the last row of it, so as long as the call is    *)
(* remembered a row keeps every other call from claiming the key.          *)
(***************************************************************************)
EXTENDS CommandRecovery, TLAPS

\* A claim belongs to the call that inserted it and repeats its arguments.
ClaimsBelong ==
  \A row \in receipts :
    LET c == call[row.by]
    IN  /\ c \in Call /\ c.guarded /\ c.at \in {"execute", "record", "over"}
        /\ c.key = row.key /\ c.op = row.op /\ c.hash = row.hash
        /\ row.state = "completed" => row.by \in executed /\ row.by \in answer[row.by]

\* A stored response belongs to a call that was executed.
ResponsesBelong ==
  \A row \in stored :
    /\ row.by \in executed
    /\ call[row.by].key = row.key /\ call[row.by].hash = row.hash

\* What has been executed has a result to record or is over.
Executed ==
  /\ \A r \in executed : call[r] \in Call /\ call[r].at \in {"record", "over"}
  /\ \A r \in Requests : call[r] \in Call /\ call[r].at = "record" => r \in executed

\* A call is answered at its end.
AnswerLast == \A r \in Requests : call[r] = Unsent \/ call[r].at # "over" => answer[r] = {}

\* A guarded call that has not been answered keeps its unresolved claim.
ClaimsStay ==
  \A r \in Requests : call[r] \in Call /\ call[r].guarded =>
    \/ r \in answer[r]
    \/ \E row \in receipts : row.by = r /\ row.state = "unresolved"

\* A guarded call that is not forgotten is named by a row of its key.
Named ==
  \A r \in Requests \ forgotten : call[r] \in Call /\ call[r].guarded =>
    \E row \in receipts \cup stored : row.key = call[r].key

\* A key has one guarded call that is not forgotten.
OneOwner ==
  \A r, s \in Requests \ forgotten :
    /\ call[r] \in Call /\ call[r].guarded
    /\ call[s] \in Call /\ call[s].guarded
    /\ call[r].key = call[s].key
    => r = s

IInv ==
  /\ TypeOK
  /\ ClaimsBelong
  /\ ResponsesBelong
  /\ Executed
  /\ AnswerLast
  /\ ClaimsStay
  /\ Named
  /\ OneOwner
  /\ ReplayBindsRequest

\* A call that was not sent yet has none of the fields of a call.
LEMMA UnsentIsNoCall == Unsent \notin Call
BY DEF Unsent, Call, Places

\* Nothing is claimed, stored, sent or executed at the start.
LEMMA InitIInv == Init => IInv
<1> SUFFICES ASSUME Init PROVE IInv
  OBVIOUS
<1>1. \A r \in Requests : call[r] \notin Call
  BY UnsentIsNoCall DEF Init
<1>2. TypeOK BY DEF Init, TypeOK
<1>3. ClaimsBelong /\ ResponsesBelong /\ Executed /\ AnswerLast
  BY <1>1 DEF Init, ClaimsBelong, ResponsesBelong, Executed, AnswerLast
<1>4. ClaimsStay /\ Named /\ OneOwner
  BY <1>1 DEF Init, ClaimsStay, Named, OneOwner
<1>5. ReplayBindsRequest BY DEF Init, ReplayBindsRequest
<1> QED BY <1>2, <1>3, <1>4, <1>5 DEF IInv

\* Sending a call keeps the invariant: no row and no answer names it yet.
LEMMA SendStep ==
  ASSUME IInv, NEW r \in Requests, NEW key \in Keys, NEW op \in Operations, NEW hash \in Hashes,
         Send(r, key, op, hash)
  PROVE  IInv'
<1> USE DEF IInv, Send
<1>1. TypeOK' BY DEF TypeOK, Call, Places
<1>2. ClaimsBelong' BY DEF ClaimsBelong, TypeOK, Receipt, Unsent, Call
<1>3. ResponsesBelong' BY DEF ResponsesBelong, Executed, TypeOK, Stored, Unsent, Call
<1>4. Executed' BY DEF Executed, TypeOK, Unsent, Call
<1>5. AnswerLast' BY DEF AnswerLast, TypeOK, Unsent, Call
<1>6. ClaimsStay' BY DEF ClaimsStay, TypeOK, Unsent, Call
<1>7. Named' BY DEF Named, TypeOK, Unsent, Call
<1>8. OneOwner' BY DEF OneOwner, TypeOK, Unsent, Call
<1>9. ReplayBindsRequest' BY DEF ReplayBindsRequest, AnswerLast, Executed, TypeOK, Unsent, Call
<1> QED BY <1>1, <1>2, <1>3, <1>4, <1>5, <1>6, <1>7, <1>8, <1>9

\* A step that moves one call and touches no table: a call under execution only
\* ends, the policy decides where a call may go, and a call is answered at its
\* end from calls like it.
SafeMove(r, place, from) ==
  /\ call[r] \in Call /\ call[r].at # "over"
  /\ call[r].at \in {"execute", "record"} => place = "over"
  /\ from \subseteq executed
  /\ \A by \in from : call[by].key = call[r].key /\ call[by].hash = call[r].hash
  /\ from # {} => place = "over"
  /\ Move(r, place)
  /\ answer' = [answer EXCEPT ![r] = @ \cup from]
  /\ UNCHANGED <<policy, receipts, stored, executed, forgotten>>

\* Such a step keeps the invariant.
LEMMA MoveStep ==
  ASSUME IInv, NEW r \in Requests, NEW place \in Places \ {"record"}, NEW from,
         SafeMove(r, place, from)
  PROVE  IInv'
<1> USE DEF IInv, SafeMove, Move
<1>1. \A s \in Requests :
        /\ s # r => call'[s] = call[s] /\ answer'[s] = answer[s]
        /\ answer[s] \subseteq answer'[s]
        /\ call'[r] \in Call /\ call'[r].at = place /\ call'[r].key = call[r].key
        /\ call'[r].op = call[r].op /\ call'[r].hash = call[r].hash
        /\ call'[r].guarded = call[r].guarded
  BY DEF TypeOK, Call
<1>2. TypeOK' BY <1>1 DEF TypeOK
<1>3. ClaimsBelong' BY <1>1 DEF ClaimsBelong, TypeOK, Receipt
<1>4. ResponsesBelong' BY <1>1 DEF ResponsesBelong, TypeOK, Stored
<1>5. Executed' BY <1>1 DEF Executed, TypeOK
<1>6. AnswerLast' BY <1>1, UnsentIsNoCall DEF AnswerLast, TypeOK
<1>7. ClaimsStay' BY <1>1 DEF ClaimsStay, TypeOK
<1>8. Named' BY <1>1 DEF Named, TypeOK
<1>9. OneOwner' BY <1>1 DEF OneOwner, TypeOK
<1>10. ReplayBindsRequest' BY <1>1 DEF ReplayBindsRequest, TypeOK
<1> QED BY <1>2, <1>3, <1>4, <1>5, <1>6, <1>7, <1>8, <1>9, <1>10

\* The steps that only read the tables, and the end of a call, are such moves.
LEMMA ReadStep ==
  ASSUME IInv, NEW r \in Requests,
         ReadPolicy(r) \/ CheckStored(r) \/ ReplayReceipt(r) \/ ReplayLegacy(r) \/ Stop(r)
  PROVE  IInv'
<1>1. call[r] \in Call /\ call[r].at # "over"
  BY DEF IInv, TypeOK, Unsent, Places, ReadPolicy, CheckStored, ReplayReceipt, ReplayLegacy, Stop
<1>2. answer = [answer EXCEPT ![r] = @ \cup {}]
  BY DEF IInv, TypeOK
<1>3. CASE ReadPolicy(r)
  <2> DEFINE place == IF policy THEN "claim" ELSE "replay"
  <2>1. SafeMove(r, place, {})
    BY <1>1, <1>2, <1>3 DEF ReadPolicy, SafeMove
  <2> QED BY <2>1, MoveStep DEF Places
<1>4. CASE CheckStored(r)
  <2>1. CASE Move(r, "execute") /\ UNCHANGED answer
    <3>1. SafeMove(r, "execute", {})
      BY <1>1, <1>2, <1>4, <2>1 DEF CheckStored, SafeMove
    <3> QED BY <3>1, MoveStep DEF Places
  <2>2. CASE \E row \in StoredOf(call[r].key) :
               /\ Move(r, "over")
               /\ IF row.hash = call[r].hash THEN AnswerFrom(r, row.by) ELSE UNCHANGED answer
    <3>1. PICK row \in StoredOf(call[r].key) :
               /\ Move(r, "over")
               /\ IF row.hash = call[r].hash THEN AnswerFrom(r, row.by) ELSE UNCHANGED answer
      BY <2>2
    <3>2. row.by \in executed /\ call[row.by].key = call[r].key /\ call[row.by].hash = row.hash
      BY DEF StoredOf, IInv, ResponsesBelong
    <3>3. SafeMove(r, "over", IF row.hash = call[r].hash THEN {row.by} ELSE {})
      BY <1>1, <1>2, <1>4, <3>1, <3>2 DEF CheckStored, AnswerFrom, SafeMove
    <3> QED BY <3>3, MoveStep DEF Places
  <2> QED BY <1>4, <2>1, <2>2 DEF CheckStored
<1>5. CASE ReplayReceipt(r)
  <2> DEFINE Same(row) == row.op = call[r].op /\ row.hash = call[r].hash /\ row.state = "completed"
  <2>1. PICK row \in ReceiptsOf(call[r].key) :
          IF Same(row) THEN AnswerFrom(r, row.by) ELSE UNCHANGED answer
    BY <1>5 DEF ReplayReceipt
  <2>2. /\ call[row.by].key = call[r].key /\ call[row.by].hash = row.hash
        /\ row.state = "completed" => row.by \in executed
    BY DEF ReceiptsOf, IInv, ClaimsBelong
  <2>3. SafeMove(r, "over", IF Same(row) THEN {row.by} ELSE {})
    BY <1>1, <1>2, <1>5, <2>1, <2>2 DEF ReplayReceipt, AnswerFrom, SafeMove
  <2> QED BY <2>3, MoveStep DEF Places
<1>6. CASE ReplayLegacy(r)
  <2>1. PICK row \in StoredOf(call[r].key) :
          IF row.hash = call[r].hash THEN AnswerFrom(r, row.by) ELSE UNCHANGED answer
    BY <1>6 DEF ReplayLegacy
  <2>2. row.by \in executed /\ call[row.by].key = call[r].key /\ call[row.by].hash = row.hash
    BY DEF StoredOf, IInv, ResponsesBelong
  <2>3. SafeMove(r, "over", IF row.hash = call[r].hash THEN {row.by} ELSE {})
    BY <1>1, <1>2, <1>6, <2>1, <2>2 DEF ReplayLegacy, AnswerFrom, SafeMove
  <2> QED BY <2>3, MoveStep DEF Places
<1>7. CASE Stop(r)
  <2>1. SafeMove(r, "over", {})
    BY <1>1, <1>2, <1>7 DEF Stop, SafeMove
  <2> QED BY <2>1, MoveStep DEF Places
<1> QED
  BY <1>3, <1>4, <1>5, <1>6, <1>7

\* The claim is the only row of its key, and its call was not executed.
LEMMA ClaimStep ==
  ASSUME IInv, NEW r \in Requests, Claim(r)
  PROVE  IInv'
<1> USE DEF IInv, Claim, Claimed, ReceiptsOf, StoredOf
<1>1. call[r] \in Call /\ r \notin executed /\ answer[r] = {}
  BY DEF TypeOK, Unsent, Executed, AnswerLast
<1>2. /\ \A s \in Requests : s # r => call'[s] = call[s]
      /\ call'[r] \in Call /\ call'[r].at = "execute" /\ call'[r].guarded
      /\ call'[r].key = call[r].key /\ call'[r].op = call[r].op /\ call'[r].hash = call[r].hash
  BY <1>1 DEF TypeOK, Call, Places
<1> DEFINE new == [key |-> call[r].key, op |-> call[r].op, hash |-> call[r].hash, by |-> r,
                   state |-> "unresolved"]
<1>3. new \in Receipt /\ receipts' = receipts \cup {new}
  BY <1>1 DEF Receipt, Call
<1>4. TypeOK' BY <1>2, <1>3 DEF TypeOK
<1>5. ClaimsBelong' BY <1>2, <1>3 DEF ClaimsBelong, TypeOK, Receipt
<1>6. ResponsesBelong' BY <1>1, <1>2 DEF ResponsesBelong, TypeOK, Stored
<1>7. Executed' BY <1>1, <1>2 DEF Executed, TypeOK
<1>8. AnswerLast' BY <1>1, <1>2 DEF AnswerLast, TypeOK
<1>9. ClaimsStay' BY <1>2, <1>3 DEF ClaimsStay, TypeOK
<1>10. Named' BY <1>2, <1>3 DEF Named, TypeOK
<1>11. OneOwner' BY <1>2 DEF OneOwner, Named, TypeOK
<1>12. ReplayBindsRequest' BY <1>1, <1>2 DEF ReplayBindsRequest, TypeOK
<1> QED
  BY <1>4, <1>5, <1>6, <1>7, <1>8, <1>9, <1>10, <1>11, <1>12

\* A guarded call that executes is named by its unresolved claim.
LEMMA ExecuteStep ==
  ASSUME IInv, NEW r \in Requests, Execute(r)
  PROVE  IInv'
<1> USE DEF IInv, Execute
<1>1. call[r] \in Call /\ answer[r] = {}
  BY DEF TypeOK, Unsent, AnswerLast
<1>2. /\ \A s \in Requests : s # r => call'[s] = call[s]
      /\ call'[r] \in Call /\ call'[r].at \in {"record", "over"} /\ call'[r].guarded = call[r].guarded
      /\ call'[r].key = call[r].key /\ call'[r].op = call[r].op /\ call'[r].hash = call[r].hash
      /\ call' \in [Requests -> Call \cup {Unsent}]
  BY <1>1 DEF Move, TypeOK, Call, Places
<1>3. TypeOK' BY <1>2 DEF TypeOK
<1>4. ClaimsBelong' BY <1>2 DEF ClaimsBelong, TypeOK, Receipt
<1>5. ResponsesBelong' BY <1>2 DEF ResponsesBelong, TypeOK, Stored
<1>6. Executed' BY <1>2 DEF Executed, TypeOK
<1>7. AnswerLast' BY <1>1, <1>2 DEF AnswerLast, TypeOK
<1>8. ClaimsStay' BY <1>1, <1>2 DEF ClaimsStay, TypeOK
<1>9. Named' BY <1>1, <1>2 DEF Named, TypeOK
<1>10. OneOwner' BY <1>1, <1>2 DEF OneOwner, TypeOK
<1>11. ReplayBindsRequest' BY <1>1, <1>2 DEF ReplayBindsRequest, TypeOK
<1> QED
  BY <1>3, <1>4, <1>5, <1>6, <1>7, <1>8, <1>9, <1>10, <1>11

\* The claim a guarded call completes is its own: no other row has its key.
LEMMA FinishStep ==
  ASSUME IInv, NEW r \in Requests, Finish(r)
  PROVE  IInv'
<1> USE DEF IInv, Finish
<1>1. call[r] \in Call /\ answer[r] = {} /\ call[r].guarded /\ r \in executed
  BY DEF TypeOK, Unsent, AnswerLast, Executed
<1>2. /\ \A s \in Requests : s # r => call'[s] = call[s] /\ answer'[s] = answer[s]
      /\ answer'[r] = {r}
      /\ call'[r] \in Call /\ call'[r].at = "over" /\ call'[r].guarded
      /\ call'[r].key = call[r].key /\ call'[r].op = call[r].op /\ call'[r].hash = call[r].hash
      /\ call' \in [Requests -> Call \cup {Unsent}] /\ answer' \in [Requests -> SUBSET Requests]
  BY <1>1 DEF Move, AnswerFrom, TypeOK, Call, Places
<1>3. PICK row \in OwnClaim(r) :
        receipts' = (receipts \ {row}) \cup {[row EXCEPT !.state = "completed"]}
  OBVIOUS
<1>4. row \in receipts /\ row \in Receipt /\ row.key = call[r].key
  BY DEF OwnClaim, ReceiptsOf, TypeOK
<1>5. row.by = r
  BY <1>1, <1>4 DEF ClaimsStay, ClaimsBelong, TypeOK
<1> DEFINE done == [row EXCEPT !.state = "completed"]
<1>6. /\ done \in Receipt /\ done.by = r /\ done.key = row.key /\ done.op = row.op
      /\ done.hash = row.hash /\ done.state = "completed"
  BY <1>4, <1>5 DEF Receipt
<1>7. receipts' = (receipts \ {row}) \cup {done}
  BY <1>3
<1> HIDE DEF done
<1>8. \A old \in receipts : old # row => old.by # r /\ old.key # row.key
  BY <1>4, <1>5 DEF TypeOK, ClaimsBelong
<1>9. /\ \A response \in stored' : response \in stored \/ response.by = r
      /\ \A response \in stored : response \in stored'
      /\ stored' \subseteq Stored
      /\ \A response, other \in stored' : response.key = other.key => response = other
      /\ \A response \in stored' : response \notin stored =>
           response.key = call[r].key /\ response.hash = call[r].hash
  BY <1>1, <1>4, <1>5 DEF StoreResponse, StoredOf, Stored, Call, TypeOK
<1>10. TypeOK' BY <1>2, <1>4, <1>6, <1>7, <1>8, <1>9 DEF TypeOK
<1>11. ClaimsBelong' BY <1>1, <1>2, <1>4, <1>5, <1>6, <1>7, <1>8 DEF ClaimsBelong, TypeOK, Receipt
<1>12. ResponsesBelong' BY <1>1, <1>2, <1>9 DEF ResponsesBelong, TypeOK
<1>13. Executed' BY <1>2 DEF Executed, TypeOK
<1>14. AnswerLast' BY <1>2, UnsentIsNoCall DEF AnswerLast, TypeOK
<1>15. ClaimsStay' BY <1>2, <1>5, <1>7 DEF ClaimsStay, TypeOK
<1>16. Named' BY <1>1, <1>2, <1>6, <1>7, <1>9 DEF Named, TypeOK
<1>17. OneOwner' BY <1>1, <1>2 DEF OneOwner, TypeOK
<1>18. ReplayBindsRequest' BY <1>1, <1>2 DEF ReplayBindsRequest, TypeOK
<1> QED
  BY <1>10, <1>11, <1>12, <1>13, <1>14, <1>15, <1>16, <1>17, <1>18

\* An unguarded call owns no claim; its response only adds to what is stored.
LEMMA StoreLegacyStep ==
  ASSUME IInv, NEW r \in Requests, StoreLegacy(r)
  PROVE  IInv'
<1> USE DEF IInv, StoreLegacy
<1>1. call[r] \in Call /\ answer[r] = {} /\ r \in executed
  BY DEF TypeOK, Unsent, AnswerLast, Executed
<1>2. /\ \A s \in Requests : s # r => call'[s] = call[s] /\ answer'[s] = answer[s]
      /\ answer'[r] = {r}
      /\ call'[r] \in Call /\ call'[r].at = "over" /\ ~call'[r].guarded
      /\ call'[r].key = call[r].key /\ call'[r].hash = call[r].hash
      /\ call' \in [Requests -> Call \cup {Unsent}] /\ answer' \in [Requests -> SUBSET Requests]
  BY <1>1 DEF Move, AnswerFrom, TypeOK, Call, Places
<1>3. /\ stored' \subseteq Stored
      /\ \A response, other \in stored' : response.key = other.key => response = other
      /\ \A response \in stored' : response \notin stored =>
           /\ response.by = r
           /\ response.key = call[r].key /\ response.hash = call[r].hash
      /\ \A response \in stored : response \in stored'
  BY <1>1 DEF StoreResponse, StoredOf, Stored, Call, TypeOK
<1>4. TypeOK' BY <1>2, <1>3 DEF TypeOK
<1>5. ClaimsBelong' BY <1>1, <1>2 DEF ClaimsBelong, TypeOK, Receipt
<1>6. ResponsesBelong' BY <1>1, <1>2, <1>3 DEF ResponsesBelong, TypeOK
<1>7. Executed' BY <1>2 DEF Executed, TypeOK
<1>8. AnswerLast' BY <1>2, UnsentIsNoCall DEF AnswerLast, TypeOK
<1>9. ClaimsStay' BY <1>2 DEF ClaimsStay, TypeOK
<1>10. Named' BY <1>2, <1>3 DEF Named, TypeOK
<1>11. OneOwner' BY <1>2 DEF OneOwner, TypeOK
<1>12. ReplayBindsRequest' BY <1>1, <1>2 DEF ReplayBindsRequest, TypeOK
<1> QED
  BY <1>4, <1>5, <1>6, <1>7, <1>8, <1>9, <1>10, <1>11, <1>12

\* The activation moves no call.
LEMMA EnableStep ==
  ASSUME IInv, Enable
  PROVE  IInv'
<1> USE DEF IInv, Enable
<1>1. TypeOK' /\ ClaimsBelong' /\ ResponsesBelong' /\ Executed' /\ AnswerLast'
  BY DEF TypeOK, ClaimsBelong, ResponsesBelong, Executed, AnswerLast
<1>2. ClaimsStay' /\ Named' /\ OneOwner' /\ ReplayBindsRequest'
  BY DEF ClaimsStay, Named, OneOwner, ReplayBindsRequest
<1> QED BY <1>1, <1>2

\* The janitor forgets the executions of a key only with its last row, and the
\* claim of a guarded call that was not answered is never that row.
LEMMA PruneStep ==
  ASSUME IInv, NEW key \in Keys, PruneStored(key) \/ PruneReceipts(key)
  PROVE  IInv'
<1> USE DEF IInv
<1>1. /\ UNCHANGED <<policy, call, executed, answer>>
      /\ Forget(key)
      /\ receipts' \subseteq receipts /\ stored' \subseteq stored
      /\ \A row \in receipts \ receipts' : row.key = key /\ row.state = "completed"
      /\ \A row \in stored \ stored' : row.key = key
  BY DEF PruneStored, PruneReceipts, CompletedOf, ReceiptsOf, StoredOf
<1>2. forgotten \subseteq forgotten' /\ forgotten' \subseteq executed
  BY <1>1 DEF Forget, TypeOK
<1>3. ASSUME NEW r \in Requests \ forgotten', call[r] \in Call, call[r].guarded
      PROVE  \E row \in receipts' \cup stored' : row.key = call[r].key
  <2>1. PICK row \in receipts \cup stored : row.key = call[r].key
    BY <1>2, <1>3 DEF Named
  <2>2. CASE r \in answer[r]
    <3>1. r \in executed BY <2>2 DEF ReplayBindsRequest
    <3> QED BY <1>1, <1>3, <2>1, <3>1 DEF Forget
  <2>3. CASE r \notin answer[r]
    <3>1. PICK mine \in receipts : mine.by = r /\ mine.state = "unresolved"
      BY <1>3, <2>3 DEF ClaimsStay
    <3> QED BY <1>1, <3>1 DEF ClaimsBelong
  <2> QED BY <2>2, <2>3
<1>4. TypeOK' BY <1>1, <1>2 DEF TypeOK
<1>5. ClaimsBelong' /\ ResponsesBelong'
  BY <1>1 DEF ClaimsBelong, ResponsesBelong
<1>6. Executed' /\ AnswerLast' BY <1>1 DEF Executed, AnswerLast
<1>7. ClaimsStay' BY <1>1 DEF ClaimsStay
<1>8. Named' BY <1>1, <1>3 DEF Named
<1>9. OneOwner' BY <1>1, <1>2 DEF OneOwner
<1>10. ReplayBindsRequest' BY <1>1 DEF ReplayBindsRequest
<1> QED BY <1>4, <1>5, <1>6, <1>7, <1>8, <1>9, <1>10

\* The invariant is inductive.
LEMMA Inductive == Spec => []IInv
<1>1. Init => IInv BY InitIInv
<1>2. IInv /\ [Next]_vars => IInv'
  <2> SUFFICES ASSUME IInv, [Next]_vars PROVE IInv'
    OBVIOUS
  <2>1. CASE UNCHANGED vars
    BY <2>1 DEF IInv, vars, TypeOK, ClaimsBelong, ResponsesBelong, Executed, AnswerLast,
                ClaimsStay, Named, OneOwner, ReplayBindsRequest
  <2>2. ASSUME NEW r \in Requests, NEW key \in Keys, NEW op \in Operations, NEW hash \in Hashes,
               Send(r, key, op, hash)
        PROVE  IInv'
    BY <2>2, SendStep
  <2>3. ASSUME NEW r \in Requests, CallStep(r)
        PROVE  IInv'
    BY <2>3, ReadStep, ClaimStep, ExecuteStep, FinishStep, StoreLegacyStep DEF CallStep
  <2>4. CASE Enable
    BY <2>4, EnableStep
  <2>5. ASSUME NEW key \in Keys, PruneStored(key) \/ PruneReceipts(key)
        PROVE  IInv'
    BY <2>5, PruneStep
  <2> QED BY <2>1, <2>2, <2>3, <2>4, <2>5 DEF Next
<1> QED BY <1>1, <1>2, PTL DEF Spec

\* Type correctness of CommandRecovery, the primary keys of its two tables
\* included.
THEOREM RecoveryTypeOK == Spec => []TypeOK
<1>1. IInv => TypeOK BY DEF IInv
<1> QED BY <1>1, Inductive, PTL

\* guarded-v1 executes a key once (begin, finish, prune_completed), although
\* activation may find unguarded calls of the key under way.
THEOREM GuardedExecutionIsOnce == Spec => []OneGuardedExecution
<1>1. IInv => OneGuardedExecution
  BY DEF IInv, OneGuardedExecution, OneOwner, Executed, TypeOK
<1> QED BY <1>1, Inductive, PTL

\* A guarded execution without an answer keeps its unresolved claim for good.
THEOREM UnresolvedClaimsStay == Spec => []UnresolvedStays
<1>1. IInv => UnresolvedStays
  BY DEF IInv, UnresolvedStays, ClaimsStay, Executed, TypeOK
<1> QED BY <1>1, Inductive, PTL

\* A response is only replayed to a request like the one it answers.
THEOREM ReplaysAreBound == Spec => []ReplayBindsRequest
<1>1. IInv => ReplayBindsRequest BY DEF IInv
<1> QED BY <1>1, Inductive, PTL

\* What a guarded call was answered is never executed again under its key.
THEOREM CompletedStaysCompleted == Spec => CompletedIsReplayed
<1>1. IInv /\ [Next]_vars =>
        [\A r \in Requests :
           /\ call[r].at = "claim"
           /\ \E s \in executed \ forgotten :
                s \in answer[s] /\ call[s].guarded /\ call[s].key = call[r].key
           => call'[r].at # "execute"]_vars
  <2> SUFFICES ASSUME IInv, Next, NEW r \in Requests, call[r].at = "claim",
                      NEW s \in executed \ forgotten, s \in answer[s], call[s].guarded,
                      call[s].key = call[r].key
               PROVE  call'[r].at # "execute"
    BY Zenon DEF vars
  <2>1. ~Claim(r)
    <3>1. \E row \in receipts \cup stored : row.key = call[r].key
      BY DEF IInv, Named, Executed, TypeOK
    <3> QED BY <3>1 DEF Claim, ReceiptsOf, StoredOf
  <2>2. ASSUME NEW q \in Requests, CallStep(q) PROVE call'[r].at # "execute"
    <3>1. call[r] \in Call BY DEF IInv, TypeOK, Unsent
    <3>2. CASE q # r
      BY <2>2, <3>1, <3>2 DEF CallStep, ReadPolicy, CheckStored, Claim, Claimed, ReplayReceipt,
         ReplayLegacy, Execute, Finish, StoreLegacy, Stop, Move, IInv, TypeOK
    <3>3. CASE q = r
      <4>1. ReplayReceipt(r) \/ ReplayLegacy(r) \/ Stop(r)
        BY <2>1, <2>2, <3>3 DEF CallStep, ReadPolicy, CheckStored, Execute, Finish, StoreLegacy
      <4>2. Move(r, "over")
        BY <4>1 DEF ReplayReceipt, ReplayLegacy, Stop
      <4> QED BY <3>1, <4>2 DEF Move, IInv, TypeOK, Call
    <3> QED BY <3>2, <3>3
  <2>3. ASSUME NEW q \in Requests, NEW key \in Keys, NEW op \in Operations, NEW hash \in Hashes,
               Send(q, key, op, hash)
        PROVE  call'[r].at # "execute"
    BY <2>3 DEF Send, Unsent, IInv, TypeOK
  <2>4. CASE Enable
    BY <2>4 DEF Enable
  <2>5. ASSUME NEW key \in Keys, PruneStored(key) \/ PruneReceipts(key) PROVE call'[r].at # "execute"
    BY <2>5 DEF PruneStored, PruneReceipts
  <2> QED BY <2>2, <2>3, <2>4, <2>5 DEF Next
<1> QED BY <1>1, Inductive, PTL DEF Spec, CompletedIsReplayed

=============================================================================
