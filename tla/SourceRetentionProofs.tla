----------------------- MODULE SourceRetentionProofs -----------------------
(***************************************************************************)
(* Proofs about SourceRetention, for any number of sources, uploads,       *)
(* readers and servers, and whatever the bounds.  A completed erasure is   *)
(* denied, and no denial is ever taken back: that is why neither an upload *)
(* nor a read that was checked too early can undo it.                      *)
(***************************************************************************)
EXTENDS SourceRetention, TLAPS

\* A read that fetched late is of a path denied to this day.
LateIsDenied ==
  \A r \in Readers : reader[r] # Idle /\ reader[r].late => Denied(reader[r].source)

IInv == TypeOK /\ ErasedStaysErased /\ LateIsDenied /\ ReadsRespectDenial

\* The rows that uploads and readers work on have the fields of one.
LEMMA BusyUpload ==
  ASSUME TypeOK, NEW u \in Uploads, upload[u].at \in {"put", "recheck", "row"}
  PROVE  upload[u] \in Upload
BY DEF TypeOK, Idle

LEMMA BusyReader ==
  ASSUME TypeOK, NEW r \in Readers, reader[r].at \in {"fetch", "recheck", "returned"}
  PROVE  reader[r] \in Reader /\ reader[r] # Idle
BY DEF TypeOK, Idle

\* An operator's change leaves a record of a path whose denial and completed
\* erasure stand.
LEMMA ChangeType ==
  ASSUME TypeOK, NEW s \in Sources, NEW new \in Record, Change(s, new),
         new.cleanup # "retained" => new.denied,
         record[s].denied => new.denied,
         record[s].cleanup = "completed" <=> new.cleanup = "completed"
  PROVE  /\ TypeOK'
         /\ \A t \in Sources : Denied(t) => Denied(t)'
         /\ \A t \in Sources : record[t].cleanup = "completed" <=> record'[t].cleanup = "completed"
<1>1. /\ record' \in [Sources -> Record] /\ record'[s] = new
      /\ \A t \in Sources : t # s => record'[t] = record[t]
  BY DEF Change, TypeOK
<1>2. later' \in [Sources -> SUBSET Sources]
  BY DEF Change, TypeOK, Touched
<1>3. changes' \in 0..MaxChanges
  BY RetentionAssumption DEF Change, TypeOK
<1>4. \A t \in Sources : record'[t].cleanup # "retained" => record'[t].denied
  BY <1>1 DEF TypeOK
<1>5. TypeOK'
  BY <1>1, <1>2, <1>3, <1>4 DEF Change, TypeOK, storeVars
<1> QED BY <1>1, <1>5 DEF Denied

\* The four changes are such changes.
LEMMA OperatorChange ==
  ASSUME TypeOK, NEW s \in Sources,
         Deny(s) \/ DenyAndErase(s) \/ Hold(s) \/ ReleaseHold(s)
  PROVE  \E new \in Record :
           /\ Change(s, new)
           /\ new.cleanup # "retained" => new.denied
           /\ record[s].denied => new.denied
           /\ record[s].cleanup = "completed" <=> new.cleanup = "completed"
<1>1. record[s] \in Record /\ (record[s].cleanup # "retained" => record[s].denied)
  BY DEF TypeOK
<1>2. CASE Deny(s)
  <2> DEFINE new == [record[s] EXCEPT !.denied = TRUE]
  <2>1. new \in Record /\ new.denied /\ new.cleanup = record[s].cleanup
    BY <1>1 DEF Record
  <2>2. Change(s, new)
    BY <1>2 DEF Deny
  <2> QED BY <2>1, <2>2
<1>3. CASE DenyAndErase(s)
  <2> DEFINE new == [record[s] EXCEPT !.denied = TRUE,
                       !.cleanup = IF @ = "completed" THEN @ ELSE "pending"]
  <2>1. /\ new \in Record /\ new.denied
        /\ record[s].cleanup = "completed" <=> new.cleanup = "completed"
    BY <1>1 DEF Record
  <2>2. Change(s, new)
    BY <1>3 DEF DenyAndErase
  <2> QED BY <2>1, <2>2
<1>4. CASE Hold(s)
  <2> DEFINE new == [record[s] EXCEPT !.hold = TRUE]
  <2>1. new \in Record /\ new.denied = record[s].denied /\ new.cleanup = record[s].cleanup
    BY <1>1 DEF Record
  <2>2. Change(s, new)
    BY <1>4 DEF Hold
  <2> QED BY <1>1, <2>1, <2>2
<1>5. CASE ReleaseHold(s)
  <2> DEFINE new == [record[s] EXCEPT !.hold = FALSE]
  <2>1. new \in Record /\ new.denied = record[s].denied /\ new.cleanup = record[s].cleanup
    BY <1>1 DEF Record
  <2>2. Change(s, new)
    BY <1>5 DEF ReleaseHold
  <2> QED BY <1>1, <2>1, <2>2
<1> QED BY <1>2, <1>3, <1>4, <1>5

\* What an operator does changes neither bytes nor readers.
LEMMA ChangeStep ==
  ASSUME IInv, NEW s \in Sources,
         Deny(s) \/ DenyAndErase(s) \/ Hold(s) \/ ReleaseHold(s)
  PROVE  IInv' /\ UNCHANGED <<blob, row, owners>> /\ \A t \in Sources : Denied(t) => Denied(t)'
<1>1. PICK new \in Record :
         /\ Change(s, new)
         /\ new.cleanup # "retained" => new.denied
         /\ record[s].denied => new.denied
         /\ record[s].cleanup = "completed" <=> new.cleanup = "completed"
  BY OperatorChange DEF IInv
<1>2. /\ TypeOK'
      /\ \A t \in Sources : Denied(t) => Denied(t)'
      /\ \A t \in Sources : record[t].cleanup = "completed" <=> record'[t].cleanup = "completed"
  BY <1>1, ChangeType DEF IInv
<1>3. UNCHANGED <<blob, row, owners, reader>>
  BY <1>1 DEF Change, storeVars
<1>4. ErasedStaysErased'
  BY <1>2, <1>3 DEF IInv, ErasedStaysErased
<1>5. LateIsDenied'
  <2> SUFFICES ASSUME NEW r \in Readers, reader[r] # Idle, reader[r].late
               PROVE  Denied(reader[r].source)'
    BY <1>3 DEF LateIsDenied
  <2>1. reader[r] \in Reader /\ Denied(reader[r].source)
    BY DEF IInv, TypeOK, LateIsDenied
  <2> QED BY <1>2, <1>3, <2>1 DEF Reader
<1>6. ReadsRespectDenial'
  BY <1>3 DEF IInv, ReadsRespectDenial, ReaderAt
<1> QED BY <1>2, <1>3, <1>4, <1>5, <1>6 DEF IInv

\* Uploads write bytes and rows of paths that are not denied, and end or go on.
LEMMA UploadType ==
  ASSUME TypeOK, NEW u \in Uploads, UploadStep(u)
  PROVE  /\ TypeOK'
         /\ \A s \in Sources : Denied(s) => blob'[s] = blob[s] /\ row'[s] = row[s]
         /\ \A s \in Sources : blob[s] # None => blob'[s] # None
         /\ UNCHANGED <<retentionVars, owners, reader, sweep>>
<1> DEFINE Went == /\ upload' \in [Uploads -> Upload \cup {Idle}]
                   /\ blob' \in [Sources -> Contents \cup {None}]
                   /\ row' \in [Sources -> Contents \cup {None}]
                   /\ \A s \in Sources : Denied(s) => blob'[s] = blob[s] /\ row'[s] = row[s]
                   /\ \A s \in Sources : blob[s] # None => blob'[s] # None
                   /\ UNCHANGED <<retentionVars, owners, reader, sweep>>
<1>1. ASSUME NEW s \in Sources, NEW c \in Contents, StartUpload(u, s, c) PROVE Went
  BY <1>1 DEF StartUpload, TypeOK, Upload, storeVars
<1>2. ASSUME PutBytes(u) PROVE Went
  <2>1. upload[u] \in Upload
    BY <1>2, BusyUpload DEF PutBytes, UploadAt
  <2> QED BY <1>2, <2>1, RetentionAssumption DEF PutBytes, EndUpload, Writable, Denied, TypeOK, Upload
<1>3. ASSUME RecheckUpload(u) PROVE Went
  <2>1. upload[u] \in Upload
    BY <1>3, BusyUpload DEF RecheckUpload, UploadAt
  <2> QED BY <1>3, <2>1 DEF RecheckUpload, EndUpload, TypeOK, Upload, storeVars
<1>4. ASSUME PutRow(u) PROVE Went
  <2>1. upload[u] \in Upload
    BY <1>4, BusyUpload DEF PutRow, UploadAt
  <2> QED BY <1>4, <2>1 DEF PutRow, EndUpload, Writable, Denied, TypeOK, Upload
<1>5. ASSUME LoseUpload(u) PROVE Went
  BY <1>5 DEF LoseUpload, EndUpload, TypeOK, storeVars
<1>6. Went
  BY <1>1, <1>2, <1>3, <1>4, <1>5 DEF UploadStep
<1> QED BY <1>6 DEF TypeOK, retentionVars

LEMMA UploadInv ==
  ASSUME IInv, NEW u \in Uploads, UploadStep(u)
  PROVE  IInv'
<1>1. /\ TypeOK'
      /\ \A s \in Sources : Denied(s) => blob'[s] = blob[s] /\ row'[s] = row[s]
      /\ UNCHANGED <<retentionVars, owners, reader, sweep>>
  BY UploadType DEF IInv
<1>2. \A s \in Sources : record[s].cleanup = "completed" => Denied(s)
  BY DEF IInv, TypeOK, Denied
<1>3. ErasedStaysErased'
  BY <1>1, <1>2 DEF IInv, ErasedStaysErased, retentionVars
<1>4. LateIsDenied' /\ ReadsRespectDenial'
  BY <1>1 DEF IInv, LateIsDenied, ReadsRespectDenial, ReaderAt, Denied, retentionVars
<1> QED BY <1>1, <1>3, <1>4 DEF IInv

\* A read that goes on was checked after its fetch, and denials stay.
LEMMA ReadInv ==
  ASSUME IInv, NEW r \in Readers, ReadStep(r)
  PROVE  IInv' /\ UNCHANGED <<retentionVars, storeVars>>
<1> USE DEF IInv
<1>1. PICK next \in Reader \cup {Idle} :
        /\ reader' = [reader EXCEPT ![r] = next]
        /\ UNCHANGED <<retentionVars, storeVars, upload, sweep>>
        /\ next # Idle /\ next.late => Denied(next.source)
        /\ next.at = "returned" => ~next.late
  <2> DEFINE P(next) == /\ next \in Reader \cup {Idle}
                        /\ reader' = [reader EXCEPT ![r] = next]
                        /\ UNCHANGED <<retentionVars, storeVars, upload, sweep>>
                        /\ next # Idle /\ next.late => Denied(next.source)
                        /\ next.at = "returned" => ~next.late
  <2> SUFFICES \E next : P(next)
    OBVIOUS
  <2>1. ASSUME NEW s \in Sources, StartRead(r, s) PROVE \E next : P(next)
    <3> DEFINE next == [at |-> "fetch", source |-> s, late |-> FALSE]
    <3>1. next \in Reader /\ ~next.late /\ next.at = "fetch"
      BY DEF Reader
    <3>2. P(next)
      BY <2>1, <3>1 DEF StartRead
    <3> QED BY <3>2
  <2>2. CASE Fetch(r)
    <3> DEFINE next == [at |-> "recheck", source |-> reader[r].source, late |-> Denied(reader[r].source)]
    <3>1. reader[r] \in Reader
      BY <2>2, BusyReader DEF Fetch, ReaderAt
    <3>2. Denied(reader[r].source) \in BOOLEAN
      BY <3>1 DEF TypeOK, Record, Reader, Denied
    <3>3. next \in Reader /\ next.at = "recheck" /\ (next.late => Denied(next.source))
      BY <3>1, <3>2 DEF Reader
    <3>4. reader' = [reader EXCEPT ![r] = Idle] \/ reader' = [reader EXCEPT ![r] = next]
      BY <2>2 DEF Fetch
    <3>5. UNCHANGED <<retentionVars, storeVars, upload, sweep>>
      BY <2>2 DEF Fetch
    <3>6. P(Idle) \/ P(next)
      BY <3>3, <3>4, <3>5 DEF Idle
    <3> QED BY <3>6
  <2>3. CASE Return(r)
    <3> DEFINE next == [reader[r] EXCEPT !.at = "returned"]
    <3>1. reader[r] \in Reader /\ reader[r] # Idle
      BY <2>3, BusyReader DEF Return, ReaderAt
    <3>2. CASE Denied(reader[r].source)
      <4>1. P(Idle)
        BY <2>3, <3>2 DEF Return, Idle
      <4> QED BY <4>1
    <3>3. CASE ~Denied(reader[r].source)
      <4>1. ~reader[r].late
        BY <3>1, <3>3 DEF LateIsDenied
      <4>2. next \in Reader /\ ~next.late
        BY <3>1, <4>1 DEF Reader
      <4>3. reader' = [reader EXCEPT ![r] = next]
        BY <2>3, <3>3 DEF Return, TypeOK
      <4>4. P(next)
        BY <2>3, <4>2, <4>3 DEF Return
      <4> QED BY <4>4
    <3> QED BY <3>2, <3>3
  <2>4. CASE EndRead(r)
    <3>1. P(Idle)
      BY <2>4 DEF EndRead, Idle
    <3> QED BY <3>1
  <2> QED BY <2>1, <2>2, <2>3, <2>4 DEF ReadStep
<1>2. TypeOK'
  BY <1>1 DEF TypeOK, retentionVars, storeVars
<1>3. /\ reader'[r] = next
      /\ \A q \in Readers : q # r => reader'[q] = reader[q]
  BY <1>1 DEF TypeOK
<1>4. LateIsDenied' /\ ReadsRespectDenial'
  BY <1>1, <1>3 DEF LateIsDenied, ReadsRespectDenial, ReaderAt, Denied, retentionVars
<1>5. ErasedStaysErased'
  BY <1>1 DEF ErasedStaysErased, retentionVars, storeVars
<1> QED BY <1>1, <1>2, <1>4, <1>5

LEMMA BindInv ==
  ASSUME IInv, NEW s \in Sources, Bind(s) \/ Unbind(s)
  PROVE  /\ IInv'
         /\ UNCHANGED <<record, blob, row>>
         /\ \A t \in Sources : Denied(t) => owners'[t] <= owners[t]
<1> USE RetentionAssumption DEF IInv
<1>1. owners[s] \in 0..MaxOwners
  BY DEF TypeOK
<1>2. UNCHANGED <<retentionVars, blob, row, upload, reader, sweep>>
  BY DEF Bind, Unbind
<1>3. /\ owners' \in [Sources -> 0..MaxOwners]
      /\ \A t \in Sources : Denied(t) => owners'[t] <= owners[t]
  <2>1. CASE Bind(s)
    <3>1. owners' = [owners EXCEPT ![s] = owners[s] + 1] /\ owners[s] + 1 \in 0..MaxOwners
      BY <1>1, <2>1 DEF Bind, TypeOK
    <3> QED BY <2>1, <3>1 DEF Bind, Writable, Denied, TypeOK
  <2>2. CASE Unbind(s)
    <3>1. owners' = [owners EXCEPT ![s] = owners[s] - 1] /\ owners[s] - 1 \in 0..MaxOwners
      BY <1>1, <2>2 DEF Unbind, TypeOK
    <3> QED BY <1>1, <3>1 DEF TypeOK
  <2> QED BY <2>1, <2>2
<1>4. TypeOK'
  BY <1>2, <1>3 DEF TypeOK, retentionVars
<1>5. ErasedStaysErased' /\ LateIsDenied' /\ ReadsRespectDenial'
  BY <1>2 DEF ErasedStaysErased, LateIsDenied, ReadsRespectDenial, ReaderAt, Denied, retentionVars
<1> QED BY <1>2, <1>3, <1>4, <1>5 DEF retentionVars

\* What a sweep works on.
LEMMA SweepFields ==
  ASSUME TypeOK, NEW n \in Servers
  PROVE  sweep[n].todo \subseteq Sources /\ sweep[n].failed \in Sources \cup {None}
BY DEF TypeOK, Sweep

\* A sweep removes bytes only together with completing the record, and only
\* of a path that nothing protects.
LEMMA EraseStep ==
  ASSUME IInv, NEW n \in Servers, NEW s \in Sources, Erase(n, s)
  PROVE  /\ IInv'
         /\ \A t \in Sources : t # s => blob'[t] = blob[t]
         /\ ~Protected(s) /\ blob'[s] = None
         /\ \A t \in Sources : Denied(t) => Denied(t)'
         /\ UNCHANGED <<row, owners>>
<1> USE DEF IInv
<1>1. /\ blob' \in [Sources -> Contents \cup {None}] /\ blob'[s] = None
      /\ \A t \in Sources : t # s => blob'[t] = blob[t]
  BY DEF Erase, TypeOK
<1>2. PICK r \in Record : r = [record[s] EXCEPT !.cleanup = "completed"]
  BY DEF TypeOK, Record
<1>3. record[s] \in Record /\ record[s].denied /\ r.denied
  BY <1>2 DEF Erase, Pending, TypeOK, Record
<1>4. /\ record' \in [Sources -> Record] /\ record'[s] = r
      /\ \A t \in Sources : t # s => record'[t] = record[t]
  BY <1>2 DEF Erase, TypeOK
<1>5. later' \in [Sources -> SUBSET Sources]
  BY DEF Erase, Touched, TypeOK
<1>6. sweep' \in [Servers -> Sweep]
  BY DEF Erase, Swept, TypeOK, Sweep
<1>7. TypeOK'
  BY <1>1, <1>3, <1>4, <1>5, <1>6 DEF Erase, TypeOK
<1>8. \A t \in Sources : Denied(t) => Denied(t)'
  BY <1>3, <1>4 DEF Denied
<1>9. ErasedStaysErased'
  BY <1>1, <1>4 DEF ErasedStaysErased
<1>10. LateIsDenied'
  <2> SUFFICES ASSUME NEW q \in Readers, reader[q] # Idle, reader[q].late
               PROVE  Denied(reader[q].source)'
    BY DEF LateIsDenied, Erase
  <2>1. reader[q] \in Reader
    BY DEF TypeOK
  <2> QED BY <1>8, <2>1 DEF LateIsDenied, Reader, Erase
<1>11. ReadsRespectDenial'
  BY DEF ReadsRespectDenial, ReaderAt, Erase
<1> QED BY <1>1, <1>7, <1>8, <1>9, <1>10, <1>11 DEF Erase, Blocked, Protected

\* All else a sweep does is about ages of records and its own progress.
LEMMA SweepOnly ==
  ASSUME IInv, UNCHANGED <<record, storeVars, upload, reader, changes>>,
         later' \in [Sources -> SUBSET Sources], sweep' \in [Servers -> Sweep],
         failures' \in 0..MaxFailures
  PROVE  IInv'
BY DEF IInv, TypeOK, ErasedStaysErased, LateIsDenied, ReadsRespectDenial, ReaderAt, Denied, storeVars

LEMMA SweepRest ==
  ASSUME IInv, NEW n \in Servers,
         \/ StartSweep(n) \/ RecordFailure(n) \/ EndSweep(n)
         \/ \E s \in Sources : LeaveBlocked(n, s) \/ SkipCleaned(n, s) \/ FailErase(n, s)
  PROVE  IInv' /\ UNCHANGED <<record, storeVars>>
<1> USE DEF IInv
<1>1. sweep[n].todo \subseteq Sources /\ sweep[n].failed \in Sources \cup {None}
  BY SweepFields
<1>2. NoSweep \in Sweep
  BY DEF NoSweep, Sweep
<1>3. \A s \in Sources : Touched(s) \in [Sources -> SUBSET Sources]
  BY DEF Touched, TypeOK
<1> DEFINE Quiet == /\ UNCHANGED <<record, storeVars, upload, reader, changes>>
                    /\ later' \in [Sources -> SUBSET Sources]
                    /\ sweep' \in [Servers -> Sweep]
                    /\ failures' \in 0..MaxFailures
<1>4. ASSUME StartSweep(n) PROVE Quiet
  <2>1. Oldest \subseteq Sources
    BY DEF Oldest
  <2> QED BY <1>4, <2>1 DEF StartSweep, TypeOK, Sweep, retentionVars
<1>5. ASSUME RecordFailure(n) PROVE Quiet
  <2>1. later' \in [Sources -> SUBSET Sources]
    BY <1>1, <1>3, <1>5 DEF RecordFailure, TypeOK
  <2>2. sweep' \in [Servers -> Sweep]
    BY <1>1, <1>5 DEF RecordFailure, TypeOK, Sweep
  <2> QED BY <1>5, <2>1, <2>2 DEF RecordFailure, TypeOK
<1>6. ASSUME EndSweep(n) PROVE Quiet
  BY <1>2, <1>6, RetentionAssumption DEF EndSweep, TypeOK
<1>7. ASSUME NEW s \in Sources, LeaveBlocked(n, s) PROVE Quiet
  BY <1>3, <1>7 DEF LeaveBlocked, Swept, TypeOK, Sweep
<1>8. ASSUME NEW s \in Sources, SkipCleaned(n, s) PROVE Quiet
  BY <1>8 DEF SkipCleaned, Swept, TypeOK, Sweep, retentionVars
<1>9. ASSUME NEW s \in Sources, FailErase(n, s) PROVE Quiet
  <2>1. sweep' \in [Servers -> Sweep]
    BY <1>1, <1>9 DEF FailErase, TypeOK, Sweep
  <2> QED BY <1>9, <2>1, RetentionAssumption DEF FailErase, TypeOK
<1>10. Quiet
  BY <1>4, <1>5, <1>6, <1>7, <1>8, <1>9
<1> QED BY <1>10, SweepOnly

ProtectedStep == \A s \in Sources : Protected(s) /\ blob[s] # None => blob'[s] # None
DeniedStep ==
  \A s \in Sources : Denied(s) =>
    /\ Denied(s)'
    /\ blob'[s] \in {blob[s], None}
    /\ row'[s] = row[s]
    /\ owners'[s] <= owners[s]

LEMMA InitInv ==
  ASSUME Init
  PROVE  IInv
<1>1. TypeOK
  BY RetentionAssumption DEF Init, TypeOK, Record, NoSweep, Sweep
<1>2. \A r \in Readers : reader[r] = Idle
  BY DEF Init
<1>3. ErasedStaysErased /\ LateIsDenied /\ ReadsRespectDenial
  BY <1>2 DEF Init, ErasedStaysErased, LateIsDenied, ReadsRespectDenial, ReaderAt, Idle
<1> QED BY <1>1, <1>3 DEF IInv

\* Every step keeps the invariant, the protected bytes and the denials.
LEMMA NextInv ==
  ASSUME IInv, [Next]_vars
  PROVE  IInv' /\ ProtectedStep /\ DeniedStep
<1> DEFINE Good == IInv' /\ ProtectedStep /\ DeniedStep
<1>0. \A s \in Sources : owners[s] <= owners[s]
  BY RetentionAssumption DEF IInv, TypeOK
<1>1. ASSUME NEW u \in Uploads, UploadStep(u) PROVE Good
  <2>1. /\ \A s \in Sources : Denied(s) => blob'[s] = blob[s] /\ row'[s] = row[s]
        /\ \A s \in Sources : blob[s] # None => blob'[s] # None
        /\ UNCHANGED <<retentionVars, owners, reader, sweep>>
    BY <1>1, UploadType DEF IInv
  <2>2. IInv'
    BY <1>1, UploadInv
  <2>3. ProtectedStep /\ DeniedStep
    BY <1>0, <2>1 DEF ProtectedStep, DeniedStep, Denied, retentionVars
  <2> QED BY <2>2, <2>3
<1>2. ASSUME NEW r \in Readers, ReadStep(r) PROVE Good
  BY <1>0, <1>2, ReadInv DEF ProtectedStep, DeniedStep, Denied, retentionVars, storeVars
<1>3. ASSUME NEW s \in Sources, OperatorStep(s) PROVE Good
  <2>1. CASE Deny(s) \/ DenyAndErase(s) \/ Hold(s) \/ ReleaseHold(s)
    <3>1. IInv' /\ UNCHANGED <<blob, row, owners>> /\ \A t \in Sources : Denied(t) => Denied(t)'
      BY <2>1, ChangeStep
    <3> QED BY <1>0, <3>1 DEF ProtectedStep, DeniedStep
  <2>2. CASE Bind(s) \/ Unbind(s)
    <3>1. /\ IInv' /\ UNCHANGED <<record, blob, row>>
          /\ \A t \in Sources : Denied(t) => owners'[t] <= owners[t]
      BY <2>2, BindInv
    <3> QED BY <3>1 DEF ProtectedStep, DeniedStep, Denied
  <2> QED BY <1>3, <2>1, <2>2 DEF OperatorStep
<1>4. ASSUME NEW n \in Servers, NEW s \in Sources, Erase(n, s) PROVE Good
  <2>1. /\ IInv'
        /\ \A t \in Sources : t # s => blob'[t] = blob[t]
        /\ ~Protected(s) /\ blob'[s] = None
        /\ \A t \in Sources : Denied(t) => Denied(t)'
        /\ UNCHANGED <<row, owners>>
    BY <1>4, EraseStep
  <2> QED BY <1>0, <2>1 DEF ProtectedStep, DeniedStep
<1>5. ASSUME NEW n \in Servers,
             \/ StartSweep(n) \/ RecordFailure(n) \/ EndSweep(n)
             \/ \E s \in Sources : LeaveBlocked(n, s) \/ SkipCleaned(n, s) \/ FailErase(n, s)
      PROVE  Good
  <2>1. IInv' /\ UNCHANGED <<record, storeVars>>
    BY <1>5, SweepRest
  <2> QED BY <1>0, <2>1 DEF ProtectedStep, DeniedStep, Denied, storeVars
<1>6. CASE UNCHANGED vars
  <2>1. UNCHANGED <<retentionVars, storeVars, upload, reader, sweep>>
    BY <1>6 DEF vars
  <2>2. IInv'
    BY <2>1 DEF IInv, TypeOK, ErasedStaysErased, LateIsDenied, ReadsRespectDenial,
                ReaderAt, Denied, retentionVars, storeVars
  <2> QED BY <1>0, <2>1, <2>2 DEF ProtectedStep, DeniedStep, Denied, retentionVars, storeVars
<1> QED BY <1>1, <1>2, <1>3, <1>4, <1>5, <1>6 DEF Next, SweepStep, Clean

\* Types, and that whatever is to be erased is denied (source_retention's
\* check constraint), for every number of sources, uploads and servers.
THEOREM RetentionTypeOK == Spec => []TypeOK
<1>1. Spec => []IInv
  BY InitInv, NextInv, PTL DEF Spec
<1>2. IInv => TypeOK
  BY DEF IInv
<1> QED BY <1>1, <1>2, PTL

\* "completed" stays true: no upload that passed its check before the denial
\* brings the bytes back (put_source against deny_and_erase and the sweep).
THEOREM ErasureIsFinal == Spec => []ErasedStaysErased
<1>1. Spec => []IInv
  BY InitInv, NextInv, PTL DEF Spec
<1>2. IInv => ErasedStaysErased
  BY DEF IInv
<1> QED BY <1>1, <1>2, PTL

\* No read returns what it fetched from a denied path (GuardedSources.get).
THEOREM ReadsAreChecked == Spec => []ReadsRespectDenial
<1>1. Spec => []IInv
  BY InitInv, NextInv, PTL DEF Spec
<1>2. IInv => ReadsRespectDenial
  BY DEF IInv
<1> QED BY <1>1, <1>2, PTL

\* No sweep, of any server, removes bytes that a hold or a second owner
\* protects (cleanup_one).
THEOREM ProtectionHolds == Spec => ProtectedBytesStay
<1>1. IInv /\ [Next]_vars => [ProtectedStep]_vars
  BY NextInv
<1>2. [ProtectedStep]_vars => [\A s \in Sources : Protected(s) /\ blob[s] # None => blob'[s] # None]_vars
  BY DEF ProtectedStep
<1> QED BY <1>1, <1>2, InitInv, NextInv, PTL DEF Spec, ProtectedBytesStay

\* A denial is for ever, and a denied path gains no bytes, no row and no
\* binding (change, and the trigger enforce_source_retention).
THEOREM DenialIsFinal == Spec => DeniedGainsNothing
<1>1. IInv /\ [Next]_vars => [DeniedStep]_vars
  BY NextInv
<1>2. [DeniedStep]_vars =>
        [\A s \in Sources : Denied(s) =>
           /\ Denied(s)'
           /\ blob'[s] \in {blob[s], None}
           /\ row'[s] = row[s]
           /\ owners'[s] <= owners[s]]_vars
  BY DEF DeniedStep
<1> QED BY <1>1, <1>2, InitInv, NextInv, PTL DEF Spec, DeniedGainsNothing
=============================================================================
