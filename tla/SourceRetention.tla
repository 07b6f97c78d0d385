--------------------------- MODULE SourceRetention ---------------------------
(***************************************************************************)
(* The originals of a tenant's sources: bytes under the source's path, and *)
(* a catalog row that names their hash.  Uploads and reads check the       *)
(* retention record of the path around every access; operators deny, erase *)
(* and hold; every server sweeps pending erasures.  A trigger on the three *)
(* tables takes the path's lock and refuses writes to a denied path, and   *)
(* changes and erasures hold the same lock, so each of them is one action. *)
(***************************************************************************)
EXTENDS Naturals, FiniteSets

CONSTANTS Sources, Contents, Uploads, Readers, Servers, None,
          SweepLimit,    \* records that a sweep takes
          MaxOwners,     \* bound on the collections a source is bound to
          MaxChanges,    \* bound on what operators do
          MaxFailures    \* bound on failed erasures and ended sweeps

ASSUME RetentionAssumption ==
  /\ None \notin Sources \cup Contents
  /\ SweepLimit \in Nat \ {0}
  /\ MaxOwners \in Nat /\ MaxChanges \in Nat /\ MaxFailures \in Nat

VARIABLES record,     \* the retention record of every path
          later,      \* records updated after that of a path
          blob,       \* the bytes stored under it
          row,        \* the content that its catalog row names
          owners,     \* how many collections it is bound to
          upload, reader, sweep,
          changes, failures

retentionVars == <<record, later, changes, failures>>
storeVars == <<blob, row, owners>>
vars == <<retentionVars, storeVars, upload, reader, sweep>>

Record == [denied : BOOLEAN, hold : BOOLEAN, cleanup : {"retained", "pending", "completed"}]
Idle == [at |-> "idle"]
Upload == [at : {"put", "recheck", "row"}, source : Sources, content : Contents]
(* late: the bytes were fetched from a path that was denied by then. *)
Reader == [at : {"fetch", "recheck", "returned"}, source : Sources, late : BOOLEAN]
Sweep == [todo : SUBSET Sources, failed : Sources \cup {None}]
NoSweep == [todo |-> {}, failed |-> None]

TypeOK ==
  /\ record \in [Sources -> Record]
  /\ \A s \in Sources : record[s].cleanup # "retained" => record[s].denied
  /\ later \in [Sources -> SUBSET Sources]
  /\ blob \in [Sources -> Contents \cup {None}]
  /\ row \in [Sources -> Contents \cup {None}]
  /\ owners \in [Sources -> 0..MaxOwners]
  /\ upload \in [Uploads -> Upload \cup {Idle}]
  /\ reader \in [Readers -> Reader \cup {Idle}]
  /\ sweep \in [Servers -> Sweep]
  /\ changes \in 0..MaxChanges
  /\ failures \in 0..MaxFailures

Init ==
  /\ record = [s \in Sources |-> [denied |-> FALSE, hold |-> FALSE, cleanup |-> "retained"]]
  /\ later = [s \in Sources |-> {}]
  /\ blob = [s \in Sources |-> None]
  /\ row = [s \in Sources |-> None]
  /\ owners = [s \in Sources |-> 0]
  /\ upload = [u \in Uploads |-> Idle]
  /\ reader = [r \in Readers |-> Idle]
  /\ sweep = [n \in Servers |-> NoSweep]
  /\ changes = 0 /\ failures = 0

Denied(s) == record[s].denied
Pending(s) == record[s].cleanup = "pending"

\* Mutant: no trigger behind the checks.
WritableUnchecked(s) == TRUE

(* enforce_source_retention *)
Writable(s) == ~Denied(s)

(* updated_at = now() *)
Touched(s) == [t \in Sources |-> IF t = s THEN {} ELSE later[t] \cup {s}]

-----------------------------------------------------------------------------
(* put_source: bytes first, the catalog row second. *)

StartUpload(u, s, c) ==
  /\ upload[u] = Idle
  /\ ~Denied(s)
  /\ upload' = [upload EXCEPT ![u] = [at |-> "put", source |-> s, content |-> c]]
  /\ UNCHANGED <<retentionVars, storeVars, reader, sweep>>

UploadAt(u, place) == upload[u].at = place
EndUpload(u) == upload' = [upload EXCEPT ![u] = Idle]

PutBytes(u) ==
  /\ UploadAt(u, "put")
  /\ LET s == upload[u].source IN
       IF Writable(s)
         THEN /\ blob' = [blob EXCEPT ![s] = upload[u].content]
              /\ upload' = [upload EXCEPT ![u].at = "recheck"]
         ELSE EndUpload(u) /\ UNCHANGED blob
  /\ UNCHANGED <<retentionVars, row, owners, reader, sweep>>

RecheckUpload(u) ==
  /\ UploadAt(u, "recheck")
  /\ IF Denied(upload[u].source) THEN EndUpload(u)
                                 ELSE upload' = [upload EXCEPT ![u].at = "row"]
  /\ UNCHANGED <<retentionVars, storeVars, reader, sweep>>

PutRow(u) ==
  /\ UploadAt(u, "row")
  /\ LET s == upload[u].source IN
       row' = IF Writable(s) THEN [row EXCEPT ![s] = upload[u].content] ELSE row
  /\ EndUpload(u)
  /\ UNCHANGED <<retentionVars, blob, owners, reader, sweep>>

(* The process dies or a statement fails. *)
LoseUpload(u) ==
  /\ upload[u] # Idle
  /\ EndUpload(u)
  /\ UNCHANGED <<retentionVars, storeVars, reader, sweep>>

-----------------------------------------------------------------------------
(* GuardedSources.get, for a reader that found the row. *)

StartRead(r, s) ==
  /\ reader[r] = Idle
  /\ row[s] # None /\ ~Denied(s)
  /\ reader' = [reader EXCEPT ![r] = [at |-> "fetch", source |-> s, late |-> FALSE]]
  /\ UNCHANGED <<retentionVars, storeVars, upload, sweep>>

ReaderAt(r, place) == reader[r].at = place

Fetch(r) ==
  /\ ReaderAt(r, "fetch")
  /\ LET s == reader[r].source IN
       reader' = [reader EXCEPT ![r] =
         IF blob[s] = None THEN Idle
         ELSE [at |-> "recheck", source |-> s, late |-> Denied(s)]]
  /\ UNCHANGED <<retentionVars, storeVars, upload, sweep>>

\* Mutant: what was fetched is returned.
ReturnUnchecked(r) ==
  /\ ReaderAt(r, "recheck")
  /\ reader' = [reader EXCEPT ![r].at = "returned"]
  /\ UNCHANGED <<retentionVars, storeVars, upload, sweep>>

Return(r) ==
  /\ ReaderAt(r, "recheck")
  /\ reader' = IF Denied(reader[r].source) THEN [reader EXCEPT ![r] = Idle]
                                           ELSE [reader EXCEPT ![r].at = "returned"]
  /\ UNCHANGED <<retentionVars, storeVars, upload, sweep>>

EndRead(r) ==
  /\ ReaderAt(r, "returned")
  /\ reader' = [reader EXCEPT ![r] = Idle]
  /\ UNCHANGED <<retentionVars, storeVars, upload, sweep>>

-----------------------------------------------------------------------------
\* Mutant: a binding does not ask for the record.
BindUnchecked(s) ==
  /\ row[s] # None
  /\ owners[s] < MaxOwners
  /\ owners' = [owners EXCEPT ![s] = @ + 1]
  /\ UNCHANGED <<retentionVars, blob, row, upload, reader, sweep>>

(* bind_sources *)
Bind(s) ==
  /\ row[s] # None /\ Writable(s)
  /\ owners[s] < MaxOwners
  /\ owners' = [owners EXCEPT ![s] = @ + 1]
  /\ UNCHANGED <<retentionVars, blob, row, upload, reader, sweep>>

(* Nothing in the server does it: operators reconcile shared owners. *)
Unbind(s) ==
  /\ owners[s] > 0
  /\ owners' = [owners EXCEPT ![s] = @ - 1]
  /\ UNCHANGED <<retentionVars, blob, row, upload, reader, sweep>>

-----------------------------------------------------------------------------
(* change: one transaction under the path's lock. *)
Change(s, new) ==
  /\ changes < MaxChanges
  /\ changes' = changes + 1
  /\ record' = [record EXCEPT ![s] = new]
  /\ later' = Touched(s)
  /\ UNCHANGED <<failures, storeVars, upload, reader, sweep>>

Deny(s) == Change(s, [record[s] EXCEPT !.denied = TRUE])

(* Only of a source with a catalog row; every row here says backend "pg". *)
DenyAndErase(s) ==
  /\ row[s] # None
  /\ Change(s, [record[s] EXCEPT !.denied = TRUE,
                  !.cleanup = IF @ = "completed" THEN @ ELSE "pending"])

Hold(s) ==
  /\ record[s].cleanup # "completed"
  /\ Change(s, [record[s] EXCEPT !.hold = TRUE])

ReleaseHold(s) == Change(s, [record[s] EXCEPT !.hold = FALSE])

-----------------------------------------------------------------------------
(* sweep: the oldest pending records.  They are cleaned one after the      *)
(* other, here in any order.                                               *)
Oldest ==
  {s \in Sources : Pending(s)
     /\ Cardinality({t \in Sources : Pending(t) /\ s \in later[t]}) < SweepLimit}

StartSweep(n) ==
  /\ sweep[n] = NoSweep
  /\ Oldest # {}
  /\ sweep' = [sweep EXCEPT ![n].todo = Oldest]
  /\ UNCHANGED <<retentionVars, storeVars, upload, reader>>

Swept(n, s) == sweep' = [sweep EXCEPT ![n].todo = @ \ {s}]
Cleaning(n, s) == sweep[n].failed = None /\ s \in sweep[n].todo

\* Mutant: a hold does not block.
BlockedByOwners(s) == owners[s] > 1

Blocked(s) == record[s].hold \/ owners[s] > 1

\* Mutant: a blocked record keeps its age.
KeepBlocked(n, s) ==
  /\ Cleaning(n, s) /\ Pending(s) /\ Blocked(s)
  /\ Swept(n, s)
  /\ UNCHANGED <<retentionVars, storeVars, upload, reader>>

(* The reason is recorded, and with it the time. *)
LeaveBlocked(n, s) ==
  /\ Cleaning(n, s) /\ Pending(s) /\ Blocked(s)
  /\ Swept(n, s)
  /\ later' = Touched(s)
  /\ UNCHANGED <<record, changes, failures, storeVars, upload, reader>>

(* Bytes and completion in one transaction. *)
Erase(n, s) ==
  /\ Cleaning(n, s) /\ Pending(s) /\ ~Blocked(s)
  /\ Swept(n, s)
  /\ blob' = [blob EXCEPT ![s] = None]
  /\ record' = [record EXCEPT ![s].cleanup = "completed"]
  /\ later' = Touched(s)
  /\ UNCHANGED <<changes, failures, row, owners, upload, reader>>

(* Another server was faster. *)
SkipCleaned(n, s) ==
  /\ Cleaning(n, s) /\ ~Pending(s)
  /\ Swept(n, s)
  /\ UNCHANGED <<retentionVars, storeVars, upload, reader>>

FailErase(n, s) ==
  /\ Cleaning(n, s) /\ Pending(s)
  /\ failures < MaxFailures
  /\ failures' = failures + 1
  /\ sweep' = [sweep EXCEPT ![n] = [todo |-> @.todo \ {s}, failed |-> s]]
  /\ UNCHANGED <<record, later, changes, storeVars, upload, reader>>

(* The error is recorded, if the record is still pending. *)
RecordFailure(n) ==
  /\ sweep[n].failed # None
  /\ later' = IF Pending(sweep[n].failed) THEN Touched(sweep[n].failed) ELSE later
  /\ sweep' = [sweep EXCEPT ![n].failed = None]
  /\ UNCHANGED <<record, changes, failures, storeVars, upload, reader>>

(* The server stops, or the error cannot be recorded. *)
EndSweep(n) ==
  /\ sweep[n] # NoSweep
  /\ failures < MaxFailures
  /\ failures' = failures + 1
  /\ sweep' = [sweep EXCEPT ![n] = NoSweep]
  /\ UNCHANGED <<record, later, changes, storeVars, upload, reader>>

Clean(n, s) == LeaveBlocked(n, s) \/ Erase(n, s) \/ SkipCleaned(n, s)
SweepStep(n) == StartSweep(n) \/ RecordFailure(n) \/ \E s \in Sources : Clean(n, s)

-----------------------------------------------------------------------------
UploadStep(u) ==
  \/ \E s \in Sources, c \in Contents : StartUpload(u, s, c)
  \/ PutBytes(u) \/ RecheckUpload(u) \/ PutRow(u) \/ LoseUpload(u)

ReadStep(r) ==
  (\E s \in Sources : StartRead(r, s)) \/ Fetch(r) \/ Return(r) \/ EndRead(r)

OperatorStep(s) ==
  \/ Deny(s) \/ DenyAndErase(s) \/ Hold(s) \/ ReleaseHold(s) \/ Bind(s) \/ Unbind(s)

Next ==
  \/ \E u \in Uploads : UploadStep(u)
  \/ \E r \in Readers : ReadStep(r)
  \/ \E s \in Sources : OperatorStep(s)
  \/ \E n \in Servers : SweepStep(n) \/ EndSweep(n) \/ \E s \in Sources : FailErase(n, s)

Spec == Init /\ [][Next]_vars

(* Every server sweeps again and again. *)
FairSpec == Spec /\ \A n \in Servers : WF_vars(SweepStep(n))

-----------------------------------------------------------------------------
(* "completed" stays true: an upload that passed its check before the      *)
(* denial does not bring the bytes back.                                   *)
ErasedStaysErased ==
  \A s \in Sources : record[s].cleanup = "completed" => blob[s] = None

Protected(s) == record[s].hold \/ owners[s] > 1

(* A hold, or a second owner, that is there first protects the bytes from  *)
(* every sweep under way.                                                  *)
ProtectedBytesStay ==
  [][\A s \in Sources : Protected(s) /\ blob[s] # None => blob'[s] # None]_vars

(* Denial is for ever, and a denied path gains no bytes, row or binding.   *)
DeniedGainsNothing ==
  [][\A s \in Sources : Denied(s) =>
       /\ Denied(s)'
       /\ blob'[s] \in {blob[s], None}
       /\ row'[s] = row[s]
       /\ owners'[s] <= owners[s]]_vars

(* No read returns bytes that it fetched from a path denied by then.       *)
ReadsRespectDenial ==
  \A r \in Readers : ReaderAt(r, "returned") => ~reader[r].late

(* No erasure stays pending that nothing blocks, whatever else is pending. *)
EveryErasureEnds ==
  \A s \in Sources : ~<>[](Pending(s) /\ ~Protected(s))

=============================================================================
