----------------------- MODULE LedgerRefinement_proofs -----------------------
(***************************************************************************)
(* The recoverable registry implements the ledger, for any number of       *)
(* handles, owners, registries, processes and requests; and a session      *)
(* disappears only by its owner's deletion or by expiry.  Both rest on one *)
(* classification of the steps, by what they do to rows and answers.       *)
(***************************************************************************)
EXTENDS RecoverablePlaySessions_proofs

\* A loaded row to be removed was expired, or belongs to who deletes it.
DueInv ==
  \A q \in Requests :
    /\ phase[q] = "expiring" => Expired(snapshot[q], now)
    /\ phase[q] = "removing" => call[q].caller = snapshot[q].owner

\* A log only grows: the row in the table has what the loaded one had.
LogInv ==
  \A q \in Requests :
    snapshot[q] # NoRow /\ rows[call[q].handle] # NoRow =>
      Len(snapshot[q].operations) <= Len(rows[call[q].handle].operations)

LoadedInv == DueInv /\ LogInv

-----------------------------------------------------------------------------
(* The kinds of steps of a request. *)

\* Rows may go, by expiry; none changes.
Prunes ==
  \A h \in Handles :
    \/ rows'[h] = rows[h]
    \/ rows[h] # NoRow /\ rows'[h] = NoRow /\ Expired(rows[h], now)

\* A quota that is named is reached in the table the step leaves.
Warranted(q, tag) ==
  /\ tag = "savedSessionQuotaExceeded" => ~HasRoom(rows', call[q].principal)
  /\ tag = "retainedCommandQuotaExceeded" /\ rows'[call[q].handle] # NoRow =>
       Len(rows'[call[q].handle].operations) >= MaxOperations

Refused(q) ==
  \E tag \in Refusals :
    /\ answer' = [answer EXCEPT ![q] = [tag |-> tag, seen |-> <<>>]]
    /\ Warranted(q, tag)

\* No effect on a log: at most rows that expired go, and q may be refused.
Inert(q) == Prunes /\ (answer' = answer \/ Refused(q))

\* The owner's session goes.
Removal(q) ==
  LET h == call[q].handle
  IN  /\ rows[h] # NoRow
      /\ rows[h].owner = call[q].caller
      /\ rows' = [rows EXCEPT ![h] = NoRow]
      /\ answer' = [answer EXCEPT ![q] = [tag |-> "deleted", seen |-> <<>>]]

\* What a step of q does to what DueInv and IdleInv speak of.
Holds(q) ==
  /\ phase' = [phase EXCEPT ![q] = phase'[q]]
  /\ snapshot' = [snapshot EXCEPT ![q] = snapshot'[q]]
  /\ \/ phase'[q] \notin {"idle", "expiring", "removing"}
     \/ phase'[q] = "expiring" /\ Expired(snapshot'[q], now)
     \/ phase'[q] = "removing" /\ call[q].caller = snapshot'[q].owner

LEMMA PruneExpires ==
  ASSUME TypeOK
  PROVE  \A h \in Handles :
           \/ Unexpired(rows, now)[h] = rows[h]
           \/ /\ rows[h] # NoRow /\ Unexpired(rows, now)[h] = NoRow
              /\ Expired(rows[h], now)
<1> SUFFICES ASSUME NEW h \in Handles, rows[h] # NoRow,
                    rows[h].lastActivity <= now - Retention(rows[h].owner)
             PROVE  Expired(rows[h], now)
  BY DEF Unexpired
<1>1. rows[h].lastActivity \in Nat /\ now \in Nat
  BY DEF TypeOK, Row
<1>2. Retention(rows[h].owner) \in Nat
  BY RegistryAssumption DEF Retention
<1> QED BY <1>1, <1>2 DEF Expired

\* A request settles, enters a phase or tries again.
LEMMA SettleInert ==
  ASSUME TypeOK, NEW q \in Requests, NEW tag \in Refusals, Warranted(q, tag),
         Settle(q, tag, <<>>)
  PROVE  Refused(q) /\ Holds(q)
BY DEF Settle, Refused, Holds, TypeOK

LEMMA AnswerHolds ==
  ASSUME TypeOK, NEW q \in Requests, NEW tag, NEW seen, Answer(q, tag, seen)
  PROVE  Holds(q)
BY DEF Answer, Settle, Holds, TypeOK

LEMMA EnterInert ==
  ASSUME TypeOK, NEW q \in Requests, NEW ph, NEW row, Enter(q, ph, row),
         ph \notin {"idle", "expiring", "removing"}
  PROVE  answer' = answer /\ Holds(q)
BY DEF Enter, Holds, TypeOK

LEMMA RetryInert ==
  ASSUME TypeOK, NEW q \in Requests, NEW ph \in {"queued", "saving"}, Retry(q, ph)
  PROVE  (answer' = answer \/ Refused(q)) /\ Holds(q)
<1>1. CASE attempt[q] + 1 < MaxAttempts
  BY <1>1 DEF Retry, Holds, TypeOK
<1>2. CASE ~(attempt[q] + 1 < MaxAttempts)
  BY <1>2, SettleInert DEF Retry, Refusals, Warranted
<1> QED BY <1>1, <1>2

\* A current row is the row loaded.
LEMMA CurrentRow ==
  ASSUME IInv, NEW q \in Requests, NEW ph \in HoldsRow, AtHead(q, ph), Current(q)
  PROVE  /\ call[q].handle \in Handles /\ rows[call[q].handle] # NoRow
         /\ snapshot[q] = rows[call[q].handle]
BY CallFields
DEF IInv, RequestInv, RevisionIdentifiesRow, Current, AtHead, HoldsRow

-----------------------------------------------------------------------------
(* Action by action. *)

\* What each step of q is: it leaves the logs alone, removes its caller's
\* session, writes a row it has loaded, or makes one.
Kind(q) == Inert(q) \/ Removal(q) \/ Writes(q) \/ Creation(q)

LEMMA RunLedger ==
  ASSUME IInv, LoadedInv, NEW q \in Requests, Run(q)
  PROVE  Kind(q) /\ Holds(q)
<1> USE DEF IInv, Begins, store, Working, Synchronous, Kind, Inert, Refuse, Answer,
        Refusals, Warranted
<1>1. CASE RunUnavailable(q)
  BY <1>1, SettleInert DEF RunUnavailable, Prunes
<1>2. CASE RunFindsExpired(q)
  BY <1>2 DEF RunFindsExpired, Prunes, Enter, Holds, TypeOK
<1>3. CASE DeleteExpired(q)
  <2>1. CASE Current(q)
    <3>1. /\ call[q].handle \in Handles /\ rows[call[q].handle] # NoRow
          /\ snapshot[q] = rows[call[q].handle]
      BY <1>3, <2>1, CurrentRow DEF DeleteExpired, HoldsRow
    <3>2. Expired(rows[call[q].handle], now)
      BY <1>3, <3>1 DEF DeleteExpired, LoadedInv, DueInv, AtHead
    <3>3. Prunes
      BY <1>3, <2>1, <3>1, <3>2 DEF DeleteExpired, Prunes, TypeOK
    <3> QED BY <1>3, <2>1, <3>3, SettleInert DEF DeleteExpired
  <2>2. CASE ~Current(q)
    BY <1>3, <2>2, RetryInert DEF DeleteExpired, Prunes
  <2> QED BY <2>1, <2>2
<1>4. CASE RunThrottled(q)
  BY <1>4, SettleInert DEF RunThrottled, Prunes
<1>5. CASE StartRun(q)
  BY <1>5, EnterInert DEF StartRun, Prunes
<1>6. CASE RebuildFails(q)
  BY <1>6, SettleInert DEF RebuildFails, Prunes
<1>7. CASE OperationFails(q)
  BY <1>7, SettleInert DEF OperationFails, Prunes
<1>8. CASE RunOverQuota(q)
  <2>1. snapshot[q] # NoRow /\ snapshot[q] \in Row /\ call[q] \in Calls
    BY <1>8 DEF RunOverQuota, AtHead, RequestInv, HoldsRow, TypeOK
  <2>2. /\ Len(snapshot[q].operations) \in Nat /\ MaxOperations \in Nat
        /\ Len(snapshot[q].operations) >= MaxOperations
    BY <1>8, <2>1, RegistryAssumption DEF RunOverQuota, CommandQuotaReached, Row
  <2>3. ASSUME rows[call[q].handle] # NoRow
        PROVE  Len(rows[call[q].handle].operations) >= MaxOperations
    <3>1. rows[call[q].handle] \in Row
      BY <2>1, <2>3, CallFields DEF TypeOK
    <3>2. Len(rows[call[q].handle].operations) \in Nat
      BY <3>1 DEF Row
    <3>3. Len(snapshot[q].operations) <= Len(rows[call[q].handle].operations)
      BY <2>1, <2>3 DEF LoadedInv, LogInv
    <3> QED BY <2>2, <3>2, <3>3
  <2>4. Warranted(q, "retainedCommandQuotaExceeded")
    BY <1>8, <2>3 DEF RunOverQuota
  <2> QED BY <1>8, <2>4, SettleInert DEF RunOverQuota, Prunes
<1>9. CASE CommitCommand(q) \/ CommitActivity(q)
  BY <1>9, AnswerHolds DEF CommitCommand, CommitActivity, Writes
<1>10. CASE RunConflict(q)
  BY <1>10, RetryInert DEF RunConflict, Prunes
<1> QED
  BY <1>1, <1>2, <1>3, <1>4, <1>5, <1>6, <1>7, <1>8, <1>9, <1>10 DEF Run

LEMMA SaveLedger ==
  ASSUME IInv, NEW q \in Requests, Save(q)
  PROVE  Kind(q) /\ Holds(q)
<1> USE DEF IInv, Begins, store, Kind, Inert, Refuse, Answer, Refusals,
        Warranted
<1>1. CASE StartSave(q)
  <2>1. Prunes
    BY <1>1, PruneExpires DEF StartSave, Prunes
  <2> QED BY <1>1, <2>1, SettleInert, EnterInert DEF StartSave
<1>2. CASE LoadSave(q)
  <2>1. Prunes
    BY <1>2 DEF LoadSave, Prunes
  <2> QED BY <1>2, <2>1, SettleInert, EnterInert DEF LoadSave
<1>3. CASE CommitSave(q)
  BY <1>3, AnswerHolds DEF CommitSave, Writes
<1>4. CASE MissSave(q)
  BY <1>4, EnterInert DEF MissSave, Prunes
<1>5. CASE SaveOverQuota(q)
  BY <1>5, SettleInert DEF SaveOverQuota, CountsFull, Prunes
<1>6. CASE SaveConflict(q)
  BY <1>6, RetryInert DEF SaveConflict, Prunes
<1>7. CASE RecheckSave(q)
  BY <1>7, EnterInert DEF RecheckSave, Prunes
<1> QED BY <1>1, <1>2, <1>3, <1>4, <1>5, <1>6, <1>7 DEF Save

LEMMA DeleteLedger ==
  ASSUME IInv, LoadedInv, NEW q \in Requests, Delete(q)
  PROVE  Kind(q) /\ Holds(q)
<1> USE DEF IInv, Begins, store, Kind, Inert, Refuse, Answer, Refusals,
        Warranted
<1>1. CASE StartDelete(q)
  <2>1. Prunes
    BY <1>1, PruneExpires DEF StartDelete, Prunes
  <2> QED BY <1>1, <2>1, SettleInert, EnterInert DEF StartDelete
<1>2. CASE LoadDelete(q)
  <2>1. Prunes
    BY <1>2 DEF LoadDelete, Prunes
  <2>2. ASSUME CallerAuthorizes(call[q], rows[call[q].handle]),
               Enter(q, "removing", rows[call[q].handle])
        PROVE  answer' = answer /\ Holds(q)
    BY <2>2 DEF Enter, Holds, TypeOK, CallerAuthorizes
  <2> QED BY <1>2, <2>1, <2>2, SettleInert DEF LoadDelete
<1>3. CASE RemoveSaved(q)
  <2>1. CASE Current(q)
    <3>1. /\ rows[call[q].handle] # NoRow
          /\ snapshot[q] = rows[call[q].handle]
      BY <1>3, <2>1, CurrentRow DEF RemoveSaved, HoldsRow
    <3>2. call[q].caller = rows[call[q].handle].owner
      BY <1>3, <3>1 DEF RemoveSaved, LoadedInv, DueInv, AtHead
    <3>3. Answer(q, "deleted", <<>>)
      BY <1>3, <2>1 DEF RemoveSaved
    <3>4. Removal(q)
      BY <1>3, <2>1, <3>1, <3>2, <3>3 DEF RemoveSaved, Removal, Settle
    <3> QED BY <3>3, <3>4, AnswerHolds
  <2>2. CASE ~Current(q)
    BY <1>3, <2>2, SettleInert DEF RemoveSaved, Prunes
  <2> QED BY <2>1, <2>2
<1> QED BY <1>1, <1>2, <1>3 DEF Delete

LEMMA AtOnceLedger ==
  ASSUME IInv, NEW q \in Requests, AtOnce(q)
  PROVE  Kind(q) /\ Holds(q)
<1> USE DEF IInv, store, Kind, Inert, Refuse, Answer, Refusals,
        Warranted
<1>1. CASE ListSaved(q)
  <2>1. Prunes
    BY <1>1, PruneExpires DEF ListSaved, Prunes
  <2> QED BY <1>1, <2>1, SettleInert DEF ListSaved
<1>2. CASE CreateNeedsEphemeral(q)
  BY <1>2, SettleInert DEF CreateNeedsEphemeral, Prunes
<1>3. CASE \E h \in Handles : Create(q, h)
  BY <1>3, AnswerHolds DEF Create, Creation
<1>4. CASE CreateOverQuota(q)
  <2>1. Prunes
    BY <1>4, PruneExpires DEF CreateOverQuota, Prunes
  <2>2. call[q] \in Calls /\ call[q].kind = "create"
    BY <1>4 DEF CreateOverQuota, Creates, RunsAtOnce, RequestInv
  <2>3. call[q].principal = call[q].caller
    BY <2>2, CallAssumption
  <2>4. ~HasRoom(rows', call[q].principal)
    BY <1>4, <2>3 DEF CreateOverQuota
  <2> QED BY <1>4, <2>1, <2>4, SettleInert DEF CreateOverQuota
<1>5. CASE CreateCollides(q)
  <2>1. Prunes
    BY <1>5, PruneExpires DEF CreateCollides, Prunes
  <2> QED BY <1>5, <2>1, SettleInert DEF CreateCollides
<1> QED BY <1>1, <1>2, <1>3, <1>4, <1>5 DEF AtOnce

\* A request that is served is neither idle nor answered.
LEMMA NotIdle ==
  ASSUME NEW q \in Requests, Serve(q) \/ StorageFails(q)
  PROVE  phase[q] \notin {"idle", "answered"}
<1> USE DEF AtHead, Begins, RunsAtOnce, Working, Synchronous
<1>1. CASE Run(q)
  BY <1>1
  DEF Run, RunUnavailable, RunFindsExpired, DeleteExpired, RunThrottled, StartRun,
      RebuildFails, OperationFails, RunOverQuota, CommitCommand, CommitActivity,
      RunConflict, Admissible
<1>2. CASE Save(q)
  BY <1>2
  DEF Save, StartSave, LoadSave, CommitSave, MissSave, RecheckSave, SaveOverQuota,
      SaveConflict
<1>3. CASE Delete(q)
  BY <1>3 DEF Delete, StartDelete, LoadDelete, RemoveSaved
<1>4. CASE AtOnce(q)
  BY <1>4
  DEF AtOnce, ListSaved, CreateNeedsEphemeral, Create, CreateOverQuota,
      CreateCollides, Creates
<1>5. CASE StorageFails(q)
  BY <1>5 DEF StorageFails, StatementFails, LaterStatementFails, Creates
<1> QED BY <1>1, <1>2, <1>3, <1>4, <1>5 DEF Serve

LEMMA RequestLedger ==
  ASSUME IInv, LoadedInv, NEW q \in Requests, Serve(q) \/ StorageFails(q)
  PROVE  /\ Kind(q) /\ Holds(q)
         /\ call[q] \in Calls /\ answer[q] = Unanswered
<1>1. ASSUME StorageFails(q) PROVE Kind(q) /\ Holds(q)
  <2>1. Prunes
    BY <1>1, FailureFacts, PruneExpires DEF IInv, Prunes
  <2> QED
    BY <1>1, <2>1, FailureFacts, SettleInert
    DEF Refuse, Answer, Refusals, Warranted, IInv, Kind, Inert
<1>2. Kind(q) /\ Holds(q)
  BY <1>1, RunLedger, SaveLedger, DeleteLedger, AtOnceLedger DEF Serve
<1> QED BY <1>2, NotIdle DEF IInv, RequestInv

\* A request carries its call to the end, and takes no time.
LEMMA KeepsCall ==
  ASSUME NEW q \in Requests, Serve(q) \/ StorageFails(q)
  PROVE  call' = call /\ now' = now
<1> USE DEF Begins, store
<1>1. CASE Run(q)
  BY <1>1
  DEF Run, RunUnavailable, RunFindsExpired, DeleteExpired, RunThrottled, StartRun,
      RebuildFails, OperationFails, RunOverQuota, CommitCommand, CommitActivity,
      RunConflict
<1>2. CASE Save(q)
  BY <1>2
  DEF Save, StartSave, LoadSave, CommitSave, MissSave, RecheckSave, SaveOverQuota,
      SaveConflict
<1>3. CASE Delete(q)
  BY <1>3 DEF Delete, StartDelete, LoadDelete, RemoveSaved
<1>4. CASE AtOnce(q)
  BY <1>4
  DEF AtOnce, ListSaved, CreateNeedsEphemeral, Create, CreateOverQuota, CreateCollides
<1>5. CASE StorageFails(q)
  BY <1>5 DEF StorageFails, StatementFails, LaterStatementFails
<1> QED BY <1>1, <1>2, <1>3, <1>4, <1>5 DEF Serve

-----------------------------------------------------------------------------
(* Removals. *)

LEMMA DueStep == IInv /\ LoadedInv /\ [Next]_vars => DueInv'
<1> SUFFICES ASSUME IInv, LoadedInv, [Next]_vars, NEW p \in Requests
             PROVE  DueInv!(p)'
  BY DEF DueInv
<1> USE DEF IInv, LoadedInv, DueInv
<1>1. ASSUME NEW q \in Requests, Holds(q), call' = call, now' = now
      PROVE  DueInv!(p)'
  <2>1. phase \in [Requests -> Phases] /\ snapshot \in [Requests -> Row \cup {NoRow}]
    BY DEF TypeOK
  <2>2. CASE p = q
    BY <1>1, <2>1, <2>2 DEF Holds, Expired, Retention
  <2>3. CASE p # q
    <3>1. phase'[p] = phase[p] /\ snapshot'[p] = snapshot[p]
      BY <1>1, <2>1, <2>3 DEF Holds
    <3> QED BY <1>1, <3>1 DEF Expired, Retention
  <2> QED BY <2>2, <2>3
<1>2. ASSUME NEW q \in Requests, NEW c \in Calls, Issue(q, c)
      PROVE  DueInv!(p)'
  BY <1>2 DEF Issue, TypeOK, Expired, Retention
<1>3. ASSUME NEW host \in Processes, Crash(host)
      PROVE  DueInv!(p)'
  BY <1>3 DEF Crash, TypeOK, Expired, Retention
<1>4. CASE Tick
  <2>1. phase' = phase /\ snapshot' = snapshot /\ call' = call /\ now' = now + 1
    BY <1>4 DEF Tick, progress
  <2>2. ASSUME phase[p] = "expiring" PROVE Expired(snapshot[p], now)'
    <3>1. snapshot[p] \in Row
      BY <2>2 DEF RequestInv, HoldsRow, TypeOK
    <3>2. snapshot[p].lastActivity \in Nat /\ now \in Nat
      BY <3>1 DEF Row, TypeOK
    <3>3. Retention(snapshot[p].owner) \in Nat
      BY RegistryAssumption DEF Retention
    <3>4. Expired(snapshot[p], now)
      BY <2>2
    <3>5. Expired(snapshot[p], now + 1)
      BY <3>2, <3>3, <3>4 DEF Expired
    <3> QED BY <2>1, <3>5 DEF Expired, Retention
  <2> QED BY <2>1, <2>2
<1>5. CASE UNCHANGED vars
  BY <1>5 DEF vars, Expired, Retention
<1> QED
  BY <1>1, <1>2, <1>3, <1>4, <1>5, RequestLedger, KeepsCall DEF Next

LEMMA LogStep == IInv /\ LogInv /\ [Next]_vars => LogInv'
<1> SUFFICES ASSUME IInv, LogInv, [Next]_vars, NEW p \in Requests,
                    snapshot'[p] # NoRow, rows'[call'[p].handle] # NoRow
             PROVE  Len(snapshot'[p].operations) <=
                      Len(rows'[call'[p].handle].operations)
  BY DEF LogInv
<1> USE DEF IInv
<1>1. CASE Quiet
  <2>1. call' = call /\ call[p].handle \in Handles
    BY <1>1, CallFields DEF Quiet, Loads, RequestInv, TypeOK
  <2>2. rows'[call[p].handle] = rows[call[p].handle]
    BY <1>1, <2>1 DEF Quiet, Drops
  <2>3. CASE snapshot'[p] = snapshot[p]
    BY <2>1, <2>2, <2>3 DEF LogInv
  <2>4. CASE snapshot'[p] = rows[call[p].handle]
    <3>1. rows[call[p].handle] \in Row
      BY <2>1, <2>2 DEF TypeOK
    <3>2. Len(rows[call[p].handle].operations) \in Nat
      BY <3>1 DEF Row
    <3> QED BY <2>1, <2>2, <2>4, <3>2
  <2> QED BY <1>1, <2>3, <2>4 DEF Quiet, Loads
<1>2. ASSUME NEW q \in Requests, Writes(q)
      PROVE  Len(snapshot'[p].operations) <= Len(rows'[call'[p].handle].operations)
  <2> DEFINE h == call[q].handle
             log == rows[h].operations
  <2>1. /\ h \in Handles /\ rows[h] \in Row /\ rows[h] # NoRow
        /\ call' = call /\ snapshot' = [snapshot EXCEPT ![q] = NoRow]
        /\ \A g \in Handles \ {h} : rows'[g] = rows[g]
    BY <1>2, WriteFacts
  <2>2. rows'[h].operations \in {log, Append(log, q)}
    BY <1>2, WriteFields
  <2>3. log \in Seq(Requests)
    BY <2>1 DEF Row
  <2>4. Len(log) \in Nat /\ Len(Append(log, q)) = Len(log) + 1
    BY <2>3, AppendFacts
  <2>5. snapshot'[p] = snapshot[p] /\ snapshot[p] \in Row
    BY <2>1 DEF TypeOK
  <2>6. Len(snapshot[p].operations) \in Nat
    BY <2>5 DEF Row
  <2>7. CASE call[p].handle = h
    <3>1. Len(snapshot[p].operations) <= Len(log)
      BY <2>1, <2>5, <2>7 DEF LogInv
    <3>2. Len(log) <= Len(rows'[h].operations)
      <4> HIDE DEF log, h
      <4> QED BY <2>2, <2>4
    <3>3. Len(rows'[h].operations) \in Nat
      <4> HIDE DEF log, h
      <4> QED BY <2>2, <2>4
    <3>4. rows'[call'[p].handle] = rows'[h]
      BY <2>1, <2>7
    <3>5. Len(snapshot[p].operations) <= Len(rows'[h].operations)
      <4> HIDE DEF log, h
      <4> QED BY <2>4, <2>6, <3>1, <3>2, <3>3
    <3> QED BY <2>5, <3>4, <3>5
  <2>8. CASE call[p].handle # h
    <3>1. call[p].handle \in Handles
      BY <2>5, CallFields DEF RequestInv, HoldsRow
    <3>2. rows'[call[p].handle] = rows[call[p].handle]
      BY <2>1, <2>8, <3>1
    <3> QED BY <2>1, <2>5, <3>2 DEF LogInv
  <2> QED BY <2>7, <2>8
<1>3. ASSUME NEW q \in Requests, NEW g \in Handles, Create(q, g)
      PROVE  Len(snapshot'[p].operations) <= Len(rows'[call'[p].handle].operations)
  <2>1. /\ g \notin issued /\ call' = call
        /\ \A h \in Handles \ {g} : rows'[h] \in {rows[h], NoRow}
    BY <1>3, CreateFacts
  <2>2. snapshot'[p] = snapshot[p]
    BY <1>3 DEF Create, Answer, Settle, TypeOK
  <2>3. call[p].handle \in issued /\ call[p].handle \in Handles
    BY <2>2 DEF RequestInv, TypeOK
  <2>4. rows'[call[p].handle] = rows[call[p].handle]
    BY <2>1, <2>3
  <2> QED BY <2>1, <2>2, <2>4 DEF LogInv
<1>4. ASSUME NEW q \in Requests, NEW c \in Calls, Issue(q, c)
      PROVE  Len(snapshot'[p].operations) <= Len(rows'[call'[p].handle].operations)
  <2>1. snapshot' = snapshot /\ rows' = rows
    BY <1>4 DEF Issue, store
  <2>2. p # q
    BY <1>4, <2>1 DEF Issue, RequestInv, HoldsRow
  <2>3. call'[p] = call[p]
    BY <1>4, <2>2 DEF Issue, TypeOK
  <2> QED BY <2>1, <2>3 DEF LogInv
<1> QED BY <1>1, <1>2, <1>3, <1>4, StepKind DEF Creation, Arrival

LEMMA LoadedAlways == Spec => [](IInv /\ LoadedInv)
<1>1. Init => LoadedInv
  BY DEF Init, LoadedInv, DueInv, LogInv
<1>2. IInv /\ LoadedInv /\ [Next]_vars => LoadedInv'
  BY DueStep, LogStep DEF LoadedInv
<1> QED BY <1>1, <1>2, Inductive, PTL DEF Spec

LEMMA WriteCall ==
  ASSUME IInv, NEW q \in Requests, Writes(q)
  PROVE  call[q] \in Calls
BY DEF IInv, RequestInv, Writes, CommitCommand, CommitActivity, CommitSave, AtHead

\* A row that is written stays a row.
LEMMA WriteStays ==
  ASSUME IInv, NEW q \in Requests, Writes(q), NEW h \in Handles,
         rows[h] # NoRow
  PROVE  rows'[h] # NoRow
<1>1. CASE h # call[q].handle
  BY <1>1, WriteFacts
<1>2. CASE h = call[q].handle
  <2> DEFINE row == rows[h]
             Wrote(operations, owner) ==
               [revision |-> row.revision + 1, operations |-> operations,
                owner |-> owner, lastActivity |-> now]
  <2>1. row \in Row /\ now \in Nat
    BY <1>2, WriteFacts DEF IInv, TypeOK
  <2>2. /\ row.revision + 1 \in Nat /\ row.operations \in Seq(Requests)
        /\ row.owner \in Owners
    BY <2>1 DEF Row
  <2>3. Append(row.operations, q) \in Seq(Requests)
    BY <2>2
  <2>4. ASSUME NEW operations \in Seq(Requests), NEW owner \in Owners
        PROVE  Wrote(operations, owner) # NoRow
    BY <2>1, <2>2, AbsenceAssumption DEF Row
  <2>5. CASE rows'[h] = Wrote(Append(row.operations, q), row.owner)
    <3> HIDE DEF Wrote
    <3> QED BY <2>2, <2>3, <2>4, <2>5
  <2>6. CASE rows'[h] = Wrote(row.operations, row.owner)
    <3> HIDE DEF Wrote
    <3> QED BY <2>2, <2>4, <2>6
  <2>7. CASE call[q].kind = "save" /\ rows'[h] = Wrote(row.operations, call[q].principal)
    <3>1. call[q].principal \in Owners
      BY <2>7, CallAssumption, WriteCall DEF Owners
    <3> HIDE DEF Wrote
    <3> QED BY <2>2, <2>4, <2>7, <3>1
  <2>8. \/ rows'[h] = Wrote(Append(row.operations, q), row.owner)
        \/ rows'[h] = Wrote(row.operations, row.owner)
        \/ call[q].kind = "save" /\ rows'[h] = Wrote(row.operations, call[q].principal)
    BY <1>2, WriteFacts
  <2> QED BY <2>5, <2>6, <2>7, <2>8
<1> QED BY <1>1, <1>2

\* A new row ends the life of no row but an expired one.
LEMMA CreateStays ==
  ASSUME IInv, NEW q \in Requests, NEW g \in Handles, Create(q, g),
         NEW h \in Handles, rows[h] # NoRow
  PROVE  h # g /\ (rows'[h] = rows[h] \/ Expired(rows[h], now))
BY CreateFacts, PruneExpires DEF IInv, IssuedInv, Create, TypeOK

\* Every step is of one of these kinds.
LEMMA LedgerKind ==
  ASSUME IInv, LoadedInv, [Next]_vars
  PROVE  \/ \E q \in Requests : /\ Kind(q) /\ call' = call
                                /\ call[q] \in Calls /\ answer[q] = Unanswered
         \/ \E q \in Requests : Arrival(q)
         \/ rows' = rows /\ answer' = answer /\ call' = call
BY RequestLedger, KeepsCall
DEF Next, Arrival, Crash, Tick, vars, store, progress

\* A session disappears only by its owner's deletion or after the inactivity
\* its tenure allows, counted from the activity in the table at that moment
\* (deleteExpired, deleteSaved and the prune before it, each at its WHERE clause).
THEOREM RemovalsAreOwed == Spec => OnlyOwnerOrExpiryRemoves
<1> DEFINE Owed ==
      \A h \in Handles :
        rows[h] # NoRow /\ rows'[h] = NoRow =>
          \/ Expired(rows[h], now)
          \/ \E q \in Requests :
               /\ answer[q] = Unanswered
               /\ answer'[q].tag = "deleted"
               /\ call[q].handle = h
               /\ call[q].caller = rows[h].owner
<1>1. ASSUME IInv, LoadedInv, [Next]_vars
      PROVE  Owed
  <2> SUFFICES ASSUME NEW h \in Handles, rows[h] # NoRow, rows'[h] = NoRow,
                      ~Expired(rows[h], now)
               PROVE  \E q \in Requests :
                        /\ answer[q] = Unanswered
                        /\ answer'[q].tag = "deleted"
                        /\ call[q].handle = h
                        /\ call[q].caller = rows[h].owner
    OBVIOUS
  <2>1. PICK q \in Requests : Kind(q) /\ answer[q] = Unanswered
    BY <1>1, LedgerKind DEF Arrival, Issue, store
  <2>2. ~Inert(q)
    BY DEF Inert, Prunes
  <2>3. ~Writes(q)
    BY <1>1, WriteStays
  <2>4. ~Creation(q)
    BY <1>1, CreateStays DEF Creation
  <2>5. Removal(q)
    BY <2>1, <2>2, <2>3, <2>4 DEF Kind
  <2>6. call[q].handle = h
    BY <1>1, <2>5 DEF Removal, IInv, TypeOK
  <2>7. answer'[q].tag = "deleted"
    BY <1>1, <2>5 DEF Removal, IInv, TypeOK
  <2> QED BY <2>1, <2>5, <2>6, <2>7 DEF Removal
<1> QED
  BY <1>1, LoadedAlways, PTL DEF Spec, OnlyOwnerOrExpiryRemoves

-----------------------------------------------------------------------------
(* The step simulation. *)

\* The ledger's variables under the refinement mapping.
Session(row) ==
  IF row = NoRow THEN NoRow
  ELSE [owner |-> row.owner, operations |-> row.operations]

Sessions == [h \in Handles |-> Session(rows[h])]

Presented(c) ==
  IF c = NoCall THEN NoCall
  ELSE [caller |-> c.caller, principal |-> c.principal, handle |-> c.handle]

Evidence == [q \in Requests |-> Presented(call[q])]

\* A session is there when its row is, and evidence when its call is.
LEMMA Marks ==
  ASSUME TypeOK
  PROVE  /\ \A h \in Handles : rows[h] # NoRow =>
              /\ Session(rows[h]) # NoRow
              /\ Session(rows[h]).owner = rows[h].owner
              /\ Session(rows[h]).operations = rows[h].operations
         /\ \A q \in Requests : call[q] \in Calls =>
              /\ Presented(call[q]) # NoCall
              /\ Presented(call[q]).caller = call[q].caller
              /\ Presented(call[q]).principal = call[q].principal
              /\ Presented(call[q]).handle = call[q].handle
              /\ call[q].handle \in Handles
<1>1. ASSUME NEW h \in Handles, rows[h] # NoRow
      PROVE  [owner |-> rows[h].owner, operations |-> rows[h].operations] # NoRow
  <2>1. rows[h].owner \in Owners /\ rows[h].operations \in Seq(Requests)
    BY <1>1 DEF TypeOK, Row
  <2> QED BY <2>1, AbsenceAssumption
<1>2. ASSUME NEW q \in Requests, call[q] \in Calls
      PROVE  [caller |-> call[q].caller, principal |-> call[q].principal,
              handle |-> call[q].handle] # NoCall
  <2>1. /\ call[q].caller \in Callers /\ call[q].principal \in Callers
        /\ call[q].handle \in Handles
    BY <1>2, CallFields
  <2> QED BY <2>1, AbsenceAssumption
<1>3. ASSUME NEW q \in Requests, call[q] \in Calls
      PROVE  call[q] # NoCall /\ call[q].handle \in Handles
  BY <1>3, CallAssumption, CallFields
<1> QED BY <1>1, <1>2, <1>3 DEF Session, Presented

\* A request with a call and no answer is open in the ledger, and one whose
\* caller owns the row owns the session.
LEMMA OpenInLedger ==
  ASSUME TypeOK, NEW q \in Requests, call[q] \in Calls, answer[q] = Unanswered
  PROVE  /\ Ledger!Open(q)
         /\ \A h \in Handles :
              /\ h = call[q].handle /\ rows[h] # NoRow /\ call[q].caller = rows[h].owner
              => Ledger!Owns(q, h)
<1>1. /\ Presented(call[q]) # NoCall
      /\ Presented(call[q]).caller = call[q].caller
      /\ Presented(call[q]).handle = call[q].handle
      /\ call[q].handle \in Handles
  BY Marks
<1>2. rows[call[q].handle] # NoRow =>
        /\ Session(rows[call[q].handle]) # NoRow
        /\ Session(rows[call[q].handle]).owner = rows[call[q].handle].owner
  BY <1>1, Marks
<1>3. Ledger!Open(q)
  BY <1>1 DEF Ledger!Open, Ledger!Unanswered, Unanswered, Presented
<1> QED BY <1>1, <1>2, <1>3 DEF Ledger!Owns, Session, Presented

\* The ledger counts as the registry does.
LEMMA SameCount == ASSUME NEW S PROVE Ledger!Cardinality(S) = Cardinality(S)
BY DEF Ledger!Cardinality, Cardinality

\* A quota reached in the table is reached in the ledger.
LEMMA WarrantedInLedger ==
  ASSUME TypeOK, NEW q \in Requests, call[q] \in Calls, Prunes,
         NEW tag, Warranted(q, tag)
  PROVE  Ledger!Truthful(q, tag, Sessions')
<1> DEFINE h == call[q].handle
           principal == call[q].principal
<1>1. /\ Evidence[q].principal = principal /\ Evidence[q].handle = h
      /\ h \in Handles
  BY Marks DEF Evidence
<1>2. \A g \in Handles :
        /\ Sessions'[g] = Session(rows'[g])
        /\ rows'[g] = NoRow => Session(rows'[g]) = NoRow
        /\ rows'[g] # NoRow => /\ Session(rows'[g]) # NoRow
                               /\ Session(rows'[g]).owner = rows'[g].owner
                               /\ Session(rows'[g]).operations = rows'[g].operations
  BY Marks DEF Prunes, Sessions, Session
<1>3. ASSUME tag = "savedSessionQuotaExceeded"
      PROVE  Cardinality(Ledger!HeldBy(principal, Sessions')) >= MaxSaved
  <2>1. Ledger!HeldBy(principal, Sessions') = SavedBy(rows', principal)
    <3> HIDE DEF principal
    <3> QED BY <1>2 DEF Ledger!HeldBy, SavedBy, Sessions
  <2>2. IsFiniteSet(SavedBy(rows', principal))
    BY StoredAssumption, FS_Subset DEF SavedBy
  <2>3. Cardinality(SavedBy(rows', principal)) \in Nat /\ MaxSaved \in Nat
    BY <2>2, FS_CardinalityType, RegistryAssumption
  <2>4. ~(Cardinality(SavedBy(rows', principal)) < MaxSaved)
    BY <1>3 DEF Warranted, HasRoom
  <2> QED BY <2>1, <2>3, <2>4
<1>4. ASSUME tag = "retainedCommandQuotaExceeded", Sessions'[h] # NoRow
      PROVE  Len(Sessions'[h].operations) >= MaxOperations
  <2>1. rows'[h] # NoRow /\ Sessions'[h].operations = rows'[h].operations
    BY <1>1, <1>2, <1>4
  <2> QED BY <1>4, <2>1 DEF Warranted
<1>5. ASSUME tag = "savedSessionQuotaExceeded"
      PROVE  Cardinality(Ledger!HeldBy(Evidence[q].principal, Sessions')) >= MaxSaved
  BY <1>1, <1>3, <1>5
<1>6. ASSUME tag = "retainedCommandQuotaExceeded",
             Sessions'[Evidence[q].handle] # NoRow
      PROVE  Len(Sessions'[Evidence[q].handle].operations) >= MaxOperations
  BY <1>1, <1>4, <1>6
<1> QED BY <1>5, <1>6, SameCount DEF Ledger!Truthful, Evidence, Presented

LEMMA InertSimulated ==
  ASSUME TypeOK, NEW q \in Requests, call[q] \in Calls, answer[q] = Unanswered,
         Inert(q), call' = call
  PROVE  Ledger!Cleanup \/ Ledger!Refuse(q)
<1> DEFINE gone == {h \in Handles : rows'[h] # rows[h]}
<1>1. Sessions' = [h \in Handles |-> IF h \in gone THEN NoRow ELSE Sessions[h]]
  BY DEF Inert, Prunes, Sessions, Session
<1>2. \E S \in SUBSET Handles : Sessions' = Ledger!Expire(S)
  <2>1. gone \in SUBSET Handles
    OBVIOUS
  <2>2. Sessions' = Ledger!Expire(gone)
    BY <1>1 DEF Ledger!Expire, Sessions, Session
  <2> QED BY <2>1, <2>2
<1>3. Evidence' = Evidence
  BY DEF Evidence
<1>4. CASE answer' = answer
  BY <1>2, <1>3, <1>4 DEF Ledger!Cleanup, Sessions, Session, Evidence, Presented
<1>5. CASE Refused(q)
  <2>1. PICK tag \in Refusals :
          /\ answer' = [answer EXCEPT ![q] = [tag |-> tag, seen |-> <<>>]]
          /\ Warranted(q, tag)
    BY <1>5 DEF Refused
  <2>2. Ledger!Answer(q, tag, <<>>)
    BY <1>3, <2>1, OpenInLedger DEF Ledger!Answer, Evidence, Presented
  <2>3. Ledger!Truthful(q, tag, Sessions')
    BY <2>1, WarrantedInLedger DEF Inert
  <2> QED BY <1>2, <2>2, <2>3 DEF Ledger!Refuse, Sessions, Session
<1> QED BY <1>4, <1>5 DEF Inert

LEMMA RemovalSimulated ==
  ASSUME TypeOK, NEW q \in Requests, call[q] \in Calls, answer[q] = Unanswered,
         Removal(q), call' = call, NEW h \in Handles, h = call[q].handle
  PROVE  Ledger!Delete(q, h)
<1>1. Ledger!Owns(q, h) /\ Ledger!Open(q)
  BY OpenInLedger DEF Removal
<1>2. Ledger!Answer(q, "deleted", <<>>)
  BY <1>1 DEF Removal, Ledger!Answer
<1>3. Sessions' = [Sessions EXCEPT ![h] = NoRow]
  BY DEF Removal, Sessions, Session, TypeOK
<1> QED BY <1>1, <1>2, <1>3 DEF Ledger!Delete, Sessions, Session

\* Who commits owns the row.
LEMMA WriteOwner ==
  ASSUME IInv, NEW q \in Requests, Writes(q)
  PROVE  call[q].caller = rows[call[q].handle].owner
<1>1. phase[q] \in {"operating", "claiming"}
  BY DEF Writes, CommitCommand, CommitActivity, CommitSave, AtHead
<1> QED BY <1>1, WriteFacts DEF IInv, RequestInv

LEMMA WriteAnswers ==
  ASSUME TypeOK, NEW q \in Requests, Writes(q)
  PROVE  answer' = [answer EXCEPT ![q] = answer'[q]]
BY DEF Writes, CommitCommand, CommitActivity, CommitSave, Answer, Settle, TypeOK

LEMMA WriteSimulated ==
  ASSUME IInv, NEW q \in Requests, Writes(q), NEW h \in Handles, h = call[q].handle
  PROVE  \/ Ledger!Operate(q, h) \/ Ledger!Observe(q, h)
         \/ Ledger!Claim(q, h)
<1> DEFINE row == rows[h]
<1>1. /\ row # NoRow /\ call' = call
      /\ \A g \in Handles \ {h} : rows'[g] = rows[g]
      /\ call[q] \in Calls /\ answer[q] = Unanswered
  BY WriteFacts, WriteCall
<1>2. call[q].caller = row.owner
  BY WriteOwner
<1>3. Ledger!Owns(q, h) /\ Ledger!Open(q)
  BY <1>1, <1>2, OpenInLedger DEF IInv
<1>4. rows'[h] # NoRow
  BY <1>1, WriteStays
<1>5. answer' = [answer EXCEPT ![q] = answer'[q]]
  BY WriteAnswers DEF IInv
<1>6. \A tag, seen :
        answer'[q] = [tag |-> tag, seen |-> seen] => Ledger!Answer(q, tag, seen)
  BY <1>1, <1>3, <1>5 DEF Ledger!Answer
<1>7. /\ Session(row) = [owner |-> row.owner, operations |-> row.operations]
      /\ Session(rows'[h]) =
           [owner |-> rows'[h].owner, operations |-> rows'[h].operations]
  BY <1>1, <1>4 DEF Session
<1>8. Sessions' = [Sessions EXCEPT ![h] = Session(rows'[h])]
  BY <1>1 DEF Sessions, Session
<1>9. CASE /\ rows'[h].owner = row.owner
           /\ rows'[h].operations = Append(row.operations, q)
           /\ answer'[q] = [tag |-> "committed", seen |-> row.operations]
  <2> DEFINE log == Append(row.operations, q)
  <2>1. Session(rows'[h]) = [owner |-> row.owner, operations |-> log]
    BY <1>7, <1>9
  <2>2. Sessions[h] = [owner |-> row.owner, operations |-> row.operations]
    BY <1>1, <1>7 DEF Sessions
  <2>3. Sessions[h].operations = row.operations
    BY <2>2
  <2>4. Append(Sessions[h].operations, q) = log
    BY <2>3
  <2>5. [Sessions[h] EXCEPT !.operations = log] =
          [owner |-> row.owner, operations |-> log]
    <3> HIDE DEF row, log
    <3> QED BY <2>2
  <2>6. Sessions' = [Sessions EXCEPT ![h].operations = log]
    <3> HIDE DEF row, log
    <3> QED BY <1>8, <2>1, <2>5
  <2>7. Sessions' = [Sessions EXCEPT ![h].operations = Append(@, q)]
    <3> HIDE DEF row, log
    <3> QED BY <2>4, <2>6
  <2>8. Ledger!Answer(q, "committed", Sessions[h].operations)
    BY <1>6, <1>9, <2>3
  <2> QED BY <1>3, <2>7, <2>8 DEF Ledger!Operate, Sessions, Session
<1>10. CASE /\ rows'[h].owner = row.owner
            /\ rows'[h].operations = row.operations
            /\ answer'[q] = [tag |-> "observed", seen |-> row.operations]
  <2>1. Sessions' = Sessions
    BY <1>1, <1>7, <1>8, <1>10 DEF Sessions
  <2>2. Sessions[h].operations = row.operations
    BY <1>1, <1>7 DEF Sessions
  <2>3. Ledger!Answer(q, "observed", Sessions[h].operations)
    BY <1>6, <1>10, <2>2
  <2> QED BY <1>3, <2>1, <2>3 DEF Ledger!Observe, Sessions, Session
<1>11. CASE /\ call[q].kind = "save" /\ rows'[h].owner = call[q].principal
            /\ rows'[h].operations = row.operations
            /\ answer'[q] = [tag |-> "saved", seen |-> <<>>]
  <2> DEFINE principal == call[q].principal
  <2>1. Session(rows'[h]) = [owner |-> principal, operations |-> row.operations]
    BY <1>7, <1>11
  <2>2. Sessions[h] = [owner |-> row.owner, operations |-> row.operations]
    BY <1>1, <1>7 DEF Sessions
  <2>3. [Sessions[h] EXCEPT !.owner = principal] =
          [owner |-> principal, operations |-> row.operations]
    BY <2>2
  <2>4. Sessions' = [Sessions EXCEPT ![h].owner = principal]
    <3> HIDE DEF row, principal
    <3> QED BY <1>8, <2>1, <2>3
  <2>5. call[q].principal \in Owners
    BY <1>1, <1>11, CallAssumption DEF Owners
  <2>6. Ledger!Answer(q, "saved", <<>>)
    BY <1>6, <1>11
  <2>7. Presented(call[q]).principal = principal
    BY <1>1, Marks DEF IInv
  <2> HIDE DEF principal
  <2> QED
    BY <1>3, <2>4, <2>5, <2>6, <2>7 DEF Ledger!Claim, Sessions, Session, Presented
<1> QED BY <1>9, <1>10, <1>11, WriteFields

LEMMA CreateSimulated ==
  ASSUME IInv, NEW q \in Requests, NEW h \in Handles, Create(q, h),
         call[q] \in Calls, answer[q] = Unanswered
  PROVE  Ledger!Create(q, h)
<1> DEFINE gone == {g \in Handles \ {h} : rows'[g] # rows[g]}
           new == [owner |-> call[q].caller, operations |-> <<>>]
<1>1. /\ h \notin issued /\ call' = call
      /\ rows'[h] = NewRow(call[q].caller, now)
      /\ \A g \in Handles \ {h} : rows'[g] \in {rows[g], NoRow}
      /\ answer' = [answer EXCEPT ![q] = [tag |-> "created", seen |-> <<>>]]
  BY CreateFacts DEF IInv
<1>2. rows[h] = NoRow
  BY <1>1 DEF IInv, IssuedInv
<1>3. call[q].caller \in Owners
  BY DEF Create, Creates, Owners
<1>4. NewRow(call[q].caller, now) # NoRow
  <2>1. <<>> \in Seq(Requests) /\ now \in Nat /\ 0 \in Nat
    BY DEF IInv, TypeOK
  <2>2. NewRow(call[q].caller, now) \in Row
    BY <1>3, <2>1 DEF NewRow, Row
  <2> QED BY <2>2, AbsenceAssumption
<1>5. Session(rows'[h]) = new
  BY <1>1, <1>4 DEF Session, NewRow
<1>6. Sessions' = [Ledger!Expire(gone) EXCEPT ![h] = new]
  <2>1. \A g \in Handles \ {h} :
          Session(rows'[g]) = IF g \in gone THEN NoRow ELSE Session(rows[g])
    BY <1>1 DEF Session
  <2>2. Sessions' = [g \in Handles |-> IF g = h THEN new ELSE Session(rows'[g])]
    BY <1>5 DEF Sessions, Session
  <2>3. Ledger!Expire(gone) =
          [g \in Handles |-> IF g \in gone THEN NoRow ELSE Session(rows[g])]
    BY DEF Ledger!Expire, Session
  <2> HIDE DEF gone, new
  <2> QED BY <2>1, <2>2, <2>3
<1>7. Presented(call[q]).caller = call[q].caller
  BY Marks DEF IInv
<1>8. Ledger!Open(q)
  BY OpenInLedger DEF IInv
<1>9. Ledger!Answer(q, "created", <<>>)
  BY <1>1, <1>8 DEF Ledger!Answer
<1>10. gone \in SUBSET Handles
  OBVIOUS
<1> QED
  BY <1>2, <1>3, <1>6, <1>7, <1>8, <1>9, <1>10
  DEF Ledger!Create, Sessions, Session, Presented

LEMMA IssueSimulated ==
  ASSUME TypeOK, RequestInv, NEW q \in Requests, NEW c \in Calls, Issue(q, c),
         call[q] = NoCall
  PROVE  Ledger!Issue(q, c.caller, c.principal, c.handle)
<1>1. c # NoCall
  BY CallAssumption
<1>2. call' = [call EXCEPT ![q] = c] /\ rows' = rows /\ answer' = answer
  BY DEF Issue, store
<1>3. Evidence' = [Evidence EXCEPT ![q] =
                     [caller |-> c.caller, principal |-> c.principal,
                      handle |-> c.handle]]
  BY <1>1, <1>2 DEF Evidence, Presented, TypeOK
<1> QED BY <1>2, <1>3 DEF Ledger!Issue, Evidence, Presented

\* A call not issued yet has presented nothing.
IdleInv == \A q \in Requests : phase[q] = "idle" => call[q] = NoCall

LEMMA IdleStep == IInv /\ LoadedInv /\ IdleInv /\ [Next]_vars => IdleInv'
<1> SUFFICES ASSUME IInv, LoadedInv, IdleInv, [Next]_vars, NEW p \in Requests,
                    phase'[p] = "idle"
             PROVE  phase[p] = "idle" /\ call'[p] = call[p]
  BY DEF IdleInv
<1> USE DEF IInv, TypeOK
<1>1. ASSUME NEW q \in Requests, Serve(q) \/ StorageFails(q)
      PROVE  phase[p] = "idle" /\ call'[p] = call[p]
  <2>1. p # q /\ call' = call /\ phase'[p] = phase[p]
    BY <1>1, KeepsCall, RequestLedger DEF Holds
  <2> QED BY <2>1
<1>2. ASSUME NEW q \in Requests, NEW c \in Calls, Issue(q, c)
      PROVE  phase[p] = "idle" /\ call'[p] = call[p]
  BY <1>2 DEF Issue
<1>3. ASSUME NEW host \in Processes, Crash(host)
      PROVE  phase[p] = "idle" /\ call'[p] = call[p]
  BY <1>3 DEF Crash
<1>4. CASE Tick \/ UNCHANGED vars
  BY <1>4 DEF Tick, vars, progress
<1> QED BY <1>1, <1>2, <1>3, <1>4 DEF Next

LEMMA LedgerInit == Init => Ledger!Init
<1> SUFFICES ASSUME Init PROVE Ledger!Init
  OBVIOUS
<1>1. ASSUME NEW h \in Handles
      PROVE  Session(rows[h]) \in {NoRow} \cup [owner : Owners, operations : {<<>>}]
  <2>1. CASE rows[h] = NoRow
    BY <2>1 DEF Session
  <2>2. CASE rows[h] # NoRow
    <3>1. StoredOwner[h] \in Owners /\ rows[h] = NewRow(StoredOwner[h], 0)
      BY <2>2, RegistryAssumption DEF Init
    <3>2. Session(rows[h]) = [owner |-> StoredOwner[h], operations |-> <<>>]
      BY <2>2, <3>1 DEF Session, NewRow
    <3> QED BY <3>1, <3>2
  <2> QED BY <2>1, <2>2
<1>2. Sessions \in [Handles -> {NoRow} \cup [owner : Owners, operations : {<<>>}]]
  BY <1>1 DEF Sessions
<1>3. Evidence = [q \in Requests |-> NoCall]
  BY DEF Init, Evidence, Presented
<1>4. answer = [q \in Requests |-> Ledger!Unanswered]
  BY DEF Init, Unanswered, Ledger!Unanswered
<1> QED BY <1>2, <1>3, <1>4 DEF Ledger!Init, Sessions, Session, Evidence, Presented

LEMMA LedgerStep ==
  IInv /\ LoadedInv /\ IdleInv /\ [Next]_vars => [Ledger!Next]_(Ledger!vars)
<1> SUFFICES ASSUME IInv, LoadedInv, IdleInv, [Next]_vars
             PROVE  Ledger!Next \/ UNCHANGED Ledger!vars
  OBVIOUS
<1>1. ASSUME NEW q \in Requests, Kind(q), call' = call, call[q] \in Calls,
             answer[q] = Unanswered
      PROVE  Ledger!Next
  <2>1. PICK h \in Handles : h = call[q].handle
    BY <1>1, CallFields
  <2>2. CASE Inert(q)
    BY <1>1, <2>2, InertSimulated DEF IInv, Ledger!Next
  <2>3. CASE Removal(q)
    <3>1. Ledger!Delete(q, h)
      BY <1>1, <2>1, <2>3, RemovalSimulated DEF IInv
    <3> QED BY <2>1, <3>1 DEF Ledger!Next
  <2>4. CASE Writes(q)
    <3>1. Ledger!Operate(q, h) \/ Ledger!Observe(q, h) \/ Ledger!Claim(q, h)
      BY <2>1, <2>4, WriteSimulated
    <3> QED BY <2>1, <3>1 DEF Ledger!Next
  <2>5. CASE Creation(q)
    BY <1>1, <2>5, CreateSimulated DEF Creation, Ledger!Next
  <2> QED BY <1>1, <2>2, <2>3, <2>4, <2>5 DEF Kind
<1>2. ASSUME NEW q \in Requests, Arrival(q)
      PROVE  Ledger!Next
  <2>1. PICK c \in Calls : Issue(q, c)
    BY <1>2 DEF Arrival
  <2>2. call[q] = NoCall
    BY <2>1 DEF Issue, IdleInv
  <2>3. c.caller \in Callers /\ c.principal \in Callers /\ c.handle \in Handles
    BY CallFields
  <2> QED BY <2>1, <2>2, <2>3, IssueSimulated DEF IInv, Ledger!Next
<1>3. CASE rows' = rows /\ answer' = answer /\ call' = call
  BY <1>3 DEF Ledger!vars
<1> QED BY <1>1, <1>2, <1>3, LedgerKind

\* The registry on the SQLite repository implements the ledger: with revisions,
\* retries, chains, crashes and several processes on the file, each call is still
\* answered in one atomic step, against the log as it is at that step, and only
\* for the owner of that step (runRecoverableOperation, save, deleteSaved, create).
THEOREM ImplementsLedger == Spec => LedgerSpec
<1>1. Init => IdleInv
  BY DEF Init, IdleInv
<1>2. Spec => [](IInv /\ LoadedInv /\ IdleInv)
  BY <1>1, IdleStep, LoadedAlways, PTL DEF Spec
<1> QED
  BY <1>2, LedgerInit, LedgerStep, PTL DEF Spec, LedgerSpec, Ledger!Spec

=============================================================================
