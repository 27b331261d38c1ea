------------------- MODULE RecoverablePlaySessions_proofs -------------------
(***************************************************************************)
(* What holds of the recoverable registry for any number of handles,       *)
(* owners, registries, processes and requests.                             *)
(***************************************************************************)
EXTENDS RecoverablePlaySessions, FiniteSetTheorems, TLAPS

(***************************************************************************)
(* Where a request stands tells what it holds: the call it carries, its    *)
(* place at the head of its chain, the row it loaded, an open answer and   *)
(* an attempt to spare.                                                    *)
(***************************************************************************)
HoldsRow ==
  {"expiring", "operating", "claiming", "resolving", "counting", "removing"}

RequestInv ==
  \A q \in Requests :
    /\ phase[q] # "idle" => call[q] \in Calls
    /\ phase[q] # "answered" => answer[q] = Unanswered
    /\ phase[q] # "answered" => attempt[q] < MaxAttempts
    /\ phase[q] \in HoldsRow => snapshot[q] # NoRow
    /\ snapshot[q] # NoRow => /\ phase[q] \in HoldsRow
                              /\ call[q].handle \in issued
    /\ phase[q] \in {"operating", "claiming", "resolving", "counting"} =>
         call[q].caller = snapshot[q].owner
    /\ phase[q] \in {"expiring", "operating"} => call[q].kind = "run"
    /\ phase[q] \in {"saving", "claiming", "resolving", "counting"} =>
         call[q].kind = "save"
    /\ phase[q] \in {"deleting", "removing"} => call[q].kind = "delete"

\* A row's handle was issued, and a handle is issued for one row only.
IssuedInv == \A h \in Handles : rows[h] # NoRow => h \in issued

\* An answer that speaks of a session speaks of a handle that was issued.
AnswerInv ==
  \A q \in Requests :
    answer[q].tag \in {"committed", "observed"} =>
      call[q] \in Calls /\ call[q].handle \in issued

LEMMA InitTypeOK == Init => TypeOK
BY RegistryAssumption, CallAssumption
DEF Init, TypeOK, Row, NewRow, RequestWindow, NoWindow, Answers, Unanswered, Phases, Owners

-----------------------------------------------------------------------------
(* Types: first the operators the actions are built from. *)

LEMMA CallFields ==
  ASSUME NEW c \in Calls
  PROVE  /\ c.kind \in Kinds /\ c.handle \in Handles
         /\ c.caller \in Callers /\ c.principal \in Callers
         /\ c.registry \in Registries
BY CallAssumption DEF CallSet

\* Pruning keeps a row as it is or removes it.
LEMMA UnexpiredType ==
  ASSUME TypeOK
  PROVE  /\ Unexpired(rows, now) \in [Handles -> Row \cup {NoRow}]
         /\ \A h \in Handles : Unexpired(rows, now)[h] \in {rows[h], NoRow}
BY DEF TypeOK, Unexpired

LEMMA ChargeType ==
  ASSUME TypeOK, NEW q \in Requests, Charge(q)
  PROVE  windows' \in [Owners -> RequestWindow] /\ charged' \subseteq Requests
<1>. DEFINE k == call[q].principal
            kept == PruneWindows(windows, now)
            current == kept[k]
            new == IF current.count = 0 \/ WindowExpired(current, now)
                   THEN [startedAt |-> now, count |-> 1]
                   ELSE [startedAt |-> current.startedAt,
                         count     |-> current.count + 1]
<1>1. kept \in [Owners -> RequestWindow]
  BY DEF TypeOK, PruneWindows, NoWindow, RequestWindow
<1>2. k \in Owners => new \in RequestWindow
  BY <1>1 DEF TypeOK, RequestWindow
<1>3. [kept EXCEPT ![k] = new] \in [Owners -> RequestWindow]
  BY <1>1, <1>2
<1>4. windows' = IF RateExceeded(windows, k, now) THEN kept
                 ELSE [kept EXCEPT ![k] = new]
  BY DEF Charge, WindowsAfter
<1>. QED
  BY <1>1, <1>3, <1>4 DEF Charge, TypeOK

\* The parts of TypeOK that belong to one request's progress.
ProgressType ==
  /\ operationTails \in [Registries -> [Handles -> Seq(Requests)]]
  /\ phase \in [Requests -> Phases]
  /\ attempt \in [Requests -> 0 .. MaxAttempts]
  /\ snapshot \in [Requests -> Row \cup {NoRow}]
  /\ answer \in [Requests -> Answers]

\* The guards say enough of a request to settle it.
Servable(q) ==
  /\ call[q] \in Calls
  /\ phase[q] \in Working \cup {"queued"}
  /\ call[q].kind \in Chained => TailOf(q) # <<>>

LEMMA SettleType ==
  ASSUME TypeOK, NEW q \in Requests, Servable(q),
         NEW tag \in Refusals \cup Effects, NEW seen \in Seq(Requests),
         Settle(q, tag, seen)
  PROVE  /\ operationTails' \in [Registries -> [Handles -> Seq(Requests)]]
         /\ phase' \in [Requests -> Phases]
         /\ snapshot' \in [Requests -> Row \cup {NoRow}]
         /\ answer' \in [Requests -> Answers]
<1>1. operationTails' \in [Registries -> [Handles -> Seq(Requests)]]
  <2>1. TailOf(q) \in Seq(Requests)
    BY CallFields DEF TypeOK, Servable, TailOf
  <2>2. call[q].kind \in Chained => Tail(TailOf(q)) \in Seq(Requests)
    BY <2>1 DEF Servable
  <2>. QED
    BY <2>2, CallFields DEF Settle, Leaves, TypeOK, Servable, TailOf
<1>2. answer' \in [Requests -> Answers]
  BY DEF Settle, TypeOK, Answers
<1>. QED
  BY <1>1, <1>2 DEF Settle, TypeOK, Phases

LEMMA AnswerType ==
  ASSUME TypeOK, NEW q \in Requests, Servable(q),
         NEW tag \in Refusals \cup Effects, NEW seen \in Seq(Requests),
         Answer(q, tag, seen)
  PROVE  ProgressType'
BY SettleType DEF Answer, ProgressType, TypeOK

LEMMA RefuseType ==
  ASSUME TypeOK, NEW q \in Requests, Servable(q), NEW tag \in Refusals,
         Refuse(q, tag)
  PROVE  ProgressType'
<1>1. Answer(q, tag, <<>>)
  BY DEF Refuse
<1>2. <<>> \in Seq(Requests) /\ tag \in Refusals \cup Effects
  OBVIOUS
<1>. QED
  BY <1>1, <1>2, AnswerType

\* A success without a log to report: saved, deleted, created.
LEMMA EffectType ==
  ASSUME TypeOK, NEW q \in Requests, Servable(q), NEW tag \in Effects,
         Answer(q, tag, <<>>)
  PROVE  ProgressType'
<1>1. <<>> \in Seq(Requests) /\ tag \in Refusals \cup Effects
  OBVIOUS
<1>. QED
  BY <1>1, AnswerType

LEMMA EnterType ==
  ASSUME TypeOK, NEW q \in Requests, NEW ph \in Phases,
         NEW row \in Row \cup {NoRow}, Enter(q, ph, row)
  PROVE  ProgressType'
BY DEF Enter, ProgressType, TypeOK

LEMMA RetryType ==
  ASSUME TypeOK, NEW q \in Requests, Servable(q), attempt[q] < MaxAttempts,
         NEW ph \in Phases, Retry(q, ph)
  PROVE  ProgressType'
<1>1. attempt' \in [Requests -> 0 .. MaxAttempts]
  BY RegistryAssumption DEF Retry, TypeOK
<1>2. CASE attempt[q] + 1 < MaxAttempts
  BY <1>1, <1>2 DEF Retry, ProgressType, TypeOK
<1>3. CASE ~(attempt[q] + 1 < MaxAttempts)
  <2>1. Settle(q, "conflict", <<>>)
    BY <1>3 DEF Retry
  <2>2. <<>> \in Seq(Requests) /\ "conflict" \in Refusals \cup Effects
    BY DEF Refusals
  <2>. QED
    BY <1>1, <2>1, <2>2, SettleType DEF ProgressType
<1>. QED
  BY <1>2, <1>3

-----------------------------------------------------------------------------
(* Types, action by action. *)

LEMMA HeadServable ==
  ASSUME RequestInv, NEW q \in Requests, NEW ph \in Working \cup {"queued"},
         AtHead(q, ph)
  PROVE  Servable(q) /\ attempt[q] < MaxAttempts
BY DEF RequestInv, AtHead, Servable, Working, Synchronous

LEMMA AtOnceServable ==
  ASSUME RequestInv, NEW q \in Requests, NEW kind \in Kinds \ Chained,
         RunsAtOnce(q, kind)
  PROVE  Servable(q) /\ attempt[q] < MaxAttempts
BY DEF RequestInv, RunsAtOnce, Servable

\* The part of TypeOK that is the table and the clock.
StoreType ==
  /\ rows \in [Handles -> Row \cup {NoRow}]
  /\ issued \subseteq Handles
  /\ windows \in [Owners -> RequestWindow]
  /\ now \in Nat
  /\ call \in [Requests -> Calls \cup {NoCall}]
  /\ charged \subseteq Requests

LEMMA TypeParts == TypeOK <=> ProgressType /\ StoreType
BY DEF TypeOK, ProgressType, StoreType

LEMMA TypePartsNext == TypeOK' <=> ProgressType' /\ StoreType'
BY DEF TypeOK, ProgressType, StoreType

LEMMA ChargeOnceType ==
  ASSUME TypeOK, NEW q \in Requests, ChargeOnce(q)
  PROVE  windows' \in [Owners -> RequestWindow] /\ charged' \subseteq Requests
BY ChargeType DEF ChargeOnce, TypeOK, Uncharged

\* What a commit or a save writes is a row.
LEMMA CommittedRowType ==
  ASSUME TypeOK, NEW q \in Requests, snapshot[q] # NoRow
  PROVE  /\ snapshot[q] \in Row
         /\ \A operations \in Seq(Requests) :
              CommittedRow(q, operations) \in Row
<1>1. snapshot[q] \in Row
  BY DEF TypeOK
<1>. QED
  BY <1>1 DEF TypeOK, CommittedRow, Row

LEMMA RunType ==
  ASSUME TypeOK, RequestInv, NEW q \in Requests, Run(q)
  PROVE  TypeOK'
<1>. USE DEF Begins
<1>1. CASE RunUnavailable(q)
  <2>1. Servable(q) /\ Refuse(q, "unavailable")
    BY <1>1, HeadServable DEF RunUnavailable
  <2>2. ProgressType'
    BY <2>1, RefuseType DEF Refusals
  <2>. QED
    BY <1>1, <2>2, TypePartsNext DEF RunUnavailable, StoreType, TypeOK, store, Uncharged
<1>2. CASE RunFindsExpired(q)
  <2>1. ProgressType'
    BY <1>2, HeadServable, CallFields, EnterType
    DEF RunFindsExpired, Servable, Phases, Working, Synchronous, TypeOK
  <2>. QED
    BY <1>2, <2>1, TypePartsNext DEF RunFindsExpired, StoreType, TypeOK, store, Uncharged
<1>3. CASE DeleteExpired(q)
  <2>1. Servable(q) /\ attempt[q] < MaxAttempts
    BY <1>3, HeadServable DEF DeleteExpired, Working, Synchronous
  <2>2. CASE Current(q)
    <3>1. ProgressType'
      BY <1>3, <2>1, <2>2, RefuseType DEF DeleteExpired, Refusals
    <3>. QED
      BY <1>3, <2>2, <3>1, TypePartsNext DEF DeleteExpired, StoreType, TypeOK, Uncharged
  <2>3. CASE ~Current(q)
    <3>1. ProgressType'
      BY <1>3, <2>1, <2>3, RetryType DEF DeleteExpired, Phases
    <3>. QED
      BY <1>3, <2>3, <3>1, TypePartsNext DEF DeleteExpired, StoreType, TypeOK, Uncharged
  <2>. QED
    BY <2>2, <2>3
<1>4. CASE RunThrottled(q)
  <2>1. Servable(q) /\ Refuse(q, "rateExceeded") /\ Charge(q)
    BY <1>4, HeadServable DEF RunThrottled, Admissible
  <2>2. ProgressType'
    BY <2>1, RefuseType DEF Refusals
  <2>. QED
    BY <1>4, <2>1, <2>2, TypePartsNext, ChargeType DEF RunThrottled, StoreType, TypeOK, store
<1>5. CASE StartRun(q)
  <2>1. ProgressType'
    BY <1>5, HeadServable, CallFields, EnterType
    DEF StartRun, Admissible, Servable, Phases, Working, TypeOK
  <2>. QED
    BY <1>5, <2>1, TypePartsNext, ChargeOnceType DEF StartRun, StoreType, TypeOK, store
<1>6. CASE RebuildFails(q)
  <2>1. Servable(q) /\ Refuse(q, "storageFailure")
    BY <1>6, HeadServable DEF RebuildFails, Admissible
  <2>2. ProgressType'
    BY <2>1, RefuseType DEF Refusals
  <2>. QED
    BY <1>6, <2>2, TypePartsNext, ChargeOnceType DEF RebuildFails, StoreType, TypeOK, store
<1>7. CASE OperationFails(q)
  <2>1. Servable(q) /\ Refuse(q, "failed")
    BY <1>7, HeadServable DEF OperationFails, Working
  <2>2. ProgressType'
    BY <2>1, RefuseType DEF Refusals
  <2>. QED
    BY <1>7, <2>2, TypePartsNext DEF OperationFails, StoreType, TypeOK, store, Uncharged
<1>8. CASE RunOverQuota(q)
  <2>1. Servable(q) /\ Refuse(q, "retainedCommandQuotaExceeded")
    BY <1>8, HeadServable DEF RunOverQuota, Working
  <2>2. ProgressType'
    BY <2>1, RefuseType DEF Refusals
  <2>. QED
    BY <1>8, <2>2, TypePartsNext DEF RunOverQuota, StoreType, TypeOK, store, Uncharged
<1>9. CASE CommitCommand(q)
  <2>1. Servable(q) /\ snapshot[q] # NoRow
    BY <1>9, HeadServable DEF CommitCommand, Working, RequestInv, HoldsRow, AtHead
  <2>2. /\ snapshot[q].operations \in Seq(Requests)
        /\ CommittedRow(q, Append(snapshot[q].operations, q)) \in Row
    <3>1. snapshot[q].operations \in Seq(Requests)
      BY <2>1, CommittedRowType DEF Row
    <3>2. Append(snapshot[q].operations, q) \in Seq(Requests)
      BY <3>1
    <3>. QED
      BY <2>1, <3>1, <3>2, CommittedRowType
  <2>3. ProgressType'
    BY <1>9, <2>1, <2>2, AnswerType DEF CommitCommand, Effects
  <2>. QED
    BY <1>9, <2>2, <2>3, TypePartsNext DEF CommitCommand, StoreType, TypeOK, Uncharged
<1>10. CASE CommitActivity(q)
  <2>1. Servable(q) /\ snapshot[q] # NoRow
    BY <1>10, HeadServable DEF CommitActivity, Working, RequestInv, HoldsRow, AtHead
  <2>2. /\ snapshot[q].operations \in Seq(Requests)
        /\ CommittedRow(q, snapshot[q].operations) \in Row
    BY <2>1, CommittedRowType DEF Row
  <2>3. ProgressType'
    BY <1>10, <2>1, <2>2, AnswerType DEF CommitActivity, Effects
  <2>. QED
    BY <1>10, <2>2, <2>3, TypePartsNext DEF CommitActivity, StoreType, TypeOK, Uncharged
<1>11. CASE RunConflict(q)
  <2>1. Servable(q) /\ attempt[q] < MaxAttempts
    BY <1>11, HeadServable DEF RunConflict, Working
  <2>2. ProgressType'
    BY <1>11, <2>1, RetryType DEF RunConflict, Phases
  <2>. QED
    BY <1>11, <2>2, TypePartsNext DEF RunConflict, StoreType, TypeOK, store, Uncharged
<1>. QED
  BY <1>1, <1>2, <1>3, <1>4, <1>5, <1>6, <1>7, <1>8, <1>9, <1>10, <1>11 DEF Run

LEMMA SaveType ==
  ASSUME TypeOK, RequestInv, NEW q \in Requests, Save(q)
  PROVE  TypeOK'
<1>. USE DEF Begins
<1>1. CASE StartSave(q)
  <2>1. Servable(q) /\ Charge(q)
    BY <1>1, HeadServable DEF StartSave
  <2>2. ProgressType'
    BY <1>1, <2>1, RefuseType, EnterType
    DEF StartSave, Refusals, Phases, Working, Synchronous
  <2>. QED
    BY <1>1, <2>1, <2>2, TypePartsNext, ChargeType, UnexpiredType
    DEF StartSave, StoreType, TypeOK
<1>2. CASE LoadSave(q)
  <2>1. Servable(q) /\ rows[call[q].handle] \in Row \cup {NoRow}
    BY <1>2, HeadServable, CallFields
    DEF LoadSave, Servable, Working, Synchronous, TypeOK
  <2>2. ProgressType'
    BY <1>2, <2>1, RefuseType, EnterType
    DEF LoadSave, Refusals, Phases, Working, Synchronous
  <2>. QED
    BY <1>2, <2>2, TypePartsNext DEF LoadSave, StoreType, TypeOK, store, Uncharged
<1>3. CASE CommitSave(q)
  <2>1. /\ Servable(q)
        /\ snapshot[q] # NoRow
        /\ call[q].kind = "save"
    BY <1>3, HeadServable
    DEF CommitSave, Working, Synchronous, RequestInv, HoldsRow, AtHead
  <2>2. call[q].principal \in Owners /\ snapshot[q] \in Row
    BY <2>1, CallAssumption, CommittedRowType DEF Servable, Owners
  <2>3. ProgressType'
    BY <1>3, <2>1, EffectType DEF CommitSave, Effects
  <2>4. [revision     |-> snapshot[q].revision + 1,
         operations   |-> snapshot[q].operations,
         owner        |-> call[q].principal,
         lastActivity |-> now] \in Row
    BY <2>2 DEF Row, TypeOK
  <2>. QED
    BY <1>3, <2>3, <2>4, TypePartsNext DEF CommitSave, StoreType, TypeOK, Uncharged
<1>4. CASE SaveOverQuota(q)
  <2>1. Servable(q) /\ Refuse(q, "savedSessionQuotaExceeded")
    BY <1>4, HeadServable DEF SaveOverQuota, Working, Synchronous
  <2>2. ProgressType'
    BY <2>1, RefuseType DEF Refusals
  <2>. QED
    BY <1>4, <2>2, TypePartsNext DEF SaveOverQuota, StoreType, TypeOK, store, Uncharged
<1>5. CASE SaveConflict(q)
  <2>1. Servable(q) /\ attempt[q] < MaxAttempts
    BY <1>5, HeadServable DEF SaveConflict, Working, Synchronous
  <2>2. ProgressType'
    BY <1>5, <2>1, RetryType DEF SaveConflict, Phases, Working, Synchronous
  <2>. QED
    BY <1>5, <2>2, TypePartsNext DEF SaveConflict, StoreType, TypeOK, store, Uncharged
<1>6. CASE MissSave(q)
  <2>1. snapshot[q] \in Row \cup {NoRow}
    BY DEF TypeOK
  <2>2. ProgressType'
    BY <1>6, <2>1, EnterType DEF MissSave, Phases, Working, Synchronous
  <2>. QED
    BY <1>6, <2>2, TypePartsNext DEF MissSave, StoreType, TypeOK, store, Uncharged
<1>7. CASE RecheckSave(q)
  <2>1. snapshot[q] \in Row \cup {NoRow}
    BY DEF TypeOK
  <2>2. ProgressType'
    BY <1>7, <2>1, EnterType DEF RecheckSave, Phases, Working, Synchronous
  <2>. QED
    BY <1>7, <2>2, TypePartsNext DEF RecheckSave, StoreType, TypeOK, store, Uncharged
<1>. QED
  BY <1>1, <1>2, <1>3, <1>4, <1>5, <1>6, <1>7 DEF Save

LEMMA DeleteType ==
  ASSUME TypeOK, RequestInv, NEW q \in Requests, Delete(q)
  PROVE  TypeOK'
<1>. USE DEF Begins
<1>1. CASE StartDelete(q)
  <2>1. Servable(q) /\ Charge(q)
    BY <1>1, HeadServable DEF StartDelete
  <2>2. ProgressType'
    BY <1>1, <2>1, RefuseType, EnterType
    DEF StartDelete, Refusals, Phases, Working, Synchronous
  <2>. QED
    BY <1>1, <2>1, <2>2, TypePartsNext, ChargeType, UnexpiredType
    DEF StartDelete, StoreType, TypeOK
<1>2. CASE LoadDelete(q)
  <2>1. Servable(q) /\ rows[call[q].handle] \in Row \cup {NoRow}
    BY <1>2, HeadServable, CallFields
    DEF LoadDelete, Servable, Working, Synchronous, TypeOK
  <2>2. ProgressType'
    BY <1>2, <2>1, RefuseType, EnterType
    DEF LoadDelete, Refusals, Phases, Working, Synchronous
  <2>. QED
    BY <1>2, <2>2, TypePartsNext DEF LoadDelete, StoreType, TypeOK, store, Uncharged
<1>3. CASE RemoveSaved(q)
  <2>1. Servable(q)
    BY <1>3, HeadServable DEF RemoveSaved, Working, Synchronous
  <2>2. ProgressType'
    BY <1>3, <2>1, EffectType, RefuseType DEF RemoveSaved, Refusals, Effects
  <2>. QED
    BY <1>3, <2>2, TypePartsNext DEF RemoveSaved, StoreType, TypeOK, Uncharged
<1>. QED
  BY <1>1, <1>2, <1>3 DEF Delete

LEMMA AtOnceType ==
  ASSUME TypeOK, RequestInv, NEW q \in Requests, AtOnce(q)
  PROVE  TypeOK'
<1>. USE DEF Creates, Kinds, Chained
<1>1. CASE ListSaved(q)
  <2>1. Servable(q) /\ Charge(q)
    BY <1>1, AtOnceServable DEF ListSaved
  <2>2. ProgressType'
    BY <1>1, <2>1, RefuseType DEF ListSaved, Refusals
  <2>. QED
    BY <1>1, <2>1, <2>2, TypePartsNext, ChargeType, UnexpiredType
    DEF ListSaved, StoreType, TypeOK
<1>2. CASE CreateNeedsEphemeral(q)
  <2>1. Servable(q) /\ Refuse(q, "ephemeralOnly")
    BY <1>2, AtOnceServable DEF CreateNeedsEphemeral
  <2>2. ProgressType'
    BY <2>1, RefuseType DEF Refusals
  <2>. QED
    BY <1>2, <2>2, TypePartsNext
    DEF CreateNeedsEphemeral, StoreType, TypeOK, store, Uncharged
<1>3. ASSUME NEW h \in Handles, Create(q, h)
      PROVE  TypeOK'
  <2>1. Servable(q)
    BY <1>3, AtOnceServable DEF Create
  <2>2. ProgressType'
    BY <1>3, <2>1, EffectType DEF Create, Effects
  <2>3. NewRow(call[q].caller, now) \in Row
    BY <1>3 DEF Create, NewRow, Row, TypeOK, Owners
  <2>. QED
    BY <1>3, <2>2, <2>3, TypePartsNext, UnexpiredType
    DEF Create, StoreType, TypeOK, Uncharged
<1>4. CASE CreateOverQuota(q)
  <2>1. Servable(q) /\ Refuse(q, "savedSessionQuotaExceeded")
    BY <1>4, AtOnceServable DEF CreateOverQuota
  <2>2. ProgressType'
    BY <2>1, RefuseType DEF Refusals
  <2>. QED
    BY <1>4, <2>2, TypePartsNext, UnexpiredType
    DEF CreateOverQuota, StoreType, TypeOK, Uncharged
<1>5. CASE CreateCollides(q)
  <2>1. Servable(q) /\ Refuse(q, "collision")
    BY <1>5, AtOnceServable DEF CreateCollides
  <2>2. ProgressType'
    BY <2>1, RefuseType DEF Refusals
  <2>. QED
    BY <1>5, <2>2, TypePartsNext, UnexpiredType
    DEF CreateCollides, StoreType, TypeOK, Uncharged
<1>. QED
  BY <1>1, <1>2, <1>3, <1>4, <1>5 DEF AtOnce

\* A statement that throws leaves what the statements before it did.
LEMMA FailureFacts ==
  ASSUME TypeOK, RequestInv, NEW q \in Requests, StorageFails(q)
  PROVE  /\ Servable(q) /\ Refuse(q, "storageFailure")
         /\ issued' = issued /\ now' = now /\ call' = call
         /\ rows' = rows \/ rows' = Unexpired(rows, now)
         /\ Uncharged \/ Charge(q)
<1>1. CASE StatementFails(q)
  BY <1>1, HeadServable, AtOnceServable DEF StatementFails, store
<1>2. CASE LaterStatementFails(q)
  <2>1. Servable(q)
    BY <1>2, HeadServable, AtOnceServable
    DEF LaterStatementFails, Begins, Creates, Kinds, Chained
  <2> QED BY <1>2, <2>1 DEF LaterStatementFails
<1> QED BY <1>1, <1>2 DEF StorageFails

LEMMA StorageFailsType ==
  ASSUME TypeOK, RequestInv, NEW q \in Requests, StorageFails(q)
  PROVE  TypeOK'
<1>1. ProgressType'
  BY FailureFacts, RefuseType DEF Refusals
<1>2. rows' \in [Handles -> Row \cup {NoRow}]
  BY FailureFacts, UnexpiredType DEF TypeOK
<1>3. windows' \in [Owners -> RequestWindow] /\ charged' \subseteq Requests
  BY FailureFacts, ChargeType DEF TypeOK, Uncharged
<1>. QED
  BY <1>1, <1>2, <1>3, FailureFacts, TypePartsNext DEF StoreType, TypeOK

LEMMA IssueType ==
  ASSUME TypeOK, NEW q \in Requests, NEW c \in Calls, Issue(q, c)
  PROVE  TypeOK'
<1>1. operationTails' \in [Registries -> [Handles -> Seq(Requests)]]
  BY CallFields DEF Issue, TypeOK
<1>. QED
  BY <1>1 DEF Issue, TypeOK, store, Phases

LEMMA CrashType ==
  ASSUME TypeOK, NEW p \in Processes, Crash(p)
  PROVE  TypeOK'
<1>1. operationTails' \in [Registries -> [Handles -> Seq(Requests)]]
  BY DEF Crash, TypeOK
<1>. QED
  BY <1>1 DEF Crash, TypeOK, store, Phases

LEMMA TypeStep == TypeOK /\ RequestInv /\ [Next]_vars => TypeOK'
<1>. SUFFICES ASSUME TypeOK, RequestInv, [Next]_vars
              PROVE  TypeOK'
  OBVIOUS
<1>1. CASE \E q \in Requests : (\E c \in Calls : Issue(q, c)) \/ Serve(q)
                                \/ StorageFails(q)
  BY <1>1, IssueType, RunType, SaveType, DeleteType, AtOnceType, StorageFailsType
  DEF Serve
<1>2. CASE \E p \in Processes : Crash(p)
  BY <1>2, CrashType
<1>3. CASE Tick
  BY <1>3 DEF Tick, TypeOK, store, progress
<1>4. CASE UNCHANGED vars
  BY <1>4 DEF vars, TypeOK
<1>. QED
  BY <1>1, <1>2, <1>3, <1>4 DEF Next

-----------------------------------------------------------------------------
(* What requests hold, action by action. *)

\* Every statement of one request but Create keeps the calls and only adds to
\* the handles issued.
Keeps == call' = call /\ issued \subseteq issued'

LEMMA SettleKeeps ==
  ASSUME TypeOK, RequestInv, Keeps, NEW q \in Requests, Servable(q),
         NEW tag, NEW seen, Settle(q, tag, seen),
         \A p \in Requests \ {q} : attempt'[p] = attempt[p]
  PROVE  RequestInv'
<1>. SUFFICES ASSUME NEW p \in Requests
              PROVE  RequestInv!(p)'
  BY DEF RequestInv
<1>1. CASE p = q
  BY <1>1 DEF RequestInv, Keeps, Settle, Servable, TypeOK, HoldsRow
<1>2. CASE p # q
  BY <1>2 DEF RequestInv, Keeps, Settle, TypeOK
<1>. QED
  BY <1>1, <1>2

LEMMA RefuseKeeps ==
  ASSUME TypeOK, RequestInv, Keeps, NEW q \in Requests, Servable(q),
         NEW tag, NEW seen, Answer(q, tag, seen)
  PROVE  RequestInv'
BY SettleKeeps DEF Answer

\* What the phase asks of the request that enters it.
Fits(q, ph, row) ==
  /\ ph \in Working \cup {"queued"}
  /\ row # NoRow <=> ph \in HoldsRow
  /\ row # NoRow => call[q].handle \in issued
  /\ ph \in {"operating", "claiming", "resolving", "counting"} =>
       call[q].caller = row.owner
  /\ ph \in {"expiring", "operating"} => call[q].kind = "run"
  /\ ph \in {"saving", "claiming", "resolving", "counting"} =>
       call[q].kind = "save"
  /\ ph \in {"deleting", "removing"} => call[q].kind = "delete"

LEMMA EnterKeeps ==
  ASSUME TypeOK, RequestInv, Keeps, NEW q \in Requests, Servable(q),
         attempt[q] < MaxAttempts, NEW ph, NEW row, Fits(q, ph, row),
         Enter(q, ph, row)
  PROVE  RequestInv'
<1>. SUFFICES ASSUME NEW p \in Requests
              PROVE  RequestInv!(p)'
  BY DEF RequestInv
<1>1. CASE p = q
  BY <1>1 DEF RequestInv, Keeps, Enter, Servable, TypeOK, Fits, Working, Synchronous
<1>2. CASE p # q
  BY <1>2 DEF RequestInv, Keeps, Enter, TypeOK
<1>. QED
  BY <1>1, <1>2

LEMMA RetryKeeps ==
  ASSUME TypeOK, RequestInv, Keeps, NEW q \in Requests, Servable(q),
         attempt[q] < MaxAttempts, NEW ph, Fits(q, ph, NoRow), Retry(q, ph)
  PROVE  RequestInv'
<1>1. CASE attempt[q] + 1 < MaxAttempts
  <2>. SUFFICES ASSUME NEW p \in Requests
                PROVE  RequestInv!(p)'
    BY DEF RequestInv
  <2>1. CASE p = q
    BY <1>1, <2>1
    DEF RequestInv, Keeps, Retry, Servable, TypeOK, Fits, Working, Synchronous
  <2>2. CASE p # q
    BY <1>1, <2>2 DEF RequestInv, Keeps, Retry, TypeOK
  <2>. QED
    BY <2>1, <2>2
<1>2. CASE ~(attempt[q] + 1 < MaxAttempts)
  BY <1>2, SettleKeeps DEF Retry, TypeOK
<1>. QED
  BY <1>1, <1>2

LEMMA RunKeeps ==
  ASSUME TypeOK, RequestInv, IssuedInv, NEW q \in Requests, Run(q)
  PROVE  RequestInv'
<1>. USE DEF Begins, Keeps, store, Working, Synchronous, HoldsRow
<1>1. CASE RunUnavailable(q)
  BY <1>1, HeadServable, RefuseKeeps DEF RunUnavailable, Refuse
<1>2. CASE RunFindsExpired(q)
  <2>1. Servable(q) /\ attempt[q] < MaxAttempts
    BY <1>2, HeadServable DEF RunFindsExpired
  <2>2. Fits(q, "expiring", rows[call[q].handle])
    BY <1>2, <2>1, CallFields DEF RunFindsExpired, Fits, IssuedInv, Servable
  <2>. QED
    BY <1>2, <2>1, <2>2, EnterKeeps DEF RunFindsExpired
<1>3. CASE DeleteExpired(q)
  <2>1. Servable(q) /\ attempt[q] < MaxAttempts
    BY <1>3, HeadServable DEF DeleteExpired
  <2>2. Fits(q, "queued", NoRow)
    BY DEF Fits
  <2>. QED
    BY <1>3, <2>1, <2>2, RefuseKeeps, RetryKeeps DEF DeleteExpired, Refuse
<1>4. CASE RunThrottled(q)
  BY <1>4, HeadServable, RefuseKeeps DEF RunThrottled, Admissible, Refuse
<1>5. CASE StartRun(q)
  <2>1. Servable(q) /\ attempt[q] < MaxAttempts
    BY <1>5, HeadServable DEF StartRun, Admissible
  <2>2. Fits(q, "operating", rows[call[q].handle])
    BY <1>5, <2>1, CallFields
    DEF StartRun, Admissible, CallerAuthorizes, Fits, IssuedInv, Servable
  <2>. QED
    BY <1>5, <2>1, <2>2, EnterKeeps DEF StartRun
<1>6. CASE RebuildFails(q)
  BY <1>6, HeadServable, RefuseKeeps DEF RebuildFails, Admissible, Refuse
<1>7. CASE OperationFails(q)
  BY <1>7, HeadServable, RefuseKeeps DEF OperationFails, Refuse
<1>8. CASE RunOverQuota(q)
  BY <1>8, HeadServable, RefuseKeeps DEF RunOverQuota, Refuse
<1>9. CASE CommitCommand(q)
  BY <1>9, HeadServable, RefuseKeeps DEF CommitCommand
<1>10. CASE CommitActivity(q)
  BY <1>10, HeadServable, RefuseKeeps DEF CommitActivity
<1>11. CASE RunConflict(q)
  <2>1. Servable(q) /\ attempt[q] < MaxAttempts
    BY <1>11, HeadServable DEF RunConflict
  <2>2. Fits(q, "queued", NoRow)
    BY DEF Fits
  <2>. QED
    BY <1>11, <2>1, <2>2, RetryKeeps DEF RunConflict
<1>. QED
  BY <1>1, <1>2, <1>3, <1>4, <1>5, <1>6, <1>7, <1>8, <1>9, <1>10, <1>11 DEF Run

LEMMA SaveKeeps ==
  ASSUME TypeOK, RequestInv, IssuedInv, NEW q \in Requests, Save(q)
  PROVE  RequestInv'
<1>. USE DEF Begins, Keeps, store, Working, Synchronous, HoldsRow
<1>1. CASE StartSave(q)
  <2>1. Servable(q) /\ attempt[q] < MaxAttempts
    BY <1>1, HeadServable DEF StartSave
  <2>2. Fits(q, "saving", NoRow)
    BY <1>1 DEF StartSave, Fits
  <2>. QED
    BY <1>1, <2>1, <2>2, RefuseKeeps, EnterKeeps DEF StartSave, Refuse
<1>2. CASE LoadSave(q)
  <2>1. Servable(q) /\ attempt[q] < MaxAttempts /\ call[q].kind = "save"
    BY <1>2, HeadServable DEF LoadSave, RequestInv, AtHead
  <2>2. /\ rows[call[q].handle] # NoRow
        /\ CallerAuthorizes(call[q], rows[call[q].handle])
        => Fits(q, "claiming", rows[call[q].handle])
    BY <2>1, CallFields DEF Fits, IssuedInv, Servable, CallerAuthorizes
  <2>. QED
    BY <1>2, <2>1, <2>2, RefuseKeeps, EnterKeeps DEF LoadSave, Refuse
<1>3. CASE CommitSave(q)
  BY <1>3, HeadServable, RefuseKeeps DEF CommitSave
<1>4. CASE SaveOverQuota(q)
  BY <1>4, HeadServable, RefuseKeeps DEF SaveOverQuota, Refuse
<1>5. CASE SaveConflict(q)
  <2>1. Servable(q) /\ attempt[q] < MaxAttempts /\ call[q].kind = "save"
    BY <1>5, HeadServable DEF SaveConflict, RequestInv, AtHead
  <2>2. Fits(q, "saving", NoRow)
    BY <2>1 DEF Fits
  <2>. QED
    BY <1>5, <2>1, <2>2, RetryKeeps DEF SaveConflict
<1>6. CASE MissSave(q)
  <2>1. Servable(q) /\ attempt[q] < MaxAttempts
    BY <1>6, HeadServable DEF MissSave
  <2>2. Fits(q, "resolving", snapshot[q])
    BY <1>6 DEF MissSave, Fits, RequestInv, AtHead
  <2>. QED
    BY <1>6, <2>1, <2>2, EnterKeeps DEF MissSave
<1>7. CASE RecheckSave(q)
  <2>1. Servable(q) /\ attempt[q] < MaxAttempts
    BY <1>7, HeadServable DEF RecheckSave
  <2>2. Fits(q, "counting", snapshot[q])
    BY <1>7 DEF RecheckSave, Fits, RequestInv, AtHead
  <2>. QED
    BY <1>7, <2>1, <2>2, EnterKeeps DEF RecheckSave
<1>. QED
  BY <1>1, <1>2, <1>3, <1>4, <1>5, <1>6, <1>7 DEF Save

LEMMA DeleteKeeps ==
  ASSUME TypeOK, RequestInv, IssuedInv, NEW q \in Requests, Delete(q)
  PROVE  RequestInv'
<1>. USE DEF Begins, Keeps, store, Working, Synchronous, HoldsRow
<1>1. CASE StartDelete(q)
  <2>1. Servable(q) /\ attempt[q] < MaxAttempts
    BY <1>1, HeadServable DEF StartDelete
  <2>2. Fits(q, "deleting", NoRow)
    BY <1>1 DEF StartDelete, Fits
  <2>. QED
    BY <1>1, <2>1, <2>2, RefuseKeeps, EnterKeeps DEF StartDelete, Refuse
<1>2. CASE LoadDelete(q)
  <2>1. Servable(q) /\ attempt[q] < MaxAttempts /\ call[q].kind = "delete"
    BY <1>2, HeadServable DEF LoadDelete, RequestInv, AtHead
  <2>2. rows[call[q].handle] # NoRow => Fits(q, "removing", rows[call[q].handle])
    BY <2>1, CallFields DEF Fits, IssuedInv, Servable
  <2>. QED
    BY <1>2, <2>1, <2>2, RefuseKeeps, EnterKeeps DEF LoadDelete, Refuse
<1>3. CASE RemoveSaved(q)
  BY <1>3, HeadServable, RefuseKeeps DEF RemoveSaved, Refuse
<1>. QED
  BY <1>1, <1>2, <1>3 DEF Delete

LEMMA AtOnceKeeps ==
  ASSUME TypeOK, RequestInv, NEW q \in Requests, AtOnce(q)
  PROVE  RequestInv'
<1>. USE DEF Creates, Kinds, Chained, Keeps, store
<1>1. CASE ListSaved(q)
  BY <1>1, AtOnceServable, RefuseKeeps DEF ListSaved, Refuse
<1>2. CASE CreateNeedsEphemeral(q)
  BY <1>2, AtOnceServable, RefuseKeeps DEF CreateNeedsEphemeral, Refuse
<1>3. CASE \E h \in Handles : Create(q, h)
  BY <1>3, AtOnceServable, RefuseKeeps DEF Create
<1>4. CASE CreateOverQuota(q)
  BY <1>4, AtOnceServable, RefuseKeeps DEF CreateOverQuota, Refuse
<1>5. CASE CreateCollides(q)
  BY <1>5, AtOnceServable, RefuseKeeps DEF CreateCollides, Refuse
<1>. QED
  BY <1>1, <1>2, <1>3, <1>4, <1>5 DEF AtOnce

LEMMA RequestStep ==
  TypeOK /\ RequestInv /\ IssuedInv /\ [Next]_vars => RequestInv'
<1>. SUFFICES ASSUME TypeOK, RequestInv, IssuedInv, [Next]_vars
              PROVE  RequestInv'
  OBVIOUS
<1>1. ASSUME NEW q \in Requests, NEW c \in Calls, Issue(q, c)
      PROVE  RequestInv'
  BY <1>1 DEF Issue, RequestInv, HoldsRow, TypeOK, store
<1>2. ASSUME NEW q \in Requests, Serve(q)
      PROVE  RequestInv'
  BY <1>2, RunKeeps, SaveKeeps, DeleteKeeps, AtOnceKeeps DEF Serve
<1>3. ASSUME NEW q \in Requests, StorageFails(q)
      PROVE  RequestInv'
  BY <1>3, FailureFacts, RefuseKeeps DEF Refuse, Keeps
<1>4. ASSUME NEW p \in Processes, Crash(p)
      PROVE  RequestInv'
  BY <1>4 DEF Crash, RequestInv, HoldsRow, Working, Synchronous, TypeOK, store
<1>5. CASE Tick
  BY <1>5 DEF Tick, RequestInv, store, progress
<1>6. CASE UNCHANGED vars
  BY <1>6 DEF vars, RequestInv
<1>. QED
  BY <1>1, <1>2, <1>3, <1>4, <1>5, <1>6 DEF Next

-----------------------------------------------------------------------------
(* The kinds of steps.  All but five actions are quiet: rows may go but none *)
(* changes, no answer speaks of a log, and what is loaded is in the table.   *)

Drops == issued' = issued /\ \A h \in Handles : rows'[h] \in {rows[h], NoRow}

Silent ==
  \A p \in Requests :
    \/ answer'[p] = answer[p]
    \/ /\ answer[p] = Unanswered
       /\ answer'[p].tag \notin {"committed", "observed"}

Loads ==
  \A p \in Requests :
    \/ snapshot'[p] \in {snapshot[p], NoRow}
    \/ /\ rows' = rows /\ call[p] \in Calls
       /\ snapshot'[p] = rows[call[p].handle]

Quiet == call' = call /\ Drops /\ Silent /\ Loads

Writes(q) == CommitCommand(q) \/ CommitActivity(q) \/ CommitSave(q)

Creation(q) == \E h \in Handles : Create(q, h)

Arrival(q) == \E c \in Calls : Issue(q, c)

\* A request that is answered with a tag that speaks of no log.
LEMMA SettleQuiet ==
  ASSUME TypeOK, RequestInv, NEW q \in Requests, Servable(q),
         NEW tag, tag \notin {"committed", "observed"}, NEW seen,
         Settle(q, tag, seen)
  PROVE  Silent /\ Loads
BY DEF Settle, Silent, Loads, TypeOK, Servable, RequestInv, Working, Synchronous

LEMMA EnterQuiet ==
  ASSUME TypeOK, NEW q \in Requests, Servable(q),
         NEW ph, NEW row, Enter(q, ph, row),
         \/ row \in {NoRow, snapshot[q]}
         \/ rows' = rows /\ row = rows[call[q].handle]
  PROVE  Silent /\ Loads
BY DEF Enter, Silent, Loads, TypeOK, Servable

LEMMA RetryQuiet ==
  ASSUME TypeOK, RequestInv, NEW q \in Requests, Servable(q), NEW ph, Retry(q, ph)
  PROVE  Silent /\ Loads
<1>1. CASE attempt[q] + 1 < MaxAttempts
  BY <1>1 DEF Retry, Silent, Loads, TypeOK
<1>2. CASE ~(attempt[q] + 1 < MaxAttempts)
  BY <1>2, SettleQuiet DEF Retry
<1>. QED
  BY <1>1, <1>2

LEMMA RunKind ==
  ASSUME TypeOK, RequestInv, NEW q \in Requests, Run(q)
  PROVE  Quiet \/ Writes(q)
<1>. USE DEF Begins, store, Working, Synchronous, Quiet, Writes
<1>1. CASE RunUnavailable(q)
  BY <1>1, HeadServable, SettleQuiet DEF RunUnavailable, Refuse, Answer, Drops, TypeOK
<1>2. CASE RunFindsExpired(q)
  BY <1>2, HeadServable, EnterQuiet DEF RunFindsExpired, Drops, TypeOK
<1>3. CASE DeleteExpired(q)
  <2>1. Servable(q)
    BY <1>3, HeadServable DEF DeleteExpired
  <2>2. Drops
    BY <1>3 DEF DeleteExpired, Drops, TypeOK
  <2>3. Silent /\ Loads
    BY <1>3, <2>1, SettleQuiet, RetryQuiet DEF DeleteExpired, Refuse, Answer
  <2>. QED
    BY <1>3, <2>2, <2>3 DEF DeleteExpired
<1>4. CASE RunThrottled(q)
  BY <1>4, HeadServable, SettleQuiet
  DEF RunThrottled, Admissible, Refuse, Answer, Drops, TypeOK
<1>5. CASE StartRun(q)
  BY <1>5, HeadServable, EnterQuiet DEF StartRun, Admissible, Drops, TypeOK
<1>6. CASE RebuildFails(q)
  BY <1>6, HeadServable, SettleQuiet
  DEF RebuildFails, Admissible, Refuse, Answer, Drops, TypeOK
<1>7. CASE OperationFails(q)
  BY <1>7, HeadServable, SettleQuiet DEF OperationFails, Refuse, Answer, Drops, TypeOK
<1>8. CASE RunOverQuota(q)
  BY <1>8, HeadServable, SettleQuiet DEF RunOverQuota, Refuse, Answer, Drops, TypeOK
<1>9. CASE RunConflict(q)
  BY <1>9, HeadServable, RetryQuiet DEF RunConflict, Drops, TypeOK
<1>. QED
  BY <1>1, <1>2, <1>3, <1>4, <1>5, <1>6, <1>7, <1>8, <1>9 DEF Run

LEMMA SaveKind ==
  ASSUME TypeOK, RequestInv, NEW q \in Requests, Save(q)
  PROVE  Quiet \/ Writes(q)
<1>. USE DEF Begins, store, Working, Synchronous, Quiet, Writes
<1>1. CASE StartSave(q)
  <2>1. Drops
    BY <1>1, UnexpiredType DEF StartSave, Drops
  <2>2. CASE Throttled(q)
    BY <1>1, <2>1, <2>2, HeadServable, SettleQuiet DEF StartSave, Refuse, Answer
  <2>3. CASE ~Throttled(q)
    <3>1. Enter(q, "saving", NoRow) /\ call' = call
      BY <1>1, <2>3 DEF StartSave
    <3>2. Silent /\ Loads
      BY <3>1 DEF Enter, Silent, Loads, TypeOK
    <3>. QED
      BY <2>1, <3>1, <3>2
  <2>. QED
    BY <2>2, <2>3
<1>2. CASE LoadSave(q)
  <2>1. Silent /\ Loads
    BY <1>2, HeadServable, SettleQuiet, EnterQuiet DEF LoadSave, Refuse, Answer
  <2>. QED
    BY <1>2, <2>1 DEF LoadSave, Drops
<1>3. CASE SaveOverQuota(q)
  BY <1>3, HeadServable, SettleQuiet DEF SaveOverQuota, Refuse, Answer, Drops, TypeOK
<1>4. CASE SaveConflict(q)
  BY <1>4, HeadServable, RetryQuiet DEF SaveConflict, Drops, TypeOK
<1>5. CASE MissSave(q)
  BY <1>5, HeadServable, EnterQuiet DEF MissSave, Drops, TypeOK
<1>6. CASE RecheckSave(q)
  BY <1>6, HeadServable, EnterQuiet DEF RecheckSave, Drops, TypeOK
<1>. QED
  BY <1>1, <1>2, <1>3, <1>4, <1>5, <1>6 DEF Save

LEMMA DeleteKind ==
  ASSUME TypeOK, RequestInv, NEW q \in Requests, Delete(q)
  PROVE  Quiet
<1>. USE DEF Begins, store, Working, Synchronous, Quiet
<1>1. CASE StartDelete(q)
  <2>1. Drops
    BY <1>1, UnexpiredType DEF StartDelete, Drops
  <2>2. CASE Throttled(q)
    BY <1>1, <2>1, <2>2, HeadServable, SettleQuiet DEF StartDelete, Refuse, Answer
  <2>3. CASE ~Throttled(q)
    <3>1. Enter(q, "deleting", NoRow) /\ call' = call
      BY <1>1, <2>3 DEF StartDelete
    <3>2. Silent /\ Loads
      BY <3>1 DEF Enter, Silent, Loads, TypeOK
    <3>. QED
      BY <2>1, <3>1, <3>2
  <2>. QED
    BY <2>2, <2>3
<1>2. CASE LoadDelete(q)
  <2>1. Silent /\ Loads
    BY <1>2, HeadServable, SettleQuiet, EnterQuiet DEF LoadDelete, Refuse, Answer
  <2>. QED
    BY <1>2, <2>1 DEF LoadDelete, Drops
<1>3. CASE RemoveSaved(q)
  <2>1. Drops
    BY <1>3 DEF RemoveSaved, Drops, TypeOK
  <2>2. Silent /\ Loads
    BY <1>3, HeadServable, SettleQuiet DEF RemoveSaved, Refuse, Answer
  <2>. QED
    BY <1>3, <2>1, <2>2 DEF RemoveSaved
<1>. QED
  BY <1>1, <1>2, <1>3 DEF Delete

LEMMA AtOnceKind ==
  ASSUME TypeOK, RequestInv, NEW q \in Requests, AtOnce(q)
  PROVE  Quiet \/ \E h \in Handles : Create(q, h)
<1>. USE DEF Creates, Kinds, Chained, store, Quiet, Refuse, Answer, Drops
<1>1. CASE ListSaved(q)
  BY <1>1, AtOnceServable, SettleQuiet, UnexpiredType DEF ListSaved
<1>2. CASE CreateNeedsEphemeral(q)
  BY <1>2, AtOnceServable, SettleQuiet DEF CreateNeedsEphemeral
<1>3. CASE CreateOverQuota(q)
  BY <1>3, AtOnceServable, SettleQuiet, UnexpiredType DEF CreateOverQuota
<1>4. CASE CreateCollides(q)
  BY <1>4, AtOnceServable, SettleQuiet, UnexpiredType DEF CreateCollides
<1>. QED
  BY <1>1, <1>2, <1>3, <1>4 DEF AtOnce

\* Every step is of one of four kinds.
LEMMA StepKind ==
  ASSUME TypeOK, RequestInv, [Next]_vars
  PROVE  Quiet \/ \E q \in Requests : Writes(q) \/ Creation(q) \/ Arrival(q)
<1>1. ASSUME NEW q \in Requests, Serve(q)
      PROVE  Quiet \/ Writes(q) \/ Creation(q)
  BY <1>1, RunKind, SaveKind, DeleteKind, AtOnceKind DEF Serve, Creation
<1>2. ASSUME NEW q \in Requests, StorageFails(q)
      PROVE  Quiet
  BY <1>2, FailureFacts, SettleQuiet, UnexpiredType
  DEF Refuse, Answer, Quiet, Drops
<1>3. ASSUME NEW p \in Processes, Crash(p)
      PROVE  Quiet
  BY <1>3 DEF Crash, Quiet, Drops, Silent, Loads, store
<1>4. CASE Tick
  BY <1>4 DEF Tick, Quiet, Drops, Silent, Loads, store, progress
<1>5. CASE UNCHANGED vars
  BY <1>5 DEF vars, Quiet, Drops, Silent, Loads
<1>. QED
  BY <1>1, <1>2, <1>3, <1>4, <1>5 DEF Next, Arrival

-----------------------------------------------------------------------------
(* The inductive invariant. *)

IInv ==
  /\ TypeOK
  /\ RequestInv
  /\ IssuedInv
  /\ AnswerInv
  /\ RevisionIdentifiesRow
  /\ AnswersStand
  /\ OnlyAcknowledgedCommands

LEMMA InitIInv == Init => IInv
<1>. SUFFICES ASSUME Init PROVE IInv
  OBVIOUS
<1>1. TypeOK
  BY InitTypeOK
<1>2. RequestInv
  BY RegistryAssumption DEF Init, RequestInv, HoldsRow
<1>3. IssuedInv /\ AnswerInv /\ RevisionIdentifiesRow /\ AnswersStand
  BY DEF Init, IssuedInv, AnswerInv, RevisionIdentifiesRow, AnswersStand, Unanswered
<1>4. OnlyAcknowledgedCommands
  BY DEF Init, OnlyAcknowledgedCommands, NewRow
<1>. QED
  BY <1>1, <1>2, <1>3, <1>4 DEF IInv

\* A statement that finds the revision it loaded finds the row it loaded, so
\* it writes the successor of the row in the table.
LEMMA WriteFacts ==
  ASSUME IInv, NEW q \in Requests, Writes(q)
  PROVE  LET h == call[q].handle
             row == rows[h]
         IN  /\ h \in Handles /\ row \in Row /\ row # NoRow /\ snapshot[q] = row
             /\ call' = call /\ issued' = issued
             /\ answer[q] = Unanswered
             /\ snapshot' = [snapshot EXCEPT ![q] = NoRow]
             /\ \A g \in Handles \ {h} : rows'[g] = rows[g]
             /\ \A p \in Requests \ {q} : answer'[p] = answer[p]
             /\ \/ /\ CommitCommand(q)
                   /\ row.owner = call[q].caller
                   /\ rows'[h] =
                        [revision |-> row.revision + 1,
                         operations |-> Append(row.operations, q),
                         owner |-> row.owner, lastActivity |-> now]
                   /\ answer'[q] = [tag |-> "committed", seen |-> row.operations]
                \/ /\ CommitActivity(q)
                   /\ rows'[h] =
                        [revision |-> row.revision + 1,
                         operations |-> row.operations,
                         owner |-> row.owner, lastActivity |-> now]
                   /\ answer'[q] = [tag |-> "observed", seen |-> row.operations]
                \/ /\ CommitSave(q)
                   /\ call[q].kind = "save"
                   /\ row.owner = call[q].caller /\ row.owner \in Grants
                   /\ rows'[h] =
                        [revision |-> row.revision + 1,
                         operations |-> row.operations,
                         owner |-> call[q].principal, lastActivity |-> now]
                   /\ answer'[q] = [tag |-> "saved", seen |-> <<>>]
<1>. DEFINE h == call[q].handle
            row == rows[h]
<1>1. Servable(q) /\ AtHead(q, phase[q]) /\ phase[q] \in {"operating", "claiming"}
  BY HeadServable
  DEF IInv, Writes, CommitCommand, CommitActivity, CommitSave, AtHead, Working,
      Synchronous
<1>2. h \in Handles
  BY <1>1, CallFields DEF Servable
<1>3. Current(q)
  BY DEF Writes, CommitCommand, CommitActivity, CommitSave, ClaimMatches
<1>4. snapshot[q] # NoRow /\ answer[q] = Unanswered
  BY <1>1 DEF IInv, RequestInv, HoldsRow
<1>5. snapshot[q] = row /\ row # NoRow /\ row \in Row
  BY <1>2, <1>3, <1>4 DEF IInv, RevisionIdentifiesRow, Current, TypeOK
<1>6. CASE CommitCommand(q)
  <2>1. row.owner = call[q].caller
    BY <1>1, <1>5, <1>6 DEF IInv, RequestInv, CommitCommand, AtHead
  <2>. QED
    BY <1>2, <1>4, <1>5, <1>6, <2>1 DEF CommitCommand, CommittedRow, Answer, Settle, IInv, TypeOK
<1>7. CASE CommitActivity(q)
  BY <1>2, <1>4, <1>5, <1>7 DEF CommitActivity, CommittedRow, Answer, Settle, IInv, TypeOK
<1>8. CASE CommitSave(q)
  <2>1. call[q].kind = "save" /\ row.owner = call[q].caller /\ row.owner \in Grants
    BY <1>1, <1>5, <1>8 DEF IInv, RequestInv, CommitSave, AtHead, ClaimMatches
  <2>. QED
    BY <1>2, <1>4, <1>5, <1>8, <2>1 DEF CommitSave, Answer, Settle, IInv, TypeOK
<1>. QED
  BY <1>6, <1>7, <1>8 DEF Writes

\* The same, column by column.
LEMMA WriteFields ==
  ASSUME IInv, NEW q \in Requests, Writes(q)
  PROVE  LET h == call[q].handle
             row == rows[h]
             row1 == rows'[h]
         IN  /\ row1.revision = row.revision + 1
             /\ \/ /\ row1.owner = row.owner /\ row.owner = call[q].caller
                   /\ row1.operations = Append(row.operations, q)
                   /\ answer'[q] = [tag |-> "committed", seen |-> row.operations]
                \/ /\ row1.owner = row.owner
                   /\ row1.operations = row.operations
                   /\ answer'[q] = [tag |-> "observed", seen |-> row.operations]
                \/ /\ CommitSave(q)
                   /\ call[q].kind = "save" /\ row1.owner = call[q].principal
                   /\ row.owner = call[q].caller /\ row.owner \in Grants
                   /\ row1.operations = row.operations
                   /\ answer'[q] = [tag |-> "saved", seen |-> <<>>]
<1>. DEFINE h == call[q].handle
            row == rows[h]
            row1 == rows'[h]
            Wrote(operations, owner) ==
              [revision |-> row.revision + 1, operations |-> operations,
               owner |-> owner, lastActivity |-> now]
<1>1. CASE /\ row1 = Wrote(Append(row.operations, q), row.owner)
           /\ row.owner = call[q].caller
           /\ answer'[q] = [tag |-> "committed", seen |-> row.operations]
  <2>. DEFINE log == Append(row.operations, q)
  <2>1. row1 = Wrote(log, row.owner)
    BY <1>1
  <2>. HIDE DEF log
  <2>2. /\ row1.revision = row.revision + 1
        /\ row1.owner = row.owner
        /\ row1.operations = log
    BY <2>1
  <2>. QED
    BY <1>1, <2>2 DEF log
<1>2. CASE /\ row1 = Wrote(row.operations, row.owner)
           /\ answer'[q] = [tag |-> "observed", seen |-> row.operations]
  BY <1>2
<1>3. CASE /\ CommitSave(q)
           /\ row1 = Wrote(row.operations, call[q].principal)
           /\ call[q].kind = "save"
           /\ row.owner = call[q].caller /\ row.owner \in Grants
           /\ answer'[q] = [tag |-> "saved", seen |-> <<>>]
  BY <1>3
<1>. QED
  BY <1>1, <1>2, <1>3, WriteFacts

LEMMA QuietIInv ==
  ASSUME IInv, TypeOK', Quiet
  PROVE  /\ IssuedInv' /\ AnswerInv' /\ RevisionIdentifiesRow'
         /\ AnswersStand' /\ OnlyAcknowledgedCommands'
<1>. USE DEF IInv, Quiet
<1>1. IssuedInv'
  BY DEF IssuedInv, Drops
<1>2. AnswerInv'
  BY DEF AnswerInv, Silent, Drops
<1>3. RevisionIdentifiesRow'
  <2>. SUFFICES ASSUME NEW q \in Requests,
                       snapshot'[q] # NoRow, rows'[call[q].handle] # NoRow
                PROVE  /\ snapshot'[q].revision <= rows'[call[q].handle].revision
                       /\ snapshot'[q].revision = rows'[call[q].handle].revision
                            => snapshot'[q] = rows'[call[q].handle]
    BY DEF RevisionIdentifiesRow
  <2>1. call[q].handle \in Handles
    BY CallFields DEF RequestInv, Loads, TypeOK, HoldsRow
  <2>. QED
    BY <2>1 DEF RevisionIdentifiesRow, Drops, Loads, TypeOK, Row
<1>4. AnswersStand'
  <2>. SUFFICES ASSUME NEW q \in Requests,
                       answer'[q].tag \in {"committed", "observed"},
                       rows'[call[q].handle] # NoRow
                PROVE  AnswersStand!(q)'
    BY DEF AnswersStand
  <2>1. answer'[q] = answer[q]
    BY DEF Silent
  <2>2. call[q].handle \in Handles
    BY <2>1, CallFields DEF AnswerInv
  <2>3. rows'[call[q].handle] = rows[call[q].handle]
    BY <2>2 DEF Drops
  <2>. QED
    BY <2>1, <2>3 DEF AnswersStand
<1>5. OnlyAcknowledgedCommands'
  <2>. SUFFICES ASSUME NEW h \in Handles, rows'[h] # NoRow,
                       NEW i \in 1 .. Len(rows'[h].operations)
                PROVE  LET q == rows'[h].operations[i] IN
                       /\ answer'[q].tag = "committed"
                       /\ call[q].handle = h
                       /\ Len(answer'[q].seen) = i - 1
    BY DEF OnlyAcknowledgedCommands
  <2>. DEFINE q == rows[h].operations[i]
  <2>1. rows'[h] = rows[h]
    BY DEF Drops
  <2>2. /\ q \in Requests
        /\ answer[q].tag = "committed"
        /\ call[q].handle = h
        /\ Len(answer[q].seen) = i - 1
    <3>1. rows[h] \in Row /\ i \in 1 .. Len(rows[h].operations)
      BY <2>1 DEF TypeOK
    <3>2. q \in Requests
      BY <3>1 DEF Row
    <3>. QED
      BY <2>1, <3>1, <3>2 DEF OnlyAcknowledgedCommands
  <2>3. answer'[q] = answer[q]
    BY <2>2 DEF Silent, Unanswered
  <2>. QED
    BY <2>1, <2>2, <2>3
<1>. QED
  BY <1>1, <1>2, <1>3, <1>4, <1>5

LEMMA AppendFacts ==
  ASSUME NEW log \in Seq(Requests), NEW q \in Requests
  PROVE  /\ Len(log) \in Nat
         /\ Len(Append(log, q)) = Len(log) + 1
         /\ Append(log, q)[Len(log) + 1] = q
         /\ \A i \in 1 .. Len(log) : Append(log, q)[i] = log[i]
OBVIOUS

\* The step of a request that writes its row.
LEMMA WritesIInv ==
  ASSUME IInv, TypeOK', NEW q \in Requests, Writes(q)
  PROVE  /\ IssuedInv' /\ AnswerInv' /\ RevisionIdentifiesRow'
         /\ AnswersStand' /\ OnlyAcknowledgedCommands'
<1>. DEFINE h == call[q].handle
            row == rows[h]
            row1 == rows'[h]
<1>1. /\ h \in Handles /\ row \in Row /\ row # NoRow /\ snapshot[q] = row
      /\ call' = call /\ issued' = issued /\ answer[q] = Unanswered
      /\ snapshot' = [snapshot EXCEPT ![q] = NoRow]
  BY WriteFacts
<1>2. /\ \A g \in Handles \ {h} : rows'[g] = rows[g]
      /\ \A p \in Requests \ {q} : answer'[p] = answer[p]
  BY WriteFacts
<1>3. /\ row1.revision = row.revision + 1
      /\ \/ /\ answer'[q] = [tag |-> "committed", seen |-> row.operations]
            /\ row1.operations = Append(row.operations, q)
         \/ /\ answer'[q] = [tag |-> "observed", seen |-> row.operations]
            /\ row1.operations = row.operations
         \/ /\ answer'[q] = [tag |-> "saved", seen |-> <<>>]
            /\ row1.operations = row.operations
  BY WriteFields
<1>4. call[q] \in Calls
  BY HeadServable
  DEF IInv, Writes, CommitCommand, CommitActivity, CommitSave, Servable, Working, Synchronous
<1>. HIDE DEF h, row, row1
<1>a. row.operations \in Seq(Requests) /\ row.revision \in Nat
  BY <1>1 DEF Row
<1>b. /\ Len(row.operations) \in Nat /\ Len(row1.operations) \in Nat
      /\ Len(row.operations) <= Len(row1.operations)
      /\ \A i \in 1 .. Len(row.operations) : row1.operations[i] = row.operations[i]
  BY <1>3, <1>a, AppendFacts
<1>c. answer'[q].tag = "committed" =>
        /\ answer'[q].seen = row.operations
        /\ Len(row1.operations) = Len(row.operations) + 1
        /\ row1.operations[Len(row.operations) + 1] = q
  BY <1>3, <1>a, AppendFacts
<1>. USE DEF h, row, row1
<1>5. IssuedInv'
  BY <1>1, <1>2 DEF IInv, IssuedInv
<1>6. AnswerInv'
  BY <1>1, <1>2, <1>4 DEF IInv, AnswerInv, IssuedInv
<1>7. RevisionIdentifiesRow'
  <2>. SUFFICES ASSUME NEW p \in Requests,
                       snapshot'[p] # NoRow, rows'[call[p].handle] # NoRow
                PROVE  /\ snapshot'[p].revision <= rows'[call[p].handle].revision
                       /\ snapshot'[p].revision = rows'[call[p].handle].revision
                            => snapshot'[p] = rows'[call[p].handle]
    BY <1>1 DEF RevisionIdentifiesRow
  <2>1. p # q /\ snapshot'[p] = snapshot[p] /\ snapshot[p] \in Row
    BY <1>1 DEF IInv, TypeOK
  <2>2. call[p].handle \in Handles
    BY <2>1, CallFields DEF IInv, RequestInv, HoldsRow
  <2>3. CASE call[p].handle = h
    <3>1. snapshot[p].revision <= row.revision /\ snapshot[p].revision \in Nat
      BY <1>1, <2>1, <2>3 DEF IInv, RevisionIdentifiesRow, Row
    <3>. QED
      BY <1>3, <1>a, <2>1, <2>3, <3>1
  <2>4. CASE call[p].handle # h
    BY <1>2, <2>1, <2>2, <2>4 DEF IInv, RevisionIdentifiesRow
  <2>. QED
    BY <2>3, <2>4
<1>8. AnswersStand'
  <2>. SUFFICES ASSUME NEW p \in Requests,
                       answer'[p].tag \in {"committed", "observed"},
                       rows'[call[p].handle] # NoRow
                PROVE  AnswersStand!(p)'
    BY <1>1 DEF AnswersStand
  <2>1. CASE p = q
    <3>1. CASE answer'[q].tag = "committed"
      <4>1. answer'[q].seen = row.operations
        BY <1>c, <3>1
      <4>. QED
        BY <1>1, <1>b, <1>c, <2>1, <3>1, <4>1
    <3>2. CASE answer'[q].tag # "committed"
      <4>1. answer'[q].seen = row.operations
        BY <1>3, <2>1, <3>2
      <4>. QED
        BY <1>1, <1>b, <2>1, <3>2, <4>1
    <3>. QED
      BY <3>1, <3>2
  <2>2. CASE p # q
    <3>1. answer'[p] = answer[p] /\ call[p].handle \in Handles
      BY <1>2, <2>2, CallFields DEF IInv, AnswerInv
    <3>2. CASE call[p].handle = h
      <4>1. /\ Len(answer[p].seen) <= Len(row.operations)
            /\ \A i \in 1 .. Len(answer[p].seen) :
                 row.operations[i] = answer[p].seen[i]
            /\ answer[p].tag = "committed" =>
                 /\ Len(answer[p].seen) < Len(row.operations)
                 /\ row.operations[Len(answer[p].seen) + 1] = p
        BY <1>1, <3>1, <3>2 DEF IInv, AnswersStand
      <4>2. Len(answer[p].seen) \in Nat
        BY DEF IInv, TypeOK, Answers
      <4>. HIDE DEF row, row1
      <4>3. /\ Len(answer[p].seen) <= Len(row1.operations)
            /\ \A i \in 1 .. Len(answer[p].seen) :
                 row1.operations[i] = answer[p].seen[i]
            /\ answer[p].tag = "committed" =>
                 /\ Len(answer[p].seen) < Len(row1.operations)
                 /\ row1.operations[Len(answer[p].seen) + 1] = p
        <5>1. Len(answer[p].seen) <= Len(row1.operations)
          BY <1>b, <4>1, <4>2
        <5>2. ASSUME NEW i \in 1 .. Len(answer[p].seen)
              PROVE  row1.operations[i] = answer[p].seen[i]
          BY <1>b, <4>1, <4>2
        <5>3. ASSUME answer[p].tag = "committed"
              PROVE  /\ Len(answer[p].seen) < Len(row1.operations)
                     /\ row1.operations[Len(answer[p].seen) + 1] = p
          <6>1. Len(answer[p].seen) + 1 \in 1 .. Len(row.operations)
            BY <1>b, <4>1, <4>2, <5>3
          <6>. QED
            BY <1>b, <4>1, <4>2, <5>3, <6>1
        <5>. QED
          BY <5>1, <5>2, <5>3
      <4>. QED
        BY <1>1, <3>1, <3>2, <4>3 DEF row1
    <3>3. CASE call[p].handle # h
      BY <1>1, <1>2, <3>1, <3>3 DEF IInv, AnswersStand
    <3>. QED
      BY <3>2, <3>3
  <2>. QED
    BY <2>1, <2>2
<1>9. OnlyAcknowledgedCommands'
  <2>. SUFFICES ASSUME NEW g \in Handles, rows'[g] # NoRow,
                       NEW i \in 1 .. Len(rows'[g].operations)
                PROVE  LET p == rows'[g].operations[i] IN
                       /\ answer'[p].tag = "committed"
                       /\ call[p].handle = g
                       /\ Len(answer'[p].seen) = i - 1
    BY <1>1 DEF OnlyAcknowledgedCommands
  <2>. DEFINE p == rows[g].operations[i]
  <2>1. rows[g] \in Row /\ rows[g] # NoRow
    BY <1>1, <1>2 DEF IInv, TypeOK
  <2>2. ASSUME i \in 1 .. Len(rows[g].operations)
        PROVE  /\ p \in Requests /\ call[p].handle = g
               /\ answer'[p].tag = "committed"
               /\ Len(answer'[p].seen) = i - 1
    <3>1. p \in Requests
      BY <2>1, <2>2 DEF Row
    <3>2. /\ answer[p].tag = "committed" /\ call[p].handle = g
          /\ Len(answer[p].seen) = i - 1
      BY <2>1, <2>2 DEF IInv, OnlyAcknowledgedCommands
    <3>. QED
      BY <1>1, <1>2, <3>1, <3>2 DEF Unanswered
  <2>3. CASE rows'[g].operations = rows[g].operations
    BY <2>2, <2>3
  <2>4. CASE g = h /\ answer'[q] = [tag |-> "committed", seen |-> row.operations]
                  /\ row1.operations = Append(row.operations, q)
    <3>1. row.operations \in Seq(Requests)
      BY <1>1 DEF Row
    <3>2. CASE i = Len(row.operations) + 1
      <4>1. rows'[g].operations[i] = q
        BY <1>c, <2>4, <3>2
      <4>2. Len(answer'[q].seen) = i - 1 /\ answer'[q].tag = "committed"
        BY <1>b, <2>4, <3>2
      <4>. QED
        BY <2>4, <4>1, <4>2
    <3>3. CASE i # Len(row.operations) + 1
      <4>1. i \in 1 .. Len(row.operations) /\ rows'[g].operations[i] = p
        BY <1>b, <1>c, <2>4, <3>3
      <4>. QED
        BY <2>2, <2>4, <4>1
    <3>. QED
      BY <3>2, <3>3
  <2>. QED
    BY <1>2, <1>3, <2>3, <2>4
<1>. QED
  BY <1>5, <1>6, <1>7, <1>8, <1>9

\* A new row stands behind a handle nobody has loaded or been answered about.
LEMMA CreateFacts ==
  ASSUME TypeOK, NEW q \in Requests, NEW h \in Handles, Create(q, h)
  PROVE  /\ h \notin issued /\ issued' = issued \cup {h} /\ call' = call
         /\ rows'[h] = NewRow(call[q].caller, now)
         /\ \A g \in Handles \ {h} : rows'[g] \in {rows[g], NoRow}
         /\ snapshot' = [snapshot EXCEPT ![q] = NoRow]
         /\ answer' = [answer EXCEPT ![q] = [tag |-> "created", seen |-> <<>>]]
BY UnexpiredType DEF Create, Answer, Settle, TypeOK

LEMMA CreateIInv ==
  ASSUME IInv, TypeOK', NEW q \in Requests, NEW h \in Handles, Create(q, h)
  PROVE  /\ IssuedInv' /\ AnswerInv' /\ RevisionIdentifiesRow'
         /\ AnswersStand' /\ OnlyAcknowledgedCommands'
<1>1. /\ h \notin issued /\ issued' = issued \cup {h} /\ call' = call
      /\ rows'[h].operations = <<>>
      /\ \A g \in Handles \ {h} : rows'[g] \in {rows[g], NoRow}
      /\ \A p \in Requests : snapshot'[p] \in {snapshot[p], NoRow}
      /\ \A p \in Requests \ {q} : answer'[p] = answer[p]
      /\ answer'[q].tag = "created"
  BY CreateFacts DEF IInv, TypeOK, NewRow
<1>2. answer[q] = Unanswered
  BY AtOnceServable
  DEF IInv, RequestInv, Create, Creates, RunsAtOnce
<1>3. IssuedInv'
  BY <1>1 DEF IInv, IssuedInv
<1>4. AnswerInv'
  BY <1>1 DEF IInv, AnswerInv
<1>5. RevisionIdentifiesRow'
  <2>. SUFFICES ASSUME NEW p \in Requests,
                       snapshot'[p] # NoRow, rows'[call[p].handle] # NoRow
                PROVE  /\ snapshot'[p].revision <= rows'[call[p].handle].revision
                       /\ snapshot'[p].revision = rows'[call[p].handle].revision
                            => snapshot'[p] = rows'[call[p].handle]
    BY <1>1 DEF RevisionIdentifiesRow
  <2>1. snapshot'[p] = snapshot[p] /\ call[p].handle \in issued
    BY <1>1 DEF IInv, RequestInv
  <2>2. rows'[call[p].handle] = rows[call[p].handle]
    BY <1>1, <2>1 DEF IInv, TypeOK
  <2>. QED
    BY <2>1, <2>2 DEF IInv, RevisionIdentifiesRow
<1>6. AnswersStand'
  <2>. SUFFICES ASSUME NEW p \in Requests,
                       answer'[p].tag \in {"committed", "observed"},
                       rows'[call[p].handle] # NoRow
                PROVE  AnswersStand!(p)'
    BY <1>1 DEF AnswersStand
  <2>1. answer'[p] = answer[p] /\ call[p].handle \in issued
    BY <1>1 DEF IInv, AnswerInv
  <2>2. rows'[call[p].handle] = rows[call[p].handle]
    BY <1>1, <2>1 DEF IInv, TypeOK
  <2>. QED
    BY <1>1, <2>1, <2>2 DEF IInv, AnswersStand
<1>7. OnlyAcknowledgedCommands'
  <2>. SUFFICES ASSUME NEW g \in Handles, rows'[g] # NoRow,
                       NEW i \in 1 .. Len(rows'[g].operations)
                PROVE  LET p == rows'[g].operations[i] IN
                       /\ answer'[p].tag = "committed"
                       /\ call[p].handle = g
                       /\ Len(answer'[p].seen) = i - 1
    BY <1>1 DEF OnlyAcknowledgedCommands
  <2>. DEFINE p == rows[g].operations[i]
  <2>1. g # h
    BY <1>1
  <2>2. rows'[g] = rows[g] /\ rows[g] \in Row
    BY <1>1, <2>1 DEF IInv, TypeOK
  <2>3. p \in Requests
    BY <2>2 DEF Row
  <2>4. /\ answer[p].tag = "committed" /\ call[p].handle = g
        /\ Len(answer[p].seen) = i - 1
    BY <2>2 DEF IInv, OnlyAcknowledgedCommands
  <2>5. answer'[p] = answer[p]
    BY <1>1, <1>2, <2>3, <2>4 DEF Unanswered
  <2>. QED
    BY <2>2, <2>4, <2>5
<1>. QED
  BY <1>3, <1>4, <1>5, <1>6, <1>7

\* A request that arrives carries nothing yet.
LEMMA IssueIInv ==
  ASSUME IInv, NEW q \in Requests, NEW c \in Calls, Issue(q, c)
  PROVE  /\ IssuedInv' /\ AnswerInv' /\ RevisionIdentifiesRow'
         /\ AnswersStand' /\ OnlyAcknowledgedCommands'
<1>1. /\ rows' = rows /\ issued' = issued /\ answer' = answer
      /\ snapshot' = snapshot
      /\ \A p \in Requests \ {q} : call'[p] = call[p]
  BY DEF Issue, IInv, TypeOK, store
<1>2. answer[q] = Unanswered /\ snapshot[q] = NoRow
  BY DEF Issue, IInv, RequestInv, HoldsRow
<1>3. IssuedInv' /\ AnswerInv' /\ RevisionIdentifiesRow' /\ AnswersStand'
  BY <1>1, <1>2
  DEF IInv, IssuedInv, AnswerInv, RevisionIdentifiesRow, AnswersStand, Unanswered
<1>4. OnlyAcknowledgedCommands'
  <2>. SUFFICES ASSUME NEW h \in Handles, rows[h] # NoRow,
                       NEW i \in 1 .. Len(rows[h].operations)
                PROVE  LET p == rows[h].operations[i] IN
                       /\ answer[p].tag = "committed"
                       /\ call'[p].handle = h
                       /\ Len(answer[p].seen) = i - 1
    BY <1>1 DEF OnlyAcknowledgedCommands
  <2>. DEFINE p == rows[h].operations[i]
  <2>1. rows[h] \in Row
    BY DEF IInv, TypeOK
  <2>2. p \in Requests
    BY <2>1 DEF Row
  <2>3. /\ answer[p].tag = "committed" /\ call[p].handle = h
        /\ Len(answer[p].seen) = i - 1
    BY DEF IInv, OnlyAcknowledgedCommands
  <2>4. call'[p] = call[p]
    BY <1>1, <1>2, <2>2, <2>3 DEF Unanswered
  <2>. QED
    BY <2>3, <2>4
<1>. QED
  BY <1>3, <1>4

LEMMA StepIInv == IInv /\ [Next]_vars => IInv'
<1>. SUFFICES ASSUME IInv, [Next]_vars
              PROVE  IInv'
  OBVIOUS
<1>1. TypeOK' /\ RequestInv'
  BY TypeStep, RequestStep DEF IInv
<1>2. CASE Quiet
  BY <1>1, <1>2, QuietIInv DEF IInv
<1>3. ASSUME NEW q \in Requests, Writes(q)
      PROVE  IInv'
  BY <1>1, <1>3, WritesIInv DEF IInv
<1>4. ASSUME NEW q \in Requests, Creation(q)
      PROVE  IInv'
  BY <1>1, <1>4, CreateIInv DEF IInv, Creation
<1>5. ASSUME NEW q \in Requests, Arrival(q)
      PROVE  IInv'
  BY <1>1, <1>5, IssueIInv DEF IInv, Arrival
<1>. QED
  BY <1>2, <1>3, <1>4, <1>5, StepKind DEF IInv

-----------------------------------------------------------------------------
(* Theorems. *)

\* The inductive invariant holds of the registry, for any number of handles,
\* processes, registries and requests.
THEOREM Inductive == Spec => []IInv
BY InitIInv, StepIInv, PTL DEF Spec

\* Every variable keeps its type: no row, chain or answer is ever malformed,
\* and no request is retried more often than MAX_CONCURRENT_COMMIT_ATTEMPTS.
THEOREM TypeCorrect == Spec => []TypeOK
<1>1. IInv => TypeOK
  BY DEF IInv
<1>. QED
  BY <1>1, Inductive, PTL

\* The revision of the row is enough for the WHERE clauses: a loaded row whose
\* revision still matches is the row in the table, in every column.
THEOREM RevisionIdentifies == Spec => []RevisionIdentifiesRow
<1>1. IInv => RevisionIdentifiesRow
  BY DEF IInv
<1>. QED
  BY <1>1, Inductive, PTL

\* No acknowledged command of runRecoverableOperation is lost, doubled or
\* moved, and every answer was computed on what stands first in the row.
THEOREM AnswersAreKept == Spec => []AnswersStand
<1>1. IInv => AnswersStand
  BY DEF IInv
<1>. QED
  BY <1>1, Inductive, PTL

\* A request that was refused, failed, retried or lost in a crash leaves no
\* command behind: every retained command was acknowledged, at its place.
THEOREM NothingUnacknowledged == Spec => []OnlyAcknowledgedCommands
<1>1. IInv => OnlyAcknowledgedCommands
  BY DEF IInv
<1>. QED
  BY <1>1, Inductive, PTL

\* Only the caller who owns the row at that moment appends to it, also when
\* the session was given away while the operation was awaited (admitRunRequest
\* and the revision in the commit's WHERE clause).
THEOREM OwnersAppend == Spec => OwnerAppends
<1>1. ASSUME IInv, [Next]_vars
      PROVE  AppendStep
  <2>1. CASE Quiet
    BY <2>1 DEF Quiet, Drops, AppendStep
  <2>2. ASSUME NEW q \in Requests, Writes(q)
        PROVE  AppendStep
    <3>1. /\ \A g \in Handles \ {call[q].handle} : rows'[g] = rows[g]
          /\ \/ /\ rows[call[q].handle].owner = call[q].caller
                /\ rows'[call[q].handle].operations =
                     Append(rows[call[q].handle].operations, q)
             \/ rows'[call[q].handle].operations =
                  rows[call[q].handle].operations
      BY <1>1, <2>2, WriteFacts, WriteFields
    <3>. QED
      BY <3>1 DEF AppendStep
  <2>3. ASSUME NEW q \in Requests, Creation(q)
        PROVE  AppendStep
    BY <1>1, <2>3, CreateFacts DEF IInv, IssuedInv, Creation, AppendStep
  <2>4. ASSUME NEW q \in Requests, Arrival(q)
        PROVE  AppendStep
    BY <2>4 DEF Arrival, Issue, AppendStep, store
  <2>. QED
    BY <1>1, <2>1, <2>2, <2>3, <2>4, StepKind DEF IInv
<1>. QED
  BY <1>1, Inductive, PTL DEF Spec, OwnerAppends

\* A saved session never changes its principal; a guest's session goes only to
\* the principal of a save that presented its grant (commitSaveAttempt).
THEOREM OwnershipMoves == Spec => OwnershipMovesOnce
<1>1. ASSUME IInv, [Next]_vars
      PROVE  MoveStep
  <2>1. CASE Quiet
    BY <2>1 DEF Quiet, Drops, MoveStep
  <2>2. ASSUME NEW q \in Requests, Writes(q)
        PROVE  MoveStep
    <3>1. /\ \A g \in Handles \ {call[q].handle} : rows'[g] = rows[g]
          /\ \/ rows'[call[q].handle].owner = rows[call[q].handle].owner
             \/ /\ call[q].kind = "save"
                /\ rows[call[q].handle].owner = call[q].caller
                /\ rows[call[q].handle].owner \in Grants
                /\ rows'[call[q].handle].owner = call[q].principal
      BY <1>1, <2>2, WriteFacts, WriteFields
    <3>. QED
      BY <3>1 DEF MoveStep
  <2>3. ASSUME NEW q \in Requests, Creation(q)
        PROVE  MoveStep
    BY <1>1, <2>3, CreateFacts DEF IInv, IssuedInv, Creation, MoveStep
  <2>4. ASSUME NEW q \in Requests, Arrival(q)
        PROVE  MoveStep
    BY <2>4 DEF Arrival, Issue, MoveStep, store
  <2>. QED
    BY <1>1, <2>1, <2>2, <2>3, <2>4, StepKind DEF IInv
<1>. QED
  BY <1>1, Inductive, PTL DEF Spec, OwnershipMovesOnce

-----------------------------------------------------------------------------
(* The saved-session quota. *)

LEMMA SavedByFinite ==
  ASSUME NEW table, NEW p
  PROVE  IsFiniteSet(SavedBy(table, p)) /\ Cardinality(SavedBy(table, p)) \in Nat
<1>1. SavedBy(table, p) \subseteq Handles
  BY DEF SavedBy
<1>. QED
  BY <1>1, StoredAssumption, FS_Subset, FS_CardinalityType

LEMMA SavedBySubset ==
  ASSUME NEW table, NEW later, NEW p, SavedBy(later, p) \subseteq SavedBy(table, p)
  PROVE  Cardinality(SavedBy(later, p)) <= Cardinality(SavedBy(table, p))
BY SavedByFinite, FS_Subset

LEMMA SavedByOneMore ==
  ASSUME NEW table, NEW later, NEW p, NEW h, HasRoom(table, p),
         SavedBy(later, p) \subseteq SavedBy(table, p) \cup {h}
  PROVE  Cardinality(SavedBy(later, p)) <= MaxSaved
<1>. DEFINE S == SavedBy(table, p)
<1>0. IsFiniteSet(S) /\ Cardinality(S) \in Nat
  BY SavedByFinite
<1>. HIDE DEF S
<1>1. IsFiniteSet(S \cup {h}) /\ Cardinality(S \cup {h}) <= Cardinality(S) + 1
  BY <1>0, FS_AddElement
<1>. USE DEF S
<1>2. Cardinality(SavedBy(later, p)) <= Cardinality(SavedBy(table, p) \cup {h})
  BY <1>1, FS_Subset
<1>3. /\ Cardinality(SavedBy(later, p)) \in Nat
      /\ Cardinality(SavedBy(table, p)) \in Nat
      /\ Cardinality(SavedBy(table, p) \cup {h}) \in Nat
  BY <1>1, SavedByFinite, FS_CardinalityType
<1>. QED
  BY <1>1, <1>2, <1>3, RegistryAssumption DEF HasRoom

\* Saves and creations of any number of processes never overfill a principal:
\* the count is in the statement that writes, not in a read before it.
THEOREM QuotaHolds == Spec => []SavedQuota
<1>1. Init => SavedQuota
  <2>. SUFFICES ASSUME Init, NEW p \in Principals
                PROVE  Cardinality(SavedBy(rows, p)) <= MaxSaved
    BY DEF SavedQuota
  <2>. DEFINE S == {h \in Handles : StoredOwner[h] = p}
  <2>1. ASSUME NEW h \in Handles, rows[h] # NoRow
        PROVE  rows[h].owner = StoredOwner[h]
    BY <2>1 DEF Init, NewRow
  <2>2. SavedBy(rows, p) \subseteq S
    BY <2>1 DEF SavedBy
  <2>3. IsFiniteSet(S)
    BY StoredAssumption, FS_Subset
  <2>4. Cardinality(S) \in Nat /\ Cardinality(SavedBy(rows, p)) <= Cardinality(S)
    BY <2>2, <2>3, FS_Subset, FS_CardinalityType
  <2>. QED
    BY <2>4, StoredAssumption, SavedByFinite, RegistryAssumption
<1>2. ASSUME IInv, SavedQuota, [Next]_vars
      PROVE  SavedQuota'
  <2>. SUFFICES ASSUME NEW p \in Principals
                PROVE  Cardinality(SavedBy(rows', p)) <= MaxSaved
    BY DEF SavedQuota
  <2>0. ASSUME SavedBy(rows', p) \subseteq SavedBy(rows, p)
        PROVE  Cardinality(SavedBy(rows', p)) <= MaxSaved
    BY <1>2, <2>0, SavedBySubset, SavedByFinite, RegistryAssumption DEF SavedQuota
  <2>1. CASE Quiet
    <3>1. SavedBy(rows', p) \subseteq SavedBy(rows, p)
      BY <2>1 DEF Quiet, Drops, SavedBy
    <3>. QED
      BY <2>0, <3>1
  <2>2. ASSUME NEW q \in Requests, Writes(q)
        PROVE  Cardinality(SavedBy(rows', p)) <= MaxSaved
    <3>. DEFINE h == call[q].handle
    <3>1. /\ h \in Handles /\ rows[h] # NoRow
          /\ \A g \in Handles \ {h} : rows'[g] = rows[g]
      BY <1>2, <2>2, WriteFacts
    <3>2. CASE rows'[h].owner = rows[h].owner
      <4>1. SavedBy(rows', p) \subseteq SavedBy(rows, p)
        BY <3>1, <3>2 DEF SavedBy
      <4>. QED
        BY <2>0, <4>1
    <3>3. CASE CommitSave(q) /\ call[q].principal = p
      <4>1. SavedBy(rows', p) \subseteq SavedBy(rows, p) \cup {h}
        BY <3>1 DEF SavedBy
      <4>2. HasRoom(rows, p)
        BY <3>3 DEF CommitSave
      <4>. QED
        BY <4>1, <4>2, SavedByOneMore
    <3>4. CASE rows'[h].owner = call[q].principal /\ call[q].principal # p
      <4>1. SavedBy(rows', p) \subseteq SavedBy(rows, p)
        BY <3>1, <3>4 DEF SavedBy
      <4>. QED
        BY <2>0, <4>1
    <3>5. \/ rows'[h].owner = rows[h].owner
          \/ CommitSave(q) /\ rows'[h].owner = call[q].principal
      BY <1>2, <2>2, WriteFields
    <3>. QED
      BY <3>2, <3>3, <3>4, <3>5
  <2>3. ASSUME NEW q \in Requests, NEW h \in Handles, Create(q, h)
        PROVE  Cardinality(SavedBy(rows', p)) <= MaxSaved
    <3>. DEFINE kept == Unexpired(rows, now)
    <3>1. kept \in [Handles -> Row \cup {NoRow}]
      BY <1>2, UnexpiredType DEF IInv
    <3>2. \A g \in Handles \ {h} : rows'[g] = kept[g] /\ rows'[g] \in {rows[g], NoRow}
      BY <1>2, <2>3, <3>1, UnexpiredType DEF IInv, Create
    <3>3. CASE call[q].caller = p
      <4>1. SavedBy(rows', p) \subseteq SavedBy(kept, p) \cup {h}
        BY <3>2 DEF SavedBy
      <4>2. HasRoom(kept, p)
        BY <2>3, <3>3 DEF Create
      <4>. QED
        BY <4>1, <4>2, SavedByOneMore
    <3>4. CASE call[q].caller # p
      <4>1. rows'[h].owner = call[q].caller
        <5>1. rows'[h] = NewRow(call[q].caller, now)
          BY <1>2, <2>3, CreateFacts DEF IInv
        <5>. QED
          BY <5>1 DEF NewRow
      <4>2. SavedBy(rows', p) \subseteq SavedBy(rows, p)
        BY <3>2, <3>4, <4>1 DEF SavedBy
      <4>. QED
        BY <2>0, <4>2
    <3>. QED
      BY <3>3, <3>4
  <2>4. ASSUME NEW q \in Requests, Arrival(q)
        PROVE  Cardinality(SavedBy(rows', p)) <= MaxSaved
    BY <1>2, <2>4 DEF Arrival, Issue, store, SavedQuota
  <2>. QED
    BY <1>2, <2>1, <2>2, <2>3, <2>4, StepKind DEF IInv, Creation
<1>. QED
  BY <1>1, <1>2, Inductive, PTL DEF Spec

-----------------------------------------------------------------------------
(* The chains of a registry. *)

\* A request under way stands at the head of its chain.
HeadInv ==
  \A q \in Requests :
    phase[q] \in Working => TailOf(q) # <<>> /\ Head(TailOf(q)) = q

\* A step of q moves q alone, and it leaves only a chain it heads.
Moves(q) ==
  /\ call' = call
  /\ phase' = [phase EXCEPT ![q] = phase'[q]]
  /\ \/ /\ operationTails' = operationTails
        /\ phase'[q] \in Working => TailOf(q) # <<>> /\ Head(TailOf(q)) = q
     \/ /\ phase'[q] = "answered"
        /\ Leaves(q)
        /\ call[q].kind \in Chained => TailOf(q) # <<>> /\ Head(TailOf(q)) = q

LEMMA HeadMoves ==
  ASSUME TypeOK, NEW q \in Requests, NEW ph, AtHead(q, ph), call' = call
  PROVE  /\ \A tag, seen : Settle(q, tag, seen) => Moves(q)
         /\ \A to, row : Enter(q, to, row) => Moves(q)
         /\ \A to : Retry(q, to) => Moves(q)
BY DEF Moves, AtHead, Settle, Enter, Retry, TypeOK

LEMMA AtOnceMoves ==
  ASSUME TypeOK, NEW q \in Requests, call[q].kind \notin Chained, call' = call
  PROVE  \A tag, seen : Settle(q, tag, seen) => Moves(q)
BY DEF Moves, Settle, TypeOK

LEMMA ServeMoves ==
  ASSUME TypeOK, NEW q \in Requests, Serve(q) \/ StorageFails(q)
  PROVE  Moves(q)
<1>. USE DEF Begins, Refuse, Answer, store
<1>1. CASE Run(q)
  <2>1. CASE RunUnavailable(q)
    BY <2>1, HeadMoves DEF RunUnavailable
  <2>2. CASE RunFindsExpired(q)
    BY <2>2, HeadMoves DEF RunFindsExpired
  <2>3. CASE DeleteExpired(q)
    BY <2>3, HeadMoves DEF DeleteExpired
  <2>4. CASE RunThrottled(q)
    BY <2>4, HeadMoves DEF RunThrottled, Admissible
  <2>5. CASE StartRun(q)
    BY <2>5, HeadMoves DEF StartRun, Admissible
  <2>6. CASE RebuildFails(q)
    BY <2>6, HeadMoves DEF RebuildFails, Admissible
  <2>7. CASE OperationFails(q)
    BY <2>7, HeadMoves DEF OperationFails
  <2>8. CASE RunOverQuota(q)
    BY <2>8, HeadMoves DEF RunOverQuota
  <2>9. CASE CommitCommand(q)
    BY <2>9, HeadMoves DEF CommitCommand
  <2>10. CASE CommitActivity(q)
    BY <2>10, HeadMoves DEF CommitActivity
  <2>11. CASE RunConflict(q)
    BY <2>11, HeadMoves DEF RunConflict
  <2>. QED
    BY <1>1, <2>1, <2>2, <2>3, <2>4, <2>5, <2>6, <2>7, <2>8, <2>9, <2>10, <2>11
    DEF Run
<1>2. CASE Save(q)
  <2>1. CASE StartSave(q)
    BY <2>1, HeadMoves DEF StartSave
  <2>2. CASE LoadSave(q)
    BY <2>2, HeadMoves DEF LoadSave
  <2>3. CASE CommitSave(q)
    BY <2>3, HeadMoves DEF CommitSave
  <2>4. CASE SaveOverQuota(q)
    BY <2>4, HeadMoves DEF SaveOverQuota
  <2>5. CASE SaveConflict(q)
    BY <2>5, HeadMoves DEF SaveConflict
  <2>6. CASE MissSave(q)
    BY <2>6, HeadMoves DEF MissSave
  <2>7. CASE RecheckSave(q)
    BY <2>7, HeadMoves DEF RecheckSave
  <2>. QED
    BY <1>2, <2>1, <2>2, <2>3, <2>4, <2>5, <2>6, <2>7 DEF Save
<1>3. CASE Delete(q)
  <2>1. CASE StartDelete(q)
    BY <2>1, HeadMoves DEF StartDelete
  <2>2. CASE LoadDelete(q)
    BY <2>2, HeadMoves DEF LoadDelete
  <2>3. CASE RemoveSaved(q)
    BY <2>3, HeadMoves DEF RemoveSaved
  <2>. QED
    BY <1>3, <2>1, <2>2, <2>3 DEF Delete
<1>4. CASE AtOnce(q)
  <2>. USE DEF Creates, RunsAtOnce, Chained
  <2>1. CASE ListSaved(q)
    BY <2>1, AtOnceMoves DEF ListSaved
  <2>2. CASE CreateNeedsEphemeral(q)
    BY <2>2, AtOnceMoves DEF CreateNeedsEphemeral
  <2>3. CASE \E h \in Handles : Create(q, h)
    BY <2>3, AtOnceMoves DEF Create
  <2>4. CASE CreateOverQuota(q)
    BY <2>4, AtOnceMoves DEF CreateOverQuota
  <2>5. CASE CreateCollides(q)
    BY <2>5, AtOnceMoves DEF CreateCollides
  <2>. QED
    BY <1>4, <2>1, <2>2, <2>3, <2>4, <2>5 DEF AtOnce
<1>5. CASE StorageFails(q)
  <2>1. CASE StatementFails(q)
    BY <2>1, HeadMoves, AtOnceMoves DEF StatementFails, RunsAtOnce
  <2>2. CASE LaterStatementFails(q)
    BY <2>2, HeadMoves, AtOnceMoves
    DEF LaterStatementFails, RunsAtOnce, Creates, Chained
  <2>. QED
    BY <1>5, <2>1, <2>2 DEF StorageFails
<1>. QED
  BY <1>1, <1>2, <1>3, <1>4, <1>5 DEF Serve

\* One registry never has two calls of one handle under way: a call starts
\* when the one before it settled, whatever became of it (operationTails).
THEOREM RegistrySerializes == Spec => []RegistrySerializesHandle
<1>1. Init => HeadInv
  BY DEF Init, HeadInv, Working, Synchronous
<1>2. ASSUME IInv, HeadInv, [Next]_vars
      PROVE  HeadInv'
  <2>. SUFFICES ASSUME NEW p \in Requests, phase'[p] \in Working
                PROVE  TailOf(p)' # <<>> /\ Head(TailOf(p)') = p
    BY DEF HeadInv
  <2>. USE DEF IInv, TailOf
  <2>1. ASSUME NEW q \in Requests, Moves(q)
        PROVE  TailOf(p)' # <<>> /\ Head(TailOf(p)') = p
    <3>1. CASE p = q
      BY <2>1, <3>1 DEF Moves, Working, Synchronous
    <3>2. CASE p # q
      <4>1. /\ phase[p] \in Working /\ call' = call
            /\ TailOf(p) # <<>> /\ Head(TailOf(p)) = p
        BY <1>2, <2>1, <3>2 DEF Moves, TypeOK, HeadInv
      <4>2. CASE operationTails' = operationTails
        BY <4>1, <4>2
      <4>3. CASE operationTails' # operationTails
        <5>1. /\ call[q].kind \in Chained
              /\ TailOf(q) # <<>> /\ Head(TailOf(q)) = q
              /\ operationTails' =
                   [operationTails EXCEPT
                      ![call[q].registry][call[q].handle] = Tail(@)]
          BY <2>1, <4>3 DEF Moves, Leaves
        <5>2. call[p].registry # call[q].registry \/ call[p].handle # call[q].handle
          BY <3>2, <4>1, <5>1
        <5>3. TailOf(p)' = TailOf(p)
          <6>1. call[p].registry \in Registries /\ call[p].handle \in Handles
            BY <1>2, <4>1, CallFields DEF RequestInv, Working, Synchronous
          <6>. QED
            BY <1>2, <4>1, <5>1, <5>2, <6>1 DEF TypeOK
        <5>. QED
          BY <4>1, <5>3
      <4>. QED
        BY <4>2, <4>3
    <3>. QED
      BY <3>1, <3>2
  <2>2. ASSUME NEW q \in Requests, NEW c \in Calls, Issue(q, c)
        PROVE  TailOf(p)' # <<>> /\ Head(TailOf(p)') = p
    <3>1. /\ p # q /\ phase[p] \in Working /\ call'[p] = call[p]
          /\ TailOf(p) # <<>> /\ Head(TailOf(p)) = p
      BY <1>2, <2>2 DEF Issue, HeadInv, TypeOK, Working, Synchronous
    <3>2. call[p].registry \in Registries /\ call[p].handle \in Handles
      BY <1>2, <3>1, CallFields DEF RequestInv, Working, Synchronous
    <3>3. TailOf(p) \in Seq(Requests)
      BY <1>2, <3>2 DEF TypeOK
    <3>4. TailOf(p)' \in {TailOf(p), Append(TailOf(p), q)}
      BY <1>2, <2>2, <3>1, <3>2 DEF Issue, TypeOK
    <3>. DEFINE chain == TailOf(p)
    <3>. HIDE DEF chain
    <3>5. chain # <<>> => Append(chain, q) # <<>> /\ Head(Append(chain, q)) = Head(chain)
      BY <3>3 DEF chain
    <3>. QED
      BY <3>1, <3>4, <3>5 DEF chain
  <2>3. ASSUME NEW host \in Processes, Crash(host)
        PROVE  TailOf(p)' # <<>> /\ Head(TailOf(p)') = p
    <3>1. /\ phase[p] \in Working /\ call' = call
          /\ Host[call[p].registry] # host
          /\ TailOf(p) # <<>> /\ Head(TailOf(p)) = p
      BY <1>2, <2>3 DEF Crash, HeadInv, TypeOK, Working, Synchronous
    <3>2. call[p].registry \in Registries
      BY <1>2, <3>1, CallFields DEF RequestInv, Working, Synchronous
    <3>. QED
      BY <2>3, <3>1, <3>2 DEF Crash
  <2>4. CASE Tick \/ UNCHANGED vars
    BY <1>2, <2>4 DEF Tick, vars, progress, HeadInv
  <2>. QED
    BY <1>2, <2>1, <2>2, <2>3, <2>4, ServeMoves DEF Next
<1>3. HeadInv /\ IInv => RegistrySerializesHandle
  BY DEF HeadInv, RegistrySerializesHandle, TailOf
<1>. QED
  BY <1>1, <1>2, <1>3, Inductive, PTL DEF Spec

=============================================================================
