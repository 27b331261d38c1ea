----------------------- MODULE RegistryBounds_proofs -----------------------
(***************************************************************************)
(* What the recoverable registry counts: the limiter's charges and the     *)
(* attempts that ended in a conflict.                                      *)
(***************************************************************************)
EXTENDS LedgerRefinement_proofs

-----------------------------------------------------------------------------
(* Charges. *)

\* A request that is still to be charged has not been.
ChargedInv ==
  /\ IsFiniteSet(charged)
  /\ \A q \in charged :
       /\ call[q] \in Calls
       /\ phase[q] = "queued" => call[q].kind = "run"

ChargedTo(k) == {q \in charged : call[q].principal = k}

LEMMA ChargedToFinite ==
  ASSUME IsFiniteSet(charged), NEW k
  PROVE  IsFiniteSet(ChargedTo(k)) /\ Cardinality(ChargedTo(k)) \in Nat
BY FS_Subset, FS_CardinalityType DEF ChargedTo

\* The transaction counts q for its principal, and nobody else.
LEMMA ChargeCounts ==
  ASSUME TypeOK, RetriesAreNotCharged, IsFiniteSet(charged),
         NEW q \in Requests, q \notin charged, Charge(q), call' = call
  PROVE  RetriesAreNotCharged' /\ IsFiniteSet(charged')
<1> DEFINE k == call[q].principal
           kept == PruneWindows(windows, now)
<1>1. windows \in [Owners -> RequestWindow]
  BY DEF TypeOK
<1>2. /\ kept \in [Owners -> RequestWindow]
      /\ \A o \in Owners : kept[o].count <= windows[o].count
  BY <1>1 DEF PruneWindows, RequestWindow, NoWindow
<1>3. IsFiniteSet(charged')
  BY FS_AddElement DEF Charge
<1>4. SUFFICES ASSUME NEW o \in Owners
               PROVE  windows'[o].count <= Cardinality(ChargedTo(o)')
  BY <1>3 DEF RetriesAreNotCharged, ChargedTo
<1>5. /\ windows[o].count <= Cardinality(ChargedTo(o))
      /\ windows[o].count \in Nat /\ kept[o].count \in Nat
      /\ kept[o].count <= windows[o].count
      /\ IsFiniteSet(ChargedTo(o)) /\ Cardinality(ChargedTo(o)) \in Nat
      /\ IsFiniteSet(ChargedTo(o)') /\ Cardinality(ChargedTo(o)') \in Nat
  <2>1. IsFiniteSet(ChargedTo(o)) /\ Cardinality(ChargedTo(o)) \in Nat
    BY ChargedToFinite
  <2>2. ChargedTo(o)' \subseteq charged'
    BY DEF ChargedTo
  <2>3. IsFiniteSet(ChargedTo(o)') /\ Cardinality(ChargedTo(o)') \in Nat
    BY <1>3, <2>2, FS_Subset, FS_CardinalityType
  <2> QED BY <1>1, <1>2, <2>1, <2>3 DEF RetriesAreNotCharged, ChargedTo, RequestWindow
<1>6. CASE RateExceeded(windows, k, now)
  <2>1. windows'[o] = kept[o] /\ ChargedTo(o)' = ChargedTo(o)
    BY <1>6 DEF Charge, WindowsAfter, ChargedTo
  <2> QED BY <1>5, <2>1
<1>7. CASE ~RateExceeded(windows, k, now) /\ o = k
  <2>1. ChargedTo(o)' = ChargedTo(o) \cup {q} /\ q \notin ChargedTo(o)
    BY <1>7 DEF Charge, ChargedTo
  <2>2. Cardinality(ChargedTo(o)') = Cardinality(ChargedTo(o)) + 1
    BY <1>5, <2>1, FS_AddElement
  <2>3. windows'[o].count \in {1, kept[o].count + 1}
    BY <1>2, <1>7 DEF Charge, WindowsAfter
  <2> QED BY <1>5, <2>2, <2>3
<1>8. CASE ~RateExceeded(windows, k, now) /\ o # k
  <2>1. ChargedTo(o)' = ChargedTo(o)
    BY <1>8 DEF Charge, ChargedTo
  <2>2. windows'[o] = kept[o]
    BY <1>2, <1>8 DEF Charge, WindowsAfter
  <2> QED BY <1>5, <2>1, <2>2
<1> QED BY <1>6, <1>7, <1>8

\* A step of q charges it, for the first time, or charges nothing.
Bills(q) ==
  /\ \/ UNCHANGED <<windows, charged>>
     \/ q \notin charged /\ Charge(q)
  /\ q \in charged' /\ phase'[q] = "queued" => call[q].kind = "run"

LEMMA ChargeOnceKinds ==
  ASSUME NEW q, ChargeOnce(q)
  PROVE  \/ UNCHANGED <<windows, charged>>
         \/ q \notin charged /\ Charge(q)
BY DEF ChargeOnce, Uncharged

LEMMA RequestBills ==
  ASSUME IInv, ChargedInv, NEW q \in Requests, Serve(q) \/ StorageFails(q)
  PROVE  Bills(q)
<1> USE DEF IInv, TypeOK, Begins, Bills, Uncharged, Refuse, Answer, Settle, Enter, AtHead
<1>1. CASE Run(q)
  <2>1. call[q].kind = "run"
    BY <1>1
    DEF Run, RunUnavailable, RunFindsExpired, DeleteExpired, RunThrottled, StartRun,
        RebuildFails, OperationFails, RunOverQuota, CommitCommand, CommitActivity,
        RunConflict, Admissible, RequestInv
  <2>2. CASE RunThrottled(q) \/ StartRun(q) \/ RebuildFails(q)
    <3>1. RunThrottled(q) => q \notin charged /\ Charge(q)
      BY DEF RunThrottled
    <3>2. StartRun(q) \/ RebuildFails(q) => ChargeOnce(q)
      BY DEF StartRun, RebuildFails
    <3> QED BY <2>1, <2>2, <3>1, <3>2, ChargeOnceKinds
  <2>3. CASE ~(RunThrottled(q) \/ StartRun(q) \/ RebuildFails(q))
    <3>1. UNCHANGED <<windows, charged>>
      BY <1>1, <2>3
      DEF Run, RunUnavailable, RunFindsExpired, DeleteExpired, OperationFails,
          RunOverQuota, CommitCommand, CommitActivity, RunConflict
    <3> QED BY <2>1, <3>1
  <2> QED BY <2>2, <2>3
<1>2. CASE Save(q)
  <2>1. CASE StartSave(q)
    BY <2>1 DEF StartSave, ChargedInv
  <2>2. CASE LoadSave(q)
    BY <2>2 DEF LoadSave
  <2>3. CASE CommitSave(q)
    BY <2>3 DEF CommitSave
  <2>4. CASE MissSave(q)
    BY <2>4 DEF MissSave
  <2>5. CASE SaveOverQuota(q)
    BY <2>5 DEF SaveOverQuota
  <2>6. CASE SaveConflict(q)
    BY <2>6 DEF SaveConflict, Retry
  <2>7. CASE RecheckSave(q)
    BY <2>7 DEF RecheckSave
  <2> QED BY <1>2, <2>1, <2>2, <2>3, <2>4, <2>5, <2>6, <2>7 DEF Save
<1>3. CASE Delete(q)
  <2>1. CASE StartDelete(q)
    BY <2>1 DEF StartDelete, ChargedInv
  <2>2. CASE LoadDelete(q)
    BY <2>2 DEF LoadDelete
  <2>3. CASE RemoveSaved(q)
    BY <2>3 DEF RemoveSaved
  <2> QED BY <1>3, <2>1, <2>2, <2>3 DEF Delete
<1>4. CASE AtOnce(q)
  <2> USE DEF RunsAtOnce, Creates
  <2>1. CASE ListSaved(q)
    BY <2>1 DEF ListSaved, ChargedInv
  <2>2. CASE CreateNeedsEphemeral(q) \/ CreateOverQuota(q) \/ CreateCollides(q)
    BY <2>2 DEF CreateNeedsEphemeral, CreateOverQuota, CreateCollides
  <2>3. CASE \E h \in Handles : Create(q, h)
    BY <2>3 DEF Create
  <2> QED BY <1>4, <2>1, <2>2, <2>3 DEF AtOnce
<1>5. CASE StorageFails(q)
  <2>1. phase'[q] = "answered"
    BY <1>5, FailureFacts
  <2>2. CASE StatementFails(q)
    BY <2>1, <2>2 DEF StatementFails
  <2>3. CASE LaterStatementFails(q)
    BY <2>1, <2>3 DEF LaterStatementFails, RunsAtOnce, ChargedInv
  <2> QED BY <1>5, <2>2, <2>3 DEF StorageFails
<1> QED BY <1>1, <1>2, <1>3, <1>4, <1>5 DEF Serve

LEMMA ChargedStep ==
  IInv /\ LoadedInv /\ IdleInv /\ ChargedInv /\ RetriesAreNotCharged /\ [Next]_vars
    => ChargedInv' /\ RetriesAreNotCharged'
<1> SUFFICES ASSUME IInv, LoadedInv, IdleInv, ChargedInv, RetriesAreNotCharged,
                    [Next]_vars
             PROVE  ChargedInv' /\ RetriesAreNotCharged'
  OBVIOUS
<1>1. ASSUME NEW q \in Requests, Serve(q) \/ StorageFails(q)
      PROVE  ChargedInv' /\ RetriesAreNotCharged'
  <2>1. Bills(q) /\ Holds(q) /\ call' = call /\ call[q] \in Calls
    BY <1>1, RequestBills, RequestLedger, KeepsCall
  <2>2. IsFiniteSet(charged') /\ RetriesAreNotCharged'
    <3>1. CASE UNCHANGED <<windows, charged>>
      BY <2>1, <3>1 DEF ChargedInv, RetriesAreNotCharged
    <3>2. CASE q \notin charged /\ Charge(q)
      BY <2>1, <3>2, ChargeCounts DEF IInv, ChargedInv
    <3> QED BY <2>1, <3>1, <3>2 DEF Bills
  <2>3. charged' \subseteq charged \cup {q}
    BY <2>1 DEF Bills, Charge
  <2>4. ASSUME NEW p \in charged', p # q
        PROVE  p \in charged /\ phase'[p] = phase[p]
    <3>1. p \in Requests /\ phase \in [Requests -> Phases] /\ p \in charged
      BY <2>3, <2>4 DEF IInv, TypeOK
    <3>2. phase' = [phase EXCEPT ![q] = phase'[q]]
      BY <2>1 DEF Holds
    <3> QED BY <2>4, <3>1, <3>2
  <2>5. \A p \in charged' :
          call'[p] \in Calls /\ (phase'[p] = "queued" => call'[p].kind = "run")
    BY <2>1, <2>4 DEF Bills, ChargedInv
  <2> QED BY <2>2, <2>5 DEF ChargedInv
<1>2. ASSUME NEW q \in Requests, NEW c \in Calls, Issue(q, c)
      PROVE  ChargedInv' /\ RetriesAreNotCharged'
  <2>1. q \notin charged /\ charged \subseteq Requests
    BY <1>2, CallAssumption DEF Issue, IdleInv, ChargedInv, IInv, TypeOK
  <2>2. /\ UNCHANGED <<windows, charged>>
        /\ call' = [call EXCEPT ![q] = c] /\ phase' = [phase EXCEPT ![q] = "queued"]
    BY <1>2 DEF Issue
  <2>4. \A p \in charged : call'[p] = call[p] /\ phase'[p] = phase[p]
    BY <2>1, <2>2 DEF IInv, TypeOK
  <2>3. \A k : {p \in charged' : call'[p].principal = k} =
                {p \in charged : call[p].principal = k}
    BY <2>2, <2>4
  <2> QED BY <2>2, <2>4, <2>3 DEF ChargedInv, RetriesAreNotCharged
<1>3. ASSUME NEW host \in Processes, Crash(host)
      PROVE  ChargedInv' /\ RetriesAreNotCharged'
  BY <1>3 DEF Crash, ChargedInv, RetriesAreNotCharged, IInv, TypeOK
<1>4. CASE Tick \/ UNCHANGED vars
  BY <1>4 DEF Tick, vars, progress, ChargedInv, RetriesAreNotCharged
<1> QED BY <1>1, <1>2, <1>3, <1>4 DEF Next

\* What every state satisfies, from the modules before.
LEMMA Background == Spec => [](IInv /\ LoadedInv /\ IdleInv)
<1>1. Init => IdleInv
  BY DEF Init, IdleInv
<1> QED BY <1>1, IdleStep, LoadedAlways, PTL DEF Spec

\* The limiter counts a call once, however often it meets a conflict and is
\* retried (runRecoverableOperation charges before its first attempt only).
THEOREM ChargesOnce == Spec => []RetriesAreNotCharged
<1>1. Init => ChargedInv /\ RetriesAreNotCharged
  <2> SUFFICES ASSUME Init PROVE ChargedInv /\ RetriesAreNotCharged
    OBVIOUS
  <2>1. charged = {} /\ windows = [k \in Owners |-> NoWindow]
    BY DEF Init
  <2>2. \A k : Cardinality({p \in charged : call[p].principal = k}) = 0
    BY <2>1, FS_EmptySet
  <2> QED BY <2>1, <2>2, FS_EmptySet DEF ChargedInv, RetriesAreNotCharged, NoWindow
<1> QED BY <1>1, ChargedStep, Background, PTL DEF Spec

-----------------------------------------------------------------------------
(* Conflicts. *)

\* The calls that moved the revision of a handle's row.
Progress(h) ==
  {p \in Requests : /\ answer[p].tag \in {"committed", "observed", "saved"}
                    /\ call[p].handle = h}

\* The revision counts progress, and bounds the conflicts of each run: it has
\* met at most as many as the revision it loaded, or would load, says.
ProgressInv ==
  \A h \in Handles :
    /\ IsFiniteSet(Progress(h))
    /\ rows[h] # NoRow => rows[h].revision <= Cardinality(Progress(h))

AttemptInv ==
  \A q \in Requests :
    LET h == call[q].handle IN
    /\ phase[q] = "idle" => attempt[q] = 0
    /\ call[q] \in Calls /\ call[q].kind = "run" =>
         /\ h \notin issued => attempt[q] = 0
         /\ rows[h] # NoRow => attempt[q] <= rows[h].revision
         /\ snapshot[q] # NoRow =>
              /\ attempt[q] <= snapshot[q].revision
              /\ snapshot[q].revision <= Cardinality(Progress(h))
         /\ attempt[q] <= Cardinality(Progress(h)) + 1

\* What every step does to what these speak of.
Advances ==
  /\ call' = call /\ issued \subseteq issued'
  /\ \A h \in Handles :
       /\ IsFiniteSet(Progress(h)')
       /\ Cardinality(Progress(h)) <= Cardinality(Progress(h)')
       /\ \/ rows'[h] \in {rows[h], NoRow}
          \/ h \notin issued /\ rows'[h].revision = 0
          \/ /\ rows[h] # NoRow /\ rows'[h].revision = rows[h].revision + 1
             /\ Cardinality(Progress(h)') = Cardinality(Progress(h)) + 1
  /\ \A p \in Requests :
       \/ snapshot'[p] \in {snapshot[p], NoRow}
       \/ rows' = rows /\ snapshot'[p] = rows[call[p].handle]
  /\ \A p \in Requests :
       /\ phase'[p] = "idle" => phase[p] = "idle" /\ attempt'[p] = attempt[p]
       /\ \/ attempt'[p] = attempt[p]
          \/ /\ attempt'[p] = attempt[p] + 1
             /\ rows' = rows /\ snapshot'[p] = NoRow
             /\ call[p].kind = "run" => snapshot[p] # NoRow /\ ~Current(p)

LEMMA AdvanceStep ==
  ASSUME IInv, TypeOK', ProgressInv, AttemptInv, Advances
  PROVE  ProgressInv' /\ AttemptInv'
<1>1. \A h \in Handles :
        /\ Cardinality(Progress(h)) \in Nat /\ Cardinality(Progress(h)') \in Nat
        /\ rows[h] # NoRow => rows[h].revision \in Nat
        /\ rows'[h] # NoRow => rows'[h].revision \in Nat
  BY FS_CardinalityType DEF ProgressInv, Advances, IInv, TypeOK, Row
<1>2. ProgressInv'
  BY <1>1 DEF ProgressInv, Advances
<1>3. ASSUME NEW q \in Requests
      PROVE  AttemptInv!(q)'
  <2>1. phase'[q] = "idle" => attempt'[q] = 0
    BY DEF AttemptInv, Advances
  <2> SUFFICES ASSUME call[q] \in Calls, call[q].kind = "run",
                      NEW h \in Handles, h = call[q].handle
               PROVE  /\ h \notin issued' => attempt'[q] = 0
                      /\ rows'[h] # NoRow => attempt'[q] <= rows'[h].revision
                      /\ snapshot'[q] # NoRow =>
                           /\ attempt'[q] <= snapshot'[q].revision
                           /\ snapshot'[q].revision <= Cardinality(Progress(h)')
                      /\ attempt'[q] <= Cardinality(Progress(h)') + 1
    BY <2>1, CallFields DEF Advances, Progress
  <2>2. /\ attempt[q] \in Nat
        /\ snapshot[q] # NoRow => snapshot[q].revision \in Nat /\ h \in issued
    BY CallFields, RegistryAssumption DEF IInv, TypeOK, Row, RequestInv
  <2>3. /\ h \notin issued => attempt[q] = 0
        /\ rows[h] # NoRow => attempt[q] <= rows[h].revision
        /\ snapshot[q] # NoRow =>
             /\ attempt[q] <= snapshot[q].revision
             /\ snapshot[q].revision <= Cardinality(Progress(h))
        /\ attempt[q] <= Cardinality(Progress(h)) + 1
    BY DEF AttemptInv, Progress
  <2>4. rows[h] # NoRow => rows[h].revision <= Cardinality(Progress(h))
    BY DEF ProgressInv
  <2>5. /\ issued \subseteq issued'
        /\ Cardinality(Progress(h)) <= Cardinality(Progress(h)')
        /\ \/ rows'[h] \in {rows[h], NoRow}
           \/ h \notin issued /\ rows'[h].revision = 0
           \/ rows[h] # NoRow /\ rows'[h].revision = rows[h].revision + 1
    BY DEF Advances
  <2>6. \/ snapshot'[q] \in {snapshot[q], NoRow}
        \/ rows' = rows /\ snapshot'[q] = rows[h]
    BY DEF Advances
  <2> DEFINE made == Cardinality(Progress(h))
             made1 == Cardinality(Progress(h)')
  <2>7. made \in Nat /\ made1 \in Nat /\ made <= made1
    BY <1>1, <2>2, <2>5
  <2>8. /\ rows[h] # NoRow => rows[h].revision \in Nat
        /\ rows'[h] # NoRow => rows'[h].revision \in Nat
    BY <1>1, <2>2
  <2> HIDE DEF made, made1
  <2>9. CASE attempt'[q] = attempt[q]
    <3>1. h \notin issued' => attempt'[q] = 0
      BY <2>3, <2>5, <2>9
    <3>2. rows'[h] # NoRow => attempt'[q] <= rows'[h].revision
      <4>1. CASE rows'[h] \in {rows[h], NoRow}
        BY <2>3, <2>9, <4>1
      <4>2. CASE h \notin issued /\ rows'[h].revision = 0
        BY <2>3, <2>9, <4>2
      <4>3. CASE rows[h] # NoRow /\ rows'[h].revision = rows[h].revision + 1
        BY <2>2, <2>3, <2>8, <2>9, <4>3
      <4> QED BY <2>5, <4>1, <4>2, <4>3
    <3>3. snapshot'[q] # NoRow =>
            attempt'[q] <= snapshot'[q].revision /\ snapshot'[q].revision <= made1
      <4>1. CASE snapshot'[q] \in {snapshot[q], NoRow}
        BY <2>2, <2>3, <2>7, <2>9, <4>1 DEF made
      <4>2. CASE rows' = rows /\ snapshot'[q] = rows[h]
        BY <2>2, <2>3, <2>4, <2>7, <2>8, <2>9, <4>2 DEF made
      <4> QED BY <2>6, <4>1, <4>2
    <3>4. attempt'[q] <= made1 + 1
      BY <2>2, <2>3, <2>7, <2>9 DEF made
    <3> QED BY <3>1, <3>2, <3>3, <3>4 DEF made1
  <2>10. CASE /\ attempt'[q] = attempt[q] + 1
              /\ rows' = rows /\ snapshot'[q] = NoRow
              /\ snapshot[q] # NoRow /\ ~Current(q)
    <3>1. rows[h] # NoRow => snapshot[q].revision < rows[h].revision
      BY <2>2, <2>8, <2>10 DEF Current, IInv, RevisionIdentifiesRow
    <3>2. h \in issued'
      BY <2>2, <2>5, <2>10
    <3>3. rows'[h] # NoRow => attempt'[q] <= rows'[h].revision
      BY <2>2, <2>3, <2>8, <2>10, <3>1
    <3>4. attempt'[q] <= made1 + 1
      BY <2>2, <2>3, <2>7, <2>10 DEF made
    <3> QED BY <2>10, <3>2, <3>3, <3>4 DEF made1
  <2> QED BY <2>9, <2>10 DEF Advances
<1> QED BY <1>2, <1>3 DEF AttemptInv

\* A step of q spends an attempt of q on a conflict, or none.
Attempts(q) ==
  /\ phase'[q] # "idle"
  /\ phase' = [phase EXCEPT ![q] = phase'[q]]
  /\ \/ attempt' = attempt
     \/ /\ attempt' = [attempt EXCEPT ![q] = @ + 1]
        /\ rows' = rows /\ snapshot'[q] = NoRow
        /\ call[q].kind = "run" => snapshot[q] # NoRow /\ ~Current(q)

LEMMA RetryAttempts ==
  ASSUME TypeOK, NEW q \in Requests, NEW ph, Retry(q, ph)
  PROVE  /\ attempt' = [attempt EXCEPT ![q] = @ + 1]
         /\ snapshot'[q] = NoRow
BY DEF Retry, Settle, TypeOK

LEMMA RequestAttempts ==
  ASSUME IInv, LoadedInv, NEW q \in Requests, Serve(q) \/ StorageFails(q)
  PROVE  Attempts(q)
<1> USE DEF IInv, Begins, Refuse, Answer, Enter, store
<1>1. phase'[q] # "idle" /\ phase' = [phase EXCEPT ![q] = phase'[q]]
  BY RequestLedger DEF Holds
<1>2. CASE DeleteExpired(q)
  <2>1. CASE Current(q)
    BY <1>1, <1>2, <2>1 DEF DeleteExpired, Attempts
  <2>2. CASE ~Current(q)
    <3>1. snapshot[q] # NoRow
      BY <1>2 DEF DeleteExpired, AtHead, RequestInv, HoldsRow
    <3> QED BY <1>1, <1>2, <2>2, <3>1, RetryAttempts DEF DeleteExpired, Attempts
  <2> QED BY <2>1, <2>2
<1>3. CASE RunConflict(q)
  <2>1. snapshot[q] # NoRow
    BY <1>3 DEF RunConflict, AtHead, RequestInv, HoldsRow
  <2> QED BY <1>1, <1>3, <2>1, RetryAttempts DEF RunConflict, Attempts
<1>4. CASE SaveConflict(q)
  <2>1. call[q].kind # "run"
    BY <1>4 DEF SaveConflict, AtHead, RequestInv
  <2> QED BY <1>1, <1>4, <2>1, RetryAttempts DEF SaveConflict, Attempts
<1>5. CASE Run(q) /\ ~DeleteExpired(q) /\ ~RunConflict(q)
  BY <1>1, <1>5
  DEF Run, RunUnavailable, RunFindsExpired, RunThrottled, StartRun, RebuildFails,
      OperationFails, RunOverQuota, CommitCommand, CommitActivity, Attempts
<1>6. CASE Save(q) /\ ~SaveConflict(q)
  BY <1>1, <1>6
  DEF Save, StartSave, LoadSave, CommitSave, MissSave, RecheckSave, SaveOverQuota,
      Attempts
<1>7. CASE Delete(q)
  BY <1>1, <1>7 DEF Delete, StartDelete, LoadDelete, RemoveSaved, Attempts
<1>8. CASE AtOnce(q)
  BY <1>1, <1>8
  DEF AtOnce, ListSaved, CreateNeedsEphemeral, Create, CreateOverQuota,
      CreateCollides, Attempts
<1>9. CASE StorageFails(q)
  BY <1>1, <1>9 DEF StorageFails, StatementFails, LaterStatementFails, Attempts
<1> QED BY <1>2, <1>3, <1>4, <1>5, <1>6, <1>7, <1>8, <1>9 DEF Serve

\* Who moves a revision was not counted before.
LEMMA ProgressGrows ==
  ASSUME IInv, ProgressInv, NEW q \in Requests, answer[q] = Unanswered,
         call' = call, answer' = [answer EXCEPT ![q] = answer'[q]],
         NEW h \in Handles
  PROVE  /\ IsFiniteSet(Progress(h)')
         /\ Cardinality(Progress(h)) <= Cardinality(Progress(h)')
         /\ answer'[q].tag \in {"committed", "observed", "saved"} /\ call[q].handle = h
              => Cardinality(Progress(h)') = Cardinality(Progress(h)) + 1
<1> DEFINE counted == answer'[q].tag \in {"committed", "observed", "saved"}
                        /\ call[q].handle = h
<1>1. q \notin Progress(h) /\ IsFiniteSet(Progress(h))
  <2>1. answer[q].tag = "none"
    BY DEF Unanswered
  <2>2. q \notin Progress(h)
    BY <2>1 DEF Progress
  <2> QED BY <2>2 DEF ProgressInv
<1>2. Progress(h)' = IF counted THEN Progress(h) \cup {q} ELSE Progress(h)
  BY <1>1 DEF Progress, IInv, TypeOK
<1>3. Cardinality(Progress(h)) \in Nat
  BY <1>1, FS_CardinalityType
<1>4. /\ IsFiniteSet(Progress(h) \cup {q})
      /\ Cardinality(Progress(h) \cup {q}) = Cardinality(Progress(h)) + 1
  BY <1>1, FS_AddElement
<1>5. CASE counted
  BY <1>2, <1>3, <1>4, <1>5
<1>6. CASE ~counted
  BY <1>1, <1>2, <1>3, <1>6
<1> QED BY <1>5, <1>6

LEMMA FailureKind ==
  ASSUME TypeOK, RequestInv, NEW q \in Requests, StorageFails(q)
  PROVE  Quiet
BY FailureFacts, SettleQuiet, UnexpiredType DEF Refuse, Answer, Quiet, Drops

LEMMA KindAnswers ==
  ASSUME TypeOK, NEW q \in Requests, Kind(q)
  PROVE  answer' = [answer EXCEPT ![q] = answer'[q]]
<1>1. CASE Inert(q) \/ Removal(q)
  BY <1>1 DEF Inert, Removal, Refused, TypeOK
<1>2. CASE Writes(q)
  BY <1>2, WriteAnswers
<1>3. CASE Creation(q)
  BY <1>3 DEF Creation, Create, Answer, Settle, TypeOK
<1> QED BY <1>1, <1>2, <1>3 DEF Kind

LEMMA RequestAdvances ==
  ASSUME IInv, LoadedInv, ProgressInv, NEW q \in Requests,
         Serve(q) \/ StorageFails(q)
  PROVE  Advances
<1>1. /\ call' = call /\ call[q] \in Calls /\ answer[q] = Unanswered
      /\ Attempts(q) /\ Kind(q)
  BY RequestLedger, RequestAttempts, KeepsCall
<1>2. Quiet \/ Writes(q) \/ Creation(q)
  BY RunKind, SaveKind, DeleteKind, AtOnceKind, FailureKind DEF Serve, Creation, IInv
<1>3. answer' = [answer EXCEPT ![q] = answer'[q]]
  BY <1>1, KindAnswers DEF IInv
<1>4. \A p \in Requests :
        /\ phase'[p] = "idle" => phase[p] = "idle" /\ attempt'[p] = attempt[p]
        /\ \/ attempt'[p] = attempt[p]
           \/ /\ attempt'[p] = attempt[p] + 1
              /\ rows' = rows /\ snapshot'[p] = NoRow
              /\ call[p].kind = "run" => snapshot[p] # NoRow /\ ~Current(p)
  <2> SUFFICES ASSUME NEW p \in Requests
               PROVE  /\ phase'[p] = "idle" => phase[p] = "idle" /\ attempt'[p] = attempt[p]
                      /\ \/ attempt'[p] = attempt[p]
                         \/ /\ attempt'[p] = attempt[p] + 1
                            /\ rows' = rows /\ snapshot'[p] = NoRow
                            /\ call[p].kind = "run" => snapshot[p] # NoRow /\ ~Current(p)
    OBVIOUS
  <2>1. CASE p = q
    BY <1>1, <2>1 DEF Attempts, IInv, TypeOK
  <2>2. CASE p # q
    BY <1>1, <2>2 DEF Attempts, IInv, TypeOK
  <2> QED BY <2>1, <2>2
<1>5. CASE Quiet
  BY <1>1, <1>3, <1>4, <1>5, ProgressGrows DEF Quiet, Drops, Loads, Advances
<1>6. CASE Writes(q)
  <2>1. /\ issued' = issued
        /\ \A h \in Handles \ {call[q].handle} : rows'[h] = rows[h]
        /\ snapshot' = [snapshot EXCEPT ![q] = NoRow]
        /\ rows[call[q].handle] # NoRow
    BY <1>6, WriteFacts
  <2>2. rows'[call[q].handle].revision = rows[call[q].handle].revision + 1
    BY <1>6, WriteFields
  <2>3. answer'[q].tag \in {"committed", "observed", "saved"}
    <3>1. \E tag \in {"committed", "observed", "saved"} : \E seen :
            answer'[q] = [tag |-> tag, seen |-> seen]
      BY <1>6, WriteFields
    <3> QED BY <3>1
  <2>4. \A p \in Requests : snapshot'[p] \in {snapshot[p], NoRow}
    BY <2>1 DEF IInv, TypeOK
  <2> QED BY <1>1, <1>3, <1>4, <2>1, <2>2, <2>3, <2>4, ProgressGrows DEF Advances
<1>7. CASE Creation(q)
  <2>1. PICK h \in Handles : Create(q, h)
    BY <1>7 DEF Creation
  <2>2. /\ h \notin issued /\ issued' = issued \cup {h}
        /\ rows'[h] = NewRow(call[q].caller, now)
        /\ \A g \in Handles \ {h} : rows'[g] \in {rows[g], NoRow}
        /\ snapshot' = [snapshot EXCEPT ![q] = NoRow]
    BY <2>1, CreateFacts DEF IInv
  <2>3. rows'[h].revision = 0
    BY <2>2 DEF NewRow
  <2>4. \A p \in Requests : snapshot'[p] \in {snapshot[p], NoRow}
    BY <2>2 DEF IInv, TypeOK
  <2> QED BY <1>1, <1>3, <1>4, <2>2, <2>3, <2>4, ProgressGrows DEF Advances
<1> QED BY <1>2, <1>5, <1>6, <1>7

LEMMA IssueBounds ==
  ASSUME IInv, IdleInv, ProgressInv, AttemptInv,
         NEW q \in Requests, NEW c \in Calls, Issue(q, c)
  PROVE  ProgressInv' /\ AttemptInv'
<1>1. /\ phase[q] = "idle" /\ call[q] = NoCall
      /\ call' = [call EXCEPT ![q] = c] /\ phase' = [phase EXCEPT ![q] = "queued"]
      /\ UNCHANGED <<rows, issued, answer, attempt, snapshot>>
  BY DEF Issue, IdleInv, store
<1>2. answer[q].tag = "none" /\ snapshot[q] = NoRow
  BY <1>1 DEF IInv, RequestInv, HoldsRow, Unanswered
<1>3. \A h \in Handles : Progress(h)' = Progress(h)
  BY <1>1, <1>2 DEF Progress, IInv, TypeOK
<1>4. ProgressInv'
  BY <1>1, <1>3 DEF ProgressInv
<1>5. ASSUME NEW p \in Requests
      PROVE  AttemptInv!(p)'
  <2>1. CASE p = q
    <3>1. call'[p] = c /\ phase'[p] = "queued" /\ attempt'[p] = 0 /\ snapshot'[p] = NoRow
      BY <1>1, <1>2, <2>1 DEF AttemptInv, IInv, TypeOK
    <3>2. PICK h \in Handles : h = c.handle
      BY CallFields
    <3>3. Cardinality(Progress(h)') \in Nat
      BY <1>3, FS_CardinalityType DEF ProgressInv
    <3>4. rows'[h] # NoRow => rows'[h].revision \in Nat
      BY <1>1 DEF IInv, TypeOK, Row
    <3>5. /\ 0 <= Cardinality(Progress(h)') + 1
          /\ rows'[h] # NoRow => 0 <= rows'[h].revision
      BY <3>3, <3>4
    <3>6. Progress(h)' = Progress(call[p].handle)'
      BY <3>1, <3>2 DEF Progress
    <3> QED BY <3>1, <3>2, <3>5, <3>6
  <2>2. CASE p # q
    <3>1. call'[p] = call[p] /\ phase'[p] = phase[p]
      BY <1>1, <2>2 DEF IInv, TypeOK
    <3>2. CASE call[p] \in Calls
      <4>1. PICK h \in Handles : h = call[p].handle
        BY <3>2, CallFields
      <4>2. Progress(h)' = Progress(call[p].handle)' /\ Progress(h) = Progress(call[p].handle)
        BY <3>1, <4>1 DEF Progress
      <4>3. AttemptInv!(p)
        BY DEF AttemptInv
      <4> QED BY <1>1, <1>3, <3>1, <4>1, <4>2, <4>3
    <3>3. CASE call[p] \notin Calls
      BY <1>1, <3>1, <3>3 DEF AttemptInv
    <3> QED BY <3>2, <3>3
  <2> QED BY <2>1, <2>2
<1> QED BY <1>4, <1>5 DEF AttemptInv

LEMMA BoundsStep ==
  IInv /\ LoadedInv /\ IdleInv /\ ProgressInv /\ AttemptInv /\ [Next]_vars
    => ProgressInv' /\ AttemptInv'
<1> SUFFICES ASSUME IInv, LoadedInv, IdleInv, ProgressInv, AttemptInv, [Next]_vars
             PROVE  ProgressInv' /\ AttemptInv'
  OBVIOUS
<1>1. TypeOK'
  BY StepIInv DEF IInv
<1>2. ASSUME NEW q \in Requests, Serve(q) \/ StorageFails(q)
      PROVE  ProgressInv' /\ AttemptInv'
  BY <1>1, <1>2, RequestAdvances, AdvanceStep
<1>3. ASSUME NEW q \in Requests, NEW c \in Calls, Issue(q, c)
      PROVE  ProgressInv' /\ AttemptInv'
  BY <1>3, IssueBounds
<1>4. ASSUME UNCHANGED <<rows, issued, call, attempt, answer>>,
             \A p \in Requests : /\ snapshot'[p] \in {snapshot[p], NoRow}
                                 /\ phase'[p] = "idle" => phase[p] = "idle"
      PROVE  ProgressInv' /\ AttemptInv'
  <2>1. \A h \in Handles : /\ Progress(h)' = Progress(h) /\ IsFiniteSet(Progress(h))
                           /\ Cardinality(Progress(h)) \in Nat
    BY <1>4, FS_CardinalityType DEF Progress, ProgressInv
  <2>2. Advances
    BY <1>4, <2>1 DEF Advances
  <2> QED BY <1>1, <2>2, AdvanceStep
<1>5. ASSUME NEW host \in Processes, Crash(host)
      PROVE  ProgressInv' /\ AttemptInv'
  BY <1>4, <1>5 DEF Crash, store, IInv, TypeOK
<1>6. CASE Tick \/ UNCHANGED vars
  BY <1>4, <1>6 DEF Tick, vars, store, progress
<1> QED BY <1>2, <1>3, <1>5, <1>6 DEF Next

LEMMA Counted ==
  Spec => [](IInv /\ LoadedInv /\ IdleInv /\ ProgressInv /\ AttemptInv)
<1>1. Init => ProgressInv /\ AttemptInv
  <2> SUFFICES ASSUME Init PROVE ProgressInv /\ AttemptInv
    OBVIOUS
  <2>1. \A h \in Handles : Progress(h) = {}
    BY DEF Init, Progress, Unanswered
  <2>2. \A h \in Handles : IsFiniteSet(Progress(h)) /\ Cardinality(Progress(h)) = 0
    BY <2>1, FS_EmptySet
  <2>3. \A h \in Handles : rows[h] # NoRow => rows[h].revision = 0
    BY DEF Init, NewRow
  <2>4. \A q \in Requests : attempt[q] = 0 /\ call[q] \notin Calls
    BY CallAssumption DEF Init
  <2> QED BY <2>2, <2>3, <2>4 DEF ProgressInv, AttemptInv
<1> QED BY <1>1, BoundsStep, Background, PTL DEF Spec

\* Each conflict a run meets is the progress of another call on its handle, or
\* the removal of the row: with n calls that commit or save, no run is tried
\* more than n + 1 times again (runRecoverableOperation's retry loop).
THEOREM ConflictsAreProgress == Spec => []ConflictMeansProgress
<1>1. ASSUME IInv, ProgressInv, AttemptInv
      PROVE  ConflictMeansProgress
  <2> SUFFICES ASSUME NEW q \in Requests, call[q] # NoCall, call[q].kind = "run",
                      NEW h \in Handles, h = call[q].handle
               PROVE  attempt[q] <= Cardinality(Progress(h))
                                      + (IF rows[h] = NoRow THEN 1 ELSE 0)
    BY <1>1, CallFields DEF ConflictMeansProgress, Progress, IInv, TypeOK
  <2>1. call[q] \in Calls /\ attempt[q] \in Nat
    BY <1>1, RegistryAssumption DEF IInv, TypeOK
  <2>2. /\ Cardinality(Progress(h)) \in Nat
        /\ rows[h] # NoRow => /\ rows[h].revision \in Nat
                              /\ rows[h].revision <= Cardinality(Progress(h))
    BY <1>1, FS_CardinalityType DEF ProgressInv, IInv, TypeOK, Row
  <2>3. /\ rows[h] # NoRow => attempt[q] <= rows[h].revision
        /\ attempt[q] <= Cardinality(Progress(h)) + 1
    BY <1>1, <2>1 DEF AttemptInv, Progress
  <2> QED BY <2>1, <2>2, <2>3
<1> QED BY <1>1, Counted, PTL

-----------------------------------------------------------------------------
(* One process. *)

SharedProcess == \A r, s \in Registries : Host[r] = Host[s]

\* In one process at most one request is inside a synchronous stretch, and what
\* a save or a deletion loaded there is still the row in the table.
StretchInv ==
  /\ \A p, q \in Requests :
       phase[p] \in Synchronous /\ phase[q] \in Synchronous => p = q
  /\ \A q \in Requests :
       /\ phase[q] \in {"claiming", "resolving", "counting", "removing"} =>
            Current(q)
       /\ phase[q] \in {"resolving", "counting"} =>
            ~HasRoom(rows, call[q].principal)

LEMMA RunsInFreeLoop ==
  ASSUME NEW q \in Requests, Serve(q) \/ StorageFails(q)
  PROVE  LoopIsFree(Host[call[q].registry], Requests \ {q})
<1> USE DEF AtHead, Begins, RunsAtOnce
<1>1. CASE Run(q)
  BY <1>1
  DEF Run, RunUnavailable, RunFindsExpired, DeleteExpired, RunThrottled, StartRun,
      RebuildFails, OperationFails, RunOverQuota, CommitCommand, CommitActivity,
      RunConflict, Admissible
<1>2. CASE Save(q)
  BY <1>2
  DEF Save, StartSave, LoadSave, CommitSave, MissSave, RecheckSave, SaveOverQuota,
      SaveConflict
<1>3. CASE Delete(q)
  BY <1>3 DEF Delete, StartDelete, LoadDelete, RemoveSaved
<1>4. CASE AtOnce(q)
  BY <1>4
  DEF AtOnce, ListSaved, CreateNeedsEphemeral, Create, CreateOverQuota,
      CreateCollides, Creates
<1>5. CASE StorageFails(q)
  BY <1>5 DEF StorageFails, StatementFails, LaterStatementFails, Creates
<1> QED BY <1>1, <1>2, <1>3, <1>4, <1>5 DEF Serve

LEMMA Alone ==
  ASSUME SharedProcess, IInv, NEW q \in Requests, Serve(q) \/ StorageFails(q),
         call[q] \in Calls, NEW p \in Requests \ {q}
  PROVE  phase[p] \notin Synchronous
<1> SUFFICES ASSUME phase[p] \in Synchronous
             PROVE  FALSE
  OBVIOUS
<1>1. call[p] \in Calls
  BY DEF IInv, RequestInv, Synchronous
<1>2. call[p].registry \in Registries /\ call[q].registry \in Registries
  BY <1>1, CallFields
<1> QED BY <1>2, RunsInFreeLoop DEF LoopIsFree, SharedProcess

\* What a claim finds when it comes to its UPDATE.
LEMMA ClaimStands ==
  ASSUME IInv, StretchInv, NEW q \in Requests,
         phase[q] \in {"claiming", "resolving", "counting"}
  PROVE  ClaimMatches(q)
<1>1. Current(q) /\ snapshot[q] # NoRow /\ call[q] \in Calls /\ call[q].kind = "save"
  BY DEF StretchInv, IInv, RequestInv, HoldsRow
<1>2. call[q].handle \in Handles /\ call[q].caller \in Grants
  BY <1>1, CallFields, CallAssumption
<1>3. snapshot[q] = rows[call[q].handle]
  BY <1>1 DEF IInv, RevisionIdentifiesRow, Current
<1>4. call[q].caller = snapshot[q].owner
  BY DEF IInv, RequestInv
<1> QED BY <1>1, <1>2, <1>3, <1>4 DEF ClaimMatches

\* A step of q reports a conflict or tries again only in a run, and what it
\* enters holds.
Uncontested(q) ==
  /\ attempt' # attempt \/ answer'[q].tag = "conflict" => call[q].kind = "run"
  /\ phase'[q] \in {"claiming", "resolving", "counting", "removing"} => Current(q)'
  /\ phase'[q] \in {"resolving", "counting"} => ~HasRoom(rows', call[q].principal)

LEMMA RequestUncontested ==
  ASSUME IInv, StretchInv, NEW q \in Requests, Serve(q) \/ StorageFails(q),
         answer[q] = Unanswered, call' = call
  PROVE  Uncontested(q)
<1> USE DEF IInv, TypeOK, Begins, Refuse, Answer, Settle, Enter, Uncontested,
        Unanswered, store
<1>1. CASE Run(q)
  <2>1. call[q].kind = "run"
    BY <1>1
    DEF Run, RunUnavailable, RunFindsExpired, DeleteExpired, RunThrottled, StartRun,
        RebuildFails, OperationFails, RunOverQuota, CommitCommand, CommitActivity,
        RunConflict, Admissible, AtHead, RequestInv
  <2>2. phase'[q] \notin {"claiming", "resolving", "counting", "removing"}
    BY <1>1
    DEF Run, RunUnavailable, RunFindsExpired, DeleteExpired, RunThrottled, StartRun,
        RebuildFails, OperationFails, RunOverQuota, CommitCommand, CommitActivity,
        RunConflict, Retry
  <2> QED BY <2>1, <2>2
<1>2. CASE Save(q)
  <2>1. CASE StartSave(q)
    BY <2>1 DEF StartSave
  <2>2. CASE LoadSave(q)
    BY <2>2 DEF LoadSave, Current
  <2>3. CASE CommitSave(q)
    BY <2>3 DEF CommitSave
  <2>4. CASE MissSave(q)
    <3>1. ClaimMatches(q) /\ ~HasRoom(rows, call[q].principal)
      BY <2>4, ClaimStands DEF MissSave, AtHead
    <3> QED BY <2>4, <3>1 DEF MissSave, ClaimMatches, Current
  <2>5. CASE SaveOverQuota(q)
    BY <2>5 DEF SaveOverQuota
  <2>6. ~SaveConflict(q)
    BY ClaimStands DEF SaveConflict, AtHead, CountsFull, StretchInv
  <2>7. CASE RecheckSave(q)
    <3>1. ClaimMatches(q) /\ ~HasRoom(rows, call[q].principal)
      BY <2>7 DEF RecheckSave, AtHead, StretchInv
    <3> QED BY <2>7, <3>1 DEF RecheckSave, ClaimMatches, Current
  <2> QED BY <1>2, <2>1, <2>2, <2>3, <2>4, <2>5, <2>6, <2>7 DEF Save
<1>3. CASE Delete(q)
  <2>1. CASE StartDelete(q)
    BY <2>1 DEF StartDelete
  <2>2. CASE LoadDelete(q)
    BY <2>2 DEF LoadDelete, Current
  <2>3. CASE RemoveSaved(q)
    <3>1. Current(q)
      BY <2>3 DEF RemoveSaved, AtHead, StretchInv
    <3> QED BY <2>3, <3>1 DEF RemoveSaved
  <2> QED BY <1>3, <2>1, <2>2, <2>3 DEF Delete
<1>4. CASE AtOnce(q)
  BY <1>4
  DEF AtOnce, ListSaved, CreateNeedsEphemeral, Create, CreateOverQuota, CreateCollides
<1>5. CASE StorageFails(q)
  BY <1>5, FailureFacts
<1> QED BY <1>1, <1>2, <1>3, <1>4, <1>5 DEF Serve

\* A step of q, which alone is served, keeps what is loaded in a stretch.
LEMMA RequestStretch ==
  ASSUME SharedProcess, IInv, LoadedInv, StretchInv, OnlyRunsConflict,
         NEW q \in Requests, Serve(q) \/ StorageFails(q)
  PROVE  StretchInv' /\ OnlyRunsConflict'
<1>1. /\ Kind(q) /\ Holds(q) /\ call[q] \in Calls /\ answer[q] = Unanswered
      /\ call' = call
  BY RequestLedger, KeepsCall
<1>2. Attempts(q) /\ Uncontested(q)
  BY <1>1, RequestAttempts, RequestUncontested
<1>3. answer' = [answer EXCEPT ![q] = answer'[q]]
  BY <1>1, KindAnswers DEF IInv
<1>4. ASSUME NEW p \in Requests \ {q}
      PROVE  /\ phase'[p] \notin Synchronous
             /\ attempt'[p] = attempt[p] /\ answer'[p] = answer[p]
  <2>1. phase'[p] = phase[p] /\ phase[p] \notin Synchronous
    BY <1>1, Alone DEF Holds, IInv, TypeOK
  <2>2. attempt'[p] = attempt[p] /\ answer'[p] = answer[p]
    BY <1>2, <1>3 DEF Attempts, IInv, TypeOK
  <2> QED BY <2>1, <2>2
<1>5. StretchInv'
  <2>1. ASSUME NEW p \in Requests,
               phase'[p] \in {"claiming", "resolving", "counting", "removing"}
        PROVE  p = q
    BY <1>4, <2>1 DEF Synchronous
  <2>2. \A p \in Requests : phase'[p] \in Synchronous => p = q
    BY <1>4
  <2> QED BY <1>1, <1>2, <2>1, <2>2 DEF StretchInv, Uncontested, HasRoom, SavedBy
<1>6. OnlyRunsConflict'
  <2> SUFFICES ASSUME NEW p \in Requests,
                      attempt'[p] > 0 \/ answer'[p].tag = "conflict"
               PROVE  call[p].kind = "run"
    BY <1>1 DEF OnlyRunsConflict
  <2>1. CASE p # q
    BY <1>4, <2>1 DEF OnlyRunsConflict
  <2>2. CASE p = q /\ attempt' = attempt /\ attempt'[p] > 0
    BY <2>2 DEF OnlyRunsConflict
  <2>3. CASE p = q /\ (attempt' # attempt \/ answer'[p].tag = "conflict")
    BY <1>2, <2>3 DEF Uncontested
  <2> QED BY <2>1, <2>2, <2>3
<1> QED BY <1>5, <1>6

LEMMA StretchStep ==
  ASSUME SharedProcess, IInv, LoadedInv, AttemptInv, StretchInv, OnlyRunsConflict,
         [Next]_vars
  PROVE  StretchInv' /\ OnlyRunsConflict'
<1>1. ASSUME NEW q \in Requests, NEW c \in Calls, Issue(q, c)
      PROVE  StretchInv' /\ OnlyRunsConflict'
  <2>1. /\ phase' = [phase EXCEPT ![q] = "queued"]
        /\ call' = [call EXCEPT ![q] = c]
        /\ rows' = rows /\ attempt' = attempt /\ answer' = answer
        /\ snapshot' = snapshot
    BY <1>1 DEF Issue, store
  <2>2. \A p \in Requests \ {q} : phase'[p] = phase[p] /\ call'[p] = call[p]
    BY <2>1 DEF IInv, TypeOK
  <2>3. phase'[q] = "queued"
    BY <2>1 DEF IInv, TypeOK
  <2>4. attempt[q] = 0 /\ answer[q] = Unanswered
    BY <1>1 DEF Issue, AttemptInv, IInv, RequestInv
  <2>5. \A p \in Requests : phase'[p] \in Synchronous => p # q
    BY <2>3 DEF Synchronous
  <2>6. \A p \in Requests : phase'[p] \in {"claiming", "resolving", "counting", "removing"} => p # q
    BY <2>3
  <2>7. ASSUME NEW p \in Requests \ {q}
        PROVE  /\ Current(p)' = Current(p)
               /\ HasRoom(rows', call'[p].principal) = HasRoom(rows, call[p].principal)
    BY <2>1, <2>2 DEF Current, HasRoom, SavedBy
  <2>8. StretchInv'
    BY <2>2, <2>5, <2>6, <2>7 DEF StretchInv
  <2>9. OnlyRunsConflict'
    BY <2>1, <2>2, <2>4 DEF OnlyRunsConflict, Unanswered
  <2> QED BY <2>8, <2>9
<1>2. ASSUME NEW host \in Processes, Crash(host)
      PROVE  StretchInv' /\ OnlyRunsConflict'
  <2>1. /\ rows' = rows /\ call' = call /\ attempt' = attempt /\ answer' = answer
        /\ \A p \in Requests :
             \/ phase'[p] = "lost"
             \/ phase'[p] = phase[p] /\ snapshot'[p] = snapshot[p]
    BY <1>2 DEF Crash, store
  <2>2. StretchInv'
    BY <2>1 DEF StretchInv, Synchronous, Current, HasRoom, SavedBy
  <2> QED BY <2>1, <2>2 DEF OnlyRunsConflict
<1>3. CASE Tick \/ UNCHANGED vars
  BY <1>3
  DEF Tick, vars, progress, store, StretchInv, OnlyRunsConflict, Current, HasRoom,
      SavedBy
<1> QED BY <1>1, <1>2, <1>3, RequestStretch DEF Next

\* When all registries live in one process, no save and no deletion meets a
\* conflict: the load and the statement after it are one stretch of code without
\* an await, so the retry loop of save and the conflict answer of deleteSaved are
\* for a second process on the file only.
THEOREM SavesMeetNoConflict ==
  ASSUME SharedProcess
  PROVE  Spec => []OnlyRunsConflict
<1>1. Init => StretchInv /\ OnlyRunsConflict
  BY DEF Init, StretchInv, OnlyRunsConflict, Synchronous, Unanswered
<1>2. /\ IInv /\ LoadedInv /\ AttemptInv
      /\ StretchInv /\ OnlyRunsConflict /\ [Next]_vars
      => StretchInv' /\ OnlyRunsConflict'
  BY SharedProcess, StretchStep
<1> QED BY <1>1, <1>2, Counted, PTL DEF Spec

=============================================================================
