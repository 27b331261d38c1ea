----------------------- MODULE RecoverablePlaySessions -----------------------
(***************************************************************************)
(* The recoverable Play Session registry of packages/mcp and the SQLite    *)
(* repository under it.                                                    *)
(*                                                                         *)
(* A hosted Play Session is one row of play_sessions: a revision, an owner *)
(* and the retained commands that rebuild it.  A registry has no state of  *)
(* its own but operationTails, a chain of promises per handle.  To run an  *)
(* operation it loads the row, rebuilds the session, awaits the operation  *)
(* and commits on the revision it loaded; on a conflict it starts again.   *)
(* The HTTP host makes a new registry for every POST, and a rollout or a   *)
(* restart can put a second process on the file, so two registries may     *)
(* work on one handle at once; only the row's revision stands between.     *)
(*                                                                         *)
(* One step is one stretch of code without an await, cut at the SQL        *)
(* statements where another process can come in between.  The limiter's    *)
(* transaction has a table of its own and is part of the step next to it;  *)
(* so is the clean-up of expired rows before a save, deletion, list or     *)
(* creation.  Loggers, projections and message texts are left out.  Clocks *)
(* never step back.                                                        *)
(***************************************************************************)
EXTENDS Integers, Sequences, FiniteSets, RateWindow

CONSTANTS
  Handles,              \* what playSessionIdFactory can return
  Principals,           \* authenticated owners
  Grants,               \* guest access grants, each by its digest
  LocalProcess,         \* the caller of a stdio host
  Processes,            \* server processes on the database file
  Registries,           \* registries, each living in a process
  Host,                 \* registry -> its process
  Requests,             \* calls of clients, each issued once
  Calls,                \* the calls a client may issue
  StoredOwner,          \* handle -> owner of the row found at start, or NoRow
  NoRow,                \* no row for the handle
  NoCall,               \* the request is not issued yet
  MaxAttempts,          \* MAX_CONCURRENT_COMMIT_ATTEMPTS
  MaxOperations,        \* maximumRetainedCommandsPerSession
  MaxSaved,             \* DEFAULT_MAX_SAVED_PLAY_SESSIONS_PER_PRINCIPAL
  GuestRetention,       \* GUEST_INACTIVITY_RETENTION_MS, in ticks
  SavedRetention,       \* SAVED_INACTIVITY_RETENTION_MS, in ticks
  MaxTime               \* bound on the clock

Owners  == Principals \cup Grants
Callers == Owners \cup {LocalProcess}

\* run, save and deleteSaved chain per handle; listSaved and create do not.
Chained == {"run", "save", "delete"}

Kinds == Chained \cup {"list", "create"}

\* caller: the evidence presented.  principal: who acts and is charged; it
\* differs from the caller only when a principal saves with a guest's grant.
CallSet == [kind : Kinds, handle : Handles, caller : Callers,
            principal : Callers, registry : Registries]

ASSUME RegistryAssumption ==
  /\ Principals \cap Grants = {}
  /\ LocalProcess \notin Owners
  /\ Host \in [Registries -> Processes]
  /\ StoredOwner \in [Handles -> Owners \cup {NoRow}]
  /\ NoRow \notin Owners
  /\ MaxAttempts \in Nat \ {0}
  /\ MaxOperations \in Nat
  /\ MaxSaved \in Nat
  /\ GuestRetention \in Nat \ {0}
  /\ SavedRetention \in Nat \ {0}
  /\ MaxTime \in Nat

\* The file respects the quota when the first process opens it.
ASSUME StoredAssumption ==
  /\ IsFiniteSet(Handles)
  /\ \A p \in Principals :
       Cardinality({h \in Handles : StoredOwner[h] = p}) <= MaxSaved

ASSUME CallAssumption ==
  /\ Calls \subseteq CallSet
  /\ NoCall \notin CallSet
  /\ \A c \in Calls :
       /\ c.kind = "save" => c.caller \in Grants /\ c.principal \in Principals
       /\ c.kind # "save" => c.principal = c.caller
       /\ c.kind \in {"delete", "list"} => c.caller \in Principals
       /\ c.kind = "create" => c.caller \notin Grants

VARIABLES
  rows,             \* play_sessions: handle -> row or NoRow
  issued,           \* every handle a row was ever created under
  windows,          \* play_session_request_limits: owner -> window
  now,              \* the clock
  operationTails,   \* registry -> handle -> requests in the chain
  phase,            \* request -> where its code stands
  call,             \* request -> the call it carries
  attempt,          \* request -> attempts that ended in a conflict
  snapshot,         \* request -> the row it loaded
  charged,          \* requests the limiter has counted
  answer            \* request -> what the registry answered

store    == <<rows, issued>>
progress == <<operationTails, phase, attempt, snapshot, answer>>
vars     == <<rows, issued, windows, now, operationTails, phase, call,
              attempt, snapshot, charged, answer>>

-----------------------------------------------------------------------------
(* Rows. *)

Row == [revision : Nat, operations : Seq(Requests),
        owner : Owners, lastActivity : Nat]

NewRow(owner, t) ==
  [revision |-> 0, operations |-> <<>>, owner |-> owner, lastActivity |-> t]

Retention(owner) == IF owner \in Grants THEN GuestRetention ELSE SavedRetention

Expired(row, t) == t >= row.lastActivity + Retention(row.owner)

\* DELETE ... WHERE last_activity_at_ms <= now - retention
Unexpired(table, t) ==
  [h \in Handles |->
     IF /\ table[h] # NoRow
        /\ table[h].lastActivity <= t - Retention(table[h].owner)
     THEN NoRow ELSE table[h]]

SavedBy(table, principal) ==
  {h \in Handles : table[h] # NoRow /\ table[h].owner = principal}

\* Mutant: one session too many.
HasRoomForOneMore(table, principal) ==
  Cardinality(SavedBy(table, principal)) <= MaxSaved

HasRoom(table, principal) ==
  Cardinality(SavedBy(table, principal)) < MaxSaved

\* Mutant: the revision is missing from the WHERE clause.
CurrentAtAnyRevision(q) == rows[call[q].handle] # NoRow

\* WHERE play_session_id = ? AND revision = ?
Current(q) ==
  /\ rows[call[q].handle] # NoRow
  /\ rows[call[q].handle].revision = snapshot[q].revision

\* Mutant: any owner may run any session.
AnyOwnerAuthorized(c, row) == c.caller \in Owners

\* The digest of a guest's grant or the id of a principal; a local process
\* matches neither.
CallerAuthorizes(c, row) == c.caller = row.owner

-----------------------------------------------------------------------------
(* Requests. *)

\* Mutant: deleteSaved awaits between its load and its delete.
SynchronousButDelete ==
  {"expiring", "saving", "claiming", "resolving", "counting", "deleting"}

\* Code between two awaits of its process: nothing else of that process runs.
Synchronous ==
  {"expiring", "saving", "claiming", "resolving", "counting", "deleting",
   "removing"}

Working == Synchronous \cup {"operating"}

Phases == {"idle", "queued", "answered", "lost"} \cup Working

Refusals == {"unavailable", "failed", "rateExceeded",
             "savedSessionQuotaExceeded", "retainedCommandQuotaExceeded",
             "conflict", "collision", "ephemeralOnly", "storageFailure",
             "listed"}

Effects == {"committed", "observed", "saved", "deleted", "created"}

Unanswered == [tag |-> "none", seen |-> <<>>]

Answers == [tag : {"none"} \cup Refusals \cup Effects, seen : Seq(Requests)]

TailOf(q) == operationTails[call[q].registry][call[q].handle]

\* No other request of the process is inside a synchronous stretch of code.
LoopIsFree(process, others) ==
  \A p \in others :
    phase[p] \in Synchronous => Host[call[p].registry] # process

\* Mutant: the call does not wait for the one before it.
AtHeadOrNot(q, ph) ==
  /\ phase[q] = ph
  /\ TailOf(q) # <<>>
  /\ LoopIsFree(Host[call[q].registry], Requests \ {q})

\* q is the call its promise chain has come to, in phase ph.
AtHead(q, ph) ==
  /\ phase[q] = ph
  /\ TailOf(q) # <<>>
  /\ Head(TailOf(q)) = q
  /\ LoopIsFree(Host[call[q].registry], Requests \ {q})

Begins(q, kind) == AtHead(q, "queued") /\ call[q].kind = kind

\* create and listSaved run at once, in one stretch of code.
RunsAtOnce(q, kind) ==
  /\ phase[q] = "queued"
  /\ call[q].kind = kind
  /\ LoopIsFree(Host[call[q].registry], Requests \ {q})

\* Mutant: only a success lets the next call of the chain start.
LeavesOnSuccess(q) ==
  operationTails' =
    IF call[q].kind \in Chained /\ answer'[q].tag \in Effects
    THEN [operationTails EXCEPT ![call[q].registry][call[q].handle] = Tail(@)]
    ELSE operationTails

\* The promise settles and the next call of the chain may start.
Leaves(q) ==
  operationTails' =
    IF call[q].kind \in Chained
    THEN [operationTails EXCEPT ![call[q].registry][call[q].handle] = Tail(@)]
    ELSE operationTails

Settle(q, tag, seen) ==
  /\ phase' = [phase EXCEPT ![q] = "answered"]
  /\ answer' = [answer EXCEPT ![q] = [tag |-> tag, seen |-> seen]]
  /\ snapshot' = [snapshot EXCEPT ![q] = NoRow]
  /\ Leaves(q)

Answer(q, tag, seen) == Settle(q, tag, seen) /\ UNCHANGED attempt

Refuse(q, tag) == Answer(q, tag, <<>>)

Enter(q, ph, row) ==
  /\ phase' = [phase EXCEPT ![q] = ph]
  /\ snapshot' = [snapshot EXCEPT ![q] = row]
  /\ UNCHANGED <<operationTails, attempt, answer>>

\* Mutant: a retry that keeps the row it has.
RetryWithoutReload(q, ph) ==
  /\ attempt' = [attempt EXCEPT ![q] = @ + 1]
  /\ IF attempt[q] + 1 < MaxAttempts
     THEN UNCHANGED <<phase, snapshot, operationTails, answer>>
     ELSE Settle(q, "conflict", <<>>)

\* A conflict: back to phase ph while attempts are left.
Retry(q, ph) ==
  /\ attempt' = [attempt EXCEPT ![q] = @ + 1]
  /\ IF attempt[q] + 1 < MaxAttempts
     THEN /\ phase' = [phase EXCEPT ![q] = ph]
          /\ snapshot' = [snapshot EXCEPT ![q] = NoRow]
          /\ UNCHANGED <<operationTails, answer>>
     ELSE Settle(q, "conflict", <<>>)

\* The limiter's transaction for the principal of q.
Charge(q) ==
  /\ windows' = WindowsAfter(windows, call[q].principal, now)
  /\ charged' = IF RateExceeded(windows, call[q].principal, now)
                THEN charged ELSE charged \cup {q}

Throttled(q) == RateExceeded(windows, call[q].principal, now)

Uncharged == UNCHANGED <<windows, charged>>

-----------------------------------------------------------------------------
(* Arrival. *)

Init ==
  /\ rows = [h \in Handles |-> IF StoredOwner[h] = NoRow THEN NoRow
                                ELSE NewRow(StoredOwner[h], 0)]
  /\ issued = {h \in Handles : StoredOwner[h] # NoRow}
  /\ windows = [k \in Owners |-> NoWindow]
  /\ now = 0
  /\ operationTails = [r \in Registries |-> [h \in Handles |-> <<>>]]
  /\ phase = [q \in Requests |-> "idle"]
  /\ call = [q \in Requests |-> NoCall]
  /\ attempt = [q \in Requests |-> 0]
  /\ snapshot = [q \in Requests |-> NoRow]
  /\ charged = {}
  /\ answer = [q \in Requests |-> Unanswered]

Issue(q, c) ==
  /\ phase[q] = "idle"
  /\ phase' = [phase EXCEPT ![q] = "queued"]
  /\ call' = [call EXCEPT ![q] = c]
  /\ operationTails' =
       IF c.kind \in Chained
       THEN [operationTails EXCEPT ![c.registry][c.handle] = Append(@, q)]
       ELSE operationTails
  /\ UNCHANGED <<store, windows, now, attempt, snapshot, charged, answer>>

-----------------------------------------------------------------------------
(* run: load, authorize, charge, rebuild, await the operation, commit. *)

RunUnavailable(q) ==
  /\ Begins(q, "run")
  /\ LET row == rows[call[q].handle]
     IN  row # NoRow => ~Expired(row, now) /\ ~CallerAuthorizes(call[q], row)
  /\ Refuse(q, "unavailable")
  /\ Uncharged
  /\ UNCHANGED <<store, now, call>>

RunFindsExpired(q) ==
  /\ Begins(q, "run")
  /\ rows[call[q].handle] # NoRow
  /\ Expired(rows[call[q].handle], now)
  /\ Enter(q, "expiring", rows[call[q].handle])
  /\ Uncharged
  /\ UNCHANGED <<store, now, call>>

\* Mutant: the expired row is deleted whatever became of it.
DeleteExpiredBlindly(q) ==
  /\ AtHead(q, "expiring")
  /\ rows' = [rows EXCEPT ![call[q].handle] = NoRow]
  /\ Refuse(q, "unavailable")
  /\ Uncharged
  /\ UNCHANGED <<issued, now, call>>

\* DELETE at the revision loaded; a row that moved on is loaded again.
DeleteExpired(q) ==
  /\ AtHead(q, "expiring")
  /\ IF Current(q)
     THEN /\ rows' = [rows EXCEPT ![call[q].handle] = NoRow]
          /\ Refuse(q, "unavailable")
     ELSE Retry(q, "queued") /\ UNCHANGED rows
  /\ Uncharged
  /\ UNCHANGED <<issued, now, call>>

Admissible(q) ==
  /\ Begins(q, "run")
  /\ rows[call[q].handle] # NoRow
  /\ ~Expired(rows[call[q].handle], now)
  /\ CallerAuthorizes(call[q], rows[call[q].handle])

RunThrottled(q) ==
  /\ Admissible(q)
  /\ q \notin charged /\ Throttled(q)
  /\ Charge(q)
  /\ Refuse(q, "rateExceeded")
  /\ UNCHANGED <<store, now, call>>

\* Mutant: every attempt is charged.
ChargeEachAttempt(q) == ~Throttled(q) /\ Charge(q)

\* A retry is not charged again.
ChargeOnce(q) ==
  IF q \in charged THEN Uncharged ELSE ~Throttled(q) /\ Charge(q)

StartRun(q) ==
  /\ Admissible(q)
  /\ ChargeOnce(q)
  /\ Enter(q, "operating", rows[call[q].handle])
  /\ UNCHANGED <<store, now, call>>

\* A retained command this release no longer replays.
RebuildFails(q) ==
  /\ Admissible(q)
  /\ rows[call[q].handle].operations # <<>>
  /\ ChargeOnce(q)
  /\ Refuse(q, "storageFailure")
  /\ UNCHANGED <<store, now, call>>

\* Mutant: the command is kept before its result is looked at.
OperationFailsRetained(q) ==
  /\ AtHead(q, "operating")
  /\ Current(q)
  /\ rows' = [rows EXCEPT ![call[q].handle].operations = Append(@, q)]
  /\ Refuse(q, "failed")
  /\ Uncharged
  /\ UNCHANGED <<issued, now, call>>

\* operationFailed: the caller gets the result, the row is not touched.
OperationFails(q) ==
  /\ AtHead(q, "operating")
  /\ Refuse(q, "failed")
  /\ Uncharged
  /\ UNCHANGED <<store, now, call>>

CommandQuotaReached(q) == Len(snapshot[q].operations) >= MaxOperations

\* The quota is looked at after the operation ran on the rebuilt session.
RunOverQuota(q) ==
  /\ AtHead(q, "operating")
  /\ CommandQuotaReached(q)
  /\ Refuse(q, "retainedCommandQuotaExceeded")
  /\ Uncharged
  /\ UNCHANGED <<store, now, call>>

\* Mutant: SET revision = revision + 1 is forgotten.
CommittedAtSameRevision(q, operations) ==
  [snapshot[q] EXCEPT !.operations = operations, !.lastActivity = now]

\* The UPDATE writes every column from the loaded record.
CommittedRow(q, operations) ==
  [revision     |-> snapshot[q].revision + 1,
   operations   |-> operations,
   owner        |-> snapshot[q].owner,
   lastActivity |-> now]

CommitCommand(q) ==
  /\ AtHead(q, "operating")
  /\ ~CommandQuotaReached(q)
  /\ Current(q)
  /\ rows' = [rows EXCEPT ![call[q].handle] =
                CommittedRow(q, Append(snapshot[q].operations, q))]
  /\ Answer(q, "committed", snapshot[q].operations)
  /\ Uncharged
  /\ UNCHANGED <<issued, now, call>>

\* A success that retains no command still moves the revision.
CommitActivity(q) ==
  /\ AtHead(q, "operating")
  /\ Current(q)
  /\ rows' = [rows EXCEPT ![call[q].handle] =
                CommittedRow(q, snapshot[q].operations)]
  /\ Answer(q, "observed", snapshot[q].operations)
  /\ Uncharged
  /\ UNCHANGED <<issued, now, call>>

RunConflict(q) ==
  /\ AtHead(q, "operating")
  /\ ~Current(q)
  /\ Retry(q, "queued")
  /\ Uncharged
  /\ UNCHANGED <<store, now, call>>

-----------------------------------------------------------------------------
(* save: a guest's session becomes a principal's.  No await inside.        *)

StartSave(q) ==
  /\ Begins(q, "save")
  /\ rows' = Unexpired(rows, now)
  /\ Charge(q)
  /\ IF Throttled(q) THEN Refuse(q, "rateExceeded")
                     ELSE Enter(q, "saving", NoRow)
  /\ UNCHANGED <<issued, now, call>>

LoadSave(q) ==
  /\ AtHead(q, "saving")
  /\ LET row == rows[call[q].handle]
     IN  IF row # NoRow /\ ~Expired(row, now) /\ CallerAuthorizes(call[q], row)
         THEN Enter(q, "claiming", row)
         ELSE Refuse(q, "unavailable")
  /\ Uncharged
  /\ UNCHANGED <<store, now, call>>

\* Mutant: a claim that checks the row only when it loads it.
ClaimMatchesAtLoad(q) == rows[call[q].handle] # NoRow

\* ... AND tenure_kind = 'guest'
ClaimMatches(q) == Current(q) /\ rows[call[q].handle].owner \in Grants

\* The UPDATE: revision, tenure and quota in its WHERE clause.
CommitSave(q) ==
  /\ AtHead(q, "claiming")
  /\ ClaimMatches(q) /\ HasRoom(rows, call[q].principal)
  /\ rows' = [rows EXCEPT ![call[q].handle] =
                [revision     |-> snapshot[q].revision + 1,
                 operations   |-> snapshot[q].operations,
                 owner        |-> call[q].principal,
                 lastActivity |-> now]]
  /\ Answer(q, "saved", <<>>)
  /\ Uncharged
  /\ UNCHANGED <<issued, now, call>>

\* It changed no row; resolveSaveConflict reads the row again to say why.
MissSave(q) ==
  /\ AtHead(q, "claiming")
  /\ ~(ClaimMatches(q) /\ HasRoom(rows, call[q].principal))
  /\ Enter(q, "resolving", snapshot[q])
  /\ Uncharged
  /\ UNCHANGED <<store, now, call>>

\* The row is as it was loaded: the next statement counts the sessions.
RecheckSave(q) ==
  /\ AtHead(q, "resolving")
  /\ ClaimMatches(q)
  /\ Enter(q, "counting", snapshot[q])
  /\ Uncharged
  /\ UNCHANGED <<store, now, call>>

\* Mutant: not the row, so it was the quota; nothing is counted again.
FullWhenItMissed(q) == call[q].kind = "save"

\* savedRecords.length >= maximumSavedSessionsPerPrincipal
CountsFull(q) == ~HasRoom(rows, call[q].principal)

SaveOverQuota(q) ==
  /\ AtHead(q, "counting")
  /\ CountsFull(q)
  /\ Refuse(q, "savedSessionQuotaExceeded")
  /\ Uncharged
  /\ UNCHANGED <<store, now, call>>

\* The row moved on, or another process made room since the UPDATE.
SaveConflict(q) ==
  /\ \/ AtHead(q, "resolving") /\ ~ClaimMatches(q)
     \/ AtHead(q, "counting") /\ ~CountsFull(q)
  /\ Retry(q, "saving")
  /\ Uncharged
  /\ UNCHANGED <<store, now, call>>

-----------------------------------------------------------------------------
(* deleteSaved: charge, prune, load, delete the revision loaded.           *)

StartDelete(q) ==
  /\ Begins(q, "delete")
  /\ Charge(q)
  /\ IF Throttled(q)
     THEN Refuse(q, "rateExceeded") /\ UNCHANGED rows
     ELSE Enter(q, "deleting", NoRow) /\ rows' = Unexpired(rows, now)
  /\ UNCHANGED <<issued, now, call>>

LoadDelete(q) ==
  /\ AtHead(q, "deleting")
  /\ LET row == rows[call[q].handle]
     IN  IF row # NoRow /\ CallerAuthorizes(call[q], row)
         THEN Enter(q, "removing", row)
         ELSE Refuse(q, "unavailable")
  /\ Uncharged
  /\ UNCHANGED <<store, now, call>>

\* Not retried: a row that moved on is reported as a conflict.
RemoveSaved(q) ==
  /\ AtHead(q, "removing")
  /\ IF Current(q)
     THEN /\ rows' = [rows EXCEPT ![call[q].handle] = NoRow]
          /\ Answer(q, "deleted", <<>>)
     ELSE Refuse(q, "conflict") /\ UNCHANGED rows
  /\ Uncharged
  /\ UNCHANGED <<issued, now, call>>

-----------------------------------------------------------------------------
(* listSaved and create, each one stretch of code outside the chains.      *)

ListSaved(q) ==
  /\ RunsAtOnce(q, "list")
  /\ Charge(q)
  /\ IF Throttled(q)
     THEN Refuse(q, "rateExceeded") /\ UNCHANGED rows
     ELSE Refuse(q, "listed") /\ rows' = Unexpired(rows, now)
  /\ UNCHANGED <<issued, now, call>>

CreateNeedsEphemeral(q) ==
  /\ RunsAtOnce(q, "create")
  /\ call[q].caller = LocalProcess
  /\ Refuse(q, "ephemeralOnly")
  /\ Uncharged
  /\ UNCHANGED <<store, now, call>>

\* Mutant: a local process gets a row.
CreatesForAnyone(q) == RunsAtOnce(q, "create")

Creates(q) == RunsAtOnce(q, "create") /\ call[q].caller \in Principals

\* A handle is random: it may meet a row that exists, never one that is gone.
Create(q, h) ==
  /\ Creates(q)
  /\ h \notin issued
  /\ HasRoom(Unexpired(rows, now), call[q].caller)
  /\ rows' = [Unexpired(rows, now) EXCEPT ![h] = NewRow(call[q].caller, now)]
  /\ issued' = issued \cup {h}
  /\ Answer(q, "created", <<>>)
  /\ Uncharged
  /\ UNCHANGED <<now, call>>

CreateOverQuota(q) ==
  /\ Creates(q)
  /\ ~HasRoom(Unexpired(rows, now), call[q].caller)
  /\ rows' = Unexpired(rows, now)
  /\ Refuse(q, "savedSessionQuotaExceeded")
  /\ Uncharged
  /\ UNCHANGED <<issued, now, call>>

\* Every one of MAX_PLAY_SESSION_ID_ATTEMPTS handles met a row.
CreateCollides(q) ==
  /\ Creates(q)
  /\ \E h \in Handles : Unexpired(rows, now)[h] # NoRow
  /\ rows' = Unexpired(rows, now)
  /\ Refuse(q, "collision")
  /\ Uncharged
  /\ UNCHANGED <<issued, now, call>>

-----------------------------------------------------------------------------
(* The environment. *)

\* A statement that throws changes no row and ends the request.
StatementFails(q) ==
  /\ \/ \E ph \in Working \cup {"queued"} : AtHead(q, ph)
     \/ \E kind \in Kinds \ Chained : RunsAtOnce(q, kind)
  /\ Refuse(q, "storageFailure")
  /\ Uncharged
  /\ UNCHANGED <<store, now, call>>

\* What the statement before it did stands: the charge of a list or a deletion
\* whose clean-up or SELECT throws, the clean-up before a charge or an INSERT.
LaterStatementFails(q) ==
  /\ \/ /\ RunsAtOnce(q, "list")
        /\ ~Throttled(q) /\ Charge(q)
        /\ rows' \in {rows, Unexpired(rows, now)}
     \/ /\ Begins(q, "delete")
        /\ ~Throttled(q) /\ Charge(q)
        /\ UNCHANGED rows
     \/ /\ Begins(q, "save") \/ Creates(q)
        /\ rows' = Unexpired(rows, now)
        /\ Uncharged
  /\ Refuse(q, "storageFailure")
  /\ UNCHANGED <<issued, now, call>>

StorageFails(q) == StatementFails(q) \/ LaterStatementFails(q)

\* The process stops: its chains and the requests in them are gone, the file
\* and what was answered stay.
Crash(p) ==
  LET gone == {q \in Requests : /\ phase[q] \in Working \cup {"queued"}
                                /\ Host[call[q].registry] = p}
  IN  /\ gone # {}
      /\ phase' = [q \in Requests |-> IF q \in gone THEN "lost" ELSE phase[q]]
      /\ snapshot' = [q \in Requests |->
                        IF q \in gone THEN NoRow ELSE snapshot[q]]
      /\ operationTails' =
           [r \in Registries |-> IF Host[r] = p THEN [h \in Handles |-> <<>>]
                                 ELSE operationTails[r]]
      /\ UNCHANGED <<store, windows, now, call, attempt, charged, answer>>

Tick ==
  /\ now < MaxTime
  /\ now' = now + 1
  /\ UNCHANGED <<store, windows, progress, call, charged>>

Run(q) ==
  \/ RunUnavailable(q) \/ RunFindsExpired(q) \/ DeleteExpired(q)
  \/ RunThrottled(q) \/ StartRun(q) \/ RebuildFails(q)
  \/ OperationFails(q) \/ RunOverQuota(q)
  \/ CommitCommand(q) \/ CommitActivity(q) \/ RunConflict(q)

Save(q) ==
  StartSave(q) \/ LoadSave(q) \/ CommitSave(q) \/ MissSave(q)
  \/ RecheckSave(q) \/ SaveOverQuota(q) \/ SaveConflict(q)

Delete(q) == StartDelete(q) \/ LoadDelete(q) \/ RemoveSaved(q)

AtOnce(q) ==
  \/ ListSaved(q) \/ CreateNeedsEphemeral(q)
  \/ \E h \in Handles : Create(q, h)
  \/ CreateOverQuota(q) \/ CreateCollides(q)

Serve(q) == Run(q) \/ Save(q) \/ Delete(q) \/ AtOnce(q)

Next ==
  \/ \E q \in Requests : (\E c \in Calls : Issue(q, c)) \/ Serve(q)
                         \/ StorageFails(q)
  \/ \E p \in Processes : Crash(p)
  \/ Tick

\* Promises settle and the event loop comes round: a request that can take a
\* step takes one.  Nothing is assumed of clients, clocks or crashes.
Fairness == \A q \in Requests : WF_vars(Serve(q))

Spec == Init /\ [][Next]_vars
FairSpec == Spec /\ Fairness

-----------------------------------------------------------------------------
(* Properties. *)

TypeOK ==
  /\ rows \in [Handles -> Row \cup {NoRow}]
  /\ issued \subseteq Handles
  /\ windows \in [Owners -> RequestWindow]
  /\ now \in Nat
  /\ operationTails \in [Registries -> [Handles -> Seq(Requests)]]
  /\ phase \in [Requests -> Phases]
  /\ call \in [Requests -> Calls \cup {NoCall}]
  /\ attempt \in [Requests -> 0 .. MaxAttempts]
  /\ snapshot \in [Requests -> Row \cup {NoRow}]
  /\ charged \subseteq Requests
  /\ answer \in [Requests -> Answers]

\* The answer of a request was computed on exactly the commands that stand
\* first in the row, and a committed operation is the next one: no acknowledged
\* command is lost, doubled or moved while its session lives, and no query saw
\* a state the session never had, whichever registries and processes worked on
\* the row (runReadyAttempt, commitSucceededRun, the repository's commit).
AnswersStand ==
  \A q \in Requests :
    LET row == rows[call[q].handle]
        seen == answer[q].seen
    IN  answer[q].tag \in {"committed", "observed"} /\ row # NoRow =>
          /\ Len(seen) <= Len(row.operations)
          /\ \A i \in 1 .. Len(seen) : row.operations[i] = seen[i]
          /\ answer[q].tag = "committed" =>
               /\ Len(seen) < Len(row.operations)
               /\ row.operations[Len(seen) + 1] = q

\* Every retained command was acknowledged at its place: a request that was
\* refused, failed, retried, throttled or lost in a crash left no trace.
OnlyAcknowledgedCommands ==
  \A h \in Handles : rows[h] # NoRow =>
    \A i \in 1 .. Len(rows[h].operations) :
      LET q == rows[h].operations[i] IN
      /\ answer[q].tag = "committed"
      /\ call[q].handle = h
      /\ Len(answer[q].seen) = i - 1

\* A loaded row whose revision still matches is the row in the table, in every
\* column: the revision alone is enough for the guards of all the statements.
RevisionIdentifiesRow ==
  \A q \in Requests :
    LET row == rows[call[q].handle] IN
    snapshot[q] # NoRow /\ row # NoRow =>
      /\ snapshot[q].revision <= row.revision
      /\ snapshot[q].revision = row.revision => snapshot[q] = row

\* Commands are appended by the caller who owns the row at that moment, also
\* when the session was given to a principal while the operation was awaited.
AppendStep ==
  \A h \in Handles :
    /\ rows[h] # NoRow
    /\ rows'[h] # NoRow
    /\ rows'[h].operations # rows[h].operations
    => \E q \in Requests :
         /\ rows'[h].operations = Append(rows[h].operations, q)
         /\ call[q].handle = h
         /\ call[q].caller = rows[h].owner

OwnerAppends == [][AppendStep]_vars

\* A saved session keeps its principal until it is gone.  A guest's session
\* can only go to the principal of a save that presented its grant.
MoveStep ==
  \A h \in Handles :
    /\ rows[h] # NoRow
    /\ rows'[h] # NoRow
    /\ rows'[h].owner # rows[h].owner
    => /\ rows[h].owner \in Grants
       /\ \E q \in Requests :
            /\ call[q].kind = "save" /\ call[q].handle = h
            /\ call[q].caller = rows[h].owner
            /\ call[q].principal = rows'[h].owner

OwnershipMovesOnce == [][MoveStep]_vars

\* A session disappears only by its owner's deletion or after the inactivity
\* its tenure allows, counted from the activity in the table at that moment.
OnlyOwnerOrExpiryRemoves ==
  [][\A h \in Handles :
       rows[h] # NoRow /\ rows'[h] = NoRow =>
         \/ Expired(rows[h], now)
         \/ \E q \in Requests :
              /\ answer[q] = Unanswered
              /\ answer'[q].tag = "deleted"
              /\ call[q].handle = h
              /\ call[q].caller = rows[h].owner]_vars

\* Saves and creations of several processes never overfill a principal.
SavedQuota ==
  \A p \in Principals : Cardinality(SavedBy(rows, p)) <= MaxSaved

\* The limiter counts a request once, however often it is retried.
RetriesAreNotCharged ==
  \A k \in Owners :
    windows[k].count <=
      Cardinality({q \in charged : call[q].principal = k})

\* A request of a handle is worked on only at the head of its chain, so one
\* registry never has two of them under way.
RegistrySerializesHandle ==
  \A p, q \in Requests :
    /\ phase[p] \in Working /\ phase[q] \in Working
    /\ call[p].registry = call[q].registry
    /\ call[p].handle = call[q].handle
    => p = q

\* Each conflict a run met is the progress of another: a commit or save on the
\* same handle, or the removal of its row.
ConflictMeansProgress ==
  \A q \in Requests :
    call[q] # NoCall /\ call[q].kind = "run" =>
      attempt[q] <=
        Cardinality({p \in Requests :
                       /\ answer[p].tag \in {"committed", "observed", "saved"}
                       /\ call[p].handle = call[q].handle})
        + (IF rows[call[q].handle] = NoRow THEN 1 ELSE 0)

\* Within one process a save or a deletion never meets a conflict: what it
\* loaded is still there when its statement runs, whatever the runs of other
\* registries await meanwhile.
OnlyRunsConflict ==
  \A q \in Requests :
    attempt[q] > 0 \/ answer[q].tag = "conflict" => call[q].kind = "run"

\* Every call is answered or lost with its process: a failure, a conflict or a
\* refusal never blocks the calls chained behind it.
EveryCallSettles ==
  \A q \in Requests : phase[q] = "queued" ~> phase[q] \in {"answered", "lost"}

\* The calls of one handle are under way one at a time, on the whole host.
CallsSerializePerHandle ==
  \A p, q \in Requests :
    /\ phase[p] \in Working /\ phase[q] \in Working
    /\ call[p].handle = call[q].handle
    => p = q

-----------------------------------------------------------------------------
(* The registry implements the ledger. *)

\* The marks of absence are no records.
ASSUME AbsenceAssumption ==
  /\ NoRow \notin Row
  /\ NoRow \notin [owner : Owners, operations : Seq(Requests)]
  /\ NoCall \notin [caller : Callers, principal : Callers, handle : Handles]

Ledger == INSTANCE PlaySessionLedger WITH
  NoSession  <- NoRow,
  NoEvidence <- NoCall,
  sessions   <- [h \in Handles |->
                   IF rows[h] = NoRow THEN NoRow
                   ELSE [owner      |-> rows[h].owner,
                         operations |-> rows[h].operations]],
  evidence   <- [q \in Requests |->
                   IF call[q] = NoCall THEN NoCall
                   ELSE [caller    |-> call[q].caller,
                         principal |-> call[q].principal,
                         handle    |-> call[q].handle]],
  answers    <- answer

LedgerSpec == Ledger!Spec

=============================================================================
