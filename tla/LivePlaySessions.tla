--------------------------- MODULE LivePlaySessions ---------------------------
(***************************************************************************)
(* The process-lifetime Play Session registry: the sessions of a stdio     *)
(* host, and of hosts without a repository.                                *)
(*                                                                         *)
(* liveSessions maps a handle to a session object; the object holds the    *)
(* session's root, its tenure and the tail of its promise chain.  A call   *)
(* looks its object up when it is made and works on that object when its   *)
(* turn comes, whatever the map says by then.  One event loop runs         *)
(* everything: a step is one stretch of code without an await.  Handles    *)
(* are random, so an object is known by its handle for ever.               *)
(***************************************************************************)
EXTENDS Integers, Sequences, Functions

CONSTANTS
  Handles,            \* what playSessionIdFactory can return
  Principals,         \* authenticated owners
  LocalProcess,       \* the caller of a stdio host, and the owner of its sessions
  Guest,              \* a caller with a guest's grant
  Requests,           \* calls of clients, each issued once
  NoSession,          \* no object was made under the handle
  NoCall,             \* the request is not issued yet
  SavedRetention,     \* SAVED_INACTIVITY_RETENTION_MS, in ticks
  MaxTime             \* bound on the clock

Owners  == Principals \cup {LocalProcess}
Callers == Owners \cup {Guest}

Chained == {"run", "save", "delete"}

ASSUME LiveAssumption ==
  /\ LocalProcess \notin Principals
  /\ Guest \notin Owners
  /\ NoSession \notin [owner : Owners, lastActivity : Nat, log : Seq(Requests)]
  /\ SavedRetention \in Nat \ {0}
  /\ MaxTime \in Nat

VARIABLES
  liveSessions,     \* the handles in the map
  session,          \* handle -> the object made under it, or NoSession
  tail,             \* handle -> the calls in the object's chain
  now,              \* the clock
  phase,            \* request -> where its code stands
  call,             \* request -> the call it carries
  answer            \* request -> what the registry answered

vars == <<liveSessions, session, tail, now, phase, call, answer>>

CallSet ==
  [kind : {"run"}, handle : Handles, caller : Callers]
    \cup [kind : {"create"}, handle : Handles, caller : Owners]
    \cup [kind : {"save"}, handle : Handles, caller : {Guest}]
    \cup [kind : {"delete", "list"}, handle : Handles, caller : Principals]

Answers == [tag : {"none", "unavailable", "failed", "succeeded", "deleted",
                   "created", "collision", "listed"},
            seen : Seq(Requests)]

Unanswered == [tag |-> "none", seen |-> <<>>]

\* Mutant: a local session expires like a saved one.
ExpiredInactive(h) == now >= session[h].lastActivity + SavedRetention

Expired(h) ==
  /\ session[h].owner # LocalProcess
  /\ now >= session[h].lastActivity + SavedRetention

\* Mutant: evidence of any kind.
AnyEvidence(c, h) == c.caller # Guest

CallerAuthorizes(c, h) == c.caller = session[h].owner

Settle(q, tag, seen) ==
  /\ phase' = [phase EXCEPT ![q] = "answered"]
  /\ answer' = [answer EXCEPT ![q] = [tag |-> tag, seen |-> seen]]

\* Mutant: a call that runs beside the one before it.
TurnOrNot(q, ph) ==
  /\ phase[q] = ph
  /\ tail[call[q].handle] # <<>>

\* The promise chain of q's object has come to q.
Turn(q, ph) ==
  /\ phase[q] = ph
  /\ tail[call[q].handle] # <<>>
  /\ Head(tail[call[q].handle]) = q

\* Mutant: a rejected promise leaves the chain where it is.
LeavesOnSuccess(q, tag) ==
  tail' = IF tag \in {"succeeded", "deleted"}
          THEN [tail EXCEPT ![call[q].handle] = Tail(@)] ELSE tail

\* session.tail settles with the call, whether it fails or not.
Leaves(q, tag) == tail' = [tail EXCEPT ![call[q].handle] = Tail(@)]

Answer(q, tag, seen) == Settle(q, tag, seen) /\ Leaves(q, tag)

Init ==
  /\ liveSessions = {}
  /\ session = [h \in Handles |-> NoSession]
  /\ tail = [h \in Handles |-> <<>>]
  /\ now = 0
  /\ phase = [q \in Requests |-> "idle"]
  /\ call = [q \in Requests |-> NoCall]
  /\ answer = [q \in Requests |-> Unanswered]

Calls(q, c) == phase[q] = "idle" /\ call' = [call EXCEPT ![q] = c]

\* run, save and deleteSaved take the object from the map and join its chain.
Issue(q, c) ==
  /\ c.kind \in Chained
  /\ Calls(q, c)
  /\ IF c.handle \in liveSessions
     THEN /\ phase' = [phase EXCEPT ![q] = "queued"]
          /\ tail' = [tail EXCEPT ![c.handle] = Append(@, q)]
          /\ UNCHANGED answer
     ELSE Settle(q, "unavailable", <<>>) /\ UNCHANGED tail
  /\ UNCHANGED <<liveSessions, session, now>>

Create(q, c, h) ==
  /\ c.kind = "create"
  /\ Calls(q, c)
  /\ session[h] = NoSession
  /\ session' = [session EXCEPT ![h] =
                   [owner |-> c.caller, lastActivity |-> now, log |-> <<>>]]
  /\ liveSessions' = liveSessions \cup {h}
  /\ Settle(q, "created", <<>>)
  /\ UNCHANGED <<tail, now>>

\* Every one of MAX_PLAY_SESSION_ID_ATTEMPTS handles met a live session.
CreateCollides(q, c) ==
  /\ c.kind = "create"
  /\ Calls(q, c)
  /\ liveSessions # {}
  /\ Settle(q, "collision", <<>>)
  /\ UNCHANGED <<liveSessions, session, tail, now>>

\* listSaved drops what has expired, whoever asks and whoever works on it.
ListSaved(q, c) ==
  /\ c.kind = "list"
  /\ Calls(q, c)
  /\ liveSessions' = {h \in liveSessions : ~Expired(h)}
  /\ Settle(q, "listed", <<>>)
  /\ UNCHANGED <<session, tail, now>>

\* The call's own object, and nobody else's, leaves the map when expired.
DropExpired(h) ==
  liveSessions' = IF Expired(h) THEN liveSessions \ {h} ELSE liveSessions

RefuseRun(q) ==
  LET h == call[q].handle
  IN  /\ Turn(q, "queued")
      /\ call[q].kind = "run"
      /\ Expired(h) \/ ~CallerAuthorizes(call[q], h)
      /\ DropExpired(h)
      /\ Answer(q, "unavailable", <<>>)
      /\ UNCHANGED <<session, now, call>>

StartRun(q) ==
  LET h == call[q].handle
  IN  /\ Turn(q, "queued")
      /\ call[q].kind = "run"
      /\ ~Expired(h) /\ CallerAuthorizes(call[q], h)
      /\ phase' = [phase EXCEPT ![q] = "operating"]
      /\ answer' = [answer EXCEPT ![q].seen = session[h].log]
      /\ UNCHANGED <<liveSessions, session, tail, now, call>>

FinishRun(q) ==
  LET h == call[q].handle
  IN  /\ Turn(q, "operating")
      /\ session' = [session EXCEPT ![h].log = Append(@, q),
                                    ![h].lastActivity = now]
      /\ Answer(q, "succeeded", answer[q].seen)
      /\ UNCHANGED <<liveSessions, now, call>>

\* The operation fails or throws: no touch.
FailRun(q) ==
  /\ Turn(q, "operating")
  /\ Answer(q, "failed", <<>>)
  /\ UNCHANGED <<liveSessions, session, now, call>>

\* No live session is a guest's, so nothing is ever saved here.
RefuseSave(q) ==
  /\ Turn(q, "queued")
  /\ call[q].kind = "save"
  /\ DropExpired(call[q].handle)
  /\ Answer(q, "unavailable", <<>>)
  /\ UNCHANGED <<session, now, call>>

Deletable(q) ==
  LET h == call[q].handle
  IN  /\ h \in liveSessions
      /\ ~Expired(h)
      /\ CallerAuthorizes(call[q], h)

DeleteSaved(q) ==
  LET h == call[q].handle
  IN  /\ Turn(q, "queued")
      /\ call[q].kind = "delete"
      /\ IF Deletable(q)
         THEN liveSessions' = liveSessions \ {h} /\ Answer(q, "deleted", <<>>)
         ELSE DropExpired(h) /\ Answer(q, "unavailable", <<>>)
      /\ UNCHANGED <<session, now, call>>

Tick ==
  /\ now < MaxTime
  /\ now' = now + 1
  /\ UNCHANGED <<liveSessions, session, tail, phase, call, answer>>

Serve(q) ==
  \/ RefuseRun(q) \/ StartRun(q) \/ FinishRun(q) \/ FailRun(q)
  \/ RefuseSave(q) \/ DeleteSaved(q)

Next ==
  \/ \E q \in Requests :
       \/ \E c \in CallSet :
            \/ Issue(q, c) \/ CreateCollides(q, c) \/ ListSaved(q, c)
            \/ \E h \in Handles : Create(q, c, h)
       \/ Serve(q)
  \/ Tick

\* Promises settle: a call that can take a step takes one.
Fairness == \A q \in Requests : WF_vars(Serve(q))

Spec == Init /\ [][Next]_vars /\ Fairness

-----------------------------------------------------------------------------
(* Properties. *)

\* The variables have their types, the map holds objects that were made, and an
\* object's chain holds the calls on it that have joined and are not answered.
TypeOK ==
  /\ liveSessions \subseteq {h \in Handles : session[h] # NoSession}
  /\ session \in [Handles ->
       [owner : Owners, lastActivity : Nat, log : Seq(Requests)]
         \cup {NoSession}]
  /\ tail \in [Handles -> Seq(Requests)]
  /\ now \in Nat
  /\ phase \in [Requests -> {"idle", "queued", "operating", "answered"}]
  /\ call \in [Requests -> CallSet \cup {NoCall}]
  /\ answer \in [Requests -> Answers]
  /\ \A h \in Handles :
       Range(tail[h]) = {q \in Requests : /\ phase[q] \in {"queued", "operating"}
                                        /\ call[q].handle = h}

\* Each success was computed on the log before it and is the next entry of it,
\* though operations are awaited: the calls on one object do not overlap.
ResultsFollowTheLog ==
  \A q \in Requests : answer[q].tag = "succeeded" =>
    LET log  == session[call[q].handle].log
        seen == answer[q].seen
    IN  /\ Len(seen) < Len(log)
        /\ SubSeq(log, 1, Len(seen)) = seen
        /\ log[Len(seen) + 1] = q

\* Only the owner of a session works on it: a principal's or a guest's call
\* never reaches a local session, nor a local one a principal's.
OnlyOwnersOperate ==
  \A h \in Handles : session[h] # NoSession =>
    \A i \in 1 .. Len(session[h].log) :
      call[session[h].log[i]].caller = session[h].owner

\* A local session stays for the lifetime of the process, whatever other calls
\* clean up and however long it is idle.
LocalSessionsStay ==
  [][\A h \in liveSessions :
       session[h].owner = LocalProcess => h \in liveSessions']_vars

\* Every call in a chain is answered, also behind calls that fail.
EveryCallSettles ==
  \A q \in Requests : phase[q] = "queued" ~> phase[q] = "answered"

\* An operation starts only on a session that is available: once it is deleted,
\* every call on it answers playSessionUnavailable.
DeletedIsUnavailable ==
  [][\A q \in Requests :
       phase[q] = "queued" /\ phase'[q] = "operating" =>
         call[q].handle \in liveSessions]_vars

=============================================================================
