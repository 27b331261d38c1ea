-------------------------- MODULE PlaySessionLedger --------------------------
(***************************************************************************)
(* What the hosted Play Session registry promises its callers, with no     *)
(* rows, revisions, retries, queues or processes in sight: a Play Session  *)
(* is an owner and a log of retained commands; a request is answered in    *)
(* one atomic step, against the log as it is at that step, and only for    *)
(* the owner of that step.  Retention may drop sessions at any time,       *)
(* alone or in the step of the call that triggers the clean-up.  A refusal *)
(* changes no log, and one that names a quota is true when it is given.    *)
(***************************************************************************)
EXTENDS Integers, Sequences, FiniteSets

CONSTANTS
  Handles,      \* playSessionIds
  Owners,       \* who can own a session: principals and guest grants
  Callers,      \* who can present evidence: owners and local processes
  Requests,     \* client requests, each issued once
  NoSession,    \* stands behind a handle that has no session
  NoEvidence,   \* what a request not issued yet has presented
  Refusals,     \* the tags of answers that report no effect
  MaxSaved,     \* sessions a principal may hold
  MaxOperations \* commands a session may retain

VARIABLES
  sessions,     \* handle -> [owner, operations] or NoSession
  evidence,     \* request -> [caller, principal, handle] or NoEvidence
  answers       \* request -> [tag, seen]

vars == <<sessions, evidence, answers>>

Session == [owner : Owners, operations : Seq(Requests)]

Unanswered == [tag |-> "none", seen |-> <<>>]

Init ==
  /\ sessions \in [Handles -> {NoSession} \cup
                     [owner : Owners, operations : {<<>>}]]
  /\ evidence = [q \in Requests |-> NoEvidence]
  /\ answers = [q \in Requests |-> Unanswered]

\* A request is answered at most once, and only after it was issued.
Open(q) == evidence[q] # NoEvidence /\ answers[q] = Unanswered

Answer(q, tag, seen) ==
  /\ Open(q)
  /\ answers' = [answers EXCEPT ![q] = [tag |-> tag, seen |-> seen]]
  /\ UNCHANGED evidence

Owns(q, h) ==
  /\ Open(q)
  /\ evidence[q].handle = h
  /\ sessions[h] # NoSession
  /\ evidence[q].caller = sessions[h].owner

\* principal: for whom the caller acts.
Issue(q, caller, principal, h) ==
  /\ evidence[q] = NoEvidence
  /\ evidence' = [evidence EXCEPT ![q] =
                    [caller |-> caller, principal |-> principal, handle |-> h]]
  /\ UNCHANGED <<sessions, answers>>

\* The owner's operation joins the log; its result was computed on exactly
\* the log before it.
Operate(q, h) ==
  /\ Owns(q, h)
  /\ sessions' = [sessions EXCEPT ![h].operations = Append(@, q)]
  /\ Answer(q, "committed", sessions[h].operations)

\* The owner's query sees the whole log and leaves it as it is.
Observe(q, h) ==
  /\ Owns(q, h)
  /\ Answer(q, "observed", sessions[h].operations)
  /\ UNCHANGED sessions

\* The holder of the guest grant gives its session to the principal it came
\* with; the log goes with it.
Claim(q, h) ==
  /\ Owns(q, h)
  /\ evidence[q].principal \in Owners
  /\ sessions' = [sessions EXCEPT ![h].owner = evidence[q].principal]
  /\ Answer(q, "saved", <<>>)

Delete(q, h) ==
  /\ Owns(q, h)
  /\ sessions' = [sessions EXCEPT ![h] = NoSession]
  /\ Answer(q, "deleted", <<>>)

Expire(S) == [h \in Handles |-> IF h \in S THEN NoSession ELSE sessions[h]]

\* A new session is empty and belongs to the caller who asked for it.
Create(q, h) ==
  /\ Open(q)
  /\ evidence[q].caller \in Owners
  /\ sessions[h] = NoSession
  /\ \E S \in SUBSET Handles :
       sessions' = [Expire(S) EXCEPT
                      ![h] = [owner      |-> evidence[q].caller,
                              operations |-> <<>>]]
  /\ Answer(q, "created", <<>>)

HeldBy(owner, kept) ==
  {h \in Handles : kept[h] # NoSession /\ kept[h].owner = owner}

\* A quota is named as the reason only where it is reached: by the principal's
\* sessions, or by the log of the session while there is one.
Truthful(q, tag, kept) ==
  /\ tag = "savedSessionQuotaExceeded" =>
       Cardinality(HeldBy(evidence[q].principal, kept)) >= MaxSaved
  /\ tag = "retainedCommandQuotaExceeded" =>
       LET session == kept[evidence[q].handle]
       IN  session # NoSession => Len(session.operations) >= MaxOperations

\* A refusal changes no session, whatever the retention drops meanwhile.
Refuse(q) ==
  /\ \E S \in SUBSET Handles : sessions' = Expire(S)
  /\ \E tag \in Refusals : Answer(q, tag, <<>>) /\ Truthful(q, tag, sessions')

Cleanup ==
  /\ \E S \in SUBSET Handles : sessions' = Expire(S)
  /\ UNCHANGED <<evidence, answers>>

Next ==
  \/ \E q \in Requests, h \in Handles :
       \/ \E caller, principal \in Callers : Issue(q, caller, principal, h)
       \/ Operate(q, h)
       \/ Observe(q, h)
       \/ Claim(q, h)
       \/ Delete(q, h)
       \/ Create(q, h)
  \/ \E q \in Requests : Refuse(q)
  \/ Cleanup

Spec == Init /\ [][Next]_vars

=============================================================================
