----------------------------- MODULE RequestRate -----------------------------
(***************************************************************************)
(* Requests at the limiter.  admitRequest is called with a time read       *)
(* before its transaction begins, and BEGIN IMMEDIATE may wait for another *)
(* process up to the busy timeout: transactions need not come in the order *)
(* of the times they use.  node:sqlite is synchronous, so a process waits  *)
(* for one transaction at a time.                                          *)
(***************************************************************************)
EXTENDS RateWindow, Sequences, FiniteSets

CONSTANTS
  Keys,           \* access key digests
  Processes,      \* server processes on the database file
  Nobody,         \* the process is not waiting
  Second,         \* ticks in a second
  BusyTimeout,    \* PRAGMA busy_timeout, in ticks
  MaxRequests,    \* bound on the requests of a behaviour
  MaxTime         \* bound on the clock

ASSUME RequestAssumption ==
  /\ Second \in Nat \ {0}
  /\ BusyTimeout \in Nat
  /\ MaxRequests \in Nat
  /\ MaxTime \in Nat
  /\ Nobody \notin [key : Keys, readAt : Nat]

VARIABLES
  windows,    \* play_session_request_limits: key -> window
  now,        \* the clock, one for all processes
  waiting,    \* process -> the request before its transaction, or Nobody
  verdicts    \* what the transactions decided, in the order they committed

vars == <<windows, now, waiting, verdicts>>

Verdict == [key : Keys, readAt : Nat, at : Nat, admitted : BOOLEAN,
            retryAfterSeconds : Nat]

Init ==
  /\ windows = [k \in Keys |-> NoWindow]
  /\ now = 0
  /\ waiting = [p \in Processes |-> Nobody]
  /\ verdicts = <<>>

\* Mutant: whole seconds that are over, not those still to come.
RetryAfterRoundedDown(window, t) ==
  LET seconds == (window.startedAt + RateLimitWindow - t) \div Second
  IN  IF seconds < 1 THEN 1 ELSE seconds

\* Math.max(1, Math.ceil((startedAt + window - now) / 1000))
RetryAfter(window, t) ==
  LET seconds == (window.startedAt + RateLimitWindow - t + Second - 1)
                   \div Second
  IN  IF seconds < 1 THEN 1 ELSE seconds

ReadClock(p, k) ==
  /\ waiting[p] = Nobody
  /\ Len(verdicts) < MaxRequests
  /\ waiting' = [waiting EXCEPT ![p] = [key |-> k, readAt |-> now]]
  /\ UNCHANGED <<windows, now, verdicts>>

\* The transaction: prune, look, insert or update, commit.
Decide(p) ==
  LET k        == waiting[p].key
      t        == waiting[p].readAt
      exceeded == RateExceeded(windows, k, t)
  IN  /\ waiting[p] # Nobody
      /\ windows' = WindowsAfter(windows, k, t)
      /\ verdicts' =
           Append(verdicts,
             [key |-> k, readAt |-> t, at |-> now, admitted |-> ~exceeded,
              retryAfterSeconds |->
                IF exceeded THEN RetryAfter(windows[k], t) ELSE 0])
      /\ waiting' = [waiting EXCEPT ![p] = Nobody]
      /\ UNCHANGED now

\* SQLITE_BUSY after the timeout: nothing is written, the request fails.
TimesOut(p) ==
  /\ waiting[p] # Nobody
  /\ now >= waiting[p].readAt + BusyTimeout
  /\ waiting' = [waiting EXCEPT ![p] = Nobody]
  /\ UNCHANGED <<windows, now, verdicts>>

Tick ==
  /\ now < MaxTime
  /\ \A p \in Processes :
       waiting[p] # Nobody => now < waiting[p].readAt + BusyTimeout
  /\ now' = now + 1
  /\ UNCHANGED <<windows, waiting, verdicts>>

Next ==
  \/ \E p \in Processes :
       (\E k \in Keys : ReadClock(p, k)) \/ Decide(p) \/ TimesOut(p)
  \/ Tick

Spec == Init /\ [][Next]_vars

-----------------------------------------------------------------------------
(* Properties. *)

TypeOK ==
  /\ windows \in [Keys -> RequestWindow]
  /\ now \in Nat
  /\ waiting \in [Processes -> [key : Keys, readAt : Nat] \cup {Nobody}]
  /\ verdicts \in Seq(Verdict)

\* The transactions that admitted a request of key k from first to last.
Admissions(k, first, last) ==
  {i \in 1 .. Len(verdicts) :
     /\ verdicts[i].key = k
     /\ verdicts[i].admitted
     /\ verdicts[i].at \in first .. last}

\* The limit a client can rely on.  Windows are fixed, and a request may wait
\* for its transaction: the late requests of one window reach into the next.
\* In a RateLimitWindow less the longest wait there is room for a window and
\* what its predecessor admitted after its first request; in a whole one there
\* is room for a third window, because the one between may start in the past
\* (runRateAdmission).  The code waits 5 s at most, of 60.
BurstBound ==
  \A k \in Keys : \A t \in 0 .. now :
    /\ Cardinality(Admissions(k, t - (RateLimitWindow - BusyTimeout) + 1, t))
         <= 2 * MaximumRequests - 1
    /\ 2 * BusyTimeout <= RateLimitWindow =>
         Cardinality(Admissions(k, t - RateLimitWindow + 1, t))
           <= 3 * MaximumRequests - 1

\* A refused request can be repeated after the delay it was told: unless a
\* later request of its key was admitted meanwhile, it is then admitted
\* (retryAfterSeconds of runRateAdmission).
RetryAfterSuffices ==
  \A i \in 1 .. Len(verdicts) :
    LET v == verdicts[i] IN
    /\ ~v.admitted
    /\ now >= v.at + v.retryAfterSeconds * Second
    /\ \A j \in i + 1 .. Len(verdicts) :
         verdicts[j].key = v.key => ~verdicts[j].admitted
    => ~RateExceeded(windows, v.key, now)

\* Nobody is refused for less than the limit: every refusal comes after the
\* full number of admissions of the same key in the window before it, which a
\* refusal neither fills nor prolongs.
RefusalsAreEarned ==
  \A i \in 1 .. Len(verdicts) :
    LET v     == verdicts[i]
        first == v.at - RateLimitWindow - BusyTimeout + 1
    IN  ~v.admitted =>
          Cardinality({j \in Admissions(v.key, first, v.at) : j < i})
            >= MaximumRequests

=============================================================================
