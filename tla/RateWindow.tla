----------------------------- MODULE RateWindow -----------------------------
(***************************************************************************)
(* The request limiter of the hosted Play Sessions: one fixed window per   *)
(* access key, stored in play_session_request_limits and updated inside    *)
(* one BEGIN IMMEDIATE transaction (runRateAdmission).                     *)
(*                                                                         *)
(* Times are ticks.  A window with count 0 stands for the absence of the   *)
(* row: the table's CHECK keeps every stored count positive.               *)
(***************************************************************************)
EXTENDS Integers

CONSTANTS
  RateLimitWindow,    \* PLAY_SESSION_RATE_LIMIT_WINDOW_MS, in ticks
  MaximumRequests     \* maximumRequestsPerMinute

ASSUME RateAssumption ==
  /\ RateLimitWindow \in Nat \ {0}
  /\ MaximumRequests \in Nat \ {0}

RequestWindow == [startedAt : Nat, count : Nat]

NoWindow == [startedAt |-> 0, count |-> 0]

\* DELETE ... WHERE window_started_at_ms <= now - window
PruneWindows(windows, t) ==
  [k \in DOMAIN windows |->
     IF windows[k].startedAt <= t - RateLimitWindow
     THEN NoWindow ELSE windows[k]]

WindowExpired(window, t) == t >= window.startedAt + RateLimitWindow

\* Mutant: one request too many.
RateExceededLate(windows, k, t) ==
  PruneWindows(windows, t)[k].count > MaximumRequests

(***************************************************************************)
(* The decision on one request of key k at time t, and the table after it. *)
(* The prune of the same transaction already drops what WindowExpired      *)
(* tests, and the code tests it again.                                     *)
(***************************************************************************)
RateExceeded(windows, k, t) ==
  LET current == PruneWindows(windows, t)[k]
  IN  /\ current.count > 0
      /\ ~WindowExpired(current, t)
      /\ current.count >= MaximumRequests

\* Mutant: a refusal starts the window again.
WindowsAfterPenalty(windows, k, t) ==
  LET kept    == PruneWindows(windows, t)
      current == kept[k]
  IN  [kept EXCEPT ![k] =
         IF current.count = 0 \/ RateExceeded(windows, k, t)
         THEN [startedAt |-> t, count |-> IF current.count = 0 THEN 1
                                          ELSE current.count]
         ELSE [current EXCEPT !.count = @ + 1]]

WindowsAfter(windows, k, t) ==
  LET kept    == PruneWindows(windows, t)
      current == kept[k]
  IN  IF RateExceeded(windows, k, t)
      THEN kept
      ELSE [kept EXCEPT ![k] =
              IF current.count = 0 \/ WindowExpired(current, t)
              THEN [startedAt |-> t, count |-> 1]
              ELSE [startedAt |-> current.startedAt,
                    count     |-> current.count + 1]]

=============================================================================
