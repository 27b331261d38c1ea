-------------------------- MODULE RequestRate_proofs --------------------------
(***************************************************************************)
(* The limiter, for any number of keys and processes, any maximum, window  *)
(* and busy timeout: what it admits in a window, whom it refuses, and when *)
(* a refused request may come again.                                       *)
(***************************************************************************)
EXTENDS RequestRate, FiniteSetTheorems, SequenceTheorems, TLAPS

USE RateAssumption, RequestAssumption

-----------------------------------------------------------------------------
(* The inductive invariants.                                               *)

\* Nothing is dated after the clock, and nobody waits beyond the timeout.
TimesInOrder ==
  /\ \A k \in Keys : windows[k].startedAt <= now
  /\ \A p \in Processes :
       waiting[p] # Nobody =>
         /\ waiting[p].readAt <= now
         /\ now <= waiting[p].readAt + BusyTimeout
  /\ \A i \in 1 .. Len(verdicts) : verdicts[i].at <= now

Clocked == TypeOK /\ TimesInOrder

\* The transactions after the i-th and up to the j-th that admitted key k.
Slice(vs, k, i, j) == {x \in i + 1 .. j : vs[x].key = k /\ vs[x].admitted}

\* Of key k, the first i transactions admitted nothing after time t.
UpTo(vs, k, i, t) == \A x \in Slice(vs, k, 0, i) : vs[x].at <= t

(***************************************************************************)
(* The admissions of a key fall into three stretches when it has no        *)
(* window: old ones, up to the first request of the last window but one;   *)
(* those up to the first request of the last window; and the rest of the   *)
(* last window.  A key with a window has a fourth: the requests it counts  *)
(* after the one that began it.                                            *)
(***************************************************************************)
Past(vs, k, l, m, t) ==
  /\ UpTo(vs, k, l, t - 2 * RateLimitWindow + 2 * BusyTimeout)
  /\ UpTo(vs, k, m, t - RateLimitWindow + BusyTimeout)
  /\ Cardinality(Slice(vs, k, l, m)) <= MaximumRequests

Closed(vs, k, t) ==
  \E l, m \in 0 .. Len(vs) :
    /\ Past(vs, k, l, m, t)
    /\ Cardinality(Slice(vs, k, m, Len(vs))) <= MaximumRequests - 1

Open(vs, k, w, t) ==
  \E l, m, n \in 0 .. Len(vs) :
    /\ Past(vs, k, l, m, t)
    /\ UpTo(vs, k, m, w.startedAt - RateLimitWindow + 2 * BusyTimeout)
    /\ UpTo(vs, k, n, w.startedAt + BusyTimeout)
    /\ Cardinality(Slice(vs, k, m, n)) <= MaximumRequests
    /\ Cardinality(Slice(vs, k, n, Len(vs))) <= w.count - 1

Tracked(vs, k, w, t) ==
  IF w.count = 0 THEN Closed(vs, k, t)
  ELSE w.count <= MaximumRequests /\ Open(vs, k, w, t)

WindowsTracked == \A k \in Keys : Tracked(verdicts, k, windows[k], now)

\* A window counts requests admitted since it began.
Since(vs, k, t) ==
  {x \in 1 .. Len(vs) : vs[x].key = k /\ vs[x].admitted /\ vs[x].at >= t}

Filled(vs, k, w) ==
  w.count > 0 => Cardinality(Since(vs, k, w.startedAt)) >= w.count

WindowsFilled == \A k \in Keys : Filled(verdicts, k, windows[k])

\* The window that refused a request ends before the delay that was told.
Unchallenged(vs, i) ==
  /\ ~vs[i].admitted
  /\ \A j \in i + 1 .. Len(vs) : vs[j].key = vs[i].key => ~vs[j].admitted

EndsInTime(w, v) ==
  \/ w.count = 0
  \/ w.startedAt + RateLimitWindow <= v.at + v.retryAfterSeconds * Second

DelaysSuffice ==
  \A i \in 1 .. Len(verdicts) :
    Unchallenged(verdicts, i) =>
      EndsInTime(windows[verdicts[i].key], verdicts[i])

-----------------------------------------------------------------------------
(* Types and times.                                                        *)

LEMMA RetryAfterCovers ==
  ASSUME NEW w \in RequestWindow, NEW t \in Nat
  PROVE  /\ RetryAfter(w, t) \in Nat
         /\ w.startedAt + RateLimitWindow <= t + RetryAfter(w, t) * Second
<1> DEFINE x == w.startedAt + RateLimitWindow - t
           q == (x + Second - 1) \div Second
<1>1. x \in Int /\ Second \in Nat /\ Second > 0
  BY DEF RequestWindow
<1> HIDE DEF x
<1>2. q \in Int /\ q * Second >= x
  BY <1>1
<1>3. RetryAfter(w, t) = IF q < 1 THEN 1 ELSE q
  BY DEF RetryAfter, x
<1> HIDE DEF q
<1>4. RetryAfter(w, t) \in Nat /\ RetryAfter(w, t) * Second >= x
  BY <1>1, <1>2, <1>3
<1> QED BY <1>4 DEF x, RequestWindow

\* What the prune at time t leaves of a window.
Pruned(w, t) == IF w.startedAt <= t - RateLimitWindow THEN NoWindow ELSE w

(* What one transaction leaves of each key's window.                       *)
LEMMA WindowsAfterOthers ==
  ASSUME NEW w \in [Keys -> RequestWindow], NEW k \in Keys, NEW t \in Nat,
         NEW h \in Keys, h # k
  PROVE  WindowsAfter(w, k, t)[h] = Pruned(w[h], t)
BY DEF WindowsAfter, PruneWindows, Pruned

LEMMA WindowsAfterCases ==
  ASSUME NEW w \in [Keys -> RequestWindow], NEW k \in Keys, NEW t \in Nat
  PROVE  /\ WindowsAfter(w, k, t) \in [Keys -> RequestWindow]
         /\ RateExceeded(w, k, t) =>
              /\ WindowsAfter(w, k, t)[k] = w[k]
              /\ w[k].count >= MaximumRequests
              /\ t < w[k].startedAt + RateLimitWindow
              /\ t - RateLimitWindow < w[k].startedAt
         /\ ~RateExceeded(w, k, t) =>
              \/ /\ Pruned(w[k], t).count = 0
                 /\ WindowsAfter(w, k, t)[k] = [startedAt |-> t, count |-> 1]
              \/ /\ w[k].count > 0
                 /\ w[k].count < MaximumRequests
                 /\ WindowsAfter(w, k, t)[k] =
                      [startedAt |-> w[k].startedAt, count |-> w[k].count + 1]
<1> DEFINE kept == PruneWindows(w, t)
           current == kept[k]
<1>1. NoWindow \in RequestWindow
  BY DEF NoWindow, RequestWindow
<1>2. /\ kept \in [Keys -> RequestWindow]
      /\ kept[k] = Pruned(w[k], t)
  BY <1>1 DEF PruneWindows, Pruned
<1>3. RateExceeded(w, k, t) <=>
        /\ current.count > 0
        /\ ~WindowExpired(current, t)
        /\ current.count >= MaximumRequests
  BY DEF RateExceeded
<1>4. WindowsAfter(w, k, t) =
        IF RateExceeded(w, k, t) THEN kept
        ELSE [kept EXCEPT ![k] =
                IF current.count = 0 \/ WindowExpired(current, t)
                THEN [startedAt |-> t, count |-> 1]
                ELSE [startedAt |-> current.startedAt,
                      count     |-> current.count + 1]]
  BY DEF WindowsAfter
<1> HIDE DEF kept
<1>5. current \in RequestWindow /\ current = Pruned(w[k], t)
  BY <1>2
<1>6. /\ [startedAt |-> t, count |-> 1] \in RequestWindow
      /\ [startedAt |-> current.startedAt,
          count |-> current.count + 1] \in RequestWindow
  BY <1>5 DEF RequestWindow
<1>7. WindowsAfter(w, k, t) \in [Keys -> RequestWindow]
  BY <1>2, <1>4, <1>6
<1>8. current.count > 0 =>
        /\ current = w[k] /\ t - RateLimitWindow < w[k].startedAt
        /\ ~WindowExpired(current, t) /\ t < w[k].startedAt + RateLimitWindow
  BY <1>5 DEF Pruned, NoWindow, RequestWindow, WindowExpired
<1>9. ~(current.count > 0) <=> current.count = 0
  BY <1>5 DEF RequestWindow
<1>10. CASE RateExceeded(w, k, t)
  BY <1>2, <1>3, <1>4, <1>7, <1>8, <1>10
<1>11. CASE ~RateExceeded(w, k, t)
  <2>1. WindowsAfter(w, k, t)[k] =
          IF current.count = 0 \/ WindowExpired(current, t)
          THEN [startedAt |-> t, count |-> 1]
          ELSE [startedAt |-> current.startedAt, count |-> current.count + 1]
    BY <1>2, <1>4, <1>11
  <2>2. CASE current.count = 0
    BY <2>1, <2>2, <1>5, <1>7, <1>11
  <2>3. CASE current.count > 0
    BY <2>1, <2>3, <1>3, <1>5, <1>7, <1>8, <1>9, <1>11 DEF RequestWindow
  <2> QED BY <1>9, <2>2, <2>3
<1> QED BY <1>10, <1>11

LEMMA WhenRefused ==
  ASSUME NEW w \in [Keys -> RequestWindow], NEW k \in Keys, NEW t \in Nat,
         RateExceeded(w, k, t)
  PROVE  /\ WindowsAfter(w, k, t)[k] = w[k]
         /\ w[k].count >= MaximumRequests
         /\ t < w[k].startedAt + RateLimitWindow
         /\ t - RateLimitWindow < w[k].startedAt
BY WindowsAfterCases

LEMMA VerdictType ==
  ASSUME NEW vs \in Seq(Verdict)
  PROVE  /\ Len(vs) \in Nat
         /\ \A i \in 1 .. Len(vs) :
              /\ vs[i].key \in Keys /\ vs[i].readAt \in Nat /\ vs[i].at \in Nat
              /\ vs[i].admitted \in BOOLEAN /\ vs[i].retryAfterSeconds \in Nat
<1>1. \A i \in 1 .. Len(vs) : vs[i] \in Verdict
  BY ElementOfSeq
<1> QED BY <1>1, LenProperties DEF Verdict

(* A request of key k, read at t, comes to its transaction: verdict v.      *)
Transacts(k, t, v) ==
  /\ k \in Keys /\ t \in Nat /\ v \in Verdict
  /\ t <= now /\ now <= t + BusyTimeout
  /\ v.key = k /\ v.at = now
  /\ v.admitted <=> ~RateExceeded(windows, k, t)
  /\ ~v.admitted => v.retryAfterSeconds = RetryAfter(windows[k], t)
  /\ windows' = WindowsAfter(windows, k, t)
  /\ verdicts' = Append(verdicts, v)
  /\ now' = now

LEMMA DecideTransacts ==
  ASSUME Clocked, NEW p \in Processes, Decide(p)
  PROVE  /\ waiting' = [waiting EXCEPT ![p] = Nobody]
         /\ \E k, t, v : Transacts(k, t, v)
<1> DEFINE k == waiting[p].key
           t == waiting[p].readAt
           exceeded == RateExceeded(windows, k, t)
           v == [key |-> k, readAt |-> t, at |-> now, admitted |-> ~exceeded,
                 retryAfterSeconds |->
                   IF exceeded THEN RetryAfter(windows[k], t) ELSE 0]
<1>1. waiting[p] \in [key : Keys, readAt : Nat]
  BY DEF Clocked, TypeOK, Decide
<1>2. now <= t + BusyTimeout /\ t <= now
  BY DEF Clocked, TimesInOrder, Decide
<1>3. RetryAfter(windows[k], t) \in Nat
  BY <1>1, RetryAfterCovers DEF Clocked, TypeOK
<1>4. exceeded \in BOOLEAN
  BY DEF RateExceeded
<1>5. v \in Verdict
  BY <1>1, <1>3, <1>4 DEF Verdict, Clocked, TypeOK
<1>6. /\ windows' = WindowsAfter(windows, k, t)
      /\ verdicts' = Append(verdicts, v)
      /\ waiting' = [waiting EXCEPT ![p] = Nobody] /\ now' = now
  BY DEF Decide
<1>7. /\ v.key = k /\ v.at = now /\ v.admitted = ~exceeded
      /\ ~v.admitted => v.retryAfterSeconds = RetryAfter(windows[k], t)
  OBVIOUS
<1>8. k \in Keys /\ t \in Nat
  BY <1>1
<1> HIDE DEF v
<1>9. Transacts(k, t, v)
  BY <1>2, <1>5, <1>6, <1>7, <1>8 DEF Transacts
<1> QED BY <1>6, <1>9

LEMMA ClockedTransacts ==
  ASSUME Clocked, NEW k, NEW t, NEW v, Transacts(k, t, v)
  PROVE  /\ windows' \in [Keys -> RequestWindow]
         /\ \A h \in Keys : windows'[h].startedAt <= now
         /\ verdicts' \in Seq(Verdict)
         /\ \A i \in 1 .. Len(verdicts') : verdicts'[i].at <= now
<1>0. /\ windows \in [Keys -> RequestWindow] /\ k \in Keys /\ t \in Nat
      /\ windows' = WindowsAfter(windows, k, t) /\ t <= now
      /\ \A h \in Keys : windows[h].startedAt <= now
      /\ now \in Nat
  BY DEF Clocked, TypeOK, TimesInOrder, Transacts
<1>1. windows' \in [Keys -> RequestWindow]
  BY <1>0, WindowsAfterCases
<1>2. ASSUME NEW h \in Keys
      PROVE  windows'[h].startedAt <= now
  <2>1. windows[h] \in RequestWindow /\ windows[h].startedAt <= now
    BY <1>0
  <2>2. CASE h # k
    <3>1. WindowsAfter(windows, k, t)[h] = Pruned(windows[h], t)
      BY <1>0, <2>2, WindowsAfterOthers
    <3>2. windows'[h] = Pruned(windows[h], t)
      BY <1>0, <3>1
    <3> QED BY <1>0, <2>1, <3>2 DEF Pruned, NoWindow
  <2>3. CASE h = k
    <3>1. \/ windows'[k] = windows[k]
          \/ windows'[k] = [startedAt |-> t, count |-> 1]
          \/ windows'[k] = [startedAt |-> windows[k].startedAt,
                            count |-> windows[k].count + 1]
      BY <1>0, WindowsAfterCases
    <3> QED BY <1>0, <2>1, <2>3, <3>1
  <2> QED BY <2>2, <2>3
<1>3. /\ verdicts' \in Seq(Verdict) /\ Len(verdicts') = Len(verdicts) + 1
      /\ \A i \in 1 .. Len(verdicts) : verdicts'[i] = verdicts[i]
      /\ verdicts'[Len(verdicts) + 1] = v
  BY AppendProperties DEF Clocked, TypeOK, Transacts
<1>4. \A i \in 1 .. Len(verdicts') : verdicts'[i].at <= now
  BY <1>3 DEF Clocked, TypeOK, TimesInOrder, Transacts
<1> QED BY <1>1, <1>2, <1>3, <1>4

LEMMA ClockedStep == Clocked /\ [Next]_vars => Clocked'
<1> SUFFICES ASSUME Clocked, [Next]_vars PROVE Clocked'
  OBVIOUS
<1> USE DEF Clocked, TypeOK, TimesInOrder
<1>1. ASSUME NEW p \in Processes, NEW k \in Keys, ReadClock(p, k)
      PROVE  Clocked'
  <2>1. [key |-> k, readAt |-> now] \in [key : Keys, readAt : Nat]
    OBVIOUS
  <2>2. TypeOK'
    BY <1>1, <2>1 DEF ReadClock
  <2>3. \A q \in Processes :
          waiting'[q] # Nobody =>
            waiting'[q].readAt <= now /\ now <= waiting'[q].readAt + BusyTimeout
    BY <1>1, <2>1 DEF ReadClock
  <2> QED BY <1>1, <2>2, <2>3 DEF ReadClock
<1>2. ASSUME NEW p \in Processes, Decide(p)
      PROVE  Clocked'
  <2>1. PICK k, t, v : Transacts(k, t, v)
    BY <1>2, DecideTransacts
  <2>2. waiting' = [waiting EXCEPT ![p] = Nobody]
    BY <1>2, DecideTransacts
  <2>3. /\ windows' \in [Keys -> RequestWindow]
        /\ \A h \in Keys : windows'[h].startedAt <= now
        /\ verdicts' \in Seq(Verdict)
        /\ \A i \in 1 .. Len(verdicts') : verdicts'[i].at <= now
    BY <2>1, ClockedTransacts
  <2>4. now' = now
    BY <2>1 DEF Transacts
  <2>5. /\ waiting' \in [Processes -> [key : Keys, readAt : Nat] \cup {Nobody}]
        /\ \A q \in Processes :
             waiting'[q] # Nobody =>
               /\ waiting'[q].readAt <= now
               /\ now <= waiting'[q].readAt + BusyTimeout
    BY <2>2
  <2> QED BY <2>3, <2>4, <2>5
<1>3. ASSUME NEW p \in Processes, TimesOut(p)
      PROVE  Clocked'
  BY <1>3 DEF TimesOut
<1>4. CASE Tick
  <2>1. \A q \in Processes :
          waiting[q] # Nobody =>
            /\ waiting[q].readAt \in Nat
            /\ now < waiting[q].readAt + BusyTimeout
    BY <1>4 DEF Tick
  <2>2. \A k \in Keys : windows[k].startedAt \in Nat
    BY DEF RequestWindow
  <2>3. \A i \in 1 .. Len(verdicts) : verdicts[i].at \in Nat
    BY VerdictType
  <2> QED BY <1>4, <2>1, <2>2, <2>3 DEF Tick
<1>5. CASE UNCHANGED vars
  BY <1>5 DEF vars
<1> QED BY <1>1, <1>2, <1>3, <1>4, <1>5 DEF Next

LEMMA ClockedInit == Init => Clocked
BY DEF Init, Clocked, TypeOK, TimesInOrder, NoWindow, RequestWindow

\* The tables keep their types (play_session_request_limits, runRateAdmission).
THEOREM RateTypes == Spec => []TypeOK
<1>1. Spec => []Clocked
  BY ClockedInit, ClockedStep, PTL DEF Spec
<1>2. Clocked => TypeOK
  BY DEF Clocked
<1> QED BY <1>1, <1>2, PTL

-----------------------------------------------------------------------------
(* Who is refused.                                                         *)

LEMMA AppendVerdict ==
  ASSUME NEW vs \in Seq(Verdict), NEW v \in Verdict
  PROVE  /\ Append(vs, v) \in Seq(Verdict)
         /\ Len(Append(vs, v)) = Len(vs) + 1
         /\ Len(vs) \in Nat
         /\ \A i \in 1 .. Len(vs) : Append(vs, v)[i] = vs[i]
         /\ Append(vs, v)[Len(vs) + 1] = v
BY AppendProperties, LenProperties

LEMMA SinceGrows ==
  ASSUME NEW vs \in Seq(Verdict), NEW v \in Verdict, NEW k, NEW t \in Nat
  PROVE  LET grown == Since(Append(vs, v), k, t)
         IN  /\ Cardinality(Since(vs, k, t)) \in Nat
             /\ Cardinality(grown) \in Nat
             /\ Cardinality(grown) >= Cardinality(Since(vs, k, t))
             /\ v.key = k /\ v.admitted /\ v.at >= t =>
                  Cardinality(grown) = Cardinality(Since(vs, k, t)) + 1
<1> DEFINE ws == Append(vs, v)
           n == Len(vs) + 1
           old == Since(vs, k, t)
           grown == Since(ws, k, t)
<1>1. /\ Len(ws) = n /\ Len(vs) \in Nat /\ ws[n] = v
      /\ \A i \in 1 .. Len(vs) : ws[i] = vs[i]
  BY AppendVerdict
<1>2. IsFiniteSet(1 .. Len(vs)) /\ IsFiniteSet(1 .. n)
  BY <1>1, FS_Interval
<1> HIDE DEF ws
<1>3. /\ old \subseteq 1 .. Len(vs) /\ grown \subseteq 1 .. n
      /\ old \subseteq grown /\ n \notin old
      /\ v.key = k /\ v.admitted /\ v.at >= t => grown = old \cup {n}
  BY <1>1 DEF Since
<1> HIDE DEF old, grown, n
<1>4. IsFiniteSet(old) /\ IsFiniteSet(grown)
  BY <1>2, <1>3, FS_Subset
<1>5. /\ Cardinality(old) \in Nat /\ Cardinality(grown) \in Nat
      /\ Cardinality(old) <= Cardinality(grown)
      /\ Cardinality(old \cup {n}) = Cardinality(old) + 1
  BY <1>3, <1>4, FS_Subset, FS_CardinalityType, FS_AddElement
<1> QED BY <1>3, <1>5 DEF old, grown, ws

LEMMA FilledTransacts ==
  ASSUME Clocked, WindowsFilled, NEW k, NEW t, NEW v, Transacts(k, t, v),
         NEW h \in Keys
  PROVE  Filled(verdicts', h, windows'[h])
<1>1. /\ windows \in [Keys -> RequestWindow] /\ k \in Keys /\ t \in Nat
      /\ windows' = WindowsAfter(windows, k, t) /\ t <= now /\ now \in Nat
      /\ v \in Verdict /\ v.at = now /\ v.key = k
      /\ v.admitted <=> ~RateExceeded(windows, k, t)
      /\ verdicts \in Seq(Verdict) /\ verdicts' = Append(verdicts, v)
  BY DEF Clocked, TypeOK, Transacts
<1>2. windows[h] \in RequestWindow /\ windows[h].startedAt <= now
  BY DEF Clocked, TypeOK, TimesInOrder
<1>3. Filled(verdicts, h, windows[h])
  BY DEF WindowsFilled
<1>4. Filled(verdicts', h, windows[h])
  <2> DEFINE s == windows[h].startedAt
             c == windows[h].count
  <2>1. s \in Nat /\ c \in Nat
    BY <1>2 DEF RequestWindow
  <2> HIDE DEF s, c
  <2>2. /\ Cardinality(Since(verdicts', h, s)) \in Nat
        /\ Cardinality(Since(verdicts, h, s)) \in Nat
        /\ Cardinality(Since(verdicts', h, s)) >= Cardinality(Since(verdicts, h, s))
    BY <1>1, <2>1, SinceGrows
  <2>3. c > 0 => Cardinality(Since(verdicts, h, s)) >= c
    BY <1>3 DEF Filled, s, c
  <2>4. c > 0 => Cardinality(Since(verdicts', h, s)) >= c
    BY <2>1, <2>2, <2>3
  <2> QED BY <2>4 DEF Filled, s, c
<1>5. CASE h # k
  <2>1. windows'[h] = Pruned(windows[h], t)
    <3>1. WindowsAfter(windows, k, t)[h] = Pruned(windows[h], t)
      BY <1>1, <1>5, WindowsAfterOthers
    <3> QED BY <1>1, <3>1
  <2>2. windows'[h] = windows[h] \/ windows'[h].count = 0
    BY <2>1 DEF Pruned, NoWindow
  <2> QED BY <1>4, <2>2 DEF Filled
<1>6. CASE h = k /\ ~v.admitted
  <2>1. RateExceeded(windows, k, t)
    BY <1>1, <1>6
  <2>2. WindowsAfter(windows, k, t)[k] = windows[k]
    BY <1>1, <2>1, WhenRefused
  <2> QED BY <1>1, <1>4, <1>6, <2>2
<1>7. CASE h = k /\ v.admitted
  <2>1. \/ windows'[k] = [startedAt |-> t, count |-> 1]
        \/ /\ windows[k].count > 0
           /\ windows'[k] = [startedAt |-> windows[k].startedAt,
                             count |-> windows[k].count + 1]
    BY <1>1, <1>7, WindowsAfterCases
  <2>2. CASE windows'[k] = [startedAt |-> t, count |-> 1]
    <3>1. /\ Cardinality(Since(verdicts', k, t)) \in Nat
          /\ Cardinality(Since(verdicts, k, t)) \in Nat
          /\ Cardinality(Since(verdicts', k, t)) =
               Cardinality(Since(verdicts, k, t)) + 1
      BY <1>1, <1>7, SinceGrows
    <3>2. Cardinality(Since(verdicts', k, t)) >= 1
      BY <3>1
    <3> QED BY <1>7, <2>2, <3>2 DEF Filled
  <2>3. CASE /\ windows[k].count > 0
             /\ windows'[k] = [startedAt |-> windows[k].startedAt,
                               count |-> windows[k].count + 1]
    <3> DEFINE s == windows[k].startedAt
               c == windows[k].count
    <3>1. s \in Nat /\ c \in Nat /\ c > 0 /\ s <= now
      BY <1>2, <1>7, <2>3 DEF RequestWindow
    <3>2. Cardinality(Since(verdicts, k, s)) >= c
      BY <1>3, <1>7, <2>3 DEF Filled
    <3> HIDE DEF s, c
    <3>3. /\ Cardinality(Since(verdicts, k, s)) \in Nat
          /\ Cardinality(Since(verdicts', k, s)) =
               Cardinality(Since(verdicts, k, s)) + 1
      BY <1>1, <1>7, <3>1, SinceGrows
    <3>4. Cardinality(Since(verdicts', k, s)) >= c + 1
      BY <3>1, <3>2, <3>3
    <3> QED BY <1>7, <2>3, <3>4 DEF Filled, s, c
  <2> QED BY <2>1, <2>2, <2>3
<1> QED BY <1>5, <1>6, <1>7

\* The admissions a refusal answers for.
Before(vs, i) ==
  {j \in 1 .. Len(vs) :
     /\ vs[j].key = vs[i].key /\ vs[j].admitted
     /\ vs[j].at \in vs[i].at - RateLimitWindow - BusyTimeout + 1 .. vs[i].at
     /\ j < i}

Earned(vs, i) ==
  ~vs[i].admitted => Cardinality(Before(vs, i)) >= MaximumRequests

LEMMA EarnedIsProperty ==
  RefusalsAreEarned <=> \A i \in 1 .. Len(verdicts) : Earned(verdicts, i)
<1>1. ASSUME NEW i \in 1 .. Len(verdicts)
      PROVE  LET u == verdicts[i] IN
             {j \in Admissions(u.key, u.at - RateLimitWindow - BusyTimeout + 1,
                               u.at) : j < i} = Before(verdicts, i)
  BY DEF Admissions, Before
<1> QED BY <1>1 DEF RefusalsAreEarned, Earned

LEMMA EarnedTransacts ==
  ASSUME Clocked, WindowsFilled, NEW k, NEW t, NEW v, Transacts(k, t, v),
         NEW i \in 1 .. Len(verdicts'),
         i \in 1 .. Len(verdicts) => Earned(verdicts, i)
  PROVE  Earned(verdicts', i)
<1>1. /\ windows \in [Keys -> RequestWindow] /\ k \in Keys /\ t \in Nat
      /\ now \in Nat /\ now <= t + BusyTimeout
      /\ v \in Verdict /\ v.at = now /\ v.key = k
      /\ v.admitted <=> ~RateExceeded(windows, k, t)
      /\ verdicts \in Seq(Verdict) /\ verdicts' = Append(verdicts, v)
  BY DEF Clocked, TypeOK, Transacts
<1> DEFINE n == Len(verdicts) + 1
           s == windows[k].startedAt
<1>2. /\ Len(verdicts') = n /\ Len(verdicts) \in Nat /\ verdicts'[n] = v
      /\ \A j \in 1 .. Len(verdicts) : verdicts'[j] = verdicts[j]
  BY <1>1, AppendVerdict
<1>3. CASE i # n
  <2>1. i \in 1 .. Len(verdicts)
    BY <1>2, <1>3
  <2>2. Before(verdicts', i) = Before(verdicts, i)
    BY <1>2, <2>1 DEF Before
  <2> QED BY <1>2, <2>1, <2>2 DEF Earned
<1>4. CASE i = n /\ ~v.admitted
  <2>1. RateExceeded(windows, k, t)
    BY <1>1, <1>4
  <2>2. windows[k].count >= MaximumRequests /\ t - RateLimitWindow < s
    BY <1>1, <2>1, WhenRefused
  <2>3. windows[k] \in RequestWindow
    BY <1>1
  <2>4. Cardinality(Since(verdicts, k, s)) >= windows[k].count
    BY <1>1, <2>2, <2>3 DEF WindowsFilled, Filled, RequestWindow
  <2>5. Since(verdicts, k, s) \subseteq Before(verdicts', n)
    <3>1. \A j \in 1 .. Len(verdicts) :
            verdicts[j].at \in Nat /\ verdicts[j].at <= now
      BY VerdictType, <1>1 DEF Clocked, TimesInOrder
    <3>2. s \in Nat /\ now - RateLimitWindow - BusyTimeout + 1 <= s
      BY <1>1, <2>2, <2>3 DEF RequestWindow
    <3> HIDE DEF s
    <3> QED BY <1>1, <1>2, <3>1, <3>2 DEF Since, Before
  <2>6. IsFiniteSet(Before(verdicts', n))
    <3>1. IsFiniteSet(1 .. n) /\ Before(verdicts', n) \subseteq 1 .. n
      BY <1>2, FS_Interval DEF Before
    <3> QED BY <3>1, FS_Subset
  <2>7. /\ Cardinality(Since(verdicts, k, s)) \in Nat
        /\ Cardinality(Before(verdicts', n)) \in Nat
        /\ Cardinality(Before(verdicts', n)) >= Cardinality(Since(verdicts, k, s))
    BY <2>5, <2>6, FS_Subset, FS_CardinalityType
  <2>8. windows[k].count \in Nat
    BY <2>3 DEF RequestWindow
  <2> HIDE DEF s, n
  <2>9. Cardinality(Before(verdicts', n)) >= MaximumRequests
    BY <2>2, <2>4, <2>7, <2>8
  <2> QED BY <1>4, <2>9 DEF Earned
<1>5. CASE i = n /\ v.admitted
  BY <1>2, <1>5 DEF Earned
<1> QED BY <1>3, <1>4, <1>5

Refusals == WindowsFilled /\ \A i \in 1 .. Len(verdicts) : Earned(verdicts, i)

LEMMA RefusalsStep == Clocked /\ Refusals /\ [Next]_vars => Refusals'
<1> SUFFICES ASSUME Clocked, Refusals, [Next]_vars PROVE Refusals'
  OBVIOUS
<1>1. CASE UNCHANGED <<windows, verdicts>>
  BY <1>1 DEF Refusals, WindowsFilled
<1>2. ASSUME NEW p \in Processes, Decide(p)
      PROVE  Refusals'
  <2>1. PICK k, t, v : Transacts(k, t, v)
    BY <1>2, DecideTransacts
  <2>2. ASSUME NEW h \in Keys PROVE Filled(verdicts', h, windows'[h])
    BY <2>1, FilledTransacts DEF Refusals
  <2>3. ASSUME NEW i \in 1 .. Len(verdicts') PROVE Earned(verdicts', i)
    BY <2>1, EarnedTransacts DEF Refusals
  <2> QED BY <2>2, <2>3 DEF Refusals, WindowsFilled
<1> QED BY <1>1, <1>2 DEF Next, ReadClock, TimesOut, Tick, vars

\* A refusal comes after the full number of admissions (runRateAdmission).
THEOREM RefusedAfterTheMaximum == Spec => []RefusalsAreEarned
<1>1. Init => Clocked /\ Refusals
  <2>1. Init => WindowsFilled
    BY DEF Init, WindowsFilled, Filled, NoWindow
  <2>2. Init => \A i \in 1 .. Len(verdicts) : Earned(verdicts, i)
    BY DEF Init
  <2> QED BY <2>1, <2>2, ClockedInit DEF Refusals
<1>2. Clocked /\ Refusals /\ [Next]_vars => (Clocked /\ Refusals)'
  BY ClockedStep, RefusalsStep
<1>3. Refusals => RefusalsAreEarned
  BY EarnedIsProperty DEF Refusals
<1> QED BY <1>1, <1>2, <1>3, PTL DEF Spec

-----------------------------------------------------------------------------
(* When a refused request may come again.                                  *)

LEMMA DelayTransacts ==
  ASSUME Clocked, DelaysSuffice, NEW k, NEW t, NEW v, Transacts(k, t, v),
         NEW i \in 1 .. Len(verdicts'), Unchallenged(verdicts', i)
  PROVE  EndsInTime(windows'[verdicts'[i].key], verdicts'[i])
<1>1. /\ windows \in [Keys -> RequestWindow] /\ k \in Keys /\ t \in Nat
      /\ now \in Nat /\ t <= now
      /\ v \in Verdict /\ v.at = now /\ v.key = k
      /\ v.admitted <=> ~RateExceeded(windows, k, t)
      /\ ~v.admitted => v.retryAfterSeconds = RetryAfter(windows[k], t)
      /\ windows' = WindowsAfter(windows, k, t)
      /\ verdicts \in Seq(Verdict) /\ verdicts' = Append(verdicts, v)
  BY DEF Clocked, TypeOK, Transacts
<1> DEFINE n == Len(verdicts) + 1
<1>2. /\ Len(verdicts') = n /\ Len(verdicts) \in Nat /\ verdicts'[n] = v
      /\ \A j \in 1 .. Len(verdicts) : verdicts'[j] = verdicts[j]
  BY <1>1, AppendVerdict
<1>3. ~v.admitted => windows'[k] = windows[k]
  <2> SUFFICES ASSUME ~v.admitted PROVE windows'[k] = windows[k]
    OBVIOUS
  <2>1. RateExceeded(windows, k, t)
    BY <1>1
  <2>2. WindowsAfter(windows, k, t)[k] = windows[k]
    BY <1>1, <2>1, WhenRefused
  <2> QED BY <1>1, <2>2
<1>4. CASE i = n
  <2>1. ~v.admitted
    BY <1>2, <1>4 DEF Unchallenged
  <2>2. windows[k] \in RequestWindow
    BY <1>1
  <2>3. /\ RetryAfter(windows[k], t) \in Nat
        /\ windows[k].startedAt + RateLimitWindow
             <= t + RetryAfter(windows[k], t) * Second
    BY <1>1, <2>2, RetryAfterCovers
  <2>4. windows[k].startedAt + RateLimitWindow
          <= v.at + v.retryAfterSeconds * Second
    BY <1>1, <2>1, <2>2, <2>3 DEF RequestWindow
  <2> QED BY <1>1, <1>2, <1>3, <1>4, <2>1, <2>4 DEF EndsInTime
<1>5. CASE i # n
  <2>1. i \in 1 .. Len(verdicts)
    BY <1>2, <1>5
  <2>2. PICK h \in Keys : h = verdicts[i].key
    BY <1>1, <2>1, VerdictType
  <2>3. verdicts'[i] = verdicts[i]
    BY <1>2, <2>1
  <2>4. Unchallenged(verdicts, i) /\ (h = k => ~v.admitted)
    BY <1>1, <1>2, <2>1, <2>2, <2>3 DEF Unchallenged
  <2>5. EndsInTime(windows[h], verdicts[i])
    BY <2>1, <2>2, <2>4 DEF DelaysSuffice
  <2>6. CASE h = k
    BY <1>3, <2>2, <2>3, <2>4, <2>5, <2>6
  <2>7. CASE h # k
    <3>1. WindowsAfter(windows, k, t)[h] = Pruned(windows[h], t)
      BY <1>1, <2>7, WindowsAfterOthers
    <3>2. windows'[h] = Pruned(windows[h], t)
      BY <1>1, <3>1
    <3>3. windows'[h] = windows[h] \/ windows'[h].count = 0
      BY <3>2 DEF Pruned, NoWindow
    <3> QED BY <2>2, <2>3, <2>5, <3>3 DEF EndsInTime
  <2> QED BY <2>6, <2>7
<1> QED BY <1>4, <1>5

LEMMA DelaysStep == Clocked /\ DelaysSuffice /\ [Next]_vars => DelaysSuffice'
<1> SUFFICES ASSUME Clocked, DelaysSuffice, [Next]_vars PROVE DelaysSuffice'
  OBVIOUS
<1>1. CASE UNCHANGED <<windows, verdicts>>
  BY <1>1 DEF DelaysSuffice
<1>2. ASSUME NEW p \in Processes, Decide(p)
      PROVE  DelaysSuffice'
  <2>1. PICK k, t, v : Transacts(k, t, v)
    BY <1>2, DecideTransacts
  <2>2. ASSUME NEW i \in 1 .. Len(verdicts'), Unchallenged(verdicts', i)
        PROVE  EndsInTime(windows'[verdicts'[i].key], verdicts'[i])
    BY <2>1, <2>2, DelayTransacts
  <2> QED BY <2>2 DEF DelaysSuffice
<1> QED BY <1>1, <1>2 DEF Next, ReadClock, TimesOut, Tick, vars

LEMMA DelaysAreEnough == Clocked /\ DelaysSuffice => RetryAfterSuffices
<1> SUFFICES ASSUME Clocked, DelaysSuffice,
                    NEW i \in 1 .. Len(verdicts), Unchallenged(verdicts, i),
                    now >= verdicts[i].at + verdicts[i].retryAfterSeconds * Second
             PROVE  ~RateExceeded(windows, verdicts[i].key, now)
  BY DEF RetryAfterSuffices, Unchallenged
<1>1. windows \in [Keys -> RequestWindow] /\ now \in Nat
      /\ verdicts \in Seq(Verdict)
  BY DEF Clocked, TypeOK
<1>2. PICK k \in Keys : k = verdicts[i].key
  BY <1>1, VerdictType
<1>3. windows[k] \in RequestWindow
  BY <1>1
<1>4. EndsInTime(windows[k], verdicts[i])
  BY <1>2 DEF DelaysSuffice
<1>5. SUFFICES ASSUME RateExceeded(windows, k, now) PROVE FALSE
  BY <1>2
<1>6. windows[k].count >= MaximumRequests
      /\ now < windows[k].startedAt + RateLimitWindow
  BY <1>1, <1>5, WhenRefused
<1>7. verdicts[i].at \in Nat /\ verdicts[i].retryAfterSeconds \in Nat
  BY <1>1, VerdictType
<1>8. verdicts[i].retryAfterSeconds * Second \in Nat
  BY <1>7
<1> QED BY <1>1, <1>3, <1>4, <1>6, <1>7, <1>8 DEF EndsInTime, RequestWindow

\* The delay a refusal tells is long enough (retryAfterSeconds).
THEOREM DelaysToldSuffice == Spec => []RetryAfterSuffices
<1>1. Init => Clocked /\ DelaysSuffice
  <2>1. Init => DelaysSuffice
    BY DEF Init, DelaysSuffice
  <2> QED BY <2>1, ClockedInit
<1>2. Clocked /\ DelaysSuffice /\ [Next]_vars => (Clocked /\ DelaysSuffice)'
  BY ClockedStep, DelaysStep
<1> QED BY <1>1, <1>2, DelaysAreEnough, PTL DEF Spec

-----------------------------------------------------------------------------
(* How much is admitted.  First, stretches of the transactions.            *)

LEMMA SliceType ==
  ASSUME NEW vs, NEW k, NEW i \in Int, NEW j \in Int
  PROVE  /\ IsFiniteSet(Slice(vs, k, i, j))
         /\ Cardinality(Slice(vs, k, i, j)) \in Nat
         /\ i >= j => Cardinality(Slice(vs, k, i, j)) = 0
<1>1. IsFiniteSet(i + 1 .. j) /\ Slice(vs, k, i, j) \subseteq i + 1 .. j
  BY FS_Interval DEF Slice
<1>2. i >= j => Slice(vs, k, i, j) = {}
  BY DEF Slice
<1> QED BY <1>1, <1>2, FS_Subset, FS_CardinalityType, FS_EmptySet

LEMMA SliceAppend ==
  ASSUME NEW vs \in Seq(Verdict), NEW v \in Verdict, NEW k,
         NEW i \in 0 .. Len(vs), NEW j \in 0 .. Len(vs)
  PROVE  /\ Slice(Append(vs, v), k, i, j) = Slice(vs, k, i, j)
         /\ ~(v.key = k /\ v.admitted) =>
              Slice(Append(vs, v), k, i, Len(vs) + 1) = Slice(vs, k, i, Len(vs))
         /\ Cardinality(Slice(Append(vs, v), k, i, Len(vs) + 1))
              <= Cardinality(Slice(vs, k, i, Len(vs))) + 1
<1> DEFINE ws == Append(vs, v)
           n == Len(vs) + 1
           old == Slice(vs, k, i, Len(vs))
           grown == Slice(ws, k, i, n)
<1>1. /\ Len(vs) \in Nat /\ ws[n] = v
      /\ \A x \in 1 .. Len(vs) : ws[x] = vs[x]
  BY AppendVerdict
<1> HIDE DEF ws
<1>2. Slice(ws, k, i, j) = Slice(vs, k, i, j)
  BY <1>1 DEF Slice
<1>3. ~(v.key = k /\ v.admitted) => grown = old
  BY <1>1 DEF Slice
<1>4. grown \subseteq old \cup {n}
  BY <1>1 DEF Slice
<1>5. IsFiniteSet(old) /\ Cardinality(old) \in Nat /\ n \in Nat
  BY <1>1, SliceType
<1> HIDE DEF old, grown, n
<1>6. IsFiniteSet(old \cup {n}) /\ Cardinality(old \cup {n}) \in Nat
      /\ Cardinality(old \cup {n}) <= Cardinality(old) + 1
  <2>1. /\ IsFiniteSet(old \cup {n})
        /\ Cardinality(old \cup {n}) =
             IF n \in old THEN Cardinality(old) ELSE Cardinality(old) + 1
    BY <1>5, FS_AddElement
  <2> QED BY <1>5, <2>1
<1>7. IsFiniteSet(grown) /\ Cardinality(grown) \in Nat
      /\ Cardinality(grown) <= Cardinality(old \cup {n})
  BY <1>4, <1>6, FS_Subset, FS_CardinalityType
<1>8. Cardinality(grown) <= Cardinality(old) + 1
  BY <1>5, <1>6, <1>7
<1> QED BY <1>2, <1>3, <1>8 DEF ws, old, grown, n

LEMMA PastAppend ==
  ASSUME NEW vs \in Seq(Verdict), NEW v \in Verdict, NEW k,
         NEW i \in 0 .. Len(vs), NEW t
  PROVE  UpTo(vs, k, i, t) => UpTo(Append(vs, v), k, i, t)
<1>1. Slice(Append(vs, v), k, 0, i) = Slice(vs, k, 0, i)
  <2>1. 0 \in 0 .. Len(vs)
    BY LenProperties
  <2> QED BY <2>1, SliceAppend
<1>2. \A x \in 1 .. Len(vs) : Append(vs, v)[x] = vs[x]
  BY AppendVerdict
<1>3. Slice(vs, k, 0, i) \subseteq 1 .. Len(vs)
  BY LenProperties DEF Slice
<1> QED BY <1>1, <1>2, <1>3 DEF UpTo

LEMMA UpToLater ==
  ASSUME NEW vs \in Seq(Verdict), NEW k, NEW i \in 0 .. Len(vs),
         NEW t \in Int, NEW u \in Int, t <= u
  PROVE  UpTo(vs, k, i, t) => UpTo(vs, k, i, u)
<1>1. \A x \in Slice(vs, k, 0, i) : vs[x].at \in Nat
  BY VerdictType DEF Slice
<1> QED BY <1>1 DEF UpTo

LEMMA PastLater ==
  ASSUME NEW vs \in Seq(Verdict), NEW k,
         NEW l \in 0 .. Len(vs), NEW m \in 0 .. Len(vs),
         NEW t \in Int, NEW u \in Int, t <= u, Past(vs, k, l, m, t)
  PROVE  Past(vs, k, l, m, u)
<1>1. /\ t - 2 * RateLimitWindow + 2 * BusyTimeout \in Int
      /\ u - 2 * RateLimitWindow + 2 * BusyTimeout \in Int
      /\ t - 2 * RateLimitWindow + 2 * BusyTimeout
           <= u - 2 * RateLimitWindow + 2 * BusyTimeout
      /\ t - RateLimitWindow + BusyTimeout \in Int
      /\ u - RateLimitWindow + BusyTimeout \in Int
      /\ t - RateLimitWindow + BusyTimeout <= u - RateLimitWindow + BusyTimeout
  OBVIOUS
<1>2. UpTo(vs, k, l, u - 2 * RateLimitWindow + 2 * BusyTimeout)
  BY <1>1, UpToLater DEF Past
<1>3. UpTo(vs, k, m, u - RateLimitWindow + BusyTimeout)
  BY <1>1, UpToLater DEF Past
<1> QED BY <1>2, <1>3 DEF Past

LEMMA PastExtended ==
  ASSUME NEW vs \in Seq(Verdict), NEW v \in Verdict, NEW k,
         NEW l \in 0 .. Len(vs), NEW m \in 0 .. Len(vs), NEW t,
         Past(vs, k, l, m, t)
  PROVE  Past(Append(vs, v), k, l, m, t)
<1>1. Slice(Append(vs, v), k, l, m) = Slice(vs, k, l, m)
  BY SliceAppend
<1> QED BY <1>1, PastAppend DEF Past

-----------------------------------------------------------------------------
(* What becomes of the stretches when time goes on and verdicts are given. *)

LEMMA TrackedLater ==
  ASSUME NEW vs \in Seq(Verdict), NEW k, NEW w \in RequestWindow,
         NEW t \in Int, NEW u \in Int, t <= u, Tracked(vs, k, w, t)
  PROVE  Tracked(vs, k, w, u)
<1>1. CASE w.count = 0
  <2>1. PICK l, m \in 0 .. Len(vs) :
          /\ Past(vs, k, l, m, t)
          /\ Cardinality(Slice(vs, k, m, Len(vs))) <= MaximumRequests - 1
    BY <1>1 DEF Tracked, Closed
  <2>2. Past(vs, k, l, m, u)
    BY <2>1, PastLater
  <2> QED BY <1>1, <2>1, <2>2 DEF Tracked, Closed
<1>2. CASE w.count # 0
  <2>1. PICK l, m, n \in 0 .. Len(vs) :
          /\ Past(vs, k, l, m, t)
          /\ UpTo(vs, k, m, w.startedAt - RateLimitWindow + 2 * BusyTimeout)
          /\ UpTo(vs, k, n, w.startedAt + BusyTimeout)
          /\ Cardinality(Slice(vs, k, m, n)) <= MaximumRequests
          /\ Cardinality(Slice(vs, k, n, Len(vs))) <= w.count - 1
    BY <1>2 DEF Tracked, Open
  <2>2. Past(vs, k, l, m, u)
    BY <2>1, PastLater
  <2>3. Open(vs, k, w, u)
    BY <2>1, <2>2 DEF Open
  <2> QED BY <1>2, <2>3 DEF Tracked
<1> QED BY <1>1, <1>2

LEMMA TrackedSkips ==
  ASSUME NEW vs \in Seq(Verdict), NEW v \in Verdict, NEW k,
         NEW w \in RequestWindow, NEW t \in Int,
         ~(v.key = k /\ v.admitted), Tracked(vs, k, w, t)
  PROVE  Tracked(Append(vs, v), k, w, t)
<1> DEFINE ws == Append(vs, v)
<1>1. Len(ws) = Len(vs) + 1 /\ Len(vs) \in Nat
  BY AppendVerdict
<1> HIDE DEF ws
<1>2. 0 .. Len(vs) \subseteq 0 .. Len(ws)
  BY <1>1
<1>3. CASE w.count = 0
  <2>1. PICK l, m \in 0 .. Len(vs) :
          /\ Past(vs, k, l, m, t)
          /\ Cardinality(Slice(vs, k, m, Len(vs))) <= MaximumRequests - 1
    BY <1>3 DEF Tracked, Closed
  <2>2. Past(ws, k, l, m, t)
    BY <2>1, PastExtended DEF ws
  <2>3. Slice(ws, k, m, Len(ws)) = Slice(vs, k, m, Len(vs))
    BY <1>1, SliceAppend DEF ws
  <2>4. Closed(ws, k, t)
    BY <1>2, <2>1, <2>2, <2>3 DEF Closed
  <2> QED BY <1>3, <2>4 DEF Tracked, ws
<1>4. CASE w.count # 0
  <2>1. PICK l, m, n \in 0 .. Len(vs) :
          /\ Past(vs, k, l, m, t)
          /\ UpTo(vs, k, m, w.startedAt - RateLimitWindow + 2 * BusyTimeout)
          /\ UpTo(vs, k, n, w.startedAt + BusyTimeout)
          /\ Cardinality(Slice(vs, k, m, n)) <= MaximumRequests
          /\ Cardinality(Slice(vs, k, n, Len(vs))) <= w.count - 1
    BY <1>4 DEF Tracked, Open
  <2>2. Past(ws, k, l, m, t)
    BY <2>1, PastExtended DEF ws
  <2>3. /\ Slice(ws, k, n, Len(ws)) = Slice(vs, k, n, Len(vs))
        /\ Slice(ws, k, m, n) = Slice(vs, k, m, n)
    <3>1. Slice(ws, k, m, n) = Slice(vs, k, m, n)
      BY SliceAppend DEF ws
    <3>2. Slice(ws, k, n, Len(ws)) = Slice(vs, k, n, Len(vs))
      BY <1>1, SliceAppend DEF ws
    <3> QED BY <3>1, <3>2
  <2>4. UpTo(ws, k, m, w.startedAt - RateLimitWindow + 2 * BusyTimeout)
    BY <2>1, PastAppend DEF ws
  <2>5. UpTo(ws, k, n, w.startedAt + BusyTimeout)
    BY <2>1, PastAppend DEF ws
  <2>6. Open(ws, k, w, t)
    BY <1>2, <2>1, <2>2, <2>3, <2>4, <2>5 DEF Open
  <2>7. w.count <= MaximumRequests
    BY <1>4 DEF Tracked
  <2> QED BY <1>4, <2>6, <2>7 DEF Tracked, ws
<1> QED BY <1>3, <1>4

(* The prune drops a window that is over: its requests are past.           *)
LEMMA TrackedPruned ==
  ASSUME NEW vs \in Seq(Verdict), NEW k, NEW w \in RequestWindow,
         NEW t \in Nat, NEW u \in Nat, t <= u, Tracked(vs, k, w, u)
  PROVE  /\ Pruned(w, t) \in RequestWindow
         /\ Tracked(vs, k, Pruned(w, t), u)
<1>1. NoWindow \in RequestWindow /\ NoWindow.count = 0
  BY DEF NoWindow, RequestWindow
<1>2. CASE Pruned(w, t) = w
  BY <1>2
<1>3. CASE w.startedAt <= t - RateLimitWindow /\ w.count # 0
  <2>1. PICK l, m, n \in 0 .. Len(vs) :
          /\ Past(vs, k, l, m, u)
          /\ UpTo(vs, k, m, w.startedAt - RateLimitWindow + 2 * BusyTimeout)
          /\ UpTo(vs, k, n, w.startedAt + BusyTimeout)
          /\ Cardinality(Slice(vs, k, m, n)) <= MaximumRequests
          /\ Cardinality(Slice(vs, k, n, Len(vs))) <= w.count - 1
    BY <1>3 DEF Tracked, Open
  <2> DEFINE a == w.startedAt - RateLimitWindow + 2 * BusyTimeout
             b == w.startedAt + BusyTimeout
             c == u - 2 * RateLimitWindow + 2 * BusyTimeout
             d == u - RateLimitWindow + BusyTimeout
  <2>2. /\ a \in Int /\ b \in Int /\ c \in Int /\ d \in Int
        /\ a <= c /\ b <= d
    <3>1. w.startedAt \in Nat /\ w.startedAt <= u - RateLimitWindow
      BY <1>3 DEF RequestWindow
    <3> QED BY <3>1
  <2>3. UpTo(vs, k, m, a) /\ UpTo(vs, k, n, b)
    BY <2>1
  <2> HIDE DEF a, b, c, d
  <2>4. UpTo(vs, k, m, c)
    BY <2>2, <2>3, UpToLater
  <2>5. UpTo(vs, k, n, d)
    BY <2>2, <2>3, UpToLater
  <2>6. Past(vs, k, m, n, u)
    BY <2>1, <2>4, <2>5 DEF Past, c, d
  <2>7. Cardinality(Slice(vs, k, n, Len(vs))) <= MaximumRequests - 1
    <3>1. w.count \in Nat /\ w.count <= MaximumRequests
      BY <1>3 DEF Tracked, RequestWindow
    <3>2. Cardinality(Slice(vs, k, n, Len(vs))) \in Nat
      BY SliceType, LenProperties
    <3> QED BY <2>1, <3>1, <3>2
  <2>8. Closed(vs, k, u)
    BY <2>6, <2>7 DEF Closed
  <2> QED BY <1>1, <1>3, <2>8 DEF Tracked, Pruned
<1>4. CASE w.startedAt <= t - RateLimitWindow /\ w.count = 0
  BY <1>1, <1>4 DEF Tracked, Pruned
<1> QED BY <1>2, <1>3, <1>4 DEF Pruned

(* An admission without a window begins one; the last window is past.      *)
LEMMA TrackedBegins ==
  ASSUME NEW vs \in Seq(Verdict), NEW v \in Verdict, NEW k,
         NEW t \in Nat, NEW u \in Nat, u <= t + BusyTimeout,
         v.at = u, \A i \in 1 .. Len(vs) : vs[i].at <= u,
         Closed(vs, k, u)
  PROVE  Tracked(Append(vs, v), k, [startedAt |-> t, count |-> 1], u)
<1> DEFINE ws == Append(vs, v)
           w == [startedAt |-> t, count |-> 1]
           n == Len(vs) + 1
<1>1. /\ Len(ws) = n /\ Len(vs) \in Nat /\ ws[n] = v /\ ws \in Seq(Verdict)
      /\ \A x \in 1 .. Len(vs) : ws[x] = vs[x]
  BY AppendVerdict
<1> HIDE DEF ws
<1>2. 0 .. Len(vs) \subseteq 0 .. n /\ n \in 0 .. n
  BY <1>1
<1>3. PICK l, m \in 0 .. Len(vs) :
        /\ Past(vs, k, l, m, u)
        /\ Cardinality(Slice(vs, k, m, Len(vs))) <= MaximumRequests - 1
  BY DEF Closed
<1>4. Past(ws, k, l, m, u)
  BY <1>3, PastExtended DEF ws
<1>5. UpTo(ws, k, m, t - RateLimitWindow + 2 * BusyTimeout)
  <2> DEFINE a == u - RateLimitWindow + BusyTimeout
             b == t - RateLimitWindow + 2 * BusyTimeout
  <2>1. a \in Int /\ b \in Int /\ a <= b
    OBVIOUS
  <2>2. UpTo(ws, k, m, a)
    BY <1>4 DEF Past
  <2>3. m \in 0 .. Len(ws)
    BY <1>1, <1>2
  <2> HIDE DEF a, b
  <2>4. UpTo(ws, k, m, b)
    BY <1>1, <2>1, <2>2, <2>3, UpToLater
  <2> QED BY <2>4 DEF b
<1>6. UpTo(ws, k, n, t + BusyTimeout)
  <2>1. \A x \in 1 .. n : ws[x].at <= u /\ ws[x].at \in Nat
    <3>1. \A x \in 1 .. Len(vs) : vs[x].at \in Nat
      BY VerdictType
    <3>2. v.at \in Nat
      OBVIOUS
    <3> QED BY <1>1, <3>1, <3>2
  <2> QED BY <2>1 DEF UpTo, Slice
<1>7. Cardinality(Slice(ws, k, m, n)) <= MaximumRequests
  <2>1. Cardinality(Slice(ws, k, m, n)) <= Cardinality(Slice(vs, k, m, Len(vs))) + 1
    BY SliceAppend DEF ws
  <2>2. /\ Cardinality(Slice(ws, k, m, n)) \in Nat
        /\ Cardinality(Slice(vs, k, m, Len(vs))) \in Nat
    BY <1>1, SliceType
  <2> HIDE DEF n
  <2> QED BY <1>3, <2>1, <2>2
<1>8. Cardinality(Slice(ws, k, n, n)) <= w.count - 1
  BY <1>1, SliceType
<1>9. Open(ws, k, w, u)
  BY <1>1, <1>2, <1>4, <1>5, <1>6, <1>7, <1>8 DEF Open
<1> QED BY <1>9 DEF Tracked, ws

(* An admission in a window that is not full.                              *)
LEMMA TrackedJoins ==
  ASSUME NEW vs \in Seq(Verdict), NEW v \in Verdict, NEW k,
         NEW w \in RequestWindow, NEW u \in Nat,
         w.count > 0, w.count < MaximumRequests, Tracked(vs, k, w, u)
  PROVE  Tracked(Append(vs, v), k,
                 [startedAt |-> w.startedAt, count |-> w.count + 1], u)
<1> DEFINE ws == Append(vs, v)
           x == [startedAt |-> w.startedAt, count |-> w.count + 1]
<1>1. Len(ws) = Len(vs) + 1 /\ Len(vs) \in Nat
  BY AppendVerdict
<1> HIDE DEF ws
<1>2. 0 .. Len(vs) \subseteq 0 .. Len(ws)
  BY <1>1
<1>3. w.count \in Nat /\ w.count # 0
  BY DEF RequestWindow
<1>4. PICK l, m, n \in 0 .. Len(vs) :
        /\ Past(vs, k, l, m, u)
        /\ UpTo(vs, k, m, w.startedAt - RateLimitWindow + 2 * BusyTimeout)
        /\ UpTo(vs, k, n, w.startedAt + BusyTimeout)
        /\ Cardinality(Slice(vs, k, m, n)) <= MaximumRequests
        /\ Cardinality(Slice(vs, k, n, Len(vs))) <= w.count - 1
  BY <1>3 DEF Tracked, Open
<1>5. Past(ws, k, l, m, u)
  BY <1>4, PastExtended DEF ws
<1>6. /\ UpTo(ws, k, m, w.startedAt - RateLimitWindow + 2 * BusyTimeout)
      /\ UpTo(ws, k, n, w.startedAt + BusyTimeout)
  BY <1>4, PastAppend DEF ws
<1>7. Cardinality(Slice(ws, k, m, n)) <= MaximumRequests
  <2>1. Slice(ws, k, m, n) = Slice(vs, k, m, n)
    BY <1>4, SliceAppend, SMTT(30) DEF ws
  <2> QED BY <1>4, <2>1
<1>8. Cardinality(Slice(ws, k, n, Len(ws))) <= w.count
  <2>1. Cardinality(Slice(ws, k, n, Len(ws)))
          <= Cardinality(Slice(vs, k, n, Len(vs))) + 1
    BY <1>1, SliceAppend DEF ws
  <2>2. /\ Cardinality(Slice(ws, k, n, Len(ws))) \in Nat
        /\ Cardinality(Slice(vs, k, n, Len(vs))) \in Nat
    BY <1>1, SliceType
  <2> QED BY <1>3, <1>4, <2>1, <2>2
<1>9. Open(ws, k, x, u)
  <2>1. x.startedAt = w.startedAt /\ x.count - 1 = w.count
    BY <1>3
  <2>2. l \in 0 .. Len(ws) /\ m \in 0 .. Len(ws) /\ n \in 0 .. Len(ws)
    BY <1>2, <1>4
  <2> HIDE DEF x
  <2> QED BY <1>5, <1>6, <1>7, <1>8, <2>1, <2>2 DEF Open
<1> QED BY <1>3, <1>9 DEF Tracked, ws

LEMMA TrackedTransacts ==
  ASSUME Clocked, WindowsTracked, NEW k, NEW t, NEW v, Transacts(k, t, v),
         NEW h \in Keys
  PROVE  Tracked(verdicts', h, windows'[h], now)
<1>1. /\ windows \in [Keys -> RequestWindow] /\ k \in Keys /\ t \in Nat
      /\ windows' = WindowsAfter(windows, k, t)
      /\ now \in Nat /\ t <= now /\ now <= t + BusyTimeout
      /\ v \in Verdict /\ v.at = now /\ v.key = k
      /\ v.admitted <=> ~RateExceeded(windows, k, t)
      /\ verdicts \in Seq(Verdict) /\ verdicts' = Append(verdicts, v)
      /\ \A i \in 1 .. Len(verdicts) : verdicts[i].at <= now
  BY DEF Clocked, TypeOK, TimesInOrder, Transacts
<1>2. windows[h] \in RequestWindow
  BY <1>1
<1>3. Tracked(verdicts, h, windows[h], now)
  BY DEF WindowsTracked
<1>4. /\ Pruned(windows[h], t) \in RequestWindow
      /\ Tracked(verdicts, h, Pruned(windows[h], t), now)
  BY <1>1, <1>2, <1>3, TrackedPruned
<1>5. CASE h # k
  <2>1. WindowsAfter(windows, k, t)[h] = Pruned(windows[h], t)
    BY <1>1, <1>5, WindowsAfterOthers
  <2>2. Tracked(Append(verdicts, v), h, Pruned(windows[h], t), now)
    BY <1>1, <1>4, <1>5, TrackedSkips
  <2> QED BY <1>1, <2>1, <2>2
<1>6. CASE h = k /\ ~v.admitted
  <2>1. RateExceeded(windows, k, t)
    BY <1>1, <1>6
  <2>2. WindowsAfter(windows, k, t)[k] = windows[k]
    BY <1>1, <2>1, WhenRefused
  <2>3. Tracked(Append(verdicts, v), h, windows[h], now)
    BY <1>1, <1>2, <1>3, <1>6, TrackedSkips
  <2> QED BY <1>1, <1>6, <2>2, <2>3
<1>7. CASE h = k /\ v.admitted
  <2>1. \/ /\ Pruned(windows[k], t).count = 0
           /\ windows'[k] = [startedAt |-> t, count |-> 1]
        \/ /\ windows[k].count > 0
           /\ windows[k].count < MaximumRequests
           /\ windows'[k] = [startedAt |-> windows[k].startedAt,
                             count |-> windows[k].count + 1]
    BY <1>1, <1>7, WindowsAfterCases
  <2>2. CASE /\ Pruned(windows[k], t).count = 0
             /\ windows'[k] = [startedAt |-> t, count |-> 1]
    <3>1. Closed(verdicts, k, now)
      BY <1>4, <1>7, <2>2 DEF Tracked
    <3>2. Tracked(Append(verdicts, v), k, [startedAt |-> t, count |-> 1], now)
      BY <1>1, <3>1, TrackedBegins
    <3> QED BY <1>1, <1>7, <2>2, <3>2
  <2>3. CASE /\ windows[k].count > 0
             /\ windows[k].count < MaximumRequests
             /\ windows'[k] = [startedAt |-> windows[k].startedAt,
                               count |-> windows[k].count + 1]
    <3>1. Tracked(Append(verdicts, v), k,
                  [startedAt |-> windows[k].startedAt,
                   count |-> windows[k].count + 1], now)
      BY <1>1, <1>2, <1>3, <1>7, <2>3, TrackedJoins
    <3> QED BY <1>1, <1>7, <2>3, <3>1
  <2> QED BY <2>1, <2>2, <2>3
<1> QED BY <1>5, <1>6, <1>7

-----------------------------------------------------------------------------
(* The bounds, in a stretch of time that ends at t.                        *)

Span(vs, k, first, last) ==
  {i \in 1 .. Len(vs) :
     vs[i].key = k /\ vs[i].admitted /\ vs[i].at \in first .. last}

Bounded(vs, k, t) ==
  /\ Cardinality(Span(vs, k, t - (RateLimitWindow - BusyTimeout) + 1, t))
       <= 2 * MaximumRequests - 1
  /\ 2 * BusyTimeout <= RateLimitWindow =>
       Cardinality(Span(vs, k, t - RateLimitWindow + 1, t))
         <= 3 * MaximumRequests - 1

LEMMA BoundedIsProperty ==
  BurstBound <=> \A k \in Keys : \A t \in 0 .. now : Bounded(verdicts, k, t)
BY DEF BurstBound, Bounded, Admissions, Span

LEMMA CoveredByTwo ==
  ASSUME NEW S, NEW A, NEW B, IsFiniteSet(A), IsFiniteSet(B), S \subseteq A \cup B
  PROVE  /\ Cardinality(S) \in Nat
         /\ Cardinality(S) <= Cardinality(A) + Cardinality(B)
<1>1. /\ Cardinality(A) \in Nat /\ Cardinality(B) \in Nat
      /\ IsFiniteSet(A \cap B) /\ Cardinality(A \cap B) \in Nat
  BY FS_Subset, FS_CardinalityType
<1>2. IsFiniteSet(A \cup B)
      /\ Cardinality(A \cup B) =
           Cardinality(A) + Cardinality(B) - Cardinality(A \cap B)
  BY FS_Union
<1>3. /\ Cardinality(S) \in Nat /\ Cardinality(A \cup B) \in Nat
      /\ Cardinality(S) <= Cardinality(A \cup B)
  BY <1>2, FS_Subset, FS_CardinalityType
<1> QED BY <1>1, <1>2, <1>3

(* What comes after i and up to the end, in two parts.                     *)
LEMMA SpanCovered ==
  ASSUME NEW vs \in Seq(Verdict), NEW k, NEW a \in Int, NEW t \in Int,
         NEW i \in 0 .. Len(vs), NEW j \in 0 .. Len(vs), UpTo(vs, k, i, a - 1)
  PROVE  /\ Cardinality(Span(vs, k, a, t)) \in Nat
         /\ Cardinality(Span(vs, k, a, t))
              <= Cardinality(Slice(vs, k, i, j))
                   + Cardinality(Slice(vs, k, j, Len(vs)))
<1> DEFINE S == Span(vs, k, a, t)
           A == Slice(vs, k, i, j)
           B == Slice(vs, k, j, Len(vs))
<1>1. \A x \in 1 .. Len(vs) : vs[x].at \in Nat
  BY VerdictType
<1>2. Len(vs) \in Nat
  BY LenProperties
<1>3. S \subseteq A \cup B
  <2> SUFFICES ASSUME NEW x \in S PROVE x \in A \cup B
    OBVIOUS
  <2>1. x \in 1 .. Len(vs) /\ vs[x].key = k /\ vs[x].admitted /\ vs[x].at >= a
    BY <1>1 DEF Span
  <2>2. x > i
    <3>1. x \in Slice(vs, k, 0, i) => vs[x].at <= a - 1
      BY DEF UpTo
    <3>2. x <= i => x \in Slice(vs, k, 0, i)
      BY <1>2, <2>1 DEF Slice
    <3> QED BY <1>1, <2>1, <3>1, <3>2
  <2> QED BY <1>2, <2>1, <2>2 DEF Slice
<1>4. /\ IsFiniteSet(A) /\ Cardinality(A) \in Nat
      /\ IsFiniteSet(B) /\ Cardinality(B) \in Nat
  BY <1>2, SliceType
<1> HIDE DEF S, A, B
<1>5. Cardinality(S) \in Nat /\ Cardinality(S) <= Cardinality(A) + Cardinality(B)
  BY <1>3, <1>4, CoveredByTwo
<1> QED BY <1>5 DEF S, A, B

LEMMA TrackedRecent ==
  ASSUME NEW vs \in Seq(Verdict), NEW k, NEW w \in RequestWindow, NEW t \in Nat,
         Tracked(vs, k, w, t)
  PROVE  \E l, m \in 0 .. Len(vs) :
           /\ Past(vs, k, l, m, t)
           /\ Cardinality(Slice(vs, k, m, Len(vs))) <= 2 * MaximumRequests - 1
<1>1. Len(vs) \in Nat
  BY LenProperties
<1>2. CASE w.count = 0
  <2>1. PICK l, m \in 0 .. Len(vs) :
          /\ Past(vs, k, l, m, t)
          /\ Cardinality(Slice(vs, k, m, Len(vs))) <= MaximumRequests - 1
    BY <1>2 DEF Tracked, Closed
  <2>2. Cardinality(Slice(vs, k, m, Len(vs))) \in Nat
    BY <1>1, SliceType
  <2>3. Cardinality(Slice(vs, k, m, Len(vs))) <= 2 * MaximumRequests - 1
    BY <2>1, <2>2
  <2> QED BY <2>1, <2>3
<1>3. CASE w.count # 0
  <2>1. PICK l, m, n \in 0 .. Len(vs) :
          /\ Past(vs, k, l, m, t)
          /\ UpTo(vs, k, m, w.startedAt - RateLimitWindow + 2 * BusyTimeout)
          /\ UpTo(vs, k, n, w.startedAt + BusyTimeout)
          /\ Cardinality(Slice(vs, k, m, n)) <= MaximumRequests
          /\ Cardinality(Slice(vs, k, n, Len(vs))) <= w.count - 1
    BY <1>3 DEF Tracked, Open
  <2>2. w.count \in Nat /\ w.count <= MaximumRequests
    BY <1>3 DEF Tracked, RequestWindow
  <2> DEFINE A == Slice(vs, k, m, n)
             B == Slice(vs, k, n, Len(vs))
             S == Slice(vs, k, m, Len(vs))
  <2>3. S \subseteq A \cup B
    BY <1>1 DEF Slice
  <2>4. /\ IsFiniteSet(A) /\ Cardinality(A) \in Nat
        /\ IsFiniteSet(B) /\ Cardinality(B) \in Nat
    BY <1>1, SliceType
  <2>5. Cardinality(A) <= MaximumRequests /\ Cardinality(B) <= w.count - 1
    BY <2>1
  <2> HIDE DEF A, B, S
  <2>6. Cardinality(S) \in Nat /\ Cardinality(S) <= Cardinality(A) + Cardinality(B)
    BY <2>3, <2>4, CoveredByTwo
  <2>7. Cardinality(S) <= 2 * MaximumRequests - 1
    BY <2>2, <2>4, <2>5, <2>6
  <2> QED BY <2>1, <2>7 DEF S
<1> QED BY <1>2, <1>3

LEMMA TrackedBounds ==
  ASSUME NEW vs \in Seq(Verdict), NEW k, NEW w \in RequestWindow, NEW t \in Nat,
         Tracked(vs, k, w, t)
  PROVE  Bounded(vs, k, t)
<1>1. PICK l, m \in 0 .. Len(vs) :
        /\ Past(vs, k, l, m, t)
        /\ Cardinality(Slice(vs, k, m, Len(vs))) <= 2 * MaximumRequests - 1
  BY TrackedRecent
<1>2. Len(vs) \in Nat
  BY LenProperties
<1>3. /\ Cardinality(Slice(vs, k, m, m)) = 0
      /\ Cardinality(Slice(vs, k, m, Len(vs))) \in Nat
      /\ Cardinality(Slice(vs, k, l, m)) \in Nat
  BY <1>2, SliceType
<1>4. Cardinality(Span(vs, k, t - (RateLimitWindow - BusyTimeout) + 1, t))
        <= 2 * MaximumRequests - 1
  <2> DEFINE a == t - (RateLimitWindow - BusyTimeout) + 1
  <2>1. a \in Int /\ a - 1 = t - RateLimitWindow + BusyTimeout
    OBVIOUS
  <2>2. UpTo(vs, k, m, a - 1)
    BY <1>1, <2>1 DEF Past
  <2> HIDE DEF a
  <2>3. /\ Cardinality(Span(vs, k, a, t)) \in Nat
        /\ Cardinality(Span(vs, k, a, t))
             <= Cardinality(Slice(vs, k, m, m))
                  + Cardinality(Slice(vs, k, m, Len(vs)))
    BY <2>1, <2>2, SpanCovered
  <2>4. Cardinality(Span(vs, k, a, t)) <= 2 * MaximumRequests - 1
    BY <1>1, <1>3, <2>3
  <2> QED BY <2>4 DEF a
<1>5. ASSUME 2 * BusyTimeout <= RateLimitWindow
      PROVE  Cardinality(Span(vs, k, t - RateLimitWindow + 1, t))
               <= 3 * MaximumRequests - 1
  <2> DEFINE a == t - RateLimitWindow + 1
             b == t - 2 * RateLimitWindow + 2 * BusyTimeout
  <2>1. a \in Int /\ a - 1 \in Int /\ b \in Int /\ b <= a - 1
    BY <1>5
  <2>2. UpTo(vs, k, l, b)
    BY <1>1 DEF Past
  <2>3. Cardinality(Slice(vs, k, l, m)) <= MaximumRequests
    BY <1>1 DEF Past
  <2> HIDE DEF a, b
  <2>4. UpTo(vs, k, l, a - 1)
    BY <2>1, <2>2, UpToLater
  <2>5. /\ Cardinality(Span(vs, k, a, t)) \in Nat
        /\ Cardinality(Span(vs, k, a, t))
             <= Cardinality(Slice(vs, k, l, m))
                  + Cardinality(Slice(vs, k, m, Len(vs)))
    BY <2>1, <2>4, SpanCovered
  <2>6. Cardinality(Span(vs, k, a, t)) <= 3 * MaximumRequests - 1
    BY <1>1, <1>3, <2>3, <2>5
  <2> QED BY <2>6 DEF a
<1> QED BY <1>4, <1>5 DEF Bounded

(* A verdict given at u leaves the stretches that ended before it alone.   *)
LEMMA BoundedBefore ==
  ASSUME NEW vs \in Seq(Verdict), NEW v \in Verdict, NEW k,
         NEW t \in Nat, t < v.at
  PROVE  Bounded(Append(vs, v), k, t) <=> Bounded(vs, k, t)
<1>1. ASSUME NEW a PROVE Span(Append(vs, v), k, a, t) = Span(vs, k, a, t)
  <2>1. /\ Len(Append(vs, v)) = Len(vs) + 1 /\ Len(vs) \in Nat
        /\ \A i \in 1 .. Len(vs) : Append(vs, v)[i] = vs[i]
        /\ Append(vs, v)[Len(vs) + 1] = v
    BY AppendVerdict
  <2>2. v.at \notin a .. t
    BY DEF Verdict
  <2> QED BY <2>1, <2>2 DEF Span
<1> QED BY <1>1 DEF Bounded

Bursts ==
  /\ WindowsTracked
  /\ \A k \in Keys : \A t \in 0 .. now : Bounded(verdicts, k, t)

LEMMA BurstsStep == Clocked /\ Bursts /\ [Next]_vars => Bursts'
<1> SUFFICES ASSUME Clocked, Bursts, [Next]_vars PROVE Bursts'
  OBVIOUS
<1>1. CASE UNCHANGED <<windows, verdicts, now>>
  BY <1>1 DEF Bursts, WindowsTracked
<1>2. Clocked'
  BY ClockedStep
<1>3. ASSUME WindowsTracked', NEW k \in Keys PROVE Bounded(verdicts', k, now')
  <2>1. /\ verdicts' \in Seq(Verdict) /\ windows'[k] \in RequestWindow
        /\ now' \in Nat
    BY <1>2 DEF Clocked, TypeOK
  <2>2. Tracked(verdicts', k, windows'[k], now')
    BY <1>3 DEF WindowsTracked
  <2> QED BY <2>1, <2>2, TrackedBounds
<1>4. ASSUME NEW p \in Processes, Decide(p)
      PROVE  Bursts'
  <2>1. PICK k, t, v : Transacts(k, t, v)
    BY <1>4, DecideTransacts
  <2>2. now' = now /\ now \in Nat /\ v \in Verdict /\ v.at = now
        /\ verdicts \in Seq(Verdict) /\ verdicts' = Append(verdicts, v)
    BY <2>1 DEF Transacts, Clocked, TypeOK
  <2>3. ASSUME NEW h \in Keys PROVE Tracked(verdicts', h, windows'[h], now)
    BY <2>1, TrackedTransacts DEF Bursts
  <2>4. WindowsTracked'
    BY <2>2, <2>3 DEF WindowsTracked
  <2>5. ASSUME NEW h \in Keys, NEW u \in 0 .. now PROVE Bounded(verdicts', h, u)
    <3>1. CASE u = now
      BY <1>3, <2>2, <2>4, <3>1
    <3>2. CASE u # now
      <4>1. u \in Nat /\ u < v.at
        BY <2>2, <3>2
      <4>2. Bounded(verdicts, h, u)
        BY DEF Bursts
      <4> QED BY <2>2, <4>1, <4>2, BoundedBefore
    <3> QED BY <3>1, <3>2
  <2> QED BY <2>2, <2>4, <2>5 DEF Bursts
<1>5. CASE Tick
  <2>1. now' = now + 1 /\ now \in Nat /\ windows' = windows
        /\ verdicts' = verdicts /\ verdicts \in Seq(Verdict)
        /\ windows \in [Keys -> RequestWindow]
    BY <1>5 DEF Tick, Clocked, TypeOK
  <2>2. ASSUME NEW h \in Keys PROVE Tracked(verdicts, h, windows[h], now + 1)
    <3>1. Tracked(verdicts, h, windows[h], now)
      BY DEF Bursts, WindowsTracked
    <3>2. windows[h] \in RequestWindow /\ now <= now + 1
          /\ now \in Int /\ now + 1 \in Int
      BY <2>1
    <3> QED BY <2>1, <3>1, <3>2, TrackedLater
  <2>3. WindowsTracked'
    BY <2>1, <2>2 DEF WindowsTracked
  <2>4. ASSUME NEW h \in Keys, NEW u \in 0 .. now + 1
        PROVE  Bounded(verdicts', h, u)
    <3>1. CASE u = now + 1
      BY <1>3, <2>1, <2>3, <3>1
    <3>2. CASE u # now + 1
      <4>1. u \in 0 .. now
        BY <2>1, <3>2
      <4> QED BY <2>1, <4>1 DEF Bursts
    <3> QED BY <3>1, <3>2
  <2> QED BY <2>1, <2>3, <2>4 DEF Bursts
<1> QED BY <1>1, <1>4, <1>5 DEF Next, ReadClock, TimesOut, vars

LEMMA BurstsInit == Init => Bursts
<1> SUFFICES ASSUME Init PROVE Bursts
  OBVIOUS
<1>1. /\ windows = [k \in Keys |-> NoWindow] /\ now = 0 /\ verdicts = <<>>
      /\ Len(verdicts) = 0 /\ verdicts \in Seq(Verdict)
      /\ NoWindow \in RequestWindow /\ NoWindow.count = 0
  BY DEF Init, NoWindow, RequestWindow
<1>2. ASSUME NEW k \in Keys PROVE Tracked(verdicts, k, windows[k], now)
  <2>1. Slice(verdicts, k, 0, 0) = {}
    BY DEF Slice
  <2>2. Cardinality(Slice(verdicts, k, 0, 0)) = 0
    BY <2>1, FS_EmptySet
  <2>3. Past(verdicts, k, 0, 0, now)
    BY <2>1, <2>2 DEF Past, UpTo
  <2>4. Closed(verdicts, k, now)
    BY <1>1, <2>2, <2>3 DEF Closed
  <2> QED BY <1>1, <2>4 DEF Tracked
<1>3. WindowsTracked
  BY <1>2 DEF WindowsTracked
<1>4. ASSUME NEW k \in Keys, NEW t \in 0 .. now PROVE Bounded(verdicts, k, t)
  <2>1. t = now /\ now \in Nat /\ windows[k] \in RequestWindow
    BY <1>1
  <2> QED BY <1>1, <1>2, <2>1, TrackedBounds
<1> QED BY <1>3, <1>4 DEF Bursts

\* What the limiter admits of one key within a window, and within a window
\* less the longest wait for the database (runRateAdmission).
THEOREM BurstsAreBounded == Spec => []BurstBound
<1>1. Init => Clocked /\ Bursts
  BY ClockedInit, BurstsInit
<1>2. Clocked /\ Bursts /\ [Next]_vars => (Clocked /\ Bursts)'
  BY ClockedStep, BurstsStep
<1>3. Bursts => BurstBound
  BY BoundedIsProperty DEF Bursts
<1> QED BY <1>1, <1>2, <1>3, PTL DEF Spec

=============================================================================
