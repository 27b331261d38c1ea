------------------------ MODULE LivePlaySessions_proofs ------------------------
(***************************************************************************)
(* What holds of the in-memory registry for any number of handles,         *)
(* principals and calls.  The chain of an object is a queue without        *)
(* repetitions of exactly the calls on it that are under way; that the     *)
(* call that operates is its head makes an awaited operation exclusive.    *)
(***************************************************************************)
EXTENDS LivePlaySessions, SequenceTheorems, TLAPS

Object == [owner : Owners, lastActivity : Nat, log : Seq(Requests)]

UnderWay == {"queued", "operating"}

(* The types, without what TypeOK says of the chains.                      *)
Shape ==
  /\ liveSessions \subseteq {h \in Handles : session[h] # NoSession}
  /\ session \in [Handles -> Object \cup {NoSession}]
  /\ tail \in [Handles -> Seq(Requests)]
  /\ now \in Nat
  /\ phase \in [Requests -> {"idle", "queued", "operating", "answered"}]
  /\ call \in [Requests -> CallSet \cup {NoCall}]
  /\ answer \in [Requests -> Answers]

Distinct(s) == \A i, j \in 1 .. Len(s) : i # j => s[i] # s[j]

On(h) == {q \in Requests : phase[q] \in UnderWay /\ call[q].handle = h}

ChainInv ==
  \A h \in Handles : Range(tail[h]) = On(h) /\ Distinct(tail[h])

(* A call under way has an object; one that operates heads its chain and   *)
(* has seen the whole log.                                                 *)
RequestInv ==
  \A q \in Requests :
    /\ phase[q] # "idle" => call[q] \in CallSet
    /\ phase[q] \in UnderWay => session[call[q].handle] # NoSession
    /\ phase[q] # "answered" => answer[q].tag = "none"
    /\ answer[q].tag = "succeeded" => session[call[q].handle] # NoSession
    /\ phase[q] = "operating" =>
         /\ call[q].caller = session[call[q].handle].owner
         /\ answer[q].seen = session[call[q].handle].log
         /\ tail[call[q].handle] # <<>>
         /\ Head(tail[call[q].handle]) = q

(* The calls in a log are answered, so nothing about them changes.         *)
LogInv ==
  \A h \in Handles : session[h] # NoSession =>
    \A i \in 1 .. Len(session[h].log) : phase[session[h].log[i]] = "answered"

IInv ==
  /\ Shape
  /\ ChainInv
  /\ RequestInv
  /\ LogInv
  /\ OnlyOwnersOperate
  /\ ResultsFollowTheLog

-----------------------------------------------------------------------------
(* Queues and logs.                                                        *)

LEMMA RangeOf ==
  ASSUME NEW S, NEW s \in Seq(S)
  PROVE  Range(s) = {s[i] : i \in 1 .. Len(s)}
BY LenProperties DEF Range

(* The head leaves a queue, and nothing else does.                         *)
LEMMA Pop ==
  ASSUME NEW S, NEW s \in Seq(S), s # <<>>, Distinct(s)
  PROVE  /\ Tail(s) \in Seq(S)
         /\ Distinct(Tail(s))
         /\ Range(Tail(s)) = Range(s) \ {Head(s)}
<1>1. /\ Tail(s) \in Seq(S) /\ Len(Tail(s)) = Len(s) - 1
      /\ \A i \in 1 .. Len(Tail(s)) : Tail(s)[i] = s[i + 1]
      /\ Len(s) \in Nat /\ Len(s) # 0
  BY HeadTailProperties, LenProperties, EmptySeq
<1>2. Head(s) = s[1]
  OBVIOUS
<1>3. Distinct(Tail(s))
  BY <1>1 DEF Distinct
<1>4. Range(Tail(s)) = {s[i] : i \in 2 .. Len(s)}
  <2>1. Range(Tail(s)) = {Tail(s)[i] : i \in 1 .. Len(s) - 1}
    BY <1>1, RangeOf
  <2>2. ASSUME NEW i \in 2 .. Len(s)
        PROVE  i - 1 \in 1 .. Len(s) - 1 /\ Tail(s)[i - 1] = s[i]
    BY <1>1
  <2>3. ASSUME NEW i \in 1 .. Len(s) - 1
        PROVE  i + 1 \in 2 .. Len(s) /\ Tail(s)[i] = s[i + 1]
    BY <1>1
  <2>4. {Tail(s)[i] : i \in 1 .. Len(s) - 1} \subseteq {s[i] : i \in 2 .. Len(s)}
    BY <2>3
  <2>5. {s[i] : i \in 2 .. Len(s)} \subseteq {Tail(s)[i] : i \in 1 .. Len(s) - 1}
    BY <2>2
  <2> QED BY <2>1, <2>4, <2>5
<1>5. \A i \in 2 .. Len(s) : s[i] # s[1]
  BY <1>1 DEF Distinct
<1>6. Range(s) = {s[i] : i \in 1 .. Len(s)}
  BY RangeOf
<1>7. 1 .. Len(s) = {1} \cup (2 .. Len(s))
  BY <1>1
<1> QED BY <1>1, <1>2, <1>3, <1>4, <1>5, <1>6, <1>7

(* A newcomer joins a queue at its end.                                    *)
LEMMA Push ==
  ASSUME NEW S, NEW s \in Seq(S), NEW e \in S, Distinct(s), e \notin Range(s)
  PROVE  /\ Append(s, e) \in Seq(S)
         /\ Append(s, e) # <<>>
         /\ s # <<>> => Head(Append(s, e)) = Head(s)
         /\ Distinct(Append(s, e))
         /\ Range(Append(s, e)) = Range(s) \cup {e}
<1> DEFINE t == Append(s, e)
<1>1. /\ t \in Seq(S) /\ t # <<>> /\ Len(t) = Len(s) + 1
      /\ \A i \in 1 .. Len(s) : t[i] = s[i]
      /\ t[Len(s) + 1] = e
      /\ Len(s) \in Nat
  BY AppendProperties, LenProperties
<1>2. s # <<>> => Head(t) = Head(s)
  BY HeadTailAppend
<1>3. Range(s) = {s[i] : i \in 1 .. Len(s)}
  BY RangeOf
<1>4. Range(t) = {t[i] : i \in 1 .. Len(s) + 1}
  BY <1>1, RangeOf
<1> HIDE DEF t
<1>5. 1 .. Len(s) + 1 = (1 .. Len(s)) \cup {Len(s) + 1}
  BY <1>1
<1>6. Range(t) = Range(s) \cup {e}
  BY <1>1, <1>3, <1>4, <1>5
<1>7. Distinct(t)
  <2> SUFFICES ASSUME NEW i \in 1 .. Len(t), NEW j \in 1 .. Len(t), i # j
               PROVE  t[i] # t[j]
    BY DEF Distinct
  <2>1. CASE i \in 1 .. Len(s) /\ j \in 1 .. Len(s)
    BY <1>1, <2>1 DEF Distinct
  <2>2. CASE i = Len(s) + 1 /\ j \in 1 .. Len(s)
    BY <1>1, <1>3, <2>2
  <2>3. CASE j = Len(s) + 1 /\ i \in 1 .. Len(s)
    BY <1>1, <1>3, <2>3
  <2> QED BY <1>1, <2>1, <2>2, <2>3
<1> QED BY <1>1, <1>2, <1>6, <1>7 DEF t

(* An appended entry leaves every prefix of a log as it was.               *)
LEMMA PrefixStays ==
  ASSUME NEW S, NEW s \in Seq(S), NEW e \in S, NEW n \in Nat, n <= Len(s)
  PROVE  SubSeq(Append(s, e), 1, n) = SubSeq(s, 1, n)
<1>1. /\ Append(s, e) \in Seq(S) /\ Len(Append(s, e)) = Len(s) + 1
      /\ \A i \in 1 .. Len(s) : Append(s, e)[i] = s[i]
      /\ Len(s) \in Nat
  BY AppendProperties, LenProperties
<1>2. \A i \in 1 .. n : Append(s, e)[i] = s[i] /\ s[i] \in S
  BY <1>1, ElementOfSeq
<1>3. /\ SubSeq(Append(s, e), 1, n) \in Seq(S)
      /\ Len(SubSeq(Append(s, e), 1, n)) = n
      /\ \A i \in 1 .. n : SubSeq(Append(s, e), 1, n)[i] = s[i]
  BY <1>1, <1>2, SubSeqProperties
<1>4. /\ SubSeq(s, 1, n) \in Seq(S) /\ Len(SubSeq(s, 1, n)) = n
      /\ \A i \in 1 .. n : SubSeq(s, 1, n)[i] = s[i]
  BY <1>1, <1>2, SubSeqProperties
<1> QED BY <1>3, <1>4, SeqEqual

LEMMA WholeLog ==
  ASSUME NEW S, NEW s \in Seq(S)
  PROVE  SubSeq(s, 1, Len(s)) = s
<1>1. Len(s) \in Nat /\ \A i \in 1 .. Len(s) : s[i] \in S
  BY LenProperties, ElementOfSeq
<1>2. /\ SubSeq(s, 1, Len(s)) \in Seq(S) /\ Len(SubSeq(s, 1, Len(s))) = Len(s)
      /\ \A i \in 1 .. Len(s) : SubSeq(s, 1, Len(s))[i] = s[i]
  BY <1>1, SubSeqProperties
<1> QED BY <1>1, <1>2, SeqEqual

-----------------------------------------------------------------------------
(* The kinds of steps.                                                     *)

(* A call joins the chain of its object.                                   *)
Joins(q, c) ==
  /\ phase[q] = "idle" /\ c.handle \in liveSessions
  /\ call' = [call EXCEPT ![q] = c]
  /\ phase' = [phase EXCEPT ![q] = "queued"]
  /\ tail' = [tail EXCEPT ![c.handle] = Append(@, q)]
  /\ UNCHANGED <<liveSessions, session, now, answer>>

(* A call is answered when it is made; it may have made an object.         *)
AtOnce(q, c) ==
  /\ phase[q] = "idle"
  /\ call' = [call EXCEPT ![q] = c]
  /\ \E tag \in {"unavailable", "created", "collision", "listed"} :
       Settle(q, tag, <<>>)
  /\ \/ session' = session /\ liveSessions' \subseteq liveSessions
     \/ \E h \in Handles :
          /\ session[h] = NoSession /\ c.caller \in Owners
          /\ session' = [session EXCEPT ![h] =
               [owner |-> c.caller, lastActivity |-> now, log |-> <<>>]]
          /\ liveSessions' = liveSessions \cup {h}
  /\ UNCHANGED <<tail, now>>

(* The head of a chain is answered without an effect on its log.           *)
Ends(q) ==
  /\ \E ph \in UnderWay : Turn(q, ph)
  /\ \E tag \in {"unavailable", "failed", "deleted"} : Answer(q, tag, <<>>)
  /\ liveSessions' \subseteq liveSessions
  /\ UNCHANGED <<session, now, call>>

LEMMA CallFields ==
  ASSUME NEW c \in CallSet
  PROVE  /\ c.handle \in Handles /\ c.caller \in Callers
         /\ c.kind = "create" => c.caller \in Owners
         /\ c.kind = "delete" => c.caller \in Principals
BY DEF CallSet, Callers, Owners

LEMMA StepKinds ==
  ASSUME [Next]_vars
  PROVE  \/ \E q \in Requests, c \in CallSet : Joins(q, c) \/ AtOnce(q, c)
         \/ \E q \in Requests : Ends(q) \/ StartRun(q) \/ FinishRun(q)
         \/ Tick
         \/ UNCHANGED vars
<1>1. ASSUME NEW q \in Requests, NEW c \in CallSet, Issue(q, c)
      PROVE  Joins(q, c) \/ AtOnce(q, c)
  <2>1. CASE c.handle \in liveSessions
    BY <1>1, <2>1 DEF Issue, Calls, Joins
  <2>2. CASE c.handle \notin liveSessions
    BY <1>1, <2>2 DEF Issue, Calls, AtOnce
  <2> QED BY <2>1, <2>2
<1>2. ASSUME NEW q \in Requests, NEW c \in CallSet, CreateCollides(q, c)
      PROVE  AtOnce(q, c)
  BY <1>2 DEF CreateCollides, Calls, AtOnce
<1>3. ASSUME NEW q \in Requests, NEW c \in CallSet, ListSaved(q, c)
      PROVE  AtOnce(q, c)
  BY <1>3 DEF ListSaved, Calls, AtOnce
<1>4. ASSUME NEW q \in Requests, NEW c \in CallSet, NEW h \in Handles,
             Create(q, c, h)
      PROVE  AtOnce(q, c)
  <2>1. c.caller \in Owners
    BY <1>4, CallFields DEF Create
  <2> QED BY <1>4, <2>1 DEF Create, Calls, AtOnce
<1>5. ASSUME NEW q \in Requests, Serve(q)
      PROVE  Ends(q) \/ StartRun(q) \/ FinishRun(q)
  <2>1. CASE RefuseRun(q)
    BY <2>1 DEF RefuseRun, DropExpired, Ends, UnderWay
  <2>2. CASE FailRun(q)
    BY <2>2 DEF FailRun, Ends, UnderWay
  <2>3. CASE RefuseSave(q)
    BY <2>3 DEF RefuseSave, DropExpired, Ends, UnderWay
  <2>4. CASE DeleteSaved(q)
    BY <2>4 DEF DeleteSaved, DropExpired, Ends, UnderWay
  <2> QED BY <1>5, <2>1, <2>2, <2>3, <2>4 DEF Serve
<1> QED BY <1>1, <1>2, <1>3, <1>4, <1>5 DEF Next

-----------------------------------------------------------------------------
(* Each kind keeps the invariant.                                          *)

LEMMA InitInv == Init => IInv
<1> SUFFICES ASSUME Init PROVE IInv
  OBVIOUS
<1>1. Shape
  BY DEF Init, Shape, Answers, Unanswered
<1>2. ChainInv
  BY DEF Init, ChainInv, On, UnderWay, Distinct, Range
<1> QED BY <1>1, <1>2 DEF Init, IInv, RequestInv, UnderWay, LogInv,
             OnlyOwnersOperate, ResultsFollowTheLog, Unanswered

LEMMA JoinsInv ==
  ASSUME IInv, NEW q \in Requests, NEW c \in CallSet, Joins(q, c)
  PROVE  IInv'
<1> DEFINE h == c.handle
<1> USE DEF IInv
<1>1. h \in Handles /\ session[h] # NoSession
  BY CallFields DEF Joins, Shape
<1>2. q \notin Range(tail[h])
  BY <1>1 DEF Joins, ChainInv, On, UnderWay
<1>3. /\ Append(tail[h], q) \in Seq(Requests) /\ Append(tail[h], q) # <<>>
      /\ tail[h] # <<>> => Head(Append(tail[h], q)) = Head(tail[h])
      /\ Distinct(Append(tail[h], q))
      /\ Range(Append(tail[h], q)) = Range(tail[h]) \cup {q}
  BY <1>1, <1>2, Push DEF Shape, ChainInv
<1>4. Shape'
  BY <1>1, <1>3 DEF Joins, Shape
<1>5. /\ phase'[q] = "queued" /\ call'[q] = c
      /\ tail'[h] = Append(tail[h], q)
      /\ \A p \in Requests \ {q} : phase'[p] = phase[p] /\ call'[p] = call[p]
      /\ \A g \in Handles \ {h} : tail'[g] = tail[g]
  BY <1>1 DEF Joins, Shape
<1>6. ChainInv'
  <2> SUFFICES ASSUME NEW g \in Handles
               PROVE  Range(tail'[g]) = On(g)' /\ Distinct(tail'[g])
    BY DEF ChainInv
  <2>1. On(g)' = On(g) \cup IF g = h THEN {q} ELSE {}
    BY <1>5 DEF On, UnderWay, Joins
  <2>2. CASE g = h
    BY <1>3, <1>5, <2>1, <2>2 DEF ChainInv
  <2>3. CASE g # h
    BY <1>5, <2>1, <2>3 DEF ChainInv
  <2> QED BY <2>2, <2>3
<1>7. RequestInv'
  <2> SUFFICES ASSUME NEW p \in Requests
               PROVE  /\ phase'[p] # "idle" => call'[p] \in CallSet
                      /\ phase'[p] \in UnderWay =>
                           session'[call'[p].handle] # NoSession
                      /\ phase'[p] # "answered" => answer'[p].tag = "none"
                      /\ answer'[p].tag = "succeeded" =>
                           session'[call'[p].handle] # NoSession
                      /\ phase'[p] = "operating" =>
                           /\ call'[p].caller = session'[call'[p].handle].owner
                           /\ answer'[p].seen = session'[call'[p].handle].log
                           /\ tail'[call'[p].handle] # <<>>
                           /\ Head(tail'[call'[p].handle]) = p
    BY DEF RequestInv
  <2>1. CASE p = q
    BY <1>1, <1>5, <2>1 DEF Joins, RequestInv
  <2>2. CASE p # q
    <3>1. phase[p] # "idle" => call[p].handle \in Handles
      BY CallFields DEF RequestInv
    <3> QED BY <1>1, <1>3, <1>5, <2>2, <3>1 DEF Joins, RequestInv
  <2> QED BY <2>1, <2>2
<1>8. LogInv'
  BY <1>5 DEF Joins, LogInv, Shape, Object
<1>9. OnlyOwnersOperate'
  <2> SUFFICES ASSUME NEW g \in Handles, session'[g] # NoSession,
                      NEW i \in 1 .. Len(session'[g].log)
               PROVE  call'[session'[g].log[i]].caller = session'[g].owner
    BY DEF OnlyOwnersOperate
  <2>1. session' = session /\ phase[session[g].log[i]] = "answered"
    BY DEF Joins, LogInv
  <2>2. session[g].log[i] \in Requests \ {q}
    BY <2>1, ElementOfSeq DEF Joins, Shape, Object
  <2> QED BY <1>5, <2>1, <2>2 DEF OnlyOwnersOperate
<1>10. ResultsFollowTheLog'
  <2>1. answer' = answer /\ session' = session /\ answer[q].tag # "succeeded"
    BY DEF Joins, RequestInv
  <2> QED BY <1>5, <2>1 DEF ResultsFollowTheLog
<1> QED BY <1>4, <1>6, <1>7, <1>8, <1>9, <1>10

LEMMA AtOnceInv ==
  ASSUME IInv, NEW q \in Requests, NEW c \in CallSet, AtOnce(q, c)
  PROVE  IInv'
<1> USE DEF IInv
<1>1. PICK tag \in {"unavailable", "created", "collision", "listed"} :
        Settle(q, tag, <<>>)
  BY DEF AtOnce
<1>2. /\ phase[q] = "idle" /\ phase'[q] = "answered" /\ call'[q] = c
      /\ answer'[q] = [tag |-> tag, seen |-> <<>>]
      /\ tail' = tail /\ now' = now
      /\ \A p \in Requests \ {q} : /\ phase'[p] = phase[p]
                                   /\ call'[p] = call[p]
                                   /\ answer'[p] = answer[p]
  BY <1>1 DEF AtOnce, Settle, Shape
<1>3. /\ \A g \in Handles : session[g] # NoSession => session'[g] = session[g]
      /\ \A g \in Handles : session'[g] # NoSession /\ session[g] = NoSession =>
           session'[g].log = <<>>
      /\ session' \in [Handles -> Object \cup {NoSession}]
      /\ liveSessions' \subseteq {h \in Handles : session'[h] # NoSession}
  <2>1. CASE session' = session /\ liveSessions' \subseteq liveSessions
    BY <2>1 DEF Shape
  <2>2. CASE \E h \in Handles :
               /\ session[h] = NoSession /\ c.caller \in Owners
               /\ session' = [session EXCEPT ![h] =
                    [owner |-> c.caller, lastActivity |-> now, log |-> <<>>]]
               /\ liveSessions' = liveSessions \cup {h}
    <3>0. PICK h \in Handles :
            /\ session[h] = NoSession /\ c.caller \in Owners
            /\ session' = [session EXCEPT ![h] =
                 [owner |-> c.caller, lastActivity |-> now, log |-> <<>>]]
            /\ liveSessions' = liveSessions \cup {h}
      BY <2>2
    <3>1. [owner |-> c.caller, lastActivity |-> now, log |-> <<>>] \in Object
      BY <3>0, EmptySeq DEF Shape, Object
    <3>2. NoSession \notin Object
      BY LiveAssumption DEF Object
    <3>3. session'[h] = [owner |-> c.caller, lastActivity |-> now, log |-> <<>>]
          /\ \A g \in Handles \ {h} : session'[g] = session[g]
      BY <3>0 DEF Shape
    <3>4. session' \in [Handles -> Object \cup {NoSession}]
      BY <3>0, <3>1 DEF Shape
    <3>5. liveSessions' \subseteq {g \in Handles : session'[g] # NoSession}
      BY <3>0, <3>1, <3>2, <3>3 DEF Shape
    <3> QED BY <3>0, <3>3, <3>4, <3>5
  <2> QED BY <2>1, <2>2 DEF AtOnce
<1>4. Shape'
  <2>1. phase' \in [Requests -> {"idle", "queued", "operating", "answered"}]
    BY <1>1 DEF Settle, Shape
  <2>2. call' \in [Requests -> CallSet \cup {NoCall}]
    BY DEF AtOnce, Shape
  <2>3. answer' \in [Requests -> Answers]
    BY <1>1, EmptySeq DEF Settle, Shape, Answers
  <2> QED BY <1>2, <1>3, <2>1, <2>2, <2>3 DEF Shape
<1>5. ChainInv'
  <2>1. ASSUME NEW g \in Handles PROVE On(g)' = On(g)
    BY <1>2 DEF On, UnderWay
  <2> QED BY <1>2, <2>1 DEF ChainInv
<1>6. RequestInv'
  <2> SUFFICES ASSUME NEW p \in Requests
               PROVE  /\ phase'[p] # "idle" => call'[p] \in CallSet
                      /\ phase'[p] \in UnderWay =>
                           session'[call'[p].handle] # NoSession
                      /\ phase'[p] # "answered" => answer'[p].tag = "none"
                      /\ answer'[p].tag = "succeeded" =>
                           session'[call'[p].handle] # NoSession
                      /\ phase'[p] = "operating" =>
                           /\ call'[p].caller = session'[call'[p].handle].owner
                           /\ answer'[p].seen = session'[call'[p].handle].log
                           /\ tail'[call'[p].handle] # <<>>
                           /\ Head(tail'[call'[p].handle]) = p
    BY DEF RequestInv
  <2>1. CASE p = q
    BY <1>2, <2>1 DEF UnderWay
  <2>2. CASE p # q
    <3>1. phase[p] # "idle" => call[p].handle \in Handles
      BY CallFields DEF RequestInv
    <3>2. session[call[p].handle] # NoSession /\ call[p].handle \in Handles =>
            session'[call[p].handle] = session[call[p].handle]
      BY <1>3
    <3>3. answer[p].tag = "succeeded" => phase[p] # "idle"
      BY DEF RequestInv
    <3>4. phase[p] = "operating" => phase[p] \in UnderWay
      BY DEF UnderWay
    <3>5. phase[p] \in UnderWay => phase[p] # "idle"
      BY DEF UnderWay
    <3> QED BY <1>2, <2>2, <3>1, <3>2, <3>3, <3>4, <3>5 DEF RequestInv
  <2> QED BY <2>1, <2>2
<1>7. ASSUME NEW g \in Handles, session'[g] # NoSession,
             NEW i \in 1 .. Len(session'[g].log)
      PROVE  /\ session[g] # NoSession /\ session'[g] = session[g]
             /\ session[g].log[i] \in Requests \ {q}
             /\ phase[session[g].log[i]] = "answered"
  <2>1. session[g] # NoSession
    BY <1>3, <1>7, EmptySeq
  <2>2. session'[g] = session[g] /\ phase[session[g].log[i]] = "answered"
    BY <1>3, <1>7, <2>1 DEF LogInv
  <2>3. session[g].log \in Seq(Requests)
    BY <2>1 DEF Shape, Object
  <2> QED BY <1>2, <1>7, <2>1, <2>2, <2>3, ElementOfSeq
<1>8. LogInv'
  BY <1>2, <1>7 DEF LogInv
<1>9. OnlyOwnersOperate'
  BY <1>2, <1>7 DEF OnlyOwnersOperate
<1>10. ResultsFollowTheLog'
  <2> SUFFICES ASSUME NEW p \in Requests, answer'[p].tag = "succeeded"
               PROVE  LET log  == session'[call'[p].handle].log
                          seen == answer'[p].seen
                      IN  /\ Len(seen) < Len(log)
                          /\ SubSeq(log, 1, Len(seen)) = seen
                          /\ log[Len(seen) + 1] = p
    BY DEF ResultsFollowTheLog
  <2>1. p # q
    BY <1>2
  <2>2. phase[p] = "answered" /\ session[call[p].handle] # NoSession
    BY <1>2, <2>1 DEF RequestInv
  <2>3. call[p].handle \in Handles
    BY <2>2, CallFields DEF RequestInv
  <2>4. /\ call'[p] = call[p] /\ answer'[p] = answer[p]
        /\ session'[call[p].handle] = session[call[p].handle]
    BY <1>2, <1>3, <2>1, <2>2, <2>3
  <2> QED BY <2>4 DEF ResultsFollowTheLog
<1> QED BY <1>4, <1>5, <1>6, <1>8, <1>9, <1>10

(* The head of a chain is answered and leaves it.                          *)
LEMMA Leaving ==
  ASSUME IInv, NEW q \in Requests, NEW ph \in UnderWay, Turn(q, ph),
         NEW tag, NEW seen, Answer(q, tag, seen),
         [tag |-> tag, seen |-> seen] \in Answers, call' = call
  PROVE  /\ call[q] \in CallSet /\ call[q].handle \in Handles
         /\ session[call[q].handle] \in Object
         /\ phase'[q] = "answered" /\ answer'[q] = [tag |-> tag, seen |-> seen]
         /\ \A p \in Requests \ {q} :
              phase'[p] = phase[p] /\ answer'[p] = answer[p]
         /\ \A g \in Handles \ {call[q].handle} : tail'[g] = tail[g]
         /\ \A p \in Requests \ {q} :
              phase[p] = "operating" => call[p].handle # call[q].handle
         /\ phase' \in [Requests -> {"idle", "queued", "operating", "answered"}]
         /\ answer' \in [Requests -> Answers]
         /\ tail' \in [Handles -> Seq(Requests)]
         /\ ChainInv'
<1> USE DEF IInv
<1> DEFINE h == call[q].handle
<1>1. /\ phase[q] \in UnderWay /\ tail[h] # <<>> /\ Head(tail[h]) = q
  BY DEF Turn
<1>2. call[q] \in CallSet /\ h \in Handles /\ session[h] \in Object
  BY <1>1, CallFields DEF RequestInv, UnderWay, Shape
<1>3. /\ phase'[q] = "answered" /\ answer'[q] = [tag |-> tag, seen |-> seen]
      /\ \A p \in Requests \ {q} :
           phase'[p] = phase[p] /\ answer'[p] = answer[p]
      /\ phase' \in [Requests -> {"idle", "queued", "operating", "answered"}]
      /\ answer' \in [Requests -> Answers]
  BY DEF Answer, Settle, Shape
<1>4. /\ tail' = [tail EXCEPT ![h] = Tail(@)]
      /\ tail'[h] = Tail(tail[h])
      /\ \A g \in Handles \ {h} : tail'[g] = tail[g]
  BY <1>2 DEF Answer, Leaves, Shape
<1>5. /\ Tail(tail[h]) \in Seq(Requests)
      /\ Distinct(Tail(tail[h]))
      /\ Range(Tail(tail[h])) = Range(tail[h]) \ {q}
  BY <1>1, <1>2, Pop DEF Shape, ChainInv
<1>6. tail' \in [Handles -> Seq(Requests)]
  BY <1>4, <1>5 DEF Shape
<1>7. \A p \in Requests \ {q} :
        phase[p] = "operating" => call[p].handle # h
  BY <1>1 DEF RequestInv
<1>8. ChainInv'
  <2> SUFFICES ASSUME NEW g \in Handles
               PROVE  Range(tail'[g]) = On(g)' /\ Distinct(tail'[g])
    BY DEF ChainInv
  <2>1. On(g)' = On(g) \ IF g = h THEN {q} ELSE {}
    BY <1>3 DEF On, UnderWay
  <2>2. CASE g = h
    BY <1>4, <1>5, <2>1, <2>2 DEF ChainInv
  <2>3. CASE g # h
    BY <1>4, <2>1, <2>3 DEF ChainInv
  <2> QED BY <2>2, <2>3
<1> QED BY <1>2, <1>3, <1>4, <1>6, <1>7, <1>8

LEMMA EndsInv ==
  ASSUME IInv, NEW q \in Requests, Ends(q)
  PROVE  IInv'
<1>1. PICK ph \in UnderWay : Turn(q, ph)
  BY DEF Ends
<1>2. PICK tag \in {"unavailable", "failed", "deleted"} : Answer(q, tag, <<>>)
  BY DEF Ends
<1>3. call' = call /\ session' = session /\ now' = now
      /\ liveSessions' \subseteq liveSessions
  BY DEF Ends
<1>4. [tag |-> tag, seen |-> <<>>] \in Answers
  BY EmptySeq DEF Answers
<1>5. /\ phase'[q] = "answered" /\ answer'[q] = [tag |-> tag, seen |-> <<>>]
      /\ \A p \in Requests \ {q} :
           phase'[p] = phase[p] /\ answer'[p] = answer[p]
      /\ \A g \in Handles \ {call[q].handle} : tail'[g] = tail[g]
      /\ \A p \in Requests \ {q} :
           phase[p] = "operating" => call[p].handle # call[q].handle
      /\ phase' \in [Requests -> {"idle", "queued", "operating", "answered"}]
      /\ answer' \in [Requests -> Answers]
      /\ tail' \in [Handles -> Seq(Requests)]
      /\ ChainInv'
      /\ call[q] \in CallSet
  BY <1>1, <1>2, <1>3, <1>4, Leaving
<1> USE DEF IInv
<1>6. Shape'
  BY <1>3, <1>5 DEF Shape
<1>7. RequestInv'
  <2> SUFFICES ASSUME NEW p \in Requests
               PROVE  /\ phase'[p] # "idle" => call[p] \in CallSet
                      /\ phase'[p] \in UnderWay =>
                           session[call[p].handle] # NoSession
                      /\ phase'[p] # "answered" => answer'[p].tag = "none"
                      /\ answer'[p].tag = "succeeded" =>
                           session[call[p].handle] # NoSession
                      /\ phase'[p] = "operating" =>
                           /\ call[p].caller = session[call[p].handle].owner
                           /\ answer'[p].seen = session[call[p].handle].log
                           /\ tail'[call[p].handle] # <<>>
                           /\ Head(tail'[call[p].handle]) = p
    BY <1>3 DEF RequestInv
  <2>1. CASE p = q
    BY <1>5, <2>1 DEF UnderWay
  <2>2. CASE p # q
    <3>1. phase[p] = "operating" => call[p].handle \in Handles
      BY CallFields DEF RequestInv
    <3> QED BY <1>5, <2>2, <3>1 DEF RequestInv
  <2> QED BY <2>1, <2>2
<1>8. LogInv'
  <2> SUFFICES ASSUME NEW g \in Handles, session[g] # NoSession,
                      NEW i \in 1 .. Len(session[g].log)
               PROVE  phase'[session[g].log[i]] = "answered"
    BY <1>3 DEF LogInv
  <2>1. session[g].log[i] \in Requests
    BY ElementOfSeq DEF Shape, Object
  <2> QED BY <1>5, <2>1 DEF LogInv
<1>9. OnlyOwnersOperate'
  BY <1>3 DEF OnlyOwnersOperate
<1>10. ResultsFollowTheLog'
  BY <1>3, <1>5 DEF ResultsFollowTheLog
<1> QED BY <1>5, <1>6, <1>7, <1>8, <1>9, <1>10

LEMMA StartInv ==
  ASSUME IInv, NEW q \in Requests, StartRun(q)
  PROVE  IInv'
<1> USE DEF IInv
<1> DEFINE h == call[q].handle
<1>1. /\ phase[q] = "queued" /\ tail[h] # <<>> /\ Head(tail[h]) = q
      /\ call[q].caller = session[h].owner
      /\ UNCHANGED <<liveSessions, session, tail, now, call>>
  BY DEF StartRun, Turn, CallerAuthorizes
<1>2. call[q] \in CallSet /\ h \in Handles /\ session[h] \in Object
      /\ answer[q].tag = "none"
  BY <1>1, CallFields DEF RequestInv, UnderWay, Shape
<1>3. /\ phase'[q] = "operating"
      /\ answer'[q].tag = "none" /\ answer'[q].seen = session[h].log
      /\ answer'[q] \in Answers
      /\ \A p \in Requests \ {q} :
           phase'[p] = phase[p] /\ answer'[p] = answer[p]
      /\ phase' \in [Requests -> {"idle", "queued", "operating", "answered"}]
      /\ answer' \in [Requests -> Answers]
  BY <1>2 DEF StartRun, Shape, Answers, Object
<1>4. Shape'
  BY <1>1, <1>3 DEF Shape
<1>5. ChainInv'
  <2>1. ASSUME NEW g \in Handles PROVE On(g)' = On(g)
    BY <1>1, <1>3 DEF On, UnderWay
  <2> QED BY <1>1, <2>1 DEF ChainInv
<1>6. RequestInv'
  <2> SUFFICES ASSUME NEW p \in Requests
               PROVE  /\ phase'[p] # "idle" => call[p] \in CallSet
                      /\ phase'[p] \in UnderWay =>
                           session[call[p].handle] # NoSession
                      /\ phase'[p] # "answered" => answer'[p].tag = "none"
                      /\ answer'[p].tag = "succeeded" =>
                           session[call[p].handle] # NoSession
                      /\ phase'[p] = "operating" =>
                           /\ call[p].caller = session[call[p].handle].owner
                           /\ answer'[p].seen = session[call[p].handle].log
                           /\ tail[call[p].handle] # <<>>
                           /\ Head(tail[call[p].handle]) = p
    BY <1>1 DEF RequestInv
  <2>1. CASE p = q
    BY <1>1, <1>2, <1>3, <2>1 DEF RequestInv, UnderWay
  <2>2. CASE p # q
    BY <1>3, <2>2 DEF RequestInv
  <2> QED BY <2>1, <2>2
<1>7. LogInv'
  <2> SUFFICES ASSUME NEW g \in Handles, session[g] # NoSession,
                      NEW i \in 1 .. Len(session[g].log)
               PROVE  phase'[session[g].log[i]] = "answered"
    BY <1>1 DEF LogInv
  <2>1. session[g].log[i] \in Requests /\ phase[session[g].log[i]] = "answered"
    BY ElementOfSeq DEF Shape, Object, LogInv
  <2> QED BY <1>1, <1>3, <2>1
<1>8. OnlyOwnersOperate'
  BY <1>1 DEF OnlyOwnersOperate
<1>9. ResultsFollowTheLog'
  BY <1>1, <1>3 DEF ResultsFollowTheLog
<1> QED BY <1>4, <1>5, <1>6, <1>7, <1>8, <1>9

(* The call that operates is the only one on its object that does: the log *)
(* it has seen is still the log when its own entry is added.               *)
LEMMA FinishInv ==
  ASSUME IInv, NEW q \in Requests, FinishRun(q)
  PROVE  IInv'
<1> DEFINE h == call[q].handle
           log == session[h].log
<1>1. /\ Turn(q, "operating") /\ phase[q] = "operating"
      /\ Answer(q, "succeeded", answer[q].seen)
      /\ session' = [session EXCEPT ![h].log = Append(@, q),
                                    ![h].lastActivity = now]
      /\ liveSessions' = liveSessions /\ now' = now /\ call' = call
  BY DEF FinishRun, Turn
<1>2. /\ answer[q].seen = log /\ call[q].caller = session[h].owner
      /\ answer[q] \in Answers
  BY <1>1 DEF IInv, RequestInv, Shape
<1>3. [tag |-> "succeeded", seen |-> answer[q].seen] \in Answers
  BY <1>2 DEF Answers
<1>4. /\ call[q] \in CallSet /\ h \in Handles /\ session[h] \in Object
      /\ phase'[q] = "answered"
      /\ answer'[q] = [tag |-> "succeeded", seen |-> answer[q].seen]
      /\ \A p \in Requests \ {q} :
           phase'[p] = phase[p] /\ answer'[p] = answer[p]
      /\ \A g \in Handles \ {h} : tail'[g] = tail[g]
      /\ \A p \in Requests \ {q} :
           phase[p] = "operating" => call[p].handle # h
      /\ phase' \in [Requests -> {"idle", "queued", "operating", "answered"}]
      /\ answer' \in [Requests -> Answers]
      /\ tail' \in [Handles -> Seq(Requests)]
      /\ ChainInv'
  BY <1>1, <1>3, Leaving DEF UnderWay
<1> USE DEF IInv
<1>5. /\ log \in Seq(Requests) /\ Len(log) \in Nat
      /\ Append(log, q) \in Seq(Requests)
      /\ Len(Append(log, q)) = Len(log) + 1
      /\ \A i \in 1 .. Len(log) : Append(log, q)[i] = log[i]
      /\ Append(log, q)[Len(log) + 1] = q
  BY <1>4, AppendProperties, LenProperties DEF Object
<1>6. NoSession \notin Object
  BY LiveAssumption DEF Object
<1>7. /\ session'[h] \in Object
      /\ session'[h].log = Append(log, q)
      /\ session'[h].owner = session[h].owner
      /\ \A g \in Handles \ {h} : session'[g] = session[g]
      /\ session' \in [Handles -> Object \cup {NoSession}]
  BY <1>1, <1>4, <1>5 DEF Shape, Object
<1> HIDE DEF log, h
<1>8. Shape'
  <2>1. liveSessions' \subseteq {g \in Handles : session'[g] # NoSession}
    BY <1>1, <1>6, <1>7 DEF Shape
  <2> QED BY <1>1, <1>4, <1>7, <2>1 DEF Shape
<1>9. RequestInv'
  <2> SUFFICES ASSUME NEW p \in Requests
               PROVE  /\ phase'[p] # "idle" => call[p] \in CallSet
                      /\ phase'[p] \in UnderWay =>
                           session'[call[p].handle] # NoSession
                      /\ phase'[p] # "answered" => answer'[p].tag = "none"
                      /\ answer'[p].tag = "succeeded" =>
                           session'[call[p].handle] # NoSession
                      /\ phase'[p] = "operating" =>
                           /\ call[p].caller = session'[call[p].handle].owner
                           /\ answer'[p].seen = session'[call[p].handle].log
                           /\ tail'[call[p].handle] # <<>>
                           /\ Head(tail'[call[p].handle]) = p
    BY <1>1 DEF RequestInv
  <2>1. CASE p = q
    BY <1>4, <1>6, <1>7, <2>1 DEF UnderWay, h
  <2>2. CASE p # q
    <3>1. phase[p] # "idle" => call[p].handle \in Handles
      BY CallFields DEF RequestInv
    <3>2. phase'[p] = phase[p] /\ answer'[p] = answer[p]
      BY <1>4, <2>2
    <3>3. phase[p] # "idle" /\ session[call[p].handle] # NoSession =>
            session'[call[p].handle] # NoSession
      BY <1>6, <1>7, <3>1
    <3>4. answer[p].tag = "succeeded" => phase[p] # "idle"
      BY DEF RequestInv
    <3>5. phase[p] \in UnderWay => phase[p] # "idle"
      BY DEF UnderWay
    <3>6. phase[p] = "operating" =>
            /\ call[p].handle \in Handles \ {h}
            /\ session'[call[p].handle] = session[call[p].handle]
            /\ tail'[call[p].handle] = tail[call[p].handle]
      BY <1>4, <1>7, <2>2, <3>1
    <3> QED BY <3>2, <3>3, <3>4, <3>5, <3>6 DEF RequestInv
  <2> QED BY <2>1, <2>2
<1>10. ASSUME NEW g \in Handles, session'[g] # NoSession,
              NEW i \in 1 .. Len(session'[g].log)
       PROVE  \/ g = h /\ session'[g].log[i] = q
              \/ /\ session[g] # NoSession /\ i \in 1 .. Len(session[g].log)
                 /\ session'[g].log[i] = session[g].log[i]
                 /\ session'[g].owner = session[g].owner
                 /\ session[g].log[i] \in Requests
  <2>1. CASE g # h
    <3>1. session'[g] = session[g]
      BY <1>7, <2>1
    <3>2. session[g].log \in Seq(Requests)
      BY <1>10, <3>1 DEF Shape, Object
    <3> QED BY <1>10, <3>1, <3>2, ElementOfSeq
  <2>2. CASE g = h /\ i = Len(log) + 1
    BY <1>5, <1>7, <2>2
  <2>3. CASE g = h /\ i # Len(log) + 1
    <3>1. i \in 1 .. Len(log) /\ session'[g].log[i] = log[i]
      BY <1>5, <1>7, <1>10, <2>3
    <3>2. log[i] \in Requests
      BY <1>5, <3>1, ElementOfSeq
    <3> QED BY <1>4, <1>6, <1>7, <2>3, <3>1, <3>2 DEF log
  <2> QED BY <2>1, <2>2, <2>3
<1>11. LogInv'
  <2> SUFFICES ASSUME NEW g \in Handles, session'[g] # NoSession,
                      NEW i \in 1 .. Len(session'[g].log)
               PROVE  phase'[session'[g].log[i]] = "answered"
    BY DEF LogInv
  <2>1. CASE session'[g].log[i] = q
    BY <1>4, <2>1
  <2>2. CASE session'[g].log[i] # q
    <3>1. /\ session[g] # NoSession /\ i \in 1 .. Len(session[g].log)
          /\ session'[g].log[i] = session[g].log[i]
          /\ session[g].log[i] \in Requests \ {q}
      BY <1>10, <2>2
    <3>2. phase[session[g].log[i]] = "answered"
      BY <3>1 DEF LogInv
    <3> QED BY <1>4, <3>1, <3>2
  <2> QED BY <2>1, <2>2
<1>12. OnlyOwnersOperate'
  <2> SUFFICES ASSUME NEW g \in Handles, session'[g] # NoSession,
                      NEW i \in 1 .. Len(session'[g].log)
               PROVE  call[session'[g].log[i]].caller = session'[g].owner
    BY <1>1 DEF OnlyOwnersOperate
  <2> QED BY <1>2, <1>7, <1>10 DEF OnlyOwnersOperate, h
<1>13. ResultsFollowTheLog'
  <2> SUFFICES ASSUME NEW p \in Requests, answer'[p].tag = "succeeded"
               PROVE  LET new  == session'[call[p].handle].log
                          seen == answer'[p].seen
                      IN  /\ Len(seen) < Len(new)
                          /\ SubSeq(new, 1, Len(seen)) = seen
                          /\ new[Len(seen) + 1] = p
    BY <1>1 DEF ResultsFollowTheLog
  <2>1. CASE p = q
    <3>1. SubSeq(Append(log, q), 1, Len(log)) = log
      BY <1>5, PrefixStays, WholeLog
    <3>2. answer'[p].seen = log /\ session'[call[p].handle].log = Append(log, q)
      BY <1>2, <1>4, <1>7, <2>1 DEF h, log
    <3> QED BY <1>5, <2>1, <3>1, <3>2
  <2>2. CASE p # q
    <3>1. answer'[p] = answer[p] /\ phase[p] = "answered"
          /\ session[call[p].handle] # NoSession
      BY <1>4, <2>2 DEF RequestInv
    <3>2. call[p].handle \in Handles
      BY <3>1, CallFields DEF RequestInv
    <3>3. CASE call[p].handle # h
      BY <1>7, <3>1, <3>2, <3>3 DEF ResultsFollowTheLog
    <3>4. CASE call[p].handle = h
      <4>1. /\ Len(answer[p].seen) < Len(log)
            /\ SubSeq(log, 1, Len(answer[p].seen)) = answer[p].seen
            /\ log[Len(answer[p].seen) + 1] = p
        BY <3>1, <3>4 DEF ResultsFollowTheLog, log
      <4>2. Len(answer[p].seen) \in Nat
        BY LenProperties DEF Shape, Answers
      <4>3. SubSeq(Append(log, q), 1, Len(answer[p].seen)) = answer[p].seen
        BY <1>5, <4>1, <4>2, PrefixStays
      <4>4. session'[call[p].handle].log = Append(log, q)
        BY <1>7, <3>4
      <4> QED BY <1>5, <3>1, <4>1, <4>2, <4>3, <4>4
    <3> QED BY <3>3, <3>4
  <2> QED BY <2>1, <2>2
<1> QED BY <1>4, <1>8, <1>9, <1>11, <1>12, <1>13

LEMMA StepInv == IInv /\ [Next]_vars => IInv'
<1> SUFFICES ASSUME IInv, [Next]_vars PROVE IInv'
  OBVIOUS
<1>1. CASE Tick
  <2>1. now' \in Nat
    BY <1>1 DEF Tick, IInv, Shape
  <2> QED BY <1>1, <2>1 DEF Tick, IInv, Shape, ChainInv, On, RequestInv,
               LogInv, OnlyOwnersOperate, ResultsFollowTheLog
<1>2. CASE UNCHANGED vars
  BY <1>2 DEF vars, IInv, Shape, ChainInv, On, RequestInv, LogInv,
               OnlyOwnersOperate, ResultsFollowTheLog
<1> QED BY <1>1, <1>2, StepKinds, JoinsInv, AtOnceInv, EndsInv, StartInv,
             FinishInv

THEOREM LiveInvariant == Spec => []IInv
BY InitInv, StepInv, PTL DEF Spec

(* Every value of the registry keeps its type, and a chain holds exactly   *)
(* the calls on its object that are under way (play-session.ts: the tail   *)
(* of a LiveSession).                                                      *)
THEOREM LiveTypes == Spec => []TypeOK
<1>1. IInv => TypeOK
  BY DEF IInv, Shape, ChainInv, On, UnderWay, Object, TypeOK
<1> QED BY <1>1, LiveInvariant, PTL

(* Each success was computed on the log before it and is the next entry of *)
(* it, though operations are awaited.                                      *)
THEOREM ResultsFollow == Spec => []ResultsFollowTheLog
<1>1. IInv => ResultsFollowTheLog
  BY DEF IInv
<1> QED BY <1>1, LiveInvariant, PTL

(* Only the owner of a session works on it.                                *)
THEOREM OwnersOperate == Spec => []OnlyOwnersOperate
<1>1. IInv => OnlyOwnersOperate
  BY DEF IInv
<1> QED BY <1>1, LiveInvariant, PTL

-----------------------------------------------------------------------------
(* A local session stays for the lifetime of the process: no clean-up      *)
(* takes it for expired and no deletion has evidence for it.               *)
THEOREM LocalStays == Spec => LocalSessionsStay
<1> DEFINE Stays ==
      \A h \in liveSessions :
        session[h].owner = LocalProcess => h \in liveSessions'
<1>1. ASSUME IInv, [Next]_vars PROVE Stays
  <2> SUFFICES ASSUME NEW h \in liveSessions, session[h].owner = LocalProcess
               PROVE  h \in liveSessions'
    OBVIOUS
  <2>1. ~Expired(h)
    BY DEF Expired
  <2>2. ASSUME NEW q \in Requests, DropExpired(call[q].handle)
        PROVE  h \in liveSessions'
    BY <2>1, <2>2 DEF DropExpired
  <2>3. ASSUME NEW q \in Requests, DeleteSaved(q)
        PROVE  h \in liveSessions'
    <3>1. CASE Deletable(q)
      <4>1. call[q] \in CallSet /\ call[q].kind = "delete"
        BY <1>1, <2>3 DEF DeleteSaved, Turn, IInv, RequestInv
      <4>2. call[q].caller \in Principals
        BY <4>1, CallFields
      <4>3. session[call[q].handle].owner # LocalProcess
        BY <3>1, <4>2, LiveAssumption DEF Deletable, CallerAuthorizes
      <4> QED BY <2>3, <3>1, <4>3 DEF DeleteSaved
    <3>2. CASE ~Deletable(q)
      BY <2>2, <2>3, <3>2 DEF DeleteSaved
    <3> QED BY <3>1, <3>2
  <2>4. ASSUME NEW q \in Requests, Serve(q) PROVE h \in liveSessions'
    BY <2>2, <2>3, <2>4 DEF Serve, RefuseRun, StartRun, FinishRun, FailRun,
         RefuseSave
  <2>5. ASSUME NEW q \in Requests, NEW c \in CallSet,
               \/ Issue(q, c) \/ CreateCollides(q, c) \/ ListSaved(q, c)
               \/ \E g \in Handles : Create(q, c, g)
        PROVE  h \in liveSessions'
    BY <2>1, <2>5 DEF Issue, CreateCollides, ListSaved, Create
  <2> QED BY <1>1, <2>4, <2>5 DEF Next, Tick, vars
<1>2. Spec => [][Stays]_vars
  BY <1>1, LiveInvariant, PTL DEF Spec
<1> QED BY <1>2 DEF LocalSessionsStay
=============================================================================
