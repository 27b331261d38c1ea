----------------------- MODULE BattleInterrupts_proofs -----------------------
(***************************************************************************)
(* What holds of the interrupt stack for any number of creatures,          *)
(* procedures, windows and turns, and whether or not an attack made as a   *)
(* Reaction may force a save: which decisions are open, who has reacted,   *)
(* what a procedure may still ask.  That procedures nest holds where no    *)
(* attack made as a Reaction forces a save (the run nested_saves shows     *)
(* what happens where one does).                                           *)
(***************************************************************************)
EXTENDS BattleInterrupts, SequenceTheorems, TLAPS

(***************************************************************************)
(* The invariant says what may lie on what: only a reported Ready trigger  *)
(* is put over a pending decision, and its continuation has nothing left   *)
(* to do, so that nothing but a checkpoint ever hides a decision and every *)
(* step that lays one open again looks at it.                              *)
(***************************************************************************)
Frame == Checkpoint \cup Replay \cup Save

\* ks are the kinds of the procedures started.
FrameSound(frame, ks) ==
  /\ frame \in Frame
  /\ frame.of \in 1 .. Len(ks)
  /\ ks[frame.of] = "report" => /\ frame.tag = "checkpoint"
                                /\ frame.trigger = "reportedReadyTrigger"
  /\ IsReaction(frame) => /\ frame.active \in Unoffered(frame)
                          /\ frame.nested \in 1 .. Len(ks)
                          /\ ks[frame.nested] # "report"

LiesOnDecision(frame, ks) ==
  frame.tag = "checkpoint" /\ ks[frame.of] = "report"

TopDecides(s) == s # <<>> /\ IsDecision(s[Len(s)])

StackSound(s, ks) ==
  /\ s \in Seq(Frame)
  /\ \A i \in 1 .. Len(s) : FrameSound(s[i], ks)
  /\ \A i \in 1 .. Len(s) - 1 :
       IsDecision(s[i]) => LiesOnDecision(s[i + 1], ks)

CallSound(step, s, ks) ==
  /\ step \in Call
  /\ step.do = "run" =>
       /\ step.procedure \in 1 .. Len(ks)
       /\ ks[step.procedure] = "report" => step.after = "reportedReadyTrigger"
       /\ TopDecides(s) => ks[step.procedure] = "report" /\ step.completes
       /\ step.after = NoTrigger /\ step.completes =>
            s # <<>> /\ IsReaction(s[Len(s)])
              /\ s[Len(s)].nested = step.procedure

Reacted ==
  \A c \in Creatures : reacted[c] \in {0, 1} /\ (reacted[c] = 1 => c \in spent)

Rest ==
  /\ spent \subseteq Creatures /\ down \subseteq Creatures
  /\ kinds \in Seq(Kinds)
  /\ ended \subseteq Nat
  /\ windows \in Windows
  /\ reacted \in [Creatures -> Nat]
  /\ turns \in Nat

Sound ==
  /\ StackSound(stack, kinds)
  /\ CallSound(call, stack, kinds)
  /\ Rest

IInv == Sound /\ Reacted /\ DecisionsAreOpen

-----------------------------------------------------------------------------
\* Front drops the last element only.
LEMMA FrontFacts ==
  ASSUME NEW S, NEW s \in Seq(S), s # <<>>
  PROVE  /\ Len(s) \in Nat \ {0}
         /\ Front(s) \in Seq(S)
         /\ Len(Front(s)) = Len(s) - 1
         /\ \A i \in 1 .. Len(s) - 1 : Front(s)[i] = s[i]
<1> DEFINE n == Len(s) - 1
           t == SubSeq(s, 1, n)
<1>1. Len(s) \in Nat /\ Len(s) # 0 /\ n \in Int /\ n >= 0
  BY LenProperties, EmptySeq
<1>2. \A i \in 1 .. n : s[i] \in S
  BY <1>1, ElementOfSeq
<1> HIDE DEF n
<1>3. /\ t \in Seq(S)
      /\ Len(t) = IF 1 <= n THEN n - 1 + 1 ELSE 0
      /\ \A i \in 1 .. n - 1 + 1 : t[i] = s[1 + i - 1]
  BY <1>1, <1>2, SubSeqProperties
<1> HIDE DEF t
<1>4. Len(t) = n
  BY <1>1, <1>3
<1>5. \A i \in 1 .. n : t[i] = s[i]
  <2> TAKE i \in 1 .. n
  <2>1. i \in 1 .. n - 1 + 1 /\ 1 + i - 1 = i
    BY <1>1
  <2> QED BY <2>1, <1>3
<1> QED BY <1>1, <1>3, <1>4, <1>5 DEF Front, t, n

\* A frame may be put on top of anything but a decision it may not lie on.
LEMMA Push ==
  ASSUME NEW s, NEW ks, NEW frame,
         StackSound(s, ks), FrameSound(frame, ks),
         TopDecides(s) => LiesOnDecision(frame, ks)
  PROVE  /\ StackSound(Append(s, frame), ks)
         /\ Append(s, frame) # <<>>
         /\ Len(Append(s, frame)) = Len(s) + 1
         /\ Append(s, frame)[Len(s) + 1] = frame
<1> DEFINE t == Append(s, frame)
<1>1. s \in Seq(Frame) /\ frame \in Frame /\ Len(s) \in Nat
  BY LenProperties DEF StackSound, FrameSound
<1>2. /\ t \in Seq(Frame)
      /\ Len(t) = Len(s) + 1
      /\ \A i \in 1 .. Len(s) : t[i] = s[i]
      /\ t[Len(s) + 1] = frame
  BY <1>1, AppendProperties
<1>3. t # <<>>
  BY <1>1, <1>2, EmptySeq
<1>4. \A i \in 1 .. Len(t) : FrameSound(t[i], ks)
  <2> TAKE i \in 1 .. Len(t)
  <2>1. CASE i \in 1 .. Len(s)
    BY <2>1, <1>2 DEF StackSound
  <2>2. CASE i = Len(s) + 1
    BY <2>2, <1>2
  <2> QED BY <2>1, <2>2, <1>1, <1>2
<1>5. \A i \in 1 .. Len(t) - 1 : IsDecision(t[i]) => LiesOnDecision(t[i + 1], ks)
  <2> TAKE i \in 1 .. Len(t) - 1
  <2>1. CASE i \in 1 .. Len(s) - 1
    <3>1. t[i] = s[i] /\ t[i + 1] = s[i + 1]
      BY <2>1, <1>1, <1>2
    <3> QED BY <3>1, <2>1 DEF StackSound
  <2>2. CASE i = Len(s)
    <3>1. i \in 1 .. Len(s) /\ t[i] = s[i] /\ t[i + 1] = frame /\ s # <<>>
      BY <2>2, <1>1, <1>2, EmptySeq
    <3> QED BY <3>1, <2>2 DEF TopDecides
  <2> QED BY <2>1, <2>2, <1>1, <1>2
<1> QED BY <1>2, <1>3, <1>4, <1>5 DEF StackSound

\* Taking the top frame off lays open what it was allowed to lie on.
LEMMA Pop ==
  ASSUME NEW s, NEW ks, StackSound(s, ks), s # <<>>
  PROVE  /\ StackSound(Front(s), ks)
         /\ FrameSound(s[Len(s)], ks)
         /\ TopDecides(Front(s)) => LiesOnDecision(s[Len(s)], ks)
<1> DEFINE t == Front(s)
<1>1. s \in Seq(Frame) /\ Len(s) \in Nat /\ Len(s) # 0
  BY LenProperties, EmptySeq DEF StackSound
<1>3. /\ t \in Seq(Frame)
      /\ Len(t) = Len(s) - 1
      /\ \A i \in 1 .. Len(t) : t[i] = s[i]
  BY <1>1, FrontFacts
<1>4. \A i \in 1 .. Len(t) : FrameSound(t[i], ks)
  BY <1>1, <1>3 DEF StackSound
<1>5. \A i \in 1 .. Len(t) - 1 : IsDecision(t[i]) => LiesOnDecision(t[i + 1], ks)
  <2> TAKE i \in 1 .. Len(t) - 1
  <2>1. t[i] = s[i] /\ t[i + 1] = s[i + 1] /\ i \in 1 .. Len(s) - 1
    BY <1>1, <1>3
  <2> QED BY <2>1 DEF StackSound
<1>6. TopDecides(t) => LiesOnDecision(s[Len(s)], ks)
  <2> HAVE TopDecides(t)
  <2>1. Len(t) \in 1 .. Len(s) - 1 /\ Len(t) \in 1 .. Len(t)
    BY <1>1, <1>3, EmptySeq DEF TopDecides
  <2>2. IsDecision(s[Len(t)])
    BY <2>1, <1>3 DEF TopDecides
  <2> QED BY <2>1, <2>2, <1>1, <1>3 DEF StackSound
<1> QED BY <1>1, <1>3, <1>4, <1>5, <1>6 DEF StackSound

\* Starting a procedure says nothing new of those started before it.
LEMMA Grow ==
  ASSUME NEW s, NEW ks, NEW kind, ks \in Seq(Kinds), kind \in Kinds,
         StackSound(s, ks)
  PROVE  /\ StackSound(s, Append(ks, kind))
         /\ Append(ks, kind) \in Seq(Kinds)
         /\ Len(Append(ks, kind)) = Len(ks) + 1
         /\ Len(ks) + 1 \in 1 .. Len(Append(ks, kind))
         /\ Append(ks, kind)[Len(ks) + 1] = kind
<1> DEFINE new == Append(ks, kind)
<1>1. /\ Len(ks) \in Nat
      /\ new \in Seq(Kinds)
      /\ Len(new) = Len(ks) + 1
      /\ \A i \in 1 .. Len(ks) : new[i] = ks[i]
      /\ new[Len(ks) + 1] = kind
  BY AppendProperties, LenProperties
<1>2. \A i \in 1 .. Len(s) : FrameSound(s[i], new)
  <2> TAKE i \in 1 .. Len(s)
  <2>1. FrameSound(s[i], ks)
    BY DEF StackSound
  <2> HIDE DEF new
  <2> QED BY <2>1, <1>1 DEF FrameSound
<1>3. \A i \in 1 .. Len(s) - 1 : IsDecision(s[i]) => LiesOnDecision(s[i + 1], new)
  <2> TAKE i \in 1 .. Len(s) - 1
  <2>1. Len(s) \in Nat
    BY LenProperties DEF StackSound
  <2>2. i + 1 \in 1 .. Len(s)
    BY <2>1
  <2>3. s[i + 1].of \in 1 .. Len(ks)
    BY <2>2 DEF StackSound, FrameSound
  <2> HIDE DEF new
  <2> QED BY <2>3, <1>1 DEF StackSound, LiesOnDecision
<1> QED BY <1>1, <1>2, <1>3 DEF StackSound

\* The top frame may be replaced by one that lies on the same things.
LEMMA Replace ==
  ASSUME NEW s, NEW ks, NEW frame,
         StackSound(s, ks), s # <<>>, FrameSound(frame, ks),
         frame.tag = s[Len(s)].tag, frame.of = s[Len(s)].of
  PROVE  /\ StackSound(Append(Front(s), frame), ks)
         /\ Append(Front(s), frame) # <<>>
         /\ Append(Front(s), frame)[Len(Append(Front(s), frame))] = frame
<1>1. /\ StackSound(Front(s), ks)
      /\ TopDecides(Front(s)) => LiesOnDecision(frame, ks)
  BY Pop DEF LiesOnDecision
<1> QED BY <1>1, Push

\* Replacing it in place is the same.
LEMMA ReplaceInPlace ==
  ASSUME NEW s \in Seq(Frame), s # <<>>, NEW frame \in Frame
  PROVE  ReplaceAt(s, Len(s), frame) = Append(Front(s), frame)
<1> DEFINE t == [s EXCEPT ![Len(s)] = frame]
           f == Front(s)
           u == Append(f, frame)
<1>1. Len(s) \in Nat /\ Len(s) # 0
  BY LenProperties, EmptySeq
<1>2. /\ t \in Seq(Frame) /\ Len(t) = Len(s)
      /\ \A j \in 1 .. Len(s) : t[j] = IF j = Len(s) THEN frame ELSE s[j]
  BY <1>1, ExceptSeq
<1>4. /\ f \in Seq(Frame) /\ Len(f) = Len(s) - 1
      /\ \A i \in 1 .. Len(s) - 1 : f[i] = s[i]
  BY <1>1, FrontFacts
<1>5. /\ u \in Seq(Frame) /\ Len(u) = Len(s)
      /\ \A i \in 1 .. Len(s) : u[i] = IF i = Len(s) THEN frame ELSE s[i]
  <2>1. /\ u \in Seq(Frame) /\ Len(u) = Len(f) + 1
        /\ \A i \in 1 .. Len(f) : u[i] = f[i]
        /\ u[Len(f) + 1] = frame
    BY <1>4, AppendProperties
  <2> HIDE DEF u, f
  <2> QED BY <2>1, <1>1, <1>4
<1> HIDE DEF t, f, u
<1>6. t = u
  BY <1>2, <1>5, SeqEqual
<1> QED BY <1>6 DEF ReplaceAt, t, u, f

-----------------------------------------------------------------------------
\* A call in progress is not a wait.
LEMMA Busy ==
  /\ \A p, trigger, completes : Run(p, trigger, completes) # Wait
  /\ Complete # Wait
<1>1. \A p, trigger, completes : Run(p, trigger, completes).do # Wait.do
  BY DEF Run, Wait
<1>2. Complete.do # Wait.do
  BY DEF Complete, Wait
<1> QED BY <1>1, <1>2

\* What is known of the frame on top.
LEMMA TopSound ==
  ASSUME Sound, stack # <<>>
  PROVE  FrameSound(Top, kinds)
BY Pop DEF Sound, Top

LEMMA RecordSound ==
  ASSUME NEW s, NEW ks, NEW trigger \in Triggers, StackSound(s, ks)
  PROVE  /\ StackSound(RecordHandled(s, trigger), ks)
         /\ TopDecides(RecordHandled(s, trigger)) => TopDecides(s)
<1>1. CASE s # <<>> /\ IsReaction(Last(s))
  <2> DEFINE frame == [Last(s) EXCEPT !.handled = trigger]
  <2>1. FrameSound(Last(s), ks) /\ IsReaction(Last(s)) /\ s \in Seq(Frame)
    BY <1>1, Pop DEF Last, StackSound
  <2>2. Last(s) \in Checkpoint
    BY <2>1 DEF FrameSound, Frame, Checkpoint, Replay, Save, IsReaction
  <2>3. /\ frame \in Checkpoint
        /\ frame.tag = Last(s).tag /\ frame.of = Last(s).of
        /\ frame.trigger = Last(s).trigger
        /\ frame.active = Last(s).active /\ frame.nested = Last(s).nested
        /\ Unoffered(frame) = Unoffered(Last(s))
    BY <2>2 DEF Checkpoint, Unoffered
  <2> HIDE DEF frame
  <2>4. FrameSound(frame, ks) /\ ~IsDecision(frame)
    BY <2>1, <2>3 DEF FrameSound, Frame, IsReaction, IsDecision
  <2>5. RecordHandled(s, trigger) = Append(Front(s), frame)
    BY <1>1, <2>1, <2>4, ReplaceInPlace
       DEF RecordHandled, frame, FrameSound
  <2> QED BY <1>1, <2>3, <2>4, <2>5, Replace DEF Last, TopDecides
<1>2. CASE ~(s # <<>> /\ IsReaction(Last(s)))
  BY <1>2 DEF RecordHandled
<1> QED BY <1>1, <1>2

\* Closing a checkpoint leaves a sound stack: a decision it lays open had a
\* reported Ready trigger put over it, whose continuation only resolves.
LEMMA CloseSound ==
  ASSUME Sound, stack # <<>>, NEW frame \in Checkpoint,
         FrameSound(frame, kinds), Top.tag = "checkpoint", frame.of = Top.of,
         Close(frame), kinds' = kinds
  PROVE  /\ StackSound(stack', kinds')
         /\ CallSound(call', stack', kinds')
         /\ call' # Wait
<1>1. /\ StackSound(Front(stack), kinds)
      /\ TopDecides(Front(stack)) => LiesOnDecision(Top, kinds)
  BY Pop DEF Sound, Top
<1>2. frame.trigger \in Triggers /\ frame.tag = "checkpoint"
  BY DEF Checkpoint
<1>3. stack' = RecordHandled(Front(stack), frame.trigger)
  BY DEF Close
<1>4. /\ StackSound(stack', kinds')
      /\ TopDecides(stack') => kinds[frame.of] = "report"
  BY <1>1, <1>2, <1>3, RecordSound DEF LiesOnDecision
<1>5. /\ call' \in Call /\ call'.procedure = frame.of
      /\ call'.after = frame.trigger /\ call'.completes = TRUE
      /\ call'.do = "run"
  BY <1>2 DEF Close, Run, Call, Checkpoint
<1>6. CallSound(call', stack', kinds')
  BY <1>2, <1>4, <1>5, InterruptAssumption DEF CallSound, FrameSound
<1> QED BY <1>4, <1>6, Busy DEF Close

LEMMA AdvanceSound ==
  ASSUME Sound, stack # <<>>, Top.tag = "checkpoint", NEW c \in Creatures,
         Advance(Top, c), kinds' = kinds
  PROVE  /\ StackSound(stack', kinds')
         /\ CallSound(call', stack', kinds')
         /\ call' # Wait
<1> DEFINE done == [Top EXCEPT !.active = Nobody, !.nested = 0,
                               !.handled = NoTrigger, !.offered = @ \cup {c}]
<1>1. FrameSound(Top, kinds) /\ Top \in Checkpoint
  BY TopSound DEF FrameSound, Frame, Checkpoint, Replay, Save
<1>2. /\ done \in Checkpoint
      /\ done.tag = Top.tag /\ done.of = Top.of
      /\ done.trigger = Top.trigger /\ done.active = Nobody
  BY <1>1 DEF Checkpoint
<1>3. FrameSound(done, kinds)
  <2> HIDE DEF done
  <2> QED BY <1>1, <1>2 DEF FrameSound, Frame, IsReaction
<1>4. CASE Unoffered(done) = {}
  <2>1. Close(done)
    BY <1>4 DEF Advance
  <2> HIDE DEF done
  <2> QED BY <2>1, <1>2, <1>3, CloseSound
<1>5. CASE Unoffered(done) # {}
  <2>1. stack' = Append(Front(stack), done) /\ call' = Complete
    BY <1>5 DEF Advance
  <2> HIDE DEF done
  <2>2. StackSound(stack', kinds')
    BY <2>1, <1>2, <1>3, Replace DEF Sound, Top
  <2>3. CallSound(call', stack', kinds')
    BY <2>1 DEF CallSound, Call, Complete
  <2> QED BY <2>1, <2>2, <2>3, Busy
<1> QED BY <1>4, <1>5

LEMMA ReconcileSound ==
  ASSUME Sound, DecisionPending, Reconcile(Top), kinds' = kinds,
         spent' = spent, down' = down
  PROVE  /\ StackSound(stack', kinds')
         /\ CallSound(call', stack', kinds')
         /\ DecisionsAreOpen'
<1> DEFINE frame == [Top EXCEPT !.eligible = OpenChoices(Top)]
<1>1. /\ stack # <<>> /\ Top.tag = "checkpoint" /\ Top.active = Nobody
      /\ FrameSound(Top, kinds)
  BY TopSound DEF DecisionPending, IsDecision
<1>2. Top \in Checkpoint
  BY <1>1 DEF FrameSound, Frame, Checkpoint, Replay, Save
<1>3. CASE OpenChoices(Top) = {}
  <2>1. Close(Top)
    BY <1>3 DEF Reconcile
  <2> QED BY <2>1, <1>1, <1>2, CloseSound DEF DecisionsAreOpen, Waiting
<1>4. CASE OpenChoices(Top) # {}
  <2>1. stack' = Append(Front(stack), frame) /\ call' = Wait
    BY <1>4 DEF Reconcile
  <2>2. OpenChoices(Top) \subseteq Able /\ OpenChoices(Top) \cap Top.offered = {}
    BY DEF OpenChoices
  <2>3. /\ frame \in Checkpoint
        /\ frame.tag = Top.tag /\ frame.of = Top.of
        /\ frame.trigger = Top.trigger /\ frame.active = Nobody
        /\ Unoffered(frame) = OpenChoices(Top)
    BY <1>1, <1>2, <2>2 DEF Checkpoint, Unoffered, Able
  <2> HIDE DEF frame
  <2>4. FrameSound(frame, kinds)
    BY <1>1, <2>3 DEF FrameSound, Frame, IsReaction
  <2>5. /\ StackSound(stack', kinds')
        /\ stack'[Len(stack')] = frame
    BY <1>1, <2>1, <2>3, <2>4, Replace DEF Sound, Top
  <2>6. CallSound(call', stack', kinds')
    BY <2>1 DEF CallSound, Call, Wait
  <2>7. DecisionsAreOpen'
    BY <1>4, <2>2, <2>3, <2>5 DEF DecisionsAreOpen, Top, Able, CanReact
  <2> QED BY <2>5, <2>6, <2>7
<1> QED BY <1>3, <1>4

-----------------------------------------------------------------------------
(***************************************************************************)
(* The steps                                                               *)
(***************************************************************************)
LEMMA InitSound ==
  ASSUME Init
  PROVE  IInv
<1>1. StackSound(stack, kinds)
  BY EmptySeq DEF Init, StackSound
<1>2. CallSound(call, stack, kinds)
  BY DEF Init, CallSound, Call, Wait
<1>3. Rest
  BY EmptySeq DEF Init, Rest, Windows
<1> QED BY <1>1, <1>2, <1>3
        DEF IInv, Sound, Init, Reacted, DecisionsAreOpen, DecisionPending

LEMMA CompleteResolvedStep ==
  ASSUME IInv, CompleteResolved
  PROVE  IInv'
<1> USE DEF IInv
<1>1. Rest' /\ Reacted' /\ kinds' = kinds /\ spent' = spent /\ down' = down
  BY DEF Sound, Rest, Reacted, CompleteResolved
<1>2. CASE ReactionPending
  <2>1. Advance(Top, Top.active) /\ stack # <<>> /\ IsReaction(Top)
    BY <1>2 DEF CompleteResolved, ReactionPending
  <2>2. Top.active \in Creatures
    BY <2>1, TopSound DEF FrameSound, Frame, Checkpoint, Replay, Save, IsReaction
  <2>3. /\ StackSound(stack', kinds') /\ CallSound(call', stack', kinds')
        /\ call' # Wait
    BY <1>1, <2>1, <2>2, AdvanceSound DEF IsReaction
  <2> QED BY <1>1, <2>3 DEF Sound, DecisionsAreOpen, Waiting
<1>3. CASE ~ReactionPending /\ DecisionPending
  <2>1. Reconcile(Top)
    BY <1>3 DEF CompleteResolved
  <2> QED BY <1>1, <1>3, <2>1, ReconcileSound DEF Sound
<1>4. CASE ~ReactionPending /\ ~DecisionPending
  <2>1. call' = Wait /\ stack' = stack
    BY <1>4 DEF CompleteResolved
  <2>2. CallSound(call', stack', kinds')
    BY <2>1 DEF CallSound, Call, Wait
  <2> QED BY <1>1, <1>4, <2>1, <2>2
          DEF Sound, DecisionsAreOpen, DecisionPending, Top
<1> QED BY <1>2, <1>3, <1>4

\* A procedure that resolves over a pending decision is one the lifecycle asked
\* for: the decision is looked at before the table is asked.
LEMMA ResolveStep ==
  ASSUME IInv, Resolve
  PROVE  IInv'
<1> USE DEF IInv
<1>1. /\ call.do = "run" /\ call.procedure \in 1 .. Len(kinds)
      /\ TopDecides(stack) => call.completes
  BY DEF Resolve, Sound, CallSound
<1>2. Len(kinds) \in Nat
  BY LenProperties DEF Sound, Rest
<1>3. Rest' /\ Reacted' /\ kinds' = kinds /\ stack' = stack
  BY <1>1, <1>2 DEF Resolve, Sound, Rest, Reacted, Changes
<1>4. call' = IF call.completes THEN Complete ELSE Wait
  BY DEF Resolve
<1>5. CallSound(call', stack', kinds')
  BY <1>4 DEF CallSound, Call, Complete, Wait
<1>6. DecisionsAreOpen'
  BY <1>1, <1>3, <1>4, Busy
     DEF DecisionsAreOpen, Waiting, DecisionPending, TopDecides, Top
<1> QED BY <1>3, <1>5, <1>6 DEF Sound

\* The checkpoint a procedure opens.
Opened(p, trigger, audience, eligible) ==
  [tag |-> "checkpoint", of |-> p, trigger |-> trigger,
   window |-> Len(windows) + 1, audience |-> audience, eligible |-> eligible,
   offered |-> {}, active |-> Nobody, nested |-> 0, handled |-> NoTrigger]

LEMMA OpenedSound ==
  ASSUME Sound, NEW ks, NEW p \in 1 .. Len(ks), ks \in Seq(Kinds),
         NEW trigger \in Triggers, NEW audience \in SUBSET Creatures,
         NEW eligible \in SUBSET audience,
         ks[p] = "report" => trigger = "reportedReadyTrigger"
  PROVE  /\ FrameSound(Opened(p, trigger, audience, eligible), ks)
         /\ Unoffered(Opened(p, trigger, audience, eligible)) = eligible
<1>1. Len(windows) + 1 \in Nat /\ p \in Nat
  BY LenProperties DEF Sound, Rest, Windows
<1>2. Opened(p, trigger, audience, eligible) \in Checkpoint
  BY <1>1 DEF Opened, Checkpoint
<1> QED BY <1>2 DEF FrameSound, Frame, Opened, IsReaction, Unoffered

LEMMA OpenWindowStep ==
  ASSUME IInv, NEW trigger \in Triggers, NEW audience \in SUBSET Creatures,
         OpenWindow(trigger, audience)
  PROVE  IInv'
<1> USE DEF IInv
<1> DEFINE eligible == {c \in audience : c \notin spent \cup down'}
           frame == Opened(call.procedure, trigger, audience, eligible)
<1>1. /\ eligible # {}
      /\ stack' = Append(stack, frame)
      /\ windows' = Append(windows, [of |-> call.procedure, trigger |-> trigger,
                                     decided |-> <<>>])
      /\ UNCHANGED <<spent, kinds, ended, reacted, turns>>
      /\ call' = Wait
  BY DEF OpenWindow, Opened
<1>2. /\ call.do = "run" /\ call.procedure \in 1 .. Len(kinds)
      /\ trigger \in MayOpen(call.procedure, call.after)
      /\ kinds[call.procedure] = "report" => call.after = "reportedReadyTrigger"
      /\ TopDecides(stack) => kinds[call.procedure] = "report"
  BY DEF OpenWindow, Sound, CallSound
<1>3. kinds[call.procedure] # "report"
  BY <1>2 DEF MayOpen
<1>4. kinds \in Seq(Kinds) /\ Len(kinds) \in Nat
  BY LenProperties DEF Sound, Rest
<1>5. FrameSound(frame, kinds) /\ Unoffered(frame) = eligible
  BY <1>2, <1>3, <1>4, OpenedSound
<1> HIDE DEF frame
<1>6. /\ StackSound(stack', kinds')
      /\ stack'[Len(stack')] = frame
  BY <1>1, <1>2, <1>3, <1>5, Push DEF Sound
<1>7. Rest' /\ Reacted'
  <2>1. down' \subseteq Creatures
    BY DEF OpenWindow, Changes, Sound, Rest
  <2>2. [of |-> call.procedure, trigger |-> trigger, decided |-> <<>>]
          \in [of : Nat, trigger : Triggers, decided : Seq(Creatures)]
    BY <1>2, <1>4, EmptySeq
  <2>3. windows' \in Windows
    BY <1>1, <2>2, AppendProperties DEF Windows, Sound, Rest
  <2> QED BY <1>1, <2>1, <2>3 DEF Sound, Rest, Reacted
<1>8. CallSound(call', stack', kinds')
  BY <1>1 DEF CallSound, Call, Wait
<1>9. DecisionsAreOpen'
  BY <1>1, <1>5, <1>6 DEF DecisionsAreOpen, Top, Able, CanReact
<1> QED BY <1>6, <1>7, <1>8, <1>9 DEF Sound

\* Only a decision a Ready trigger was reported over is laid open by closing a
\* checkpoint, so what asks for input never covers one.
LEMMA NeedInputStep ==
  ASSUME IInv, NeedInput
  PROVE  IInv'
<1> USE DEF IInv
<1> DEFINE frame == [tag |-> "replay", of |-> call.procedure,
                     handled |-> call.after]
<1>1. /\ call.do = "run" /\ call.procedure \in 1 .. Len(kinds)
      /\ kinds[call.procedure] # "report" /\ ~TopDecides(stack)
      /\ call' = Wait
      /\ UNCHANGED <<spent, down, kinds, ended, windows, reacted, turns>>
  BY DEF NeedInput, Sound, CallSound
<1>2. Rest' /\ Reacted'
  BY <1>1 DEF Sound, Rest, Reacted
<1>3. CallSound(call', stack', kinds')
  BY <1>1 DEF CallSound, Call, Wait
<1>4. CASE stack' = stack
  BY <1>1, <1>2, <1>3, <1>4
     DEF Sound, DecisionsAreOpen, DecisionPending, TopDecides, Top
<1>5. CASE ~(ReactionPending /\ Top.nested = call.procedure)
  <2>1. stack' = Append(stack, frame)
    BY <1>5 DEF NeedInput
  <2>2. call.after \in Triggers
    BY <1>1, <1>5
       DEF NeedInput, Triggers, Sound, CallSound, ReactionPending, Top
  <2>3. FrameSound(frame, kinds) /\ ~IsDecision(frame)
    <3>1. call.procedure \in Nat
      BY <1>1, LenProperties DEF Sound, Rest
    <3> QED BY <1>1, <2>2, <3>1
            DEF FrameSound, Frame, Replay, IsReaction, IsDecision
  <2>4. StackSound(stack', kinds') /\ stack'[Len(stack')] = frame
    BY <1>1, <2>1, <2>3, Push DEF Sound
  <2>5. ~DecisionPending'
    BY <2>3, <2>4 DEF DecisionPending, Top
  <2> QED BY <1>2, <1>3, <2>4, <2>5 DEF Sound, DecisionsAreOpen
<1> QED BY <1>4, <1>5 DEF NeedInput

LEMMA NeedSaveStep ==
  ASSUME IInv, NeedSave
  PROVE  IInv'
<1> USE DEF IInv
<1> DEFINE frame == [tag |-> "save", of |-> call.procedure]
<1>1. /\ call.do = "run" /\ call.procedure \in 1 .. Len(kinds)
      /\ kinds[call.procedure] # "report" /\ ~TopDecides(stack)
      /\ call' = Wait /\ stack' = Append(stack, frame)
      /\ UNCHANGED <<spent, down, kinds, ended, windows, reacted, turns>>
  BY DEF NeedSave, Sound, CallSound
<1>2. Rest' /\ Reacted'
  BY <1>1 DEF Sound, Rest, Reacted
<1>3. CallSound(call', stack', kinds')
  BY <1>1 DEF CallSound, Call, Wait
<1>4. FrameSound(frame, kinds) /\ ~IsDecision(frame)
  <2>1. call.procedure \in Nat
    BY <1>1, LenProperties DEF Sound, Rest
  <2> QED BY <1>1, <2>1 DEF FrameSound, Frame, Save, IsReaction, IsDecision
<1>5. StackSound(stack', kinds') /\ stack'[Len(stack')] = frame
  BY <1>1, <1>4, Push DEF Sound
<1>6. ~DecisionPending'
  BY <1>4, <1>5 DEF DecisionPending, Top
<1> QED BY <1>2, <1>3, <1>5, <1>6 DEF Sound, DecisionsAreOpen

LEMMA BeginActStep ==
  ASSUME IInv, NEW kind \in {"attack", "move"}, BeginAct(kind)
  PROVE  IInv'
<1> USE DEF IInv
<1>1. /\ stack = <<>> /\ kinds' = Append(kinds, kind)
      /\ call' = Run(Len(kinds'), NoTrigger, FALSE)
      /\ UNCHANGED <<stack, spent, down, ended, windows, reacted, turns>>
  BY DEF BeginAct, StartProcedure
<1>2. /\ StackSound(stack, kinds') /\ kinds' \in Seq(Kinds)
      /\ Len(kinds') \in 1 .. Len(kinds') /\ kinds'[Len(kinds')] = kind
  BY <1>1, Grow DEF Sound, Rest, Kinds
<1>3. Rest' /\ Reacted'
  BY <1>1, <1>2 DEF Sound, Rest, Reacted
<1>4. CallSound(call', stack', kinds')
  <2>1. ~TopDecides(stack)
    BY <1>1 DEF TopDecides
  <2>2. Len(kinds') \in Nat
    BY <1>2, LenProperties
  <2> QED BY <1>1, <1>2, <2>1, <2>2 DEF CallSound, Call, Run
<1> QED BY <1>1, <1>2, <1>3, <1>4, Busy DEF Sound, DecisionsAreOpen, Waiting

LEMMA ReportReadyTriggerStep ==
  ASSUME IInv, NEW c \in Creatures, ReportReadyTrigger(c)
  PROVE  IInv'
<1> USE DEF IInv
<1> DEFINE frame == Opened(Len(kinds'), "reportedReadyTrigger", {c}, {c})
<1>1. /\ kinds' = Append(kinds, "report") /\ stack' = Append(stack, frame)
      /\ windows' = Append(windows, [of |-> Len(kinds'),
                                     trigger |-> "reportedReadyTrigger",
                                     decided |-> <<>>])
      /\ UNCHANGED <<spent, down, call, ended, reacted, turns>>
      /\ call = Wait /\ CanReact(c)
  BY DEF ReportReadyTrigger, Opened, Waiting
<1>2. /\ StackSound(stack, kinds') /\ kinds' \in Seq(Kinds)
      /\ Len(kinds') \in 1 .. Len(kinds') /\ kinds'[Len(kinds')] = "report"
  BY <1>1, Grow DEF Sound, Rest, Kinds
<1>3. FrameSound(frame, kinds') /\ Unoffered(frame) = {c}
  BY <1>2, OpenedSound DEF Triggers
<1>4. LiesOnDecision(frame, kinds')
  BY <1>2 DEF LiesOnDecision, Opened
<1> HIDE DEF frame
<1>5. StackSound(stack', kinds') /\ stack'[Len(stack')] = frame
  BY <1>1, <1>2, <1>3, <1>4, Push
<1>6. Rest' /\ Reacted'
  <2>1. Len(kinds') \in Nat
    BY <1>2, LenProperties
  <2>2. [of |-> Len(kinds'), trigger |-> "reportedReadyTrigger", decided |-> <<>>]
          \in [of : Nat, trigger : Triggers, decided : Seq(Creatures)]
    BY <2>1, EmptySeq DEF Triggers
  <2>3. windows' \in Windows
    BY <1>1, <2>2, AppendProperties DEF Windows, Sound, Rest
  <2> QED BY <1>1, <1>2, <2>3 DEF Sound, Rest, Reacted
<1>7. CallSound(call', stack', kinds')
  BY <1>1 DEF CallSound, Call, Wait
<1>8. DecisionsAreOpen'
  BY <1>1, <1>3, <1>5 DEF DecisionsAreOpen, Top, Able, CanReact
<1> QED BY <1>5, <1>6, <1>7, <1>8 DEF Sound

\* A decision is recorded in the window it is made in.
LEMMA RecordDecisionTyped ==
  ASSUME Sound, NEW c \in Creatures, RecordDecision(c)
  PROVE  windows' \in Windows
<1> DEFINE w == Top.window
           Window == [of : Nat, trigger : Triggers, decided : Seq(Creatures)]
<1>1. windows \in Seq(Window) /\ windows' = [windows EXCEPT ![w].decided = Append(@, c)]
  BY DEF Sound, Rest, Windows, RecordDecision
<1>2. CASE w \in 1 .. Len(windows)
  <2>1. windows[w] \in Window
    BY <1>1, <1>2, ElementOfSeq
  <2>2. Append(windows[w].decided, c) \in Seq(Creatures)
    BY <2>1, AppendProperties
  <2>3. [windows[w] EXCEPT !.decided = Append(windows[w].decided, c)] \in Window
    BY <2>1, <2>2
  <2>4. windows' = [windows EXCEPT ![w] =
                      [windows[w] EXCEPT !.decided = Append(windows[w].decided, c)]]
    BY <1>1
  <2> QED BY <1>1, <1>2, <2>3, <2>4, ExceptSeq DEF Windows
<1>3. CASE w \notin 1 .. Len(windows)
  <2>1. windows' = windows
    BY <1>1, <1>3, LenProperties
  <2> QED BY <1>1, <2>1 DEF Windows
<1> QED BY <1>2, <1>3

\* What a decision may be made about.
LEMMA Decided ==
  ASSUME Sound, NEW c \in Creatures, MayDecide(c)
  PROVE  /\ stack # <<>> /\ FrameSound(Top, kinds) /\ Top \in Checkpoint
         /\ Top.tag = "checkpoint" /\ c \in Unoffered(Top)
<1>1. stack # <<>> /\ IsDecision(Top) /\ c \in Unoffered(Top)
  BY DEF MayDecide, DecisionPending
<1>2. FrameSound(Top, kinds)
  BY <1>1, TopSound
<1> QED BY <1>1, <1>2 DEF FrameSound, Frame, Checkpoint, Replay, Save, IsDecision

LEMMA DeclineStep ==
  ASSUME IInv, NEW c \in Creatures, Decline(c)
  PROVE  IInv'
<1> USE DEF IInv
<1>1. /\ MayDecide(c) /\ RecordDecision(c) /\ Advance(Top, c)
      /\ UNCHANGED <<spent, down, kinds, ended, reacted, turns>>
  BY DEF Decline
<1>2. Rest' /\ Reacted'
  BY <1>1, RecordDecisionTyped DEF Sound, Rest, Reacted
<1> QED BY <1>1, <1>2, Decided, AdvanceSound DEF Sound, DecisionsAreOpen, Waiting

\* Whoever reacts has not reacted since its turn began.
LEMMA ReactSound ==
  ASSUME Sound, Reacted, NEW c \in Creatures, React(c)
  PROVE  /\ spent' \subseteq Creatures
         /\ reacted' \in [Creatures -> Nat]
         /\ windows' \in Windows
         /\ Reacted'
<1>1. /\ c \notin spent /\ RecordDecision(c)
      /\ spent' = spent \cup {c}
      /\ reacted' = [reacted EXCEPT ![c] = reacted[c] + 1]
  BY DEF React, CanReact, SpendReaction
<1>2. reacted[c] = 0
  BY <1>1 DEF Reacted
<1> QED BY <1>1, <1>2, RecordDecisionTyped DEF Sound, Rest, Reacted

LEMMA ModifyStep ==
  ASSUME IInv, NEW c \in Creatures, Modify(c)
  PROVE  IInv'
<1> USE DEF IInv
<1>1. /\ MayDecide(c) /\ React(c) /\ Advance(Top, c)
      /\ UNCHANGED <<down, kinds, ended, turns>>
  BY DEF Modify, React
<1>2. Rest' /\ Reacted'
  BY <1>1, ReactSound DEF Sound, Rest
<1> QED BY <1>1, <1>2, Decided, AdvanceSound DEF Sound, DecisionsAreOpen, Waiting

LEMMA RunReactionStep ==
  ASSUME IInv, NEW c \in Creatures, NEW kind \in {"attack", "move"},
         RunReaction(c, kind)
  PROVE  IInv'
<1> USE DEF IInv
<1> DEFINE frame == [Top EXCEPT !.active = c, !.nested = Len(kinds')]
<1>1. /\ React(c) /\ MayDecide(c)
      /\ kinds' = Append(kinds, kind)
      /\ call' = Run(Len(kinds'), NoTrigger, TRUE)
      /\ stack' = ReplaceAt(stack, Len(stack), frame)
      /\ UNCHANGED <<down, ended, turns>>
  BY DEF RunReaction, React, StartProcedure
<1>2. /\ stack # <<>> /\ FrameSound(Top, kinds) /\ Top \in Checkpoint
      /\ Top.tag = "checkpoint" /\ c \in Unoffered(Top)
  BY <1>1, Decided
<1>3. /\ StackSound(stack, kinds') /\ kinds' \in Seq(Kinds)
      /\ Len(kinds') \in 1 .. Len(kinds') /\ kinds'[Len(kinds')] = kind
  BY <1>1, Grow DEF Sound, Rest, Kinds
<1>4. Len(kinds') \in Nat
  BY <1>3, LenProperties
<1>5. /\ frame \in Checkpoint
      /\ frame.tag = Top.tag /\ frame.of = Top.of
      /\ frame.trigger = Top.trigger
      /\ frame.active = c /\ frame.nested = Len(kinds')
      /\ Unoffered(frame) = Unoffered(Top)
  BY <1>2, <1>4 DEF Checkpoint, Unoffered
<1>6. c # Nobody
  BY InterruptAssumption
<1> HIDE DEF frame
<1>7. FrameSound(Top, kinds')
  BY <1>2, <1>3, Pop DEF Top
<1>8. FrameSound(frame, kinds') /\ IsReaction(frame)
  BY <1>2, <1>3, <1>5, <1>6, <1>7 DEF FrameSound, Frame, IsReaction
<1>9. stack' = Append(Front(stack), frame)
  BY <1>1, <1>2, <1>8, ReplaceInPlace DEF FrameSound, Sound, StackSound
<1>10. /\ StackSound(stack', kinds') /\ stack' # <<>>
       /\ stack'[Len(stack')] = frame
  BY <1>2, <1>3, <1>5, <1>8, <1>9, Replace DEF Top
<1>11. CallSound(call', stack', kinds')
  <2>1. ~TopDecides(stack')
    BY <1>8, <1>10 DEF TopDecides, IsDecision, IsReaction
  <2> QED BY <1>1, <1>3, <1>4, <1>5, <1>8, <1>10, <2>1 DEF CallSound, Call, Run
<1>12. Rest' /\ Reacted'
  BY <1>1, <1>3, ReactSound DEF Sound, Rest
<1> QED BY <1>1, <1>10, <1>11, <1>12, Busy DEF Sound, DecisionsAreOpen, Waiting

LEMMA AnswerReactionStep ==
  ASSUME IInv, AnswerReaction
  PROVE  IInv'
<1> USE DEF IInv
<1>1. /\ stack # <<>> /\ IsReaction(Top)
      /\ call' = Run(Top.nested, Top.handled, TRUE)
      /\ UNCHANGED <<stack, spent, down, kinds, ended, windows, reacted, turns>>
  BY DEF AnswerReaction, ReactionPending
<1>2. FrameSound(Top, kinds) /\ Top \in Checkpoint
  BY <1>1, TopSound DEF FrameSound, Frame, Checkpoint, Replay, Save, IsReaction
<1>3. Rest' /\ Reacted'
  BY <1>1 DEF Sound, Rest, Reacted
<1>4. CallSound(call', stack', kinds')
  <2>1. ~TopDecides(stack)
    BY <1>1 DEF TopDecides, IsDecision, IsReaction, Top
  <2>2. /\ Top.nested \in 1 .. Len(kinds) /\ Top.nested \in Nat
        /\ Top.handled \in Triggers \cup {NoTrigger}
        /\ kinds[Top.nested] # "report"
    BY <1>1, <1>2 DEF FrameSound, Checkpoint
  <2> QED BY <1>1, <2>1, <2>2 DEF CallSound, Call, Run, Top
<1> QED BY <1>1, <1>3, <1>4, Busy DEF Sound, DecisionsAreOpen, Waiting

LEMMA AnswerFrameStep ==
  ASSUME IInv, AnswerFrame
  PROVE  IInv'
<1> USE DEF IInv
<1> DEFINE after == IF Top.tag = "save" THEN "attackDamage" ELSE Top.handled
<1>1. /\ stack # <<>> /\ Top.tag \in {"replay", "save"}
      /\ stack' = Front(stack)
      /\ call' = Run(Top.of, after, FALSE)
      /\ UNCHANGED <<spent, down, kinds, ended, windows, reacted, turns>>
  BY DEF AnswerFrame
<1>2. FrameSound(Top, kinds)
  BY <1>1, TopSound
<1>3. /\ Top.of \in 1 .. Len(kinds) /\ kinds[Top.of] # "report"
      /\ after \in Triggers
  BY <1>1, <1>2 DEF FrameSound, Frame, Checkpoint, Replay, Save, Triggers
<1>4. StackSound(stack', kinds') /\ ~TopDecides(stack')
  BY <1>1, Pop DEF Sound, LiesOnDecision, Top
<1>5. Rest' /\ Reacted'
  BY <1>1 DEF Sound, Rest, Reacted
<1>6. CallSound(call', stack', kinds')
  <2>1. Top.of \in Nat
    BY <1>3, LenProperties DEF Sound, Rest
  <2> HIDE DEF after
  <2> QED BY <1>1, <1>3, <1>4, <2>1 DEF CallSound, Call, Run
<1> QED BY <1>1, <1>4, <1>5, <1>6, Busy DEF Sound, DecisionsAreOpen, Waiting

LEMMA EndTurnStep ==
  ASSUME IInv, NEW c \in Creatures, EndTurn(c)
  PROVE  IInv'
<1> USE DEF IInv
<1>1. /\ stack = <<>> /\ spent' = spent \ {c} /\ turns' = turns + 1
      /\ reacted' = [reacted EXCEPT ![c] = 0]
      /\ UNCHANGED <<stack, down, call, kinds, ended, windows>>
  BY DEF EndTurn
<1>2. Rest' /\ Reacted'
  BY <1>1 DEF Sound, Rest, Reacted
<1> QED BY <1>1, <1>2 DEF Sound, DecisionsAreOpen, DecisionPending

-----------------------------------------------------------------------------
\* Every step of the table and of the reducer keeps the invariant.
THEOREM InterruptInvariant == Spec => []IInv
<1>1. Init => IInv
  BY InitSound
<1>2. IInv /\ [Next]_vars => IInv'
  <2> SUFFICES ASSUME IInv, [Next]_vars
               PROVE  IInv'
    OBVIOUS
  <2>1. CASE \E kind \in {"attack", "move"} : BeginAct(kind)
    BY <2>1, BeginActStep
  <2>2. ASSUME NEW c \in Creatures,
               \/ ReportReadyTrigger(c) \/ Decline(c) \/ Modify(c)
               \/ \E kind \in {"attack", "move"} : RunReaction(c, kind)
               \/ EndTurn(c)
        PROVE  IInv'
    BY <2>2, ReportReadyTriggerStep, DeclineStep, ModifyStep, RunReactionStep,
       EndTurnStep
  <2>3. CASE AnswerReaction
    BY <2>3, AnswerReactionStep
  <2>4. CASE AnswerFrame
    BY <2>4, AnswerFrameStep
  <2>5. CASE CompleteResolved
    BY <2>5, CompleteResolvedStep
  <2>6. CASE Resolve
    BY <2>6, ResolveStep
  <2>7. CASE \E trigger \in Triggers, audience \in SUBSET Creatures :
                OpenWindow(trigger, audience)
    BY <2>7, OpenWindowStep
  <2>8. CASE NeedInput
    BY <2>8, NeedInputStep
  <2>9. CASE NeedSave
    BY <2>9, NeedSaveStep
  <2>10. CASE UNCHANGED vars
    BY <2>10 DEF vars, IInv, Sound, StackSound, CallSound, Rest, Reacted,
                 DecisionsAreOpen, Waiting, DecisionPending, Top, Able, CanReact,
                 FrameSound, LiesOnDecision, TopDecides, IsDecision, IsReaction,
                 Unoffered
  <2> QED
    BY <2>1, <2>2, <2>3, <2>4, <2>5, <2>6, <2>7, <2>8, <2>9, <2>10
       DEF Next, FromTheTable, WithinACall
<1> QED BY <1>1, <1>2, PTL DEF Spec

\* Every value of the stack, the call and the histories keeps its type, and an
\* active Reaction is that of someone who is not yet done with its window.
THEOREM InterruptTypes == Spec => []TypeOK
<1>1. IInv => TypeOK
  <2> SUFFICES ASSUME IInv
               PROVE  TypeOK
    OBVIOUS
  <2>1. DOMAIN stack = 1 .. Len(stack) /\ DOMAIN kinds = 1 .. Len(kinds)
    BY LenProperties DEF IInv, Sound, StackSound, Rest
  <2> QED BY <2>1 DEF IInv, Sound, StackSound, CallSound, Rest, FrameSound, Frame,
                      TypeOK
<1> QED BY <1>1, InterruptInvariant, PTL

\* A pending decision always has someone to ask, and all it asks can react:
\* reconciling what a nested procedure lays open suffices, for any nesting.
THEOREM OpenDecisions == Spec => []DecisionsAreOpen
<1>1. IInv => DecisionsAreOpen
  BY DEF IInv
<1> QED BY <1>1, InterruptInvariant, PTL

\* Nobody reacts twice between its turns, whatever is nested in what.
THEOREM OneReactionEach == Spec => []OneReaction
<1>1. IInv => OneReaction
  BY DEF IInv, Reacted, OneReaction
<1> QED BY <1>1, InterruptInvariant, PTL

-----------------------------------------------------------------------------
(***************************************************************************)
(* Asking once.  Every procedure in progress has one place it goes on from *)
(* when the innermost thing it waits for is over: the call that runs it, a *)
(* frame that holds it, or the Reaction it resolves.  Past(after) are the  *)
(* windows that may be behind it there; those it can still open are not    *)
(* among them.                                                             *)
(***************************************************************************)
Events(kind) ==
  CASE kind = "attack" -> {"attackHit", "attackDamage", "afterDamage"}
    [] kind = "move" -> {"opportunityAttack"}
    [] OTHER -> {"reportedReadyTrigger"}

Past(after) ==
  CASE after = NoTrigger -> {}
    [] after = "attackHit" -> {"attackHit"}
    [] OTHER -> Triggers

\* ks are the kinds of the procedures started, ws the windows opened.
Passed(p, after, ks, ws) ==
  /\ after \in Events(ks[p]) \cup {NoTrigger}
  /\ \A w \in 1 .. Len(ws) : ws[w].of = p => ws[w].trigger \in Past(after)

ResumesAfter(frame) ==
  CASE frame.tag = "checkpoint" -> frame.trigger
    [] frame.tag = "replay" -> frame.handled
    [] OTHER -> "attackDamage"

\* Nobody but those has decided in the window of the checkpoint.
OnlyAsked(frame, those, ws) ==
  /\ frame.window \in 1 .. Len(ws)
  /\ ws[frame.window].of = frame.of
  /\ \A d \in 1 .. Len(ws[frame.window].decided) :
       ws[frame.window].decided[d] \in those

\* A Reaction starts from where nothing has been handled yet.
FrameAsked(frame, ks, ws) ==
  /\ IsDecision(frame) => frame.handled = NoTrigger
  /\ Passed(frame.of, ResumesAfter(frame), ks, ws)
  /\ frame.tag = "checkpoint" =>
       OnlyAsked(frame, frame.offered \cup {frame.active}, ws)

TopReacts(s) == s # <<>> /\ IsReaction(s[Len(s)])

\* What lies on a Reaction holds its procedure; a procedure has one frame.
Linked(s) ==
  /\ \A i, j \in 1 .. Len(s) : s[i].of = s[j].of => i = j
  /\ \A i \in 1 .. Len(s) : IsReaction(s[i]) =>
       \A j \in 1 .. i : s[j].of # s[i].nested
  /\ \A i \in 1 .. Len(s) - 1 : IsReaction(s[i]) => s[i + 1].of = s[i].nested

\* Only a checkpoint's closing brings a Reaction below it up to date.
Below(s, ks, ws) ==
  /\ Linked(s)
  /\ \A i \in 1 .. Len(s) : FrameAsked(s[i], ks, ws)
  /\ \A i \in 1 .. Len(s) - 1 :
       IsReaction(s[i]) /\ s[i + 1].tag # "checkpoint" =>
         Passed(s[i].nested, s[i].handled, ks, ws)

TopPassed(s, ks, ws) ==
  TopReacts(s) => Passed(s[Len(s)].nested, s[Len(s)].handled, ks, ws)

CallAsked(step, s, ks, ws) ==
  step.do = "run" =>
    /\ Passed(step.procedure, step.after, ks, ws)
    /\ \A i \in 1 .. Len(s) : s[i].of # step.procedure
    /\ TopReacts(s) => s[Len(s)].nested = step.procedure

WindowsAsked(ks, ws) ==
  /\ \A w \in 1 .. Len(ws) : ws[w].of \in 1 .. Len(ks)
  /\ \A v, w \in 1 .. Len(ws) :
       ws[v].of = ws[w].of /\ ws[v].trigger = ws[w].trigger /\ v # w =>
         ws[v].trigger = "afterDamage"
  /\ \A w \in 1 .. Len(ws) : IsInjective(ws[w].decided)

AskInv ==
  /\ Below(stack, kinds, windows)
  /\ TopPassed(stack, kinds, windows)
  /\ CallAsked(call, stack, kinds, windows)
  /\ WindowsAsked(kinds, windows)

\* The windows of other procedures stay as they were.
OnlyOf(p, ws, new) ==
  /\ Len(new) >= Len(ws)
  /\ \A w \in 1 .. Len(ws) :
       /\ new[w].of = ws[w].of /\ new[w].trigger = ws[w].trigger
       /\ ws[w].of # p => new[w] = ws[w]
  /\ \A w \in Len(ws) + 1 .. Len(new) : new[w].of = p

\* Procedures started before keep their kind.
Extends(ks, new) ==
  Len(new) >= Len(ks) /\ \A p \in 1 .. Len(ks) : new[p] = ks[p]

WindowSet == [of : Nat, trigger : Triggers, decided : Seq(Creatures)]

\* What has passed a procedure by stays so while others open windows.
LEMMA PassedCarries ==
  ASSUME NEW p, NEW q, NEW after, NEW ks, NEW new, NEW ws, NEW opened,
         ws \in Windows, opened \in Windows,
         OnlyOf(p, ws, opened), Extends(ks, new),
         q \in 1 .. Len(ks), q # p \/ Len(opened) = Len(ws),
         Passed(q, after, ks, ws)
  PROVE  Passed(q, after, new, opened)
<1>1. Len(ws) \in Nat /\ Len(opened) \in Nat
  BY LenProperties DEF Windows
<1>2. new[q] = ks[q]
  BY DEF Extends
<1>3. ASSUME NEW w \in 1 .. Len(opened), opened[w].of = q
      PROVE  opened[w].trigger \in Past(after)
  <2>1. w \in 1 .. Len(ws)
    BY <1>1, <1>3 DEF OnlyOf
  <2>2. ws[w].of = q /\ opened[w].trigger = ws[w].trigger
    BY <1>3, <2>1 DEF OnlyOf
  <2> QED BY <2>1, <2>2 DEF Passed
<1> QED BY <1>2, <1>3 DEF Passed

LEMMA FrameCarries ==
  ASSUME NEW p, NEW frame, NEW ks, NEW new, NEW ws, NEW opened,
         ws \in Windows, opened \in Windows,
         OnlyOf(p, ws, opened), Extends(ks, new),
         frame.of \in 1 .. Len(ks), frame.of # p,
         FrameAsked(frame, ks, ws)
  PROVE  FrameAsked(frame, new, opened)
<1>1. Passed(frame.of, ResumesAfter(frame), new, opened)
  BY PassedCarries DEF FrameAsked
<1>2. ASSUME NEW those, OnlyAsked(frame, those, ws)
      PROVE  OnlyAsked(frame, those, opened)
  <2>1. Len(ws) \in Nat /\ Len(opened) \in Nat
    BY LenProperties DEF Windows
  <2>2. opened[frame.window] = ws[frame.window]
    BY <1>2 DEF OnlyAsked, OnlyOf
  <2>3. frame.window \in 1 .. Len(opened)
    BY <1>2, <2>1 DEF OnlyAsked, OnlyOf
  <2> QED BY <1>2, <2>2, <2>3 DEF OnlyAsked
<1> QED BY <1>1, <1>2 DEF FrameAsked

\* What lies below keeps what it has been through.
LEMMA BelowCarries ==
  ASSUME NEW p, NEW s, NEW ks, NEW new, NEW ws, NEW opened,
         ws \in Windows, opened \in Windows,
         OnlyOf(p, ws, opened), Extends(ks, new), StackSound(s, ks),
         \A i \in 1 .. Len(s) : s[i].of # p,
         Below(s, ks, ws)
  PROVE  Below(s, new, opened)
<1>1. Len(s) \in Nat
  BY LenProperties DEF StackSound
<1>2. ASSUME NEW i \in 1 .. Len(s)
      PROVE  FrameAsked(s[i], new, opened)
  <2>1. s[i].of \in 1 .. Len(ks) /\ s[i].of # p /\ FrameAsked(s[i], ks, ws)
    BY DEF StackSound, FrameSound, Below
  <2> QED BY <2>1, FrameCarries
<1>3. ASSUME NEW i \in 1 .. Len(s) - 1, IsReaction(s[i]),
             s[i + 1].tag # "checkpoint"
      PROVE  Passed(s[i].nested, s[i].handled, new, opened)
  <2>1. i \in 1 .. Len(s) /\ i + 1 \in 1 .. Len(s)
    BY <1>1
  <2>2. /\ s[i].nested \in 1 .. Len(ks)
        /\ s[i].nested = s[i + 1].of /\ s[i + 1].of # p
    BY <1>3, <2>1 DEF StackSound, FrameSound, Below, Linked
  <2>3. Passed(s[i].nested, s[i].handled, ks, ws)
    BY <1>3 DEF Below
  <2>4. s[i].nested # p
    BY <2>2
  <2> QED BY <2>2, <2>3, <2>4, PassedCarries
<1> QED BY <1>2, <1>3 DEF Below

\* A frame put on top waits for nothing but the procedure below it.
LEMMA PushAsked ==
  ASSUME NEW s, NEW ks, NEW ws, NEW frame, StackSound(s, ks),
         frame \in Frame, Below(s, ks, ws), FrameAsked(frame, ks, ws),
         \A i \in 1 .. Len(s) : s[i].of # frame.of,
         TopReacts(s) => s[Len(s)].nested = frame.of,
         frame.tag = "checkpoint" \/ TopPassed(s, ks, ws),
         IsReaction(frame) =>
           /\ \A i \in 1 .. Len(s) : s[i].of # frame.nested
           /\ frame.of # frame.nested
           /\ Passed(frame.nested, frame.handled, ks, ws)
  PROVE  /\ Below(Append(s, frame), ks, ws)
         /\ TopPassed(Append(s, frame), ks, ws)
<1> DEFINE t == Append(s, frame)
<1>1. s \in Seq(Frame) /\ Len(s) \in Nat
  BY LenProperties DEF StackSound
<1>2. /\ t \in Seq(Frame)
      /\ Len(t) = Len(s) + 1
      /\ \A i \in 1 .. Len(s) : t[i] = s[i]
      /\ t[Len(s) + 1] = frame
  BY <1>1, AppendProperties
<1> HIDE DEF t
<1>3. \A i, j \in 1 .. Len(t) : t[i].of = t[j].of => i = j
  <2> SUFFICES ASSUME NEW i \in 1 .. Len(t), NEW j \in 1 .. Len(t),
                      t[i].of = t[j].of
               PROVE  i = j
    OBVIOUS
  <2>1. CASE i \in 1 .. Len(s) /\ j \in 1 .. Len(s)
    BY <2>1, <1>2 DEF Below, Linked
  <2>2. CASE i \in 1 .. Len(s) /\ j = Len(s) + 1
    BY <2>2, <1>2
  <2>3. CASE i = Len(s) + 1 /\ j \in 1 .. Len(s)
    BY <2>3, <1>2
  <2> QED BY <2>1, <2>2, <2>3, <1>1, <1>2
<1>4. ASSUME NEW i \in 1 .. Len(t), IsReaction(t[i])
      PROVE  \A j \in 1 .. i : t[j].of # t[i].nested
  <2> TAKE j \in 1 .. i
  <2>1. CASE i \in 1 .. Len(s)
    <3>1. j \in 1 .. Len(s)
      BY <2>1, <1>1
    <3> QED BY <2>1, <3>1, <1>2, <1>4 DEF Below, Linked
  <2>2. CASE i = Len(s) + 1
    <3>1. CASE j \in 1 .. Len(s)
      BY <2>2, <3>1, <1>2, <1>4
    <3>2. CASE j = Len(s) + 1
      BY <2>2, <3>2, <1>2, <1>4
    <3> QED BY <2>2, <3>1, <3>2, <1>1
  <2> QED BY <2>1, <2>2, <1>1, <1>2
<1>5. ASSUME NEW i \in 1 .. Len(t) - 1, IsReaction(t[i])
      PROVE  /\ t[i + 1].of = t[i].nested
             /\ t[i + 1].tag # "checkpoint" =>
                  Passed(t[i].nested, t[i].handled, ks, ws)
  <2>1. CASE i \in 1 .. Len(s) - 1
    <3>1. t[i] = s[i] /\ t[i + 1] = s[i + 1]
      BY <2>1, <1>1, <1>2
    <3> QED BY <2>1, <3>1, <1>5 DEF Below, Linked
  <2>2. CASE i = Len(s)
    <3>1. s # <<>> /\ t[i] = s[Len(s)] /\ t[i + 1] = frame
      BY <2>2, <1>1, <1>2, EmptySeq
    <3> QED BY <3>1, <1>5 DEF TopReacts, TopPassed
  <2> QED BY <2>1, <2>2, <1>1, <1>2
<1>6. \A i \in 1 .. Len(t) : FrameAsked(t[i], ks, ws)
  <2> TAKE i \in 1 .. Len(t)
  <2>1. CASE i \in 1 .. Len(s)
    BY <2>1, <1>2 DEF Below
  <2>2. CASE i = Len(s) + 1
    BY <2>2, <1>2
  <2> QED BY <2>1, <2>2, <1>1, <1>2
<1>7. TopPassed(t, ks, ws)
  BY <1>2 DEF TopPassed, TopReacts
<1>8. Below(t, ks, ws)
  BY <1>3, <1>4, <1>5, <1>6 DEF Below, Linked
<1> QED BY <1>7, <1>8 DEF t

\* What taking the top frame off leaves.
LEMMA PopAsked ==
  ASSUME NEW s, NEW ks, NEW ws, StackSound(s, ks), s # <<>>,
         Below(s, ks, ws)
  PROVE  /\ Below(Front(s), ks, ws)
         /\ s[Len(s)].tag # "checkpoint" => TopPassed(Front(s), ks, ws)
         /\ FrameAsked(s[Len(s)], ks, ws)
         /\ \A i \in 1 .. Len(Front(s)) : Front(s)[i].of # s[Len(s)].of
         /\ TopReacts(Front(s)) =>
              Front(s)[Len(Front(s))].nested = s[Len(s)].of
         /\ IsReaction(s[Len(s)]) =>
              /\ \A i \in 1 .. Len(s) : s[i].of # s[Len(s)].nested
              /\ \A i \in 1 .. Len(Front(s)) :
                   Front(s)[i].of # s[Len(s)].nested
<1> DEFINE t == Front(s)
<1>1. s \in Seq(Frame) /\ Len(s) \in Nat /\ Len(s) # 0
  BY LenProperties, EmptySeq DEF StackSound
<1>2. /\ t \in Seq(Frame)
      /\ Len(t) = Len(s) - 1
      /\ \A i \in 1 .. Len(t) : t[i] = s[i]
  BY <1>1, FrontFacts
<1> HIDE DEF t
<1>3. Linked(t)
  <2>1. \A i, j \in 1 .. Len(t) : t[i].of = t[j].of => i = j
    BY <1>1, <1>2 DEF Below, Linked
  <2>2. ASSUME NEW i \in 1 .. Len(t), IsReaction(t[i]), NEW j \in 1 .. i
        PROVE  t[j].of # t[i].nested
    <3>1. /\ i \in 1 .. Len(s) /\ j \in 1 .. Len(t)
          /\ t[i] = s[i] /\ t[j] = s[j]
      BY <1>1, <1>2
    <3> QED BY <2>2, <3>1 DEF Below, Linked
  <2>3. ASSUME NEW i \in 1 .. Len(t) - 1, IsReaction(t[i])
        PROVE  t[i + 1].of = t[i].nested
    <3>1. /\ i \in 1 .. Len(s) - 1
          /\ t[i] = s[i] /\ t[i + 1] = s[i + 1]
      BY <1>1, <1>2
    <3> QED BY <2>3, <3>1 DEF Below, Linked
  <2> QED BY <2>1, <2>2, <2>3 DEF Linked
<1>4. Below(t, ks, ws)
  <2>1. \A i \in 1 .. Len(t) : FrameAsked(t[i], ks, ws)
    BY <1>1, <1>2 DEF Below
  <2>2. ASSUME NEW i \in 1 .. Len(t) - 1, IsReaction(t[i]),
               t[i + 1].tag # "checkpoint"
        PROVE  Passed(t[i].nested, t[i].handled, ks, ws)
    <3>1. /\ i \in 1 .. Len(s) - 1
          /\ t[i] = s[i] /\ t[i + 1] = s[i + 1]
      BY <1>1, <1>2
    <3> QED BY <2>2, <3>1 DEF Below
  <2> QED BY <1>3, <2>1, <2>2 DEF Below
<1>5. ASSUME TopReacts(t)
      PROVE  /\ t[Len(t)].nested = s[Len(s)].of
             /\ s[Len(s)].tag # "checkpoint" =>
                  Passed(t[Len(t)].nested, t[Len(t)].handled, ks, ws)
  <2>1. /\ Len(t) \in 1 .. Len(s) - 1 /\ t[Len(t)] = s[Len(t)]
        /\ Len(t) + 1 = Len(s) /\ IsReaction(s[Len(t)])
    BY <1>1, <1>2, <1>5, EmptySeq DEF TopReacts
  <2> QED BY <2>1 DEF Below, Linked
<1>6. FrameAsked(s[Len(s)], ks, ws)
  BY <1>1 DEF Below
<1>7. ASSUME NEW i \in 1 .. Len(t)
      PROVE  t[i].of # s[Len(s)].of
  <2>1. t[i] = s[i] /\ i \in 1 .. Len(s) /\ Len(s) \in 1 .. Len(s) /\ i # Len(s)
    BY <1>1, <1>2
  <2> QED BY <2>1 DEF Below, Linked
<1>8. ASSUME IsReaction(s[Len(s)])
      PROVE  \A i \in 1 .. Len(s) : s[i].of # s[Len(s)].nested
  BY <1>1, <1>8 DEF Below, Linked
<1>9. ASSUME IsReaction(s[Len(s)]), NEW i \in 1 .. Len(t)
      PROVE  t[i].of # s[Len(s)].nested
  BY <1>1, <1>2, <1>8, <1>9
<1> QED BY <1>4, <1>5, <1>6, <1>7, <1>8, <1>9 DEF t, TopPassed

\* The procedure p may go on over s, and over nothing else.
Room(s, p, ks, ws) ==
  /\ StackSound(s, ks)
  /\ Below(s, ks, ws)
  /\ \A i \in 1 .. Len(s) : s[i].of # p
  /\ TopReacts(s) => s[Len(s)].nested = p

\* What AskInv says of the stack and the call.
Progress(s, step, ks, ws) ==
  Below(s, ks, ws) /\ TopPassed(s, ks, ws) /\ CallAsked(step, s, ks, ws)

\* Once the top frame is off there is room for its procedure.
LEMMA TopRoom ==
  ASSUME NEW s, NEW ks, NEW new, NEW ws, NEW opened,
         StackSound(s, ks), s # <<>>, Below(s, ks, ws),
         ws \in Windows, opened \in Windows,
         OnlyOf(s[Len(s)].of, ws, opened), Extends(ks, new),
         StackSound(s, new)
  PROVE  Room(Front(s), s[Len(s)].of, new, opened)
<1> DEFINE t == Front(s)
           p == s[Len(s)].of
<1>1. /\ Below(t, ks, ws) /\ \A i \in 1 .. Len(t) : t[i].of # p
      /\ TopReacts(t) => t[Len(t)].nested = p
  BY PopAsked
<1>2. StackSound(t, new) /\ StackSound(t, ks)
  BY Pop
<1> HIDE DEF t, p
<1>3. OnlyOf(p, ws, opened)
  BY DEF p
<1>4. Below(t, new, opened)
  BY <1>1, <1>2, <1>3, BelowCarries
<1> QED BY <1>1, <1>2, <1>4 DEF Room, t, p

\* Nothing is opened when nothing changes.
LEMMA Unchanged ==
  ASSUME NEW p, NEW s \in Windows
  PROVE  OnlyOf(p, s, s)
<1>1. Len(s) \in Nat
  BY LenProperties DEF Windows
<1> QED BY <1>1 DEF OnlyOf

LEMMA SameKinds ==
  ASSUME NEW ks \in Seq(Kinds)
  PROVE  Extends(ks, ks)
<1>1. Len(ks) \in Nat
  BY LenProperties
<1> QED BY <1>1 DEF Extends

\* A Reaction that remembers the window that closed over it is up to date.
LEMMA RecordAsked ==
  ASSUME NEW s, NEW ks, NEW ws, NEW p, NEW trigger \in Triggers,
         Room(s, p, ks, ws), Passed(p, trigger, ks, ws)
  PROVE  /\ Below(RecordHandled(s, trigger), ks, ws)
         /\ TopPassed(RecordHandled(s, trigger), ks, ws)
         /\ \A i \in 1 .. Len(RecordHandled(s, trigger)) :
              RecordHandled(s, trigger)[i].of # p
         /\ TopReacts(RecordHandled(s, trigger)) =>
              RecordHandled(s, trigger)[Len(RecordHandled(s, trigger))].nested = p
<1>1. CASE s # <<>> /\ IsReaction(Last(s))
  <2> DEFINE frame == [Last(s) EXCEPT !.handled = trigger]
             f == Front(s)
             t == Append(f, frame)
  <2>1. /\ StackSound(s, ks) /\ Below(s, ks, ws) /\ Last(s) = s[Len(s)]
        /\ TopReacts(s) /\ s[Len(s)].nested = p
        /\ \A i \in 1 .. Len(s) : s[i].of # p
        /\ s \in Seq(Frame)
    BY <1>1 DEF Room, Last, TopReacts, StackSound
  <2>2. /\ StackSound(f, ks)
        /\ FrameSound(Last(s), ks)
    BY <1>1, <2>1, Pop
  <2>3. Last(s) \in Checkpoint
    BY <1>1, <2>2 DEF FrameSound, Frame, Checkpoint, Replay, Save, IsReaction
  <2>4. /\ frame \in Checkpoint
        /\ frame.tag = Last(s).tag /\ frame.of = Last(s).of
        /\ frame.trigger = Last(s).trigger /\ frame.window = Last(s).window
        /\ frame.offered = Last(s).offered
        /\ frame.active = Last(s).active /\ frame.nested = Last(s).nested
        /\ frame.handled = trigger
    BY <2>3 DEF Checkpoint
  <2>5. /\ Below(f, ks, ws) /\ FrameAsked(Last(s), ks, ws)
        /\ \A i \in 1 .. Len(f) : f[i].of # Last(s).of
        /\ TopReacts(f) => f[Len(f)].nested = Last(s).of
        /\ \A i \in 1 .. Len(s) : s[i].of # Last(s).nested
        /\ \A i \in 1 .. Len(f) : f[i].of # Last(s).nested
    BY <1>1, <2>1, PopAsked
  <2>6. /\ Len(s) \in 1 .. Len(s) /\ Last(s).of # Last(s).nested
        /\ Len(f) = Len(s) - 1 /\ f \in Seq(Frame)
        /\ \A i \in 1 .. Len(s) - 1 : f[i] = s[i]
    BY <1>1, <2>1, <2>5, FrontFacts
  <2>7. frame.tag = "checkpoint" /\ IsReaction(frame) /\ frame \in Frame
    BY <1>1, <2>4 DEF IsReaction, Frame
  <2>8. RecordHandled(s, trigger) = t
    BY <1>1, <2>1, <2>7, ReplaceInPlace DEF RecordHandled
  <2> HIDE DEF frame, f
  <2>9. FrameAsked(frame, ks, ws)
    <3>1. FrameAsked(Last(s), ks, ws) /\ Last(s).tag = "checkpoint"
      BY <2>5, <1>1 DEF IsReaction
    <3>2. ResumesAfter(frame) = ResumesAfter(Last(s))
      BY <2>4, <3>1 DEF ResumesAfter
    <3>3. ~IsDecision(frame)
      BY <2>7 DEF IsDecision, IsReaction
    <3> QED BY <2>4, <3>1, <3>2, <3>3 DEF FrameAsked, OnlyAsked
  <2>10. /\ \A i \in 1 .. Len(f) : f[i].of # frame.of
         /\ TopReacts(f) => f[Len(f)].nested = frame.of
         /\ \A i \in 1 .. Len(f) : f[i].of # frame.nested
         /\ frame.of # frame.nested
         /\ Passed(frame.nested, frame.handled, ks, ws)
    BY <2>1, <2>4, <2>5, <2>6
  <2>11. Below(t, ks, ws) /\ TopPassed(t, ks, ws)
    BY <2>2, <2>5, <2>7, <2>9, <2>10, PushAsked
  <2>12. /\ Len(t) = Len(f) + 1 /\ t[Len(f) + 1] = frame
         /\ \A i \in 1 .. Len(f) : t[i] = f[i]
    BY <2>6, <2>7, AppendProperties
  <2> HIDE DEF t
  <2>13. \A i \in 1 .. Len(t) : t[i].of # p
    <3> TAKE i \in 1 .. Len(t)
    <3>1. CASE i \in 1 .. Len(f)
      BY <3>1, <2>1, <2>6, <2>12
    <3>2. CASE i = Len(f) + 1
      BY <3>2, <2>1, <2>4, <2>6, <2>12
    <3> QED BY <3>1, <3>2, <2>6, <2>12
  <2>14. t[Len(t)].nested = p
    BY <2>1, <2>4, <2>12
  <2> QED BY <2>8, <2>11, <2>13, <2>14
<1>2. CASE ~(s # <<>> /\ IsReaction(Last(s)))
  <2>1. RecordHandled(s, trigger) = s /\ ~TopReacts(s)
    BY <1>2 DEF RecordHandled, TopReacts, Last
  <2> QED BY <2>1 DEF Room, TopPassed
<1> QED BY <1>1, <1>2

LEMMA CloseAsked ==
  ASSUME NEW frame, NEW ks, NEW ws, frame.trigger \in Triggers,
         Room(Front(stack), frame.of, ks, ws),
         Passed(frame.of, frame.trigger, ks, ws), Close(frame)
  PROVE  Progress(stack', call', ks, ws)
<1>1. /\ stack' = RecordHandled(Front(stack), frame.trigger)
      /\ call' = Run(frame.of, frame.trigger, TRUE)
  BY DEF Close
<1>2. /\ Below(stack', ks, ws) /\ TopPassed(stack', ks, ws)
      /\ \A i \in 1 .. Len(stack') : stack'[i].of # frame.of
      /\ TopReacts(stack') => stack'[Len(stack')].nested = frame.of
  BY <1>1, RecordAsked
<1>3. call'.procedure = frame.of /\ call'.after = frame.trigger
  BY <1>1 DEF Run
<1> QED BY <1>2, <1>3 DEF CallAsked, Progress

\* A checkpoint without a Reaction may be put where there is room for it.
LEMMA DecisionAsked ==
  ASSUME NEW s, NEW ks, NEW ws, NEW frame, NEW step, frame \in Checkpoint,
         frame.active = Nobody, Room(s, frame.of, ks, ws),
         FrameAsked(frame, ks, ws), step.do # "run"
  PROVE  Progress(Append(s, frame), step, ks, ws)
<1>1. /\ frame.tag = "checkpoint" /\ ~IsReaction(frame) /\ frame \in Frame
      /\ StackSound(s, ks) /\ Below(s, ks, ws)
      /\ \A i \in 1 .. Len(s) : s[i].of # frame.of
      /\ TopReacts(s) => s[Len(s)].nested = frame.of
  BY DEF Checkpoint, IsReaction, Frame, Room
<1>2. Below(Append(s, frame), ks, ws) /\ TopPassed(Append(s, frame), ks, ws)
  BY <1>1, PushAsked
<1> QED BY <1>2 DEF Progress, CallAsked

\* Whoever has decided so far is done with the window when c is.
LEMMA AdvanceAsked ==
  ASSUME NEW c \in Creatures, NEW ks, NEW ws,
         Top \in Checkpoint, Advance(Top, c),
         Room(Front(stack), Top.of, ks, ws),
         Passed(Top.of, Top.trigger, ks, ws),
         OnlyAsked(Top, Top.offered \cup {c}, ws)
  PROVE  Progress(stack', call', ks, ws)
<1> DEFINE done == [Top EXCEPT !.active = Nobody, !.nested = 0,
                               !.handled = NoTrigger, !.offered = @ \cup {c}]
<1>1. /\ done \in Checkpoint /\ done.tag = "checkpoint" /\ done.of = Top.of
      /\ done.trigger = Top.trigger /\ done.window = Top.window
      /\ done.active = Nobody /\ done.offered = Top.offered \cup {c}
      /\ done.handled = NoTrigger
      /\ done.trigger \in Triggers
  BY DEF Checkpoint
<1>2. CASE Unoffered(done) = {}
  <2>1. Close(done)
    BY <1>2 DEF Advance
  <2> HIDE DEF done
  <2> QED BY <1>1, <2>1, CloseAsked
<1>3. CASE Unoffered(done) # {}
  <2>1. stack' = Append(Front(stack), done) /\ call' = Complete
    BY <1>3 DEF Advance
  <2> HIDE DEF done
  <2>2. FrameAsked(done, ks, ws)
    BY <1>1 DEF FrameAsked, OnlyAsked, ResumesAfter
  <2>3. call'.do # "run"
    BY <2>1 DEF Complete
  <2> QED BY <1>1, <2>1, <2>2, <2>3, DecisionAsked
<1> QED BY <1>2, <1>3

LEMMA ReconcileAsked ==
  ASSUME NEW ks, NEW ws, Top \in Checkpoint, IsDecision(Top), Reconcile(Top),
         Room(Front(stack), Top.of, ks, ws), FrameAsked(Top, ks, ws)
  PROVE  Progress(stack', call', ks, ws)
<1> DEFINE frame == [Top EXCEPT !.eligible = OpenChoices(Top)]
<1>1. Top.tag = "checkpoint" /\ Top.active = Nobody /\ Top.trigger \in Triggers
  BY DEF IsDecision, Checkpoint
<1>2. Passed(Top.of, Top.trigger, ks, ws)
  BY <1>1 DEF FrameAsked, ResumesAfter
<1>3. CASE OpenChoices(Top) = {}
  <2>1. Close(Top)
    BY <1>3 DEF Reconcile
  <2> QED BY <1>1, <1>2, <2>1, CloseAsked
<1>4. CASE OpenChoices(Top) # {}
  <2>1. stack' = Append(Front(stack), frame) /\ call' = Wait
    BY <1>4 DEF Reconcile
  <2>2. OpenChoices(Top) \in SUBSET Creatures
    BY DEF OpenChoices, Able
  <2>3. /\ frame \in Checkpoint /\ frame.tag = Top.tag /\ frame.of = Top.of
        /\ frame.trigger = Top.trigger /\ frame.window = Top.window
        /\ frame.active = Top.active /\ frame.offered = Top.offered
        /\ frame.handled = Top.handled
    BY <2>2 DEF Checkpoint
  <2> HIDE DEF frame
  <2>4. FrameAsked(frame, ks, ws)
    BY <1>1, <2>3 DEF FrameAsked, OnlyAsked, ResumesAfter, IsDecision
  <2>5. call'.do # "run"
    BY <2>1 DEF Wait
  <2> QED BY <1>1, <2>1, <2>3, <2>4, <2>5, DecisionAsked
<1> QED BY <1>3, <1>4

\* A decision is recorded in its window and in no other.
LEMMA DecisionRecorded ==
  ASSUME Sound, AskInv, NEW c \in Creatures, MayDecide(c), RecordDecision(c)
  PROVE  /\ windows' \in Windows /\ Len(windows') = Len(windows)
         /\ OnlyOf(Top.of, windows, windows')
         /\ OnlyAsked(Top, Top.offered \cup {c}, windows')
         /\ WindowsAsked(kinds, windows')
<1> DEFINE w == Top.window
           ds == windows[w].decided
           record == [windows[w] EXCEPT !.decided = Append(ds, c)]
<1>1. /\ stack # <<>> /\ Top.tag = "checkpoint" /\ c \in Unoffered(Top)
      /\ Top \in Checkpoint /\ Top.active = Nobody
  BY Decided DEF MayDecide, DecisionPending, IsDecision
<1>2. /\ StackSound(stack, kinds) /\ Below(stack, kinds, windows)
      /\ WindowsAsked(kinds, windows)
  BY DEF Sound, AskInv
<1>3. FrameAsked(Top, kinds, windows)
  BY <1>1, <1>2, PopAsked DEF Top
<1>4. OnlyAsked(Top, Top.offered \cup {Nobody}, windows)
  BY <1>1, <1>3 DEF FrameAsked
<1>5. /\ windows \in Seq(WindowSet) /\ Len(windows) \in Nat
      /\ w \in 1 .. Len(windows) /\ windows[w].of = Top.of
      /\ windows[w] \in WindowSet
  <2>1. windows \in Seq(WindowSet)
    BY DEF Sound, Rest, Windows, WindowSet
  <2> QED BY <2>1, <1>4, LenProperties, ElementOfSeq DEF OnlyAsked
<1>6. /\ ds \in Seq(Creatures) /\ Len(ds) \in Nat
      /\ Append(ds, c) \in Seq(Creatures)
      /\ Len(Append(ds, c)) = Len(ds) + 1
      /\ \A d \in 1 .. Len(ds) : Append(ds, c)[d] = ds[d]
      /\ Append(ds, c)[Len(ds) + 1] = c
  <2>1. ds \in Seq(Creatures)
    BY <1>5 DEF WindowSet
  <2> QED BY <2>1, LenProperties, AppendProperties
<1>7. /\ record \in WindowSet /\ record.of = windows[w].of
      /\ record.trigger = windows[w].trigger /\ record.decided = Append(ds, c)
  BY <1>5, <1>6 DEF WindowSet
<1>8. windows' = [windows EXCEPT ![w] = record]
  BY DEF RecordDecision
<1> HIDE DEF record
<1>9. /\ windows' \in Seq(WindowSet) /\ Len(windows') = Len(windows)
      /\ \A v \in 1 .. Len(windows) :
           windows'[v] = IF v = w THEN record ELSE windows[v]
  BY <1>5, <1>7, <1>8, ExceptSeq
<1>10. windows'[w] = record /\ windows' \in Windows
  BY <1>5, <1>9 DEF Windows, WindowSet
<1>11. ASSUME NEW d \in 1 .. Len(ds)
       PROVE  ds[d] \in Top.offered
  <2>1. ds[d] \in Top.offered \cup {Nobody} /\ ds[d] \in Creatures
    BY <1>4, <1>6, ElementOfSeq DEF OnlyAsked
  <2> QED BY <2>1, InterruptAssumption
<1>12. OnlyOf(Top.of, windows, windows')
  <2>1. ASSUME NEW v \in 1 .. Len(windows)
        PROVE  /\ windows'[v].of = windows[v].of
               /\ windows'[v].trigger = windows[v].trigger
               /\ windows[v].of # Top.of => windows'[v] = windows[v]
    <3>1. CASE v = w
      BY <3>1, <1>5, <1>7, <1>10
    <3>2. CASE v # w
      BY <3>2, <1>9
    <3> QED BY <3>1, <3>2
  <2> QED BY <2>1, <1>5, <1>9 DEF OnlyOf
<1> DEFINE added == Append(ds, c)
<1>13. record.decided = added /\ Len(added) = Len(ds) + 1
  BY <1>6, <1>7
<1>14. \A d \in 1 .. Len(ds) + 1 :
         added[d] = IF d = Len(ds) + 1 THEN c ELSE ds[d]
  BY <1>6
<1>15. \A n \in 1 .. Len(ds) + 1 : n \in 1 .. Len(ds) \/ n = Len(ds) + 1
  <2>1. Len(ds) \in Nat
    BY <1>6
  <2> HIDE DEF ds
  <2> QED BY <2>1
<1> HIDE DEF added
<1>16. OnlyAsked(Top, Top.offered \cup {c}, windows')
  <2>1. ASSUME NEW d \in 1 .. Len(windows'[w].decided)
        PROVE  windows'[w].decided[d] \in Top.offered \cup {c}
    <3>1. d \in 1 .. Len(ds) + 1 /\ windows'[w].decided[d] = added[d]
      BY <1>10, <1>13
    <3>2. CASE d = Len(ds) + 1
      BY <3>1, <3>2, <1>14
    <3>3. CASE d \in 1 .. Len(ds)
      BY <3>1, <3>3, <1>6, <1>11, <1>14
    <3> QED BY <3>1, <3>2, <3>3, <1>6
  <2>2. w \in 1 .. Len(windows') /\ windows'[w].of = Top.of
    BY <1>5, <1>7, <1>9, <1>10
  <2> QED BY <2>1, <2>2 DEF OnlyAsked
<1>17. WindowsAsked(kinds, windows')
  <2>1. ASSUME NEW v \in 1 .. Len(windows')
        PROVE  /\ v \in 1 .. Len(windows)
               /\ windows'[v].of = windows[v].of
               /\ windows'[v].trigger = windows[v].trigger
    BY <1>9, <1>12 DEF OnlyOf
  <2>2. \A v \in 1 .. Len(windows') : windows'[v].of \in 1 .. Len(kinds)
    BY <2>1, <1>2 DEF WindowsAsked
  <2>3. ASSUME NEW u \in 1 .. Len(windows'), NEW v \in 1 .. Len(windows'),
               windows'[u].of = windows'[v].of,
               windows'[u].trigger = windows'[v].trigger, u # v
        PROVE  windows'[u].trigger = "afterDamage"
    BY <2>1, <2>3, <1>2 DEF WindowsAsked
  <2>4. ASSUME NEW v \in 1 .. Len(windows')
        PROVE  IsInjective(windows'[v].decided)
    <3>1. CASE v # w
      BY <3>1, <2>1, <1>2, <1>9 DEF WindowsAsked
    <3>2. CASE v = w
      <4>1. IsInjective(ds)
        BY <1>2, <1>5 DEF WindowsAsked
      <4>2. DOMAIN ds = 1 .. Len(ds) /\ DOMAIN added = 1 .. Len(ds) + 1
        BY <1>6, <1>13, LenProperties DEF added
      <4>3. c \notin Top.offered
        BY <1>1 DEF Unoffered
      <4>4. \A d, e \in 1 .. Len(ds) : ds[d] = ds[e] => d = e
        BY <4>1, <4>2 DEF IsInjective
      <4>5. \A d \in 1 .. Len(ds) : ds[d] # c
        BY <4>3, <1>11
      <4>6. \A d, e \in 1 .. Len(ds) + 1 : added[d] = added[e] => d = e
        <5> SUFFICES ASSUME NEW d \in 1 .. Len(ds) + 1,
                            NEW e \in 1 .. Len(ds) + 1, added[d] = added[e]
                     PROVE  d = e
          OBVIOUS
        <5>1. CASE d \in 1 .. Len(ds) /\ e \in 1 .. Len(ds)
          BY <5>1, <4>4, <1>6, <1>14
        <5>2. CASE d \in 1 .. Len(ds) /\ e = Len(ds) + 1
          BY <5>2, <4>5, <1>6, <1>14
        <5>3. CASE d = Len(ds) + 1 /\ e \in 1 .. Len(ds)
          BY <5>3, <4>5, <1>6, <1>14
        <5> QED BY <5>1, <5>2, <5>3, <1>15
      <4>7. IsInjective(added)
        BY <4>2, <4>6 DEF IsInjective
      <4> QED BY <4>7, <3>2, <1>10, <1>13
    <3> QED BY <3>1, <3>2
  <2> QED BY <2>2, <2>3, <2>4 DEF WindowsAsked
<1> QED BY <1>9, <1>10, <1>12, <1>16, <1>17

\* A window opened for a new event, or for one more creature damaged.
LEMMA Opening ==
  ASSUME NEW ks \in Seq(Kinds), NEW ws \in Windows, NEW p \in 1 .. Len(ks),
         NEW trigger \in Triggers, NEW window,
         window = [of |-> p, trigger |-> trigger, decided |-> <<>>],
         WindowsAsked(ks, ws),
         \A w \in 1 .. Len(ws) :
           ws[w].of = p /\ ws[w].trigger = trigger => trigger = "afterDamage"
  PROVE  /\ Append(ws, window) \in Windows
         /\ OnlyOf(p, ws, Append(ws, window))
         /\ WindowsAsked(ks, Append(ws, window))
         /\ Len(Append(ws, window)) = Len(ws) + 1
         /\ Append(ws, window)[Len(ws) + 1] = window
         /\ \A w \in 1 .. Len(ws) : Append(ws, window)[w] = ws[w]
<1> DEFINE new == Append(ws, window)
<1>1. /\ ws \in Seq(WindowSet) /\ Len(ws) \in Nat /\ p \in Nat
      /\ Len(ks) \in Nat
  BY LenProperties DEF Windows, WindowSet
<1>2. window \in WindowSet
  BY <1>1, EmptySeq DEF WindowSet
<1>3. /\ new \in Seq(WindowSet) /\ Len(new) = Len(ws) + 1
      /\ \A w \in 1 .. Len(ws) : new[w] = ws[w]
      /\ new[Len(ws) + 1] = window
  BY <1>1, <1>2, AppendProperties
<1>4. window.of = p /\ window.trigger = trigger /\ window.decided = <<>>
  OBVIOUS
<1> HIDE DEF new
<1>5. OnlyOf(p, ws, new)
  <2>1. \A w \in Len(ws) + 1 .. Len(new) : w = Len(ws) + 1
    BY <1>1, <1>3
  <2> QED BY <2>1, <1>1, <1>3, <1>4 DEF OnlyOf
<1>6. WindowsAsked(ks, new)
  <2>1. \A w \in 1 .. Len(new) : w \in 1 .. Len(ws) \/ w = Len(ws) + 1
    BY <1>1, <1>3
  <2>2. ASSUME NEW w \in 1 .. Len(new)
        PROVE  new[w].of \in 1 .. Len(ks) /\ IsInjective(new[w].decided)
    <3>1. CASE w \in 1 .. Len(ws)
      BY <3>1, <1>3 DEF WindowsAsked
    <3>2. CASE w = Len(ws) + 1
      <4>1. new[w].of = p /\ new[w].decided = <<>>
        BY <3>2, <1>3, <1>4
      <4>2. IsInjective(<<>>)
        BY DEF IsInjective
      <4> QED BY <4>1, <4>2
    <3> QED BY <3>1, <3>2, <2>1
  <2>3. ASSUME NEW v \in 1 .. Len(new), NEW w \in 1 .. Len(new),
               new[v].of = new[w].of, new[v].trigger = new[w].trigger, v # w
        PROVE  new[v].trigger = "afterDamage"
    <3>1. CASE v \in 1 .. Len(ws) /\ w \in 1 .. Len(ws)
      BY <3>1, <2>3, <1>3 DEF WindowsAsked
    <3>2. CASE v \in 1 .. Len(ws) /\ w = Len(ws) + 1
      BY <3>2, <2>3, <1>3, <1>4
    <3>3. CASE v = Len(ws) + 1 /\ w \in 1 .. Len(ws)
      BY <3>3, <2>3, <1>3, <1>4
    <3> QED BY <3>1, <3>2, <3>3, <2>1, <2>3
  <2> QED BY <2>2, <2>3 DEF WindowsAsked
<1> QED BY <1>1, <1>3, <1>5, <1>6 DEF Windows, WindowSet, new

\* A procedure may only open what is not behind it.
LEMMA NotBehind ==
  ASSUME NEW p, NEW after, NEW trigger, kinds[p] \in Kinds,
         trigger \in MayOpen(p, after),
         Passed(p, after, kinds, windows)
  PROVE  /\ trigger \in Events(kinds[p])
         /\ Past(after) \subseteq Past(trigger) /\ trigger \in Past(trigger)
         /\ trigger \in Past(after) => trigger = "afterDamage"
<1>1. after \in Events(kinds[p]) \cup {NoTrigger}
  BY DEF Passed
<1>2. CASE kinds[p] = "attack"
  <2>1. Events(kinds[p]) = {"attackHit", "attackDamage", "afterDamage"}
    BY <1>2 DEF Events
  <2>2. /\ Past(NoTrigger) = {} /\ Past("attackHit") = {"attackHit"}
        /\ Past("attackDamage") = Triggers /\ Past("afterDamage") = Triggers
    BY InterruptAssumption DEF Past, Triggers
  <2>3. CASE after \in {"attackDamage", "afterDamage"}
    <3>1. trigger = "afterDamage"
      BY <2>3 DEF MayOpen
    <3> QED BY <2>1, <2>2, <2>3, <3>1 DEF Triggers
  <2>4. CASE after = "attackHit"
    <3>1. trigger \in {"attackDamage", "afterDamage"}
      BY <1>2, <2>4 DEF MayOpen
    <3> QED BY <2>1, <2>2, <2>4, <3>1 DEF Triggers
  <2>5. CASE after = NoTrigger
    <3>1. trigger \in {"attackHit", "attackDamage", "afterDamage"}
      BY <1>2, <2>5, InterruptAssumption DEF MayOpen, Triggers
    <3> QED BY <2>1, <2>2, <2>5, <3>1 DEF Triggers
  <2> QED BY <1>1, <2>1, <2>3, <2>4, <2>5
<1>3. CASE kinds[p] = "move"
  <2>1. Events(kinds[p]) = {"opportunityAttack"}
    BY <1>3 DEF Events
  <2> QED BY <1>1, <1>3, <2>1, InterruptAssumption DEF MayOpen, Past, Triggers
<1>4. CASE kinds[p] = "report"
  <2>1. Events(kinds[p]) = {"reportedReadyTrigger"}
    BY <1>4 DEF Events
  <2> QED BY <1>1, <1>4, <2>1, InterruptAssumption DEF MayOpen, Past, Triggers
<1> QED BY <1>2, <1>3, <1>4 DEF Kinds

\* The kinds of the procedures started only grow.
LEMMA KindsGrow ==
  ASSUME NEW ks \in Seq(Kinds), NEW kind \in Kinds, NEW ws \in Windows,
         WindowsAsked(ks, ws)
  PROVE  /\ Extends(ks, Append(ks, kind))
         /\ WindowsAsked(Append(ks, kind), ws)
         /\ \A w \in 1 .. Len(ws) : ws[w].of # Len(ks) + 1
<1> DEFINE new == Append(ks, kind)
<1>1. /\ Len(ks) \in Nat /\ Len(new) = Len(ks) + 1
      /\ \A p \in 1 .. Len(ks) : new[p] = ks[p]
  BY LenProperties, AppendProperties
<1> HIDE DEF new
<1>2. \A w \in 1 .. Len(ws) : ws[w].of \in 1 .. Len(ks)
  BY DEF WindowsAsked
<1>3. Extends(ks, new)
  BY <1>1 DEF Extends
<1>4. \A w \in 1 .. Len(ws) :
        ws[w].of \in 1 .. Len(new) /\ ws[w].of # Len(ks) + 1
  BY <1>1, <1>2
<1>5. WindowsAsked(new, ws)
  BY <1>4 DEF WindowsAsked
<1> QED BY <1>3, <1>4, <1>5 DEF new

\* A procedure that has just started has been through nothing.
LEMMA FreshPassed ==
  ASSUME NEW p, NEW ks, NEW ws, \A w \in 1 .. Len(ws) : ws[w].of # p
  PROVE  Passed(p, NoTrigger, ks, ws)
BY DEF Passed

\* No frame holds a procedure that has yet to start.
LEMMA FreshFrames ==
  ASSUME NEW s, NEW ks \in Seq(Kinds), StackSound(s, ks)
  PROVE  \A i \in 1 .. Len(s) : s[i].of # Len(ks) + 1
<1>1. Len(ks) \in Nat
  BY LenProperties
<1>2. \A i \in 1 .. Len(s) : s[i].of \in 1 .. Len(ks)
  BY DEF StackSound, FrameSound
<1> QED BY <1>1, <1>2

LEMMA AskedFacts ==
  ASSUME IInv, AskInv
  PROVE  /\ Sound /\ StackSound(stack, kinds)
         /\ kinds \in Seq(Kinds) /\ windows \in Windows
         /\ Len(kinds) \in Nat /\ Len(windows) \in Nat
         /\ Below(stack, kinds, windows) /\ TopPassed(stack, kinds, windows)
         /\ CallAsked(call, stack, kinds, windows)
         /\ WindowsAsked(kinds, windows)
BY LenProperties DEF IInv, Sound, Rest, AskInv, Windows

\* The same stack and windows, and a call that runs nothing or what may run.
LEMMA CallOnly ==
  ASSUME AskInv, UNCHANGED <<stack, kinds, windows>>,
         CallAsked(call', stack, kinds, windows)
  PROVE  AskInv'
BY DEF AskInv

LEMMA Idle ==
  ASSUME NEW step, NEW s, NEW ks, NEW ws, step = Wait \/ step = Complete
  PROVE  CallAsked(step, s, ks, ws)
BY DEF CallAsked, Wait, Complete

\* The frame on top, where it came from and what may go on in its place.
LEMMA TopAsked ==
  ASSUME IInv, AskInv, stack # <<>>
  PROVE  /\ Room(Front(stack), Top.of, kinds, windows)
         /\ FrameAsked(Top, kinds, windows)
         /\ Top.tag # "checkpoint" => TopPassed(Front(stack), kinds, windows)
         /\ FrameSound(Top, kinds)
         /\ IsReaction(Top) =>
              /\ \A i \in 1 .. Len(stack) : stack[i].of # Top.nested
              /\ Passed(Top.nested, Top.handled, kinds, windows)
         /\ Top.tag = "checkpoint" =>
              /\ Top \in Checkpoint
              /\ Passed(Top.of, Top.trigger, kinds, windows)
<1>1. /\ Sound /\ StackSound(stack, kinds)
      /\ kinds \in Seq(Kinds) /\ windows \in Windows
      /\ Below(stack, kinds, windows) /\ TopPassed(stack, kinds, windows)
  BY AskedFacts
<1>2. Room(Front(stack), Top.of, kinds, windows)
  BY <1>1, TopRoom, Unchanged, SameKinds DEF Top
<1>3. FrameSound(Top, kinds)
  BY <1>1, TopSound
<1>4. /\ FrameAsked(Top, kinds, windows)
      /\ Top.tag # "checkpoint" => TopPassed(Front(stack), kinds, windows)
      /\ IsReaction(Top) => \A i \in 1 .. Len(stack) : stack[i].of # Top.nested
  BY <1>1, PopAsked DEF Top
<1>5. IsReaction(Top) => Passed(Top.nested, Top.handled, kinds, windows)
  BY <1>1 DEF TopPassed, TopReacts, Top
<1>6. ASSUME Top.tag = "checkpoint"
      PROVE  /\ Top \in Checkpoint
             /\ Passed(Top.of, Top.trigger, kinds, windows)
  BY <1>3, <1>4, <1>6
     DEF FrameSound, Frame, Checkpoint, Replay, Save, FrameAsked, ResumesAfter
<1> QED BY <1>2, <1>3, <1>4, <1>5, <1>6

-----------------------------------------------------------------------------
LEMMA InitAsked ==
  ASSUME Init
  PROVE  AskInv
<1>1. stack = <<>> /\ windows = <<>> /\ call = Wait /\ kinds = <<>>
  BY DEF Init
<1>2. Below(stack, kinds, windows) /\ TopPassed(stack, kinds, windows)
  BY <1>1, EmptySeq DEF Below, Linked, TopPassed, TopReacts
<1>3. WindowsAsked(kinds, windows)
  BY <1>1, EmptySeq DEF WindowsAsked
<1> QED BY <1>1, <1>2, <1>3, Idle DEF AskInv

\* What a Reaction's window has heard when the Reaction is over.
LEMMA CompleteResolvedAsked ==
  ASSUME IInv, AskInv, CompleteResolved
  PROVE  AskInv'
<1>1. kinds' = kinds /\ windows' = windows /\ WindowsAsked(kinds, windows)
  BY AskedFacts DEF CompleteResolved
<1>2. CASE ReactionPending
  <2>1. /\ stack # <<>> /\ IsReaction(Top) /\ Top.tag = "checkpoint"
        /\ Advance(Top, Top.active)
    BY <1>2 DEF CompleteResolved, ReactionPending, IsReaction
  <2>2. Top \in Checkpoint /\ Passed(Top.of, Top.trigger, kinds, windows)
    BY <2>1, TopAsked
  <2>3. Top.active \in Creatures
    BY <2>1, <2>2 DEF Checkpoint, IsReaction
  <2>4. OnlyAsked(Top, Top.offered \cup {Top.active}, windows)
    BY <2>1, TopAsked DEF FrameAsked
  <2>5. Room(Front(stack), Top.of, kinds, windows)
    BY <2>1, TopAsked
  <2>6. Progress(stack', call', kinds, windows)
    BY <2>1, <2>2, <2>3, <2>4, <2>5, AdvanceAsked
  <2> QED BY <1>1, <2>6 DEF AskInv, Progress
<1>3. CASE ~ReactionPending /\ DecisionPending
  <2>1. /\ stack # <<>> /\ IsDecision(Top) /\ Top.tag = "checkpoint"
        /\ Reconcile(Top)
    BY <1>3 DEF CompleteResolved, DecisionPending, IsDecision
  <2>2. /\ Top \in Checkpoint /\ FrameAsked(Top, kinds, windows)
        /\ Room(Front(stack), Top.of, kinds, windows)
    BY <2>1, TopAsked
  <2>3. Progress(stack', call', kinds, windows)
    BY <2>1, <2>2, ReconcileAsked
  <2> QED BY <1>1, <2>3 DEF AskInv, Progress
<1>4. CASE ~ReactionPending /\ ~DecisionPending
  <2>1. call' = Wait /\ stack' = stack
    BY <1>4 DEF CompleteResolved
  <2> QED BY <1>1, <2>1, CallOnly, Idle
<1> QED BY <1>2, <1>3, <1>4

LEMMA ResolveAsked ==
  ASSUME IInv, AskInv, Resolve
  PROVE  AskInv'
<1>1. /\ UNCHANGED <<stack, kinds, windows>>
      /\ call' = Wait \/ call' = Complete
  BY DEF Resolve
<1> QED BY <1>1, CallOnly, Idle

\* A procedure that runs has no frame, so its next one goes on top.
LEMMA RunRoom ==
  ASSUME IInv, AskInv, call.do = "run"
  PROVE  /\ Room(stack, call.procedure, kinds, windows)
         /\ Passed(call.procedure, call.after, kinds, windows)
         /\ call.procedure \in 1 .. Len(kinds)
BY AskedFacts DEF Room, CallAsked, Sound, CallSound

LEMMA OpenWindowAsked ==
  ASSUME IInv, AskInv, NEW trigger \in Triggers,
         NEW audience \in SUBSET Creatures, OpenWindow(trigger, audience)
  PROVE  AskInv'
<1> DEFINE eligible == {c \in audience : c \notin spent \cup down'}
           p == call.procedure
           frame == Opened(p, trigger, audience, eligible)
           window == [of |-> p, trigger |-> trigger, decided |-> <<>>]
<1>1. /\ call.do = "run" /\ trigger \in MayOpen(p, call.after)
      /\ stack' = Append(stack, frame)
      /\ windows' = Append(windows, window)
      /\ kinds' = kinds /\ call' = Wait
  BY DEF OpenWindow, Opened
<1>2. /\ kinds \in Seq(Kinds) /\ windows \in Windows
      /\ Len(windows) \in Nat /\ WindowsAsked(kinds, windows)
  BY AskedFacts
<1>3. /\ Room(stack, p, kinds, windows) /\ p \in 1 .. Len(kinds)
      /\ Passed(p, call.after, kinds, windows)
  BY <1>1, RunRoom
<1>4. kinds[p] \in Kinds
  BY <1>2, <1>3, ElementOfSeq
<1> DEFINE after == call.after
<1>5. /\ trigger \in Events(kinds[p])
      /\ Past(after) \subseteq Past(trigger) /\ trigger \in Past(trigger)
      /\ trigger \in Past(after) => trigger = "afterDamage"
  BY <1>1, <1>3, <1>4, NotBehind
<1>6. /\ frame.of = p /\ frame.trigger = trigger /\ frame.tag = "checkpoint"
      /\ frame.window = Len(windows) + 1 /\ frame.active = Nobody
      /\ frame.handled = NoTrigger
  BY DEF Opened
<1>7. frame \in Checkpoint
  BY <1>2, <1>3 DEF Opened, Checkpoint
<1>8. window.of = p /\ window.trigger = trigger /\ window.decided = <<>>
  OBVIOUS
<1> HIDE DEF frame
<1>9. \A w \in 1 .. Len(windows) :
        windows[w].of = p /\ windows[w].trigger = trigger
          => trigger = "afterDamage"
  BY <1>3, <1>5 DEF Passed
<1>10. /\ windows' \in Windows /\ OnlyOf(p, windows, windows')
       /\ WindowsAsked(kinds, windows')
       /\ Len(windows') = Len(windows) + 1
       /\ windows'[Len(windows) + 1] = window
       /\ \A w \in 1 .. Len(windows) : windows'[w] = windows[w]
  BY <1>1, <1>2, <1>3, <1>9, Opening
<1> HIDE DEF window, p, after
<1>11. Passed(p, trigger, kinds, windows')
  <2>1. ASSUME NEW w \in 1 .. Len(windows'), windows'[w].of = p
        PROVE  windows'[w].trigger \in Past(trigger)
    <3>1. CASE w \in 1 .. Len(windows)
      <4>1. windows[w].of = p /\ windows'[w] = windows[w]
        BY <2>1, <3>1, <1>10
      <4>2. windows[w].trigger \in Past(after)
        BY <3>1, <4>1, <1>3 DEF Passed, after
      <4> QED BY <4>1, <4>2, <1>5
    <3>2. CASE w = Len(windows) + 1
      BY <3>2, <1>5, <1>8, <1>10
    <3> QED BY <3>1, <3>2, <1>2, <1>10
  <2> QED BY <2>1, <1>5 DEF Passed
<1>12. FrameAsked(frame, kinds, windows')
  <2>1. Passed(frame.of, ResumesAfter(frame), kinds, windows')
    BY <1>6, <1>11 DEF ResumesAfter
  <2>2. /\ frame.window \in 1 .. Len(windows')
        /\ windows'[frame.window].of = frame.of
        /\ windows'[frame.window].decided = <<>>
    BY <1>2, <1>6, <1>8, <1>10
  <2>3. Len(windows'[frame.window].decided) = 0
    BY <2>2, EmptySeq
  <2> QED BY <1>6, <2>1, <2>2, <2>3 DEF FrameAsked, OnlyAsked
<1>13. Room(stack, p, kinds, windows')
  <2>1. /\ StackSound(stack, kinds) /\ Below(stack, kinds, windows)
        /\ \A i \in 1 .. Len(stack) : stack[i].of # p
        /\ TopReacts(stack) => stack[Len(stack)].nested = p
    BY <1>3 DEF Room
  <2>2. Below(stack, kinds, windows')
    BY <1>2, <1>10, <2>1, SameKinds, BelowCarries
  <2> QED BY <2>1, <2>2 DEF Room
<1>14. Progress(stack', call', kinds, windows')
  <2>1. call'.do # "run"
    BY <1>1 DEF Wait
  <2> QED BY <1>1, <1>6, <1>7, <1>12, <1>13, <2>1, DecisionAsked
<1> QED BY <1>1, <1>10, <1>14 DEF AskInv, Progress

\* A frame that waits for input lies where its procedure ran.
LEMMA HoldAsked ==
  ASSUME NEW s, NEW ks, NEW ws, NEW frame, NEW step,
         frame \in Replay \cup Save, Room(s, frame.of, ks, ws),
         TopPassed(s, ks, ws),
         Passed(frame.of, ResumesAfter(frame), ks, ws), step = Wait
  PROVE  Progress(Append(s, frame), step, ks, ws)
<1>1. /\ frame.tag # "checkpoint" /\ ~IsReaction(frame) /\ frame \in Frame
      /\ StackSound(s, ks) /\ Below(s, ks, ws)
      /\ \A i \in 1 .. Len(s) : s[i].of # frame.of
      /\ TopReacts(s) => s[Len(s)].nested = frame.of
  BY DEF Replay, Save, IsReaction, Frame, Room
<1>2. FrameAsked(frame, ks, ws)
  BY <1>1 DEF FrameAsked, IsDecision
<1>3. Below(Append(s, frame), ks, ws) /\ TopPassed(Append(s, frame), ks, ws)
  BY <1>1, <1>2, PushAsked
<1> QED BY <1>3, Idle DEF Progress

LEMMA NeedInputAsked ==
  ASSUME IInv, AskInv, NeedInput
  PROVE  AskInv'
<1> DEFINE p == call.procedure
           frame == [tag |-> "replay", of |-> p, handled |-> call.after]
<1>1. /\ call.do = "run" /\ kinds[p] # "report"
      /\ call' = Wait /\ kinds' = kinds /\ windows' = windows
      /\ WindowsAsked(kinds, windows) /\ TopPassed(stack, kinds, windows)
  BY AskedFacts DEF NeedInput
<1>2. CASE stack' = stack
  BY <1>1, <1>2, CallOnly, Idle
<1>3. CASE ~(ReactionPending /\ Top.nested = p)
  <2>1. /\ stack' = Append(stack, frame)
        /\ call.completes /\ call.after \in {NoTrigger, "attackHit"}
    BY <1>3 DEF NeedInput
  <2>2. /\ Room(stack, p, kinds, windows) /\ p \in 1 .. Len(kinds)
        /\ Passed(p, call.after, kinds, windows)
    BY <1>1, RunRoom
  <2>3. call.after # NoTrigger
    BY <1>1, <1>3, <2>1, AskedFacts
       DEF Sound, CallSound, ReactionPending, Top
  <2>4. Len(kinds) \in Nat
    BY AskedFacts
  <2>5. frame \in Replay /\ frame.of = p /\ frame.tag = "replay"
        /\ frame.handled = call.after
    BY <2>1, <2>2, <2>3, <2>4 DEF Replay, Triggers
  <2> HIDE DEF frame, p
  <2>6. Passed(frame.of, ResumesAfter(frame), kinds, windows)
    BY <2>2, <2>5 DEF ResumesAfter
  <2>7. Progress(stack', call', kinds, windows)
    BY <1>1, <2>1, <2>2, <2>5, <2>6, HoldAsked
  <2> QED BY <1>1, <2>7 DEF AskInv, Progress
<1> QED BY <1>2, <1>3 DEF NeedInput

LEMMA NeedSaveAsked ==
  ASSUME IInv, AskInv, NeedSave
  PROVE  AskInv'
<1> DEFINE p == call.procedure
           frame == [tag |-> "save", of |-> p]
<1>1. /\ call.do = "run" /\ call.after = "attackDamage"
      /\ stack' = Append(stack, frame)
      /\ call' = Wait /\ kinds' = kinds /\ windows' = windows
      /\ WindowsAsked(kinds, windows) /\ TopPassed(stack, kinds, windows)
      /\ Len(kinds) \in Nat
  BY AskedFacts DEF NeedSave
<1>2. /\ Room(stack, p, kinds, windows) /\ p \in 1 .. Len(kinds)
      /\ Passed(p, call.after, kinds, windows)
  BY <1>1, RunRoom
<1>3. frame \in Save /\ frame.of = p /\ frame.tag = "save"
  BY <1>1, <1>2 DEF Save
<1> HIDE DEF frame, p
<1>4. Passed(frame.of, ResumesAfter(frame), kinds, windows)
  BY <1>1, <1>2, <1>3 DEF ResumesAfter
<1>5. Progress(stack', call', kinds, windows)
  BY <1>1, <1>2, <1>3, <1>4, HoldAsked
<1> QED BY <1>1, <1>5 DEF AskInv, Progress

LEMMA BeginActAsked ==
  ASSUME IInv, AskInv, NEW kind \in {"attack", "move"}, BeginAct(kind)
  PROVE  AskInv'
<1>1. /\ stack = <<>> /\ stack' = stack /\ windows' = windows
      /\ kinds' = Append(kinds, kind)
      /\ call' = Run(Len(kinds'), NoTrigger, FALSE)
  BY DEF BeginAct, StartProcedure
<1>2. /\ kinds \in Seq(Kinds) /\ windows \in Windows
      /\ WindowsAsked(kinds, windows)
  BY AskedFacts
<1>3. kind \in Kinds /\ Len(kinds') = Len(kinds) + 1
  BY <1>1, <1>2, AppendProperties DEF Kinds
<1>4. /\ WindowsAsked(kinds', windows)
      /\ \A w \in 1 .. Len(windows) : windows[w].of # Len(kinds')
  BY <1>1, <1>2, <1>3, KindsGrow
<1>5. Below(stack, kinds', windows) /\ TopPassed(stack, kinds', windows)
  BY <1>1, EmptySeq DEF Below, Linked, TopPassed, TopReacts
<1>6. CallAsked(call', stack, kinds', windows)
  <2>1. call'.procedure = Len(kinds') /\ call'.after = NoTrigger
    BY <1>1 DEF Run
  <2>2. Passed(Len(kinds'), NoTrigger, kinds', windows)
    BY <1>4, FreshPassed
  <2>3. \A i \in 1 .. Len(stack) : stack[i].of # Len(kinds')
    BY <1>1, EmptySeq
  <2>4. ~TopReacts(stack)
    BY <1>1 DEF TopReacts
  <2> QED BY <2>1, <2>2, <2>3, <2>4 DEF CallAsked
<1> QED BY <1>1, <1>4, <1>5, <1>6 DEF AskInv

LEMMA ReportReadyTriggerAsked ==
  ASSUME IInv, AskInv, NEW c \in Creatures, ReportReadyTrigger(c)
  PROVE  AskInv'
<1> DEFINE p == Len(kinds')
           frame == Opened(p, "reportedReadyTrigger", {c}, {c})
           window == [of |-> p, trigger |-> "reportedReadyTrigger",
                      decided |-> <<>>]
<1>1. /\ kinds' = Append(kinds, "report") /\ stack' = Append(stack, frame)
      /\ windows' = Append(windows, window)
      /\ call' = call /\ call = Wait /\ MayReport(c)
  BY DEF ReportReadyTrigger, Opened, Waiting
<1>2. /\ kinds \in Seq(Kinds) /\ windows \in Windows
      /\ Len(kinds) \in Nat /\ Len(windows) \in Nat
      /\ StackSound(stack, kinds) /\ Below(stack, kinds, windows)
      /\ WindowsAsked(kinds, windows) /\ "report" \in Kinds
  BY AskedFacts DEF Kinds
<1>3. /\ p = Len(kinds) + 1 /\ p \in 1 .. Len(kinds') /\ kinds'[p] = "report"
      /\ kinds' \in Seq(Kinds) /\ StackSound(stack, kinds')
  BY <1>1, <1>2, Grow
<1>4. /\ Extends(kinds, kinds') /\ WindowsAsked(kinds', windows)
      /\ \A w \in 1 .. Len(windows) : windows[w].of # Len(kinds) + 1
  BY <1>1, <1>2, KindsGrow
<1>5. \A i \in 1 .. Len(stack) : stack[i].of # Len(kinds) + 1
  BY <1>2, FreshFrames
<1>6. ~TopReacts(stack)
  BY <1>1 DEF MayReport, DecisionPending, IsDecision, TopReacts, IsReaction, Top
<1>7. /\ frame.of = p /\ frame.trigger = "reportedReadyTrigger"
      /\ frame.tag = "checkpoint"
      /\ frame.window = Len(windows) + 1 /\ frame.active = Nobody
      /\ frame.handled = NoTrigger
  BY DEF Opened
<1>8. frame \in Checkpoint
  BY <1>2, <1>3 DEF Opened, Checkpoint, Triggers
<1>9. /\ window.of = p /\ window.trigger = "reportedReadyTrigger"
      /\ window.decided = <<>>
  OBVIOUS
<1> HIDE DEF frame, p
<1>10. /\ \A i \in 1 .. Len(stack) : stack[i].of # p
       /\ \A w \in 1 .. Len(windows) : windows[w].of # p
  BY <1>3, <1>4, <1>5
<1>11. /\ windows' \in Windows /\ OnlyOf(p, windows, windows')
       /\ WindowsAsked(kinds', windows')
       /\ Len(windows') = Len(windows) + 1
       /\ windows'[Len(windows) + 1] = window
       /\ \A w \in 1 .. Len(windows) : windows'[w] = windows[w]
  <2> DEFINE trigger == "reportedReadyTrigger"
  <2>1. /\ trigger \in Triggers
        /\ window = [of |-> p, trigger |-> trigger, decided |-> <<>>]
    BY DEF Triggers
  <2> HIDE DEF window, trigger
  <2>2. \A w \in 1 .. Len(windows) :
          windows[w].of = p /\ windows[w].trigger = trigger
            => trigger = "afterDamage"
    BY <1>10
  <2>3. /\ windows' = Append(windows, window) /\ windows \in Windows
        /\ kinds' \in Seq(Kinds) /\ p \in 1 .. Len(kinds')
        /\ WindowsAsked(kinds', windows)
    BY <1>1, <1>2, <1>3, <1>4
  <2> QED BY <2>1, <2>2, <2>3, Opening
<1> HIDE DEF window
<1>12. Passed(p, "reportedReadyTrigger", kinds', windows')
  <2>1. ASSUME NEW w \in 1 .. Len(windows'), windows'[w].of = p
        PROVE  windows'[w].trigger \in Triggers
    <3>1. windows' \in Seq(WindowSet)
      BY <1>11 DEF Windows, WindowSet
    <3>2. windows'[w] \in WindowSet
      BY <2>1, <3>1, ElementOfSeq
    <3> QED BY <3>2 DEF WindowSet
  <2>2. Past("reportedReadyTrigger") = Triggers
    BY InterruptAssumption DEF Past, Triggers
  <2>3. Events(kinds'[p]) = {"reportedReadyTrigger"}
    BY <1>3 DEF Events
  <2> QED BY <2>1, <2>2, <2>3 DEF Passed
<1>13. FrameAsked(frame, kinds', windows')
  <2>1. Passed(frame.of, ResumesAfter(frame), kinds', windows')
    BY <1>7, <1>12 DEF ResumesAfter
  <2>2. /\ frame.window \in 1 .. Len(windows')
        /\ windows'[frame.window].of = frame.of
        /\ windows'[frame.window].decided = <<>>
    BY <1>2, <1>7, <1>9, <1>11
  <2>3. Len(windows'[frame.window].decided) = 0
    BY <2>2, EmptySeq
  <2> QED BY <1>7, <2>1, <2>2, <2>3 DEF FrameAsked, OnlyAsked
<1>14. Below(stack, kinds', windows')
  BY <1>2, <1>4, <1>10, <1>11, BelowCarries
<1>15. Room(stack, frame.of, kinds', windows')
  BY <1>3, <1>6, <1>7, <1>10, <1>14 DEF Room
<1>16. call'.do # "run"
  BY <1>1 DEF Wait
<1>17. Progress(stack', call', kinds', windows')
  BY <1>1, <1>7, <1>8, <1>13, <1>15, <1>16, DecisionAsked
<1> QED BY <1>11, <1>17 DEF AskInv, Progress

\* What a decision leaves to go on with.
LEMMA DecidedAsked ==
  ASSUME IInv, AskInv, NEW c \in Creatures, MayDecide(c), RecordDecision(c)
  PROVE  /\ stack # <<>> /\ Top \in Checkpoint /\ c \in Unoffered(Top)
         /\ Room(Front(stack), Top.of, kinds, windows')
         /\ Passed(Top.of, Top.trigger, kinds, windows')
         /\ OnlyAsked(Top, Top.offered \cup {c}, windows')
         /\ WindowsAsked(kinds, windows') /\ windows' \in Windows
<1>1. /\ stack # <<>> /\ Top \in Checkpoint /\ Top.tag = "checkpoint"
      /\ c \in Unoffered(Top) /\ FrameSound(Top, kinds)
  BY AskedFacts, Decided
<1>2. /\ windows' \in Windows /\ Len(windows') = Len(windows)
      /\ OnlyOf(Top.of, windows, windows')
      /\ OnlyAsked(Top, Top.offered \cup {c}, windows')
      /\ WindowsAsked(kinds, windows')
  BY AskedFacts, DecisionRecorded
<1>3. /\ kinds \in Seq(Kinds) /\ windows \in Windows
      /\ StackSound(stack, kinds) /\ Below(stack, kinds, windows)
  BY AskedFacts
<1>4. Extends(kinds, kinds)
  BY <1>3, SameKinds
<1>5. Room(Front(stack), Top.of, kinds, windows')
  BY <1>1, <1>2, <1>3, <1>4, TopRoom DEF Top
<1>6. Passed(Top.of, Top.trigger, kinds, windows)
  BY <1>1, TopAsked
<1>7. Top.of \in 1 .. Len(kinds)
  BY <1>1 DEF FrameSound
<1>8. Passed(Top.of, Top.trigger, kinds, windows')
  BY <1>2, <1>3, <1>4, <1>6, <1>7, PassedCarries
<1> QED BY <1>1, <1>2, <1>5, <1>8

LEMMA DeclineAsked ==
  ASSUME IInv, AskInv, NEW c \in Creatures, Decline(c)
  PROVE  AskInv'
<1>1. MayDecide(c) /\ RecordDecision(c) /\ Advance(Top, c) /\ kinds' = kinds
  BY DEF Decline
<1>2. Progress(stack', call', kinds, windows') /\ WindowsAsked(kinds, windows')
  BY <1>1, DecidedAsked, AdvanceAsked
<1> QED BY <1>1, <1>2 DEF AskInv, Progress

LEMMA ModifyAsked ==
  ASSUME IInv, AskInv, NEW c \in Creatures, Modify(c)
  PROVE  AskInv'
<1>1. MayDecide(c) /\ RecordDecision(c) /\ Advance(Top, c) /\ kinds' = kinds
  BY DEF Modify, React
<1>2. Progress(stack', call', kinds, windows') /\ WindowsAsked(kinds, windows')
  BY <1>1, DecidedAsked, AdvanceAsked
<1> QED BY <1>1, <1>2 DEF AskInv, Progress

LEMMA RunReactionAsked ==
  ASSUME IInv, AskInv, NEW c \in Creatures, NEW kind \in {"attack", "move"},
         RunReaction(c, kind)
  PROVE  AskInv'
<1> DEFINE p == Len(kinds')
           frame == [Top EXCEPT !.active = c, !.nested = p]
           f == Front(stack)
<1>1. /\ MayDecide(c) /\ RecordDecision(c)
      /\ kinds' = Append(kinds, kind)
      /\ call' = Run(p, NoTrigger, TRUE)
      /\ stack' = ReplaceAt(stack, Len(stack), frame)
  BY DEF RunReaction, React, StartProcedure
<1>2. /\ stack # <<>> /\ Top \in Checkpoint /\ c \in Unoffered(Top)
      /\ Room(f, Top.of, kinds, windows')
      /\ Passed(Top.of, Top.trigger, kinds, windows')
      /\ OnlyAsked(Top, Top.offered \cup {c}, windows')
      /\ WindowsAsked(kinds, windows') /\ windows' \in Windows
  BY <1>1, DecidedAsked
<1>3. /\ kinds \in Seq(Kinds) /\ Len(kinds) \in Nat /\ kind \in Kinds
      /\ StackSound(stack, kinds) /\ stack \in Seq(Frame)
  BY AskedFacts DEF Kinds, StackSound
<1>4. /\ StackSound(f, kinds) /\ Below(f, kinds, windows')
      /\ \A i \in 1 .. Len(f) : f[i].of # Top.of
      /\ TopReacts(f) => f[Len(f)].nested = Top.of
      /\ FrameSound(Top, kinds)
  BY <1>2, <1>3, Pop DEF Room, Top
<1>5. /\ p = Len(kinds) + 1 /\ p \in Nat
      /\ StackSound(f, kinds')
  BY <1>1, <1>3, <1>4, Grow
<1>6. /\ Extends(kinds, kinds') /\ WindowsAsked(kinds', windows')
      /\ \A w \in 1 .. Len(windows') : windows'[w].of # Len(kinds) + 1
  BY <1>1, <1>2, <1>3, KindsGrow
<1>7. \A i \in 1 .. Len(f) : f[i].of # Len(kinds) + 1
  BY <1>3, <1>4, FreshFrames
<1>8. /\ frame \in Checkpoint /\ frame.tag = "checkpoint"
      /\ frame.of = Top.of /\ frame.trigger = Top.trigger
      /\ frame.window = Top.window /\ frame.offered = Top.offered
      /\ frame.active = c /\ frame.nested = p /\ c # Nobody
      /\ frame.handled = NoTrigger
  <2>1. Top.handled = NoTrigger
    BY <1>1, TopAsked DEF MayDecide, DecisionPending, FrameAsked
  <2> QED BY <1>2, <1>5, <2>1, InterruptAssumption DEF Checkpoint
<1>9. frame \in Frame /\ IsReaction(frame)
  BY <1>8 DEF Frame, IsReaction
<1>10. Top.of \in 1 .. Len(kinds)
  BY <1>4 DEF FrameSound
<1> HIDE DEF frame, f, p
<1>11. stack' = Append(f, frame)
  BY <1>1, <1>2, <1>3, <1>9, ReplaceInPlace DEF f
<1>12. OnlyOf(p, windows', windows')
  BY <1>2, Unchanged
<1>13. \A i \in 1 .. Len(f) : f[i].of # p
  BY <1>5, <1>7
<1>14. Below(f, kinds', windows')
  BY <1>2, <1>4, <1>6, <1>12, <1>13, BelowCarries
<1>15. Passed(Top.of, Top.trigger, kinds', windows')
  BY <1>2, <1>6, <1>10, <1>12, PassedCarries
<1>16. FrameAsked(frame, kinds', windows')
  <2>1. ResumesAfter(frame) = Top.trigger
    BY <1>8 DEF ResumesAfter
  <2> QED BY <1>2, <1>8, <1>15, <2>1 DEF FrameAsked, OnlyAsked
<1>17. Passed(p, NoTrigger, kinds', windows')
  BY <1>5, <1>6, FreshPassed
<1>18. p # Top.of
  BY <1>3, <1>5, <1>10
<1>19. /\ \A i \in 1 .. Len(f) : f[i].of # frame.of /\ f[i].of # frame.nested
       /\ TopReacts(f) => f[Len(f)].nested = frame.of
       /\ frame.of # frame.nested
       /\ Passed(frame.nested, frame.handled, kinds', windows')
  BY <1>4, <1>8, <1>13, <1>17, <1>18
<1>20. Below(stack', kinds', windows') /\ TopPassed(stack', kinds', windows')
  BY <1>5, <1>8, <1>9, <1>11, <1>14, <1>16, <1>19, PushAsked
<1>21. CallAsked(call', stack', kinds', windows')
  <2>1. call'.procedure = p /\ call'.after = NoTrigger
    BY <1>1 DEF Run
  <2>2. /\ Len(stack') = Len(f) + 1 /\ stack'[Len(f) + 1] = frame
        /\ \A i \in 1 .. Len(f) : stack'[i] = f[i]
        /\ Len(f) \in Nat
    <3>1. f \in Seq(Frame)
      BY <1>5 DEF StackSound
    <3> QED BY <3>1, <1>9, <1>11, AppendProperties, LenProperties
  <2>3. \A i \in 1 .. Len(stack') : stack'[i].of # p
    <3> TAKE i \in 1 .. Len(stack')
    <3>1. CASE i \in 1 .. Len(f)
      BY <3>1, <2>2, <1>13
    <3>2. CASE i = Len(f) + 1
      BY <3>2, <2>2, <1>8, <1>18
    <3> QED BY <3>1, <3>2, <2>2
  <2>4. stack'[Len(stack')].nested = p
    BY <2>2, <1>8
  <2> QED BY <1>17, <2>1, <2>3, <2>4 DEF CallAsked
<1> QED BY <1>6, <1>20, <1>21 DEF AskInv

LEMMA AnswerReactionAsked ==
  ASSUME IInv, AskInv, AnswerReaction
  PROVE  AskInv'
<1>1. /\ stack # <<>> /\ IsReaction(Top)
      /\ call' = Run(Top.nested, Top.handled, TRUE)
      /\ UNCHANGED <<stack, kinds, windows>>
  BY DEF AnswerReaction, ReactionPending
<1>2. /\ \A i \in 1 .. Len(stack) : stack[i].of # Top.nested
      /\ Passed(Top.nested, Top.handled, kinds, windows)
  BY <1>1, TopAsked
<1>3. call'.procedure = Top.nested /\ call'.after = Top.handled
  BY <1>1 DEF Run
<1>4. CallAsked(call', stack, kinds, windows)
  BY <1>2, <1>3 DEF CallAsked, Top
<1> QED BY <1>1, <1>4, CallOnly

LEMMA AnswerFrameAsked ==
  ASSUME IInv, AskInv, AnswerFrame
  PROVE  AskInv'
<1>1. /\ stack # <<>> /\ Top.tag \in {"replay", "save"}
      /\ stack' = Front(stack)
      /\ call' = Run(Top.of, IF Top.tag = "save" THEN "attackDamage"
                             ELSE Top.handled, FALSE)
      /\ kinds' = kinds /\ windows' = windows
  BY DEF AnswerFrame
<1>2. Room(stack', Top.of, kinds, windows)
  BY <1>1, TopAsked
<1>3. FrameAsked(Top, kinds, windows) /\ TopPassed(stack', kinds, windows)
  BY <1>1, TopAsked
<1>4. Passed(Top.of, ResumesAfter(Top), kinds, windows)
  BY <1>3 DEF FrameAsked
<1>5. call'.procedure = Top.of /\ call'.after = ResumesAfter(Top)
  BY <1>1 DEF Run, ResumesAfter
<1>6. CallAsked(call', stack', kinds, windows)
  BY <1>2, <1>4, <1>5 DEF CallAsked, Room
<1>7. Below(stack', kinds, windows) /\ WindowsAsked(kinds, windows)
  BY <1>2, AskedFacts DEF Room
<1> QED BY <1>1, <1>3, <1>6, <1>7 DEF AskInv

LEMMA EndTurnAsked ==
  ASSUME IInv, AskInv, NEW c \in Creatures, EndTurn(c)
  PROVE  AskInv'
<1>1. UNCHANGED <<stack, kinds, windows, call>>
  BY DEF EndTurn
<1> QED BY <1>1 DEF AskInv

\* What the invariant says of the stack, the call and the windows is kept by
\* every step.
THEOREM AskInvariant == Spec => []AskInv
<1>1. Init => AskInv
  BY InitAsked
<1>2. IInv /\ AskInv /\ [Next]_vars => AskInv'
  <2> SUFFICES ASSUME IInv, AskInv, [Next]_vars
               PROVE  AskInv'
    OBVIOUS
  <2>1. CASE \E kind \in {"attack", "move"} : BeginAct(kind)
    BY <2>1, BeginActAsked
  <2>2. ASSUME NEW c \in Creatures,
               \/ ReportReadyTrigger(c) \/ Decline(c) \/ Modify(c)
               \/ \E kind \in {"attack", "move"} : RunReaction(c, kind)
               \/ EndTurn(c)
        PROVE  AskInv'
    BY <2>2, ReportReadyTriggerAsked, DeclineAsked, ModifyAsked,
       RunReactionAsked, EndTurnAsked
  <2>3. CASE AnswerReaction
    BY <2>3, AnswerReactionAsked
  <2>4. CASE AnswerFrame
    BY <2>4, AnswerFrameAsked
  <2>5. CASE CompleteResolved
    BY <2>5, CompleteResolvedAsked
  <2>6. CASE Resolve
    BY <2>6, ResolveAsked
  <2>7. CASE \E trigger \in Triggers, audience \in SUBSET Creatures :
                OpenWindow(trigger, audience)
    BY <2>7, OpenWindowAsked
  <2>8. CASE NeedInput
    BY <2>8, NeedInputAsked
  <2>9. CASE NeedSave
    BY <2>9, NeedSaveAsked
  <2>10. CASE UNCHANGED vars
    BY <2>10 DEF vars, AskInv
  <2> QED
    BY <2>1, <2>2, <2>3, <2>4, <2>5, <2>6, <2>7, <2>8, <2>9, <2>10
       DEF Next, FromTheTable, WithinACall
<1> QED BY <1>1, <1>2, InterruptInvariant, PTL DEF Spec

\* A procedure stops once for each event, and in each window every creature
\* decides once, for any nesting and any number of inputs in between.
THEOREM EachEventAskedOnce == Spec => []AskedOnce
<1>1. IInv /\ AskInv => AskedOnce
  <2> SUFFICES ASSUME IInv, AskInv
               PROVE  AskedOnce
    OBVIOUS
  <2>1. windows \in Windows /\ WindowsAsked(kinds, windows)
    BY AskedFacts
  <2>2. DOMAIN windows = 1 .. Len(windows)
    BY <2>1, LenProperties DEF Windows
  <2> QED BY <2>1, <2>2 DEF WindowsAsked, AskedOnce
<1> QED BY <1>1, InterruptInvariant, AskInvariant, PTL

-----------------------------------------------------------------------------
(***************************************************************************)
(* Nesting.  Read off the stack, the procedures in progress are those the  *)
(* frames interrupt, in order, and the innermost.  Where no attack made as *)
(* a Reaction forces a save, a frame that waits for input is alone on the  *)
(* stack, so that a procedure the lifecycle did not ask for runs over an   *)
(* empty one and resolves no Reaction behind its back.                     *)
(***************************************************************************)
Interrupted(s) == [i \in 1 .. Len(s) |-> s[i].of]

InProgress(s, step) ==
  CASE step.do = "run" -> Append(Interrupted(s), step.procedure)
    [] step.do = "wait" /\ TopReacts(s) ->
         Append(Interrupted(s), s[Len(s)].nested)
    [] OTHER -> Interrupted(s)

Checkpoints(s) == \A i \in 1 .. Len(s) : s[i].tag = "checkpoint"

Lone(s, step) ==
  /\ Checkpoints(s) \/ Len(s) = 1
  /\ step.do = "run" => Checkpoints(s) /\ (~step.completes => s = <<>>)

LEMMA ReadOff ==
  OpenProcedures = InProgress(stack, call)
BY DEF OpenProcedures, InProgress, Interrupted, ReactionPending, TopReacts, Top

LEMMA InterruptedTyped ==
  ASSUME NEW s \in Seq(Frame)
  PROVE  /\ Interrupted(s) \in Seq(Nat) /\ Len(Interrupted(s)) = Len(s)
         /\ \A i \in 1 .. Len(s) : Interrupted(s)[i] = s[i].of
<1>1. Len(s) \in Nat
  BY LenProperties
<1>2. \A i \in 1 .. Len(s) : s[i].of \in Nat
  <2> TAKE i \in 1 .. Len(s)
  <2>1. s[i] \in Frame
    BY ElementOfSeq
  <2> QED BY <2>1 DEF Frame, Checkpoint, Replay, Save
<1> QED BY <1>1, <1>2 DEF Interrupted

LEMMA InterruptedPush ==
  ASSUME NEW s \in Seq(Frame), NEW frame \in Frame
  PROVE  /\ Interrupted(Append(s, frame)) = Append(Interrupted(s), frame.of)
         /\ frame.tag = "checkpoint" /\ Checkpoints(s)
              => Checkpoints(Append(s, frame))
<1> DEFINE t == Append(s, frame)
           a == Interrupted(t)
           o == Interrupted(s)
           b == Append(o, frame.of)
<1>1. /\ t \in Seq(Frame) /\ Len(t) = Len(s) + 1 /\ t[Len(s) + 1] = frame
      /\ \A i \in 1 .. Len(s) : t[i] = s[i]
      /\ Len(s) \in Nat
  BY AppendProperties, LenProperties
<1>2. /\ o \in Seq(Nat) /\ Len(o) = Len(s)
      /\ \A i \in 1 .. Len(s) : o[i] = s[i].of
  BY InterruptedTyped
<1> HIDE DEF t
<1>3. /\ a \in Seq(Nat) /\ Len(a) = Len(t)
      /\ \A i \in 1 .. Len(t) : a[i] = t[i].of
  BY <1>1, InterruptedTyped
<1>4. frame.of \in Nat
  BY DEF Frame, Checkpoint, Replay, Save
<1> HIDE DEF a, o
<1>5. /\ b \in Seq(Nat) /\ Len(b) = Len(o) + 1 /\ b[Len(o) + 1] = frame.of
      /\ \A i \in 1 .. Len(o) : b[i] = o[i]
  BY <1>2, <1>4, AppendProperties
<1> HIDE DEF b
<1>6. \A i \in 1 .. Len(t) : i \in 1 .. Len(s) \/ i = Len(s) + 1
  BY <1>1
<1>7. \A i \in 1 .. Len(a) : a[i] = b[i]
  <2> TAKE i \in 1 .. Len(a)
  <2>1. CASE i \in 1 .. Len(s)
    BY <2>1, <1>1, <1>2, <1>3, <1>5
  <2>2. CASE i = Len(s) + 1
    BY <2>2, <1>1, <1>2, <1>3, <1>5
  <2> QED BY <2>1, <2>2, <1>3, <1>6
<1>8. a = b
  BY <1>1, <1>2, <1>3, <1>5, <1>7, SeqEqual
<1>9. frame.tag = "checkpoint" /\ Checkpoints(s) => Checkpoints(t)
  BY <1>1, <1>6 DEF Checkpoints
<1> QED BY <1>8, <1>9 DEF a, b, o, t

LEMMA InterruptedPop ==
  ASSUME NEW s \in Seq(Frame), s # <<>>
  PROVE  /\ Interrupted(s) = Append(Interrupted(Front(s)), s[Len(s)].of)
         /\ Checkpoints(s) => Checkpoints(Front(s))
         /\ Len(s) = 1 => Front(s) = <<>>
<1> DEFINE t == Front(s)
           a == Interrupted(s)
           o == Interrupted(t)
           last == s[Len(s)].of
           b == Append(o, last)
<1>1. /\ t \in Seq(Frame) /\ Len(t) = Len(s) - 1 /\ Len(s) \in Nat \ {0}
      /\ \A i \in 1 .. Len(s) - 1 : t[i] = s[i]
  BY FrontFacts
<1> HIDE DEF t
<1>2. /\ o \in Seq(Nat) /\ Len(o) = Len(t)
      /\ \A i \in 1 .. Len(t) : o[i] = t[i].of
  BY <1>1, InterruptedTyped
<1>3. /\ a \in Seq(Nat) /\ Len(a) = Len(s)
      /\ \A i \in 1 .. Len(s) : a[i] = s[i].of
  BY InterruptedTyped
<1>4. last \in Nat /\ a[Len(s)] = last
  <2>1. s[Len(s)] \in Frame
    BY <1>1, ElementOfSeq
  <2> QED BY <2>1, <1>1, <1>3 DEF Frame, Checkpoint, Replay, Save
<1> HIDE DEF a, o, last
<1>5. /\ b \in Seq(Nat) /\ Len(b) = Len(o) + 1 /\ b[Len(o) + 1] = last
      /\ \A i \in 1 .. Len(o) : b[i] = o[i]
  BY <1>2, <1>4, AppendProperties
<1> HIDE DEF b
<1>6. \A i \in 1 .. Len(s) : i \in 1 .. Len(t) \/ i = Len(s)
  BY <1>1
<1>7. \A i \in 1 .. Len(a) : a[i] = b[i]
  <2> TAKE i \in 1 .. Len(a)
  <2>1. CASE i \in 1 .. Len(t)
    BY <2>1, <1>1, <1>2, <1>3, <1>5
  <2>2. CASE i = Len(s)
    BY <2>2, <1>1, <1>2, <1>4, <1>5
  <2> QED BY <2>1, <2>2, <1>3, <1>6
<1>8. a = b
  BY <1>1, <1>2, <1>3, <1>5, <1>7, SeqEqual
<1>9. Checkpoints(s) => Checkpoints(t)
  BY <1>1 DEF Checkpoints
<1>10. Len(s) = 1 => t = <<>>
  BY <1>1, EmptySeq
<1> QED BY <1>8, <1>9, <1>10 DEF a, b, o, t, last

\* What a closing window leaves on a Reaction below changes no procedure.
LEMMA InterruptedRecord ==
  ASSUME NEW s \in Seq(Frame), NEW trigger \in Triggers
  PROVE  /\ Interrupted(RecordHandled(s, trigger)) = Interrupted(s)
         /\ Checkpoints(s) => Checkpoints(RecordHandled(s, trigger))
<1>1. CASE s # <<>> /\ IsReaction(Last(s))
  <2> DEFINE frame == [Last(s) EXCEPT !.handled = trigger]
             f == Front(s)
  <2>1. Last(s) = s[Len(s)] /\ Len(s) \in 1 .. Len(s)
    BY <1>1, EmptySeq DEF Last
  <2>2. Last(s) \in Frame
    BY <2>1, ElementOfSeq
  <2>3. Last(s) \in Checkpoint
    BY <1>1, <2>2 DEF Frame, Checkpoint, Replay, Save, IsReaction
  <2>4. /\ frame \in Frame /\ frame.tag = "checkpoint"
        /\ frame.of = Last(s).of
    BY <2>3 DEF Checkpoint, Frame
  <2>5. RecordHandled(s, trigger) = Append(f, frame)
    BY <1>1, <2>4, ReplaceInPlace DEF RecordHandled
  <2> HIDE DEF frame
  <2>6. f \in Seq(Frame)
    BY <1>1, FrontFacts
  <2>7. /\ Interrupted(s) = Append(Interrupted(f), Last(s).of)
        /\ Checkpoints(s) => Checkpoints(f)
    BY <1>1, <2>1, InterruptedPop
  <2> HIDE DEF f
  <2>8. /\ Interrupted(Append(f, frame)) = Append(Interrupted(f), frame.of)
        /\ Checkpoints(f) => Checkpoints(Append(f, frame))
    BY <2>4, <2>6, InterruptedPush
  <2> QED BY <2>4, <2>5, <2>7, <2>8
<1>2. CASE ~(s # <<>> /\ IsReaction(Last(s)))
  BY <1>2 DEF RecordHandled
<1> QED BY <1>1, <1>2

\* Only the frame on top can be one that waits for input.
LEMMA LoneCheckpoints ==
  ASSUME NEW s \in Seq(Frame), NEW step, Lone(s, step),
         s = <<>> \/ s[Len(s)].tag = "checkpoint"
  PROVE  Checkpoints(s)
<1>1. CASE Len(s) = 1
  <2>1. s # <<>>
    BY <1>1, EmptySeq
  <2> QED BY <1>1, <2>1 DEF Checkpoints
<1> QED BY <1>1 DEF Lone

LEMMA ReadOffNext ==
  OpenProcedures' = InProgress(stack', call')
BY DEF OpenProcedures, InProgress, Interrupted, ReactionPending, TopReacts, Top

\* Closing a checkpoint lets the procedure it interrupted go on.
LEMMA CloseNests ==
  ASSUME NEW frame \in Checkpoint, stack \in Seq(Frame), stack # <<>>,
         Checkpoints(stack), frame.of = Top.of, Close(frame)
  PROVE  /\ Lone(stack', call')
         /\ InProgress(stack', call') = Interrupted(stack)
<1> DEFINE f == Front(stack)
<1>1. /\ stack' = RecordHandled(f, frame.trigger)
      /\ call' = Run(frame.of, frame.trigger, TRUE)
      /\ frame.trigger \in Triggers
  BY DEF Close, Checkpoint
<1>2. /\ f \in Seq(Frame) /\ Checkpoints(f)
      /\ Interrupted(stack) = Append(Interrupted(f), Top.of)
  BY FrontFacts, InterruptedPop DEF Top
<1> HIDE DEF f
<1>3. Interrupted(stack') = Interrupted(f) /\ Checkpoints(stack')
  BY <1>1, <1>2, InterruptedRecord
<1>4. call'.do = "run" /\ call'.completes = TRUE /\ call'.procedure = Top.of
  BY <1>1 DEF Run
<1>5. InProgress(stack', call') = Append(Interrupted(stack'), Top.of)
  BY <1>4 DEF InProgress
<1> QED BY <1>2, <1>3, <1>4, <1>5 DEF Lone

\* A decision on top interrupts its procedure and nothing else.
LEMMA DecisionNests ==
  ASSUME NEW s \in Seq(Frame), NEW frame \in Checkpoint, NEW step,
         frame.active = Nobody, Checkpoints(s), step.do # "run"
  PROVE  /\ Lone(Append(s, frame), step)
         /\ InProgress(Append(s, frame), step)
              = Append(Interrupted(s), frame.of)
<1>1. frame \in Frame /\ frame.tag = "checkpoint" /\ ~IsReaction(frame)
  BY DEF Frame, Checkpoint, IsReaction
<1> DEFINE t == Append(s, frame)
<1>2. Interrupted(t) = Append(Interrupted(s), frame.of) /\ Checkpoints(t)
  BY <1>1, InterruptedPush
<1>3. Len(t) = Len(s) + 1 /\ t[Len(s) + 1] = frame
  BY <1>1, AppendProperties
<1> HIDE DEF t
<1>4. ~TopReacts(t)
  BY <1>1, <1>3 DEF TopReacts
<1>5. InProgress(t, step) = Interrupted(t)
  BY <1>4 DEF InProgress
<1> QED BY <1>2, <1>5 DEF Lone, t

LEMMA AdvanceNests ==
  ASSUME NEW c \in Creatures, Top \in Checkpoint, stack \in Seq(Frame),
         stack # <<>>, Checkpoints(stack), Advance(Top, c)
  PROVE  /\ Lone(stack', call')
         /\ InProgress(stack', call') = Interrupted(stack)
<1> DEFINE done == [Top EXCEPT !.active = Nobody, !.nested = 0,
                               !.handled = NoTrigger, !.offered = @ \cup {c}]
           f == Front(stack)
<1>1. done \in Checkpoint /\ done.of = Top.of /\ done.active = Nobody
  BY DEF Checkpoint
<1>2. CASE Unoffered(done) = {}
  <2>1. Close(done)
    BY <1>2 DEF Advance
  <2> HIDE DEF done
  <2> QED BY <1>1, <2>1, CloseNests
<1>3. CASE Unoffered(done) # {}
  <2>1. stack' = Append(f, done) /\ call' = Complete
    BY <1>3 DEF Advance
  <2>2. /\ f \in Seq(Frame) /\ Checkpoints(f)
        /\ Interrupted(stack) = Append(Interrupted(f), Top.of)
    BY FrontFacts, InterruptedPop DEF Top
  <2>3. call'.do # "run"
    BY <2>1 DEF Complete
  <2> HIDE DEF done, f
  <2> QED BY <1>1, <2>1, <2>2, <2>3, DecisionNests
<1> QED BY <1>2, <1>3

LEMMA ReconcileNests ==
  ASSUME Top \in Checkpoint, stack \in Seq(Frame), stack # <<>>,
         Checkpoints(stack), IsDecision(Top), Reconcile(Top)
  PROVE  /\ Lone(stack', call')
         /\ InProgress(stack', call') = Interrupted(stack)
<1> DEFINE frame == [Top EXCEPT !.eligible = OpenChoices(Top)]
           f == Front(stack)
<1>1. OpenChoices(Top) \in SUBSET Creatures
  BY DEF OpenChoices, Able
<1>2. frame \in Checkpoint /\ frame.of = Top.of /\ frame.active = Nobody
  BY <1>1 DEF Checkpoint, IsDecision
<1>3. CASE OpenChoices(Top) = {}
  <2>1. Close(Top)
    BY <1>3 DEF Reconcile
  <2> QED BY <2>1, CloseNests
<1>4. CASE OpenChoices(Top) # {}
  <2>1. stack' = Append(f, frame) /\ call' = Wait
    BY <1>4 DEF Reconcile
  <2>2. /\ f \in Seq(Frame) /\ Checkpoints(f)
        /\ Interrupted(stack) = Append(Interrupted(f), Top.of)
    BY FrontFacts, InterruptedPop DEF Top
  <2>3. call'.do # "run"
    BY <2>1 DEF Wait
  <2> HIDE DEF frame, f
  <2> QED BY <1>2, <2>1, <2>2, <2>3, DecisionNests
<1> QED BY <1>3, <1>4

-----------------------------------------------------------------------------
\* What a step of the stack is to the procedures in progress.
Stutters ==
  OpenProcedures' = OpenProcedures /\ ended' = ended /\ Len(kinds') = Len(kinds)

Nests == Lone(stack', call') /\ (Stutters \/ Nesting!Start \/ Nesting!End)

\* The procedures in progress when the table is waited for.
LEMMA WaitingOpen ==
  ASSUME call = Wait \/ call = Complete, ~TopReacts(stack)
  PROVE  OpenProcedures = Interrupted(stack)
<1>1. call.do = "wait" \/ call.do = "complete"
  BY DEF Wait, Complete
<1>2. InProgress(stack, call) = Interrupted(stack)
  BY <1>1 DEF InProgress
<1> QED BY <1>2, ReadOff

LEMMA StackFacts ==
  ASSUME IInv, AskInv
  PROVE  /\ stack \in Seq(Frame) /\ Sound
         /\ stack # <<>> => FrameSound(Top, kinds)
         /\ stack # <<>> /\ Top.tag = "checkpoint" => Top \in Checkpoint
BY AskedFacts, TopAsked DEF StackSound

LEMMA CompleteResolvedNests ==
  ASSUME IInv, AskInv, Lone(stack, call), CompleteResolved
  PROVE  Nests
<1>1. /\ call = Complete /\ ended' = ended /\ kinds' = kinds
      /\ call.do = "complete"
  BY DEF CompleteResolved, Complete
<1>2. OpenProcedures = Interrupted(stack)
  <2>1. InProgress(stack, call) = Interrupted(stack)
    BY <1>1 DEF InProgress
  <2> QED BY <2>1, ReadOff
<1>3. CASE ReactionPending
  <2>1. /\ stack # <<>> /\ IsReaction(Top) /\ Top.tag = "checkpoint"
        /\ Advance(Top, Top.active)
    BY <1>3 DEF CompleteResolved, ReactionPending, IsReaction
  <2>2. Top \in Checkpoint /\ stack \in Seq(Frame)
    BY <2>1, StackFacts
  <2>3. Checkpoints(stack)
    BY <2>1, <2>2, LoneCheckpoints DEF Top
  <2>4. Top.active \in Creatures
    BY <2>1, <2>2 DEF Checkpoint, IsReaction
  <2>5. /\ Lone(stack', call')
        /\ InProgress(stack', call') = Interrupted(stack)
    BY <2>1, <2>2, <2>3, <2>4, AdvanceNests
  <2> QED BY <1>1, <1>2, <2>5, ReadOffNext DEF Nests, Stutters
<1>4. CASE ~ReactionPending /\ DecisionPending
  <2>1. /\ stack # <<>> /\ IsDecision(Top) /\ Top.tag = "checkpoint"
        /\ Reconcile(Top)
    BY <1>4 DEF CompleteResolved, DecisionPending, IsDecision
  <2>2. Top \in Checkpoint /\ stack \in Seq(Frame)
    BY <2>1, StackFacts
  <2>3. Checkpoints(stack)
    BY <2>1, <2>2, LoneCheckpoints DEF Top
  <2>4. /\ Lone(stack', call')
        /\ InProgress(stack', call') = Interrupted(stack)
    BY <2>1, <2>2, <2>3, ReconcileNests
  <2> QED BY <1>1, <1>2, <2>4, ReadOffNext DEF Nests, Stutters
<1>5. CASE ~ReactionPending /\ ~DecisionPending
  <2>1. call' = Wait /\ stack' = stack
    BY <1>5 DEF CompleteResolved
  <2>2. ~TopReacts(stack) /\ call'.do = "wait"
    BY <1>5, <2>1 DEF ReactionPending, TopReacts, Top, Wait
  <2>3. InProgress(stack', call') = Interrupted(stack)
    BY <2>1, <2>2 DEF InProgress
  <2>4. Lone(stack', call')
    BY <2>1, <2>2 DEF Lone
  <2> QED BY <1>1, <1>2, <2>3, <2>4, ReadOffNext DEF Nests, Stutters
<1> QED BY <1>3, <1>4, <1>5

\* The innermost procedure is the one that resolves.
LEMMA ResolveNests ==
  ASSUME IInv, AskInv, Lone(stack, call), Resolve
  PROVE  Nests
<1> DEFINE o == Interrupted(stack)
           p == call.procedure
           open == Append(o, p)
<1>1. /\ call.do = "run" /\ stack' = stack /\ kinds' = kinds
      /\ ended' = ended \cup {p}
      /\ call' = IF call.completes THEN Complete ELSE Wait
  BY DEF Resolve
<1>2. call'.do # "run" /\ (call'.do = "wait" => ~call.completes)
  BY <1>1 DEF Complete, Wait
<1>3. Lone(stack', call')
  BY <1>1, <1>2 DEF Lone
<1>4. OpenProcedures = open
  <2>1. InProgress(stack, call) = open
    BY <1>1 DEF InProgress
  <2> QED BY <2>1, ReadOff
<1>5. OpenProcedures' = o
  <2>1. ~(call'.do = "wait" /\ TopReacts(stack'))
    BY <1>1, <1>2 DEF Lone, TopReacts
  <2>2. InProgress(stack', call') = o
    BY <1>1, <1>2, <2>1 DEF InProgress
  <2> QED BY <2>2, ReadOffNext
<1>6. o \in Seq(Nat) /\ p \in Nat
  <2>1. p \in 1 .. Len(kinds) /\ Len(kinds) \in Nat
    BY <1>1, RunRoom, AskedFacts
  <2> QED BY <2>1, StackFacts, InterruptedTyped
<1> HIDE DEF o, p
<1>7. /\ open # <<>> /\ open[Len(open)] = p
      /\ SubSeq(open, 1, Len(open) - 1) = o
  <2>1. /\ open \in Seq(Nat) /\ Len(open) = Len(o) + 1
        /\ open[Len(o) + 1] = p /\ Len(o) \in Nat
        /\ \A i \in 1 .. Len(o) : open[i] = o[i]
    BY <1>6, AppendProperties, LenProperties
  <2> HIDE DEF open
  <2>2. open # <<>>
    BY <2>1, EmptySeq
  <2> DEFINE f == Front(open)
  <2>3. /\ f \in Seq(Nat) /\ Len(f) = Len(o)
        /\ \A i \in 1 .. Len(o) : f[i] = o[i]
    BY <2>1, <2>2, FrontFacts
  <2> HIDE DEF f
  <2>4. f = o
    BY <1>6, <2>3, SeqEqual
  <2> QED BY <2>1, <2>2, <2>4 DEF Front, f
<1> HIDE DEF open
<1>8. Nesting!End
  BY <1>1, <1>4, <1>5, <1>7 DEF Nesting!End
<1> QED BY <1>3, <1>8 DEF Nests

\* The procedures in progress while one runs.
LEMMA RunningOpen ==
  ASSUME IInv, AskInv, Lone(stack, call), call.do = "run"
  PROVE  /\ OpenProcedures = Append(Interrupted(stack), call.procedure)
         /\ stack \in Seq(Frame) /\ Checkpoints(stack)
         /\ call.procedure \in 1 .. Len(kinds) /\ Len(kinds) \in Nat
         /\ TopReacts(stack) => stack[Len(stack)].nested = call.procedure
<1>1. InProgress(stack, call) = Append(Interrupted(stack), call.procedure)
  BY DEF InProgress
<1>2. call.procedure \in 1 .. Len(kinds) /\ Len(kinds) \in Nat
  BY RunRoom, AskedFacts
<1>3. TopReacts(stack) => stack[Len(stack)].nested = call.procedure
  BY RunRoom DEF Room
<1> QED BY <1>1, <1>2, <1>3, ReadOff, StackFacts DEF Lone

LEMMA OpenWindowNests ==
  ASSUME IInv, AskInv, Lone(stack, call), NEW trigger \in Triggers,
         NEW audience \in SUBSET Creatures, OpenWindow(trigger, audience)
  PROVE  Nests
<1> DEFINE eligible == {c \in audience : c \notin spent \cup down'}
           frame == Opened(call.procedure, trigger, audience, eligible)
<1>1. /\ call.do = "run" /\ stack' = Append(stack, frame)
      /\ kinds' = kinds /\ ended' = ended /\ call' = Wait
  BY DEF OpenWindow, Opened
<1>2. /\ OpenProcedures = Append(Interrupted(stack), call.procedure)
      /\ stack \in Seq(Frame) /\ Checkpoints(stack)
      /\ call.procedure \in 1 .. Len(kinds) /\ Len(kinds) \in Nat
  BY <1>1, RunningOpen
<1>3. frame \in Checkpoint /\ frame.of = call.procedure /\ frame.active = Nobody
  <2>1. Len(windows) \in Nat
    BY AskedFacts
  <2> QED BY <1>2, <2>1 DEF Opened, Checkpoint
<1> HIDE DEF frame
<1>4. call'.do # "run"
  BY <1>1 DEF Wait
<1>5. /\ Lone(stack', call')
      /\ InProgress(stack', call') = Append(Interrupted(stack), frame.of)
  BY <1>1, <1>2, <1>3, <1>4, DecisionNests
<1> QED BY <1>1, <1>2, <1>3, <1>5, ReadOffNext DEF Nests, Stutters

\* A frame that waits for input is put on an empty stack.
LEMMA HoldNests ==
  ASSUME NEW s, NEW frame \in Replay \cup Save, NEW step, s = <<>>, step = Wait
  PROVE  /\ Lone(Append(s, frame), step)
         /\ InProgress(Append(s, frame), step)
              = Append(Interrupted(s), frame.of)
<1> DEFINE t == Append(s, frame)
<1>1. frame \in Frame /\ ~IsReaction(frame) /\ s \in Seq(Frame) /\ Len(s) = 0
  BY EmptySeq DEF Frame, Replay, Save, IsReaction
<1>2. Interrupted(t) = Append(Interrupted(s), frame.of)
  BY <1>1, InterruptedPush
<1>7. Len(t) = Len(s) + 1 /\ t[Len(s) + 1] = frame
  BY <1>1, AppendProperties
<1> HIDE DEF t
<1>3. ~TopReacts(t)
  BY <1>1, <1>7 DEF TopReacts
<1>4. step.do = "wait"
  BY DEF Wait
<1>5. InProgress(t, step) = Interrupted(t)
  BY <1>3, <1>4 DEF InProgress
<1>6. Lone(t, step)
  BY <1>1, <1>7, <1>4 DEF Lone
<1> QED BY <1>2, <1>5, <1>6 DEF t

LEMMA NeedInputNests ==
  ASSUME IInv, AskInv, Lone(stack, call), NeedInput
  PROVE  Nests
<1> DEFINE p == call.procedure
           frame == [tag |-> "replay", of |-> p, handled |-> call.after]
<1>1. /\ call.do = "run" /\ kinds[p] # "report" /\ call.completes
      /\ call' = Wait /\ call'.do = "wait" /\ kinds' = kinds /\ ended' = ended
  BY DEF NeedInput, Wait
<1>2. /\ OpenProcedures = Append(Interrupted(stack), p)
      /\ stack \in Seq(Frame) /\ Checkpoints(stack)
      /\ p \in 1 .. Len(kinds) /\ Len(kinds) \in Nat
      /\ TopReacts(stack) => stack[Len(stack)].nested = p
  BY <1>1, RunningOpen
<1>3. CASE ReactionPending /\ Top.nested = p
  <2>1. stack' = stack
    BY <1>3 DEF NeedInput
  <2>2. TopReacts(stack) /\ stack[Len(stack)].nested = p
    BY <1>3 DEF ReactionPending, TopReacts, Top
  <2>3. InProgress(stack', call') = Append(Interrupted(stack), p)
    BY <1>1, <2>1, <2>2 DEF InProgress
  <2>4. Lone(stack', call')
    BY <1>1, <1>2, <2>1 DEF Lone
  <2> QED BY <1>1, <1>2, <2>3, <2>4, ReadOffNext DEF Nests, Stutters
<1>4. CASE ~(ReactionPending /\ Top.nested = p)
  <2>1. stack' = Append(stack, frame) /\ call.after \in {NoTrigger, "attackHit"}
    BY <1>4 DEF NeedInput
  <2>2. ~TopReacts(stack)
    BY <1>2, <1>4 DEF TopReacts, ReactionPending, Top
  <2>3. ~TopDecides(stack) /\ call.after # NoTrigger
    BY <1>1, <2>2, StackFacts DEF Sound, CallSound, TopReacts
  <2>4. stack = <<>>
    <3>1. ASSUME stack # <<>>
          PROVE  FALSE
      <4>1. Len(stack) \in 1 .. Len(stack)
        BY <1>2, <3>1, EmptySeq
      <4>2. stack[Len(stack)].tag = "checkpoint"
        BY <4>1, <1>2 DEF Checkpoints
      <4> QED BY <3>1, <4>2, <2>2, <2>3
              DEF TopReacts, TopDecides, IsReaction, IsDecision
    <3> QED BY <3>1
  <2>5. frame \in Replay /\ frame.of = p
    BY <1>2, <2>1, <2>3 DEF Replay, Triggers
  <2> HIDE DEF frame, p
  <2>6. /\ Lone(stack', call')
        /\ InProgress(stack', call') = Append(Interrupted(stack), p)
    BY <1>1, <2>1, <2>4, <2>5, HoldNests
  <2> QED BY <1>1, <1>2, <2>6, ReadOffNext DEF Nests, Stutters
<1> QED BY <1>3, <1>4

LEMMA NeedSaveNests ==
  ASSUME IInv, AskInv, Lone(stack, call), ~NestedSaves, NeedSave
  PROVE  Nests
<1> DEFINE p == call.procedure
           frame == [tag |-> "save", of |-> p]
<1>1. /\ call.do = "run" /\ stack = <<>> /\ stack' = Append(stack, frame)
      /\ call' = Wait /\ kinds' = kinds /\ ended' = ended
  BY DEF NeedSave
<1>2. /\ OpenProcedures = Append(Interrupted(stack), p)
      /\ p \in 1 .. Len(kinds) /\ Len(kinds) \in Nat
  BY <1>1, RunningOpen
<1>3. frame \in Save /\ frame.of = p
  BY <1>2 DEF Save
<1> HIDE DEF frame, p
<1>4. /\ Lone(stack', call')
      /\ InProgress(stack', call') = Append(Interrupted(stack), p)
  BY <1>1, <1>3, HoldNests
<1> QED BY <1>1, <1>2, <1>4, ReadOffNext DEF Nests, Stutters

LEMMA BeginActNests ==
  ASSUME IInv, AskInv, NEW kind \in {"attack", "move"}, BeginAct(kind)
  PROVE  Nests
<1>1. /\ call = Wait /\ stack = <<>> /\ stack' = stack /\ ended' = ended
      /\ kinds' = Append(kinds, kind)
      /\ call' = Run(Len(kinds'), NoTrigger, FALSE)
  BY DEF BeginAct, StartProcedure, Waiting
<1>2. Len(kinds') = Len(kinds) + 1
  <2>1. kinds \in Seq(Kinds) /\ kind \in Kinds
    BY AskedFacts DEF Kinds
  <2> QED BY <1>1, <2>1, AppendProperties
<1>3. OpenProcedures = Interrupted(stack)
  BY <1>1, WaitingOpen DEF TopReacts
<1>4. call'.do = "run" /\ call'.procedure = Len(kinds')
  BY <1>1 DEF Run
<1>5. InProgress(stack', call') = Append(Interrupted(stack), Len(kinds'))
  BY <1>1, <1>4 DEF InProgress
<1>6. Lone(stack', call')
  BY <1>1, EmptySeq DEF Lone, Checkpoints
<1>7. Nesting!Start
  BY <1>1, <1>2, <1>3, <1>5, ReadOffNext DEF Nesting!Start
<1> QED BY <1>6, <1>7 DEF Nests

LEMMA ReportReadyTriggerNests ==
  ASSUME IInv, AskInv, Lone(stack, call), NEW c \in Creatures,
         ReportReadyTrigger(c)
  PROVE  Nests
<1> DEFINE frame == Opened(Len(kinds'), "reportedReadyTrigger", {c}, {c})
<1>1. /\ kinds' = Append(kinds, "report") /\ stack' = Append(stack, frame)
      /\ ended' = ended /\ call' = call /\ call = Wait /\ MayReport(c)
  BY DEF ReportReadyTrigger, Opened, Waiting
<1>2. /\ ~TopReacts(stack)
      /\ stack = <<>> \/ stack[Len(stack)].tag = "checkpoint"
  BY <1>1 DEF MayReport, DecisionPending, IsDecision, TopReacts, IsReaction, Top
<1>3. stack \in Seq(Frame) /\ Checkpoints(stack)
  BY <1>2, StackFacts, LoneCheckpoints
<1>4. OpenProcedures = Interrupted(stack)
  BY <1>1, <1>2, WaitingOpen
<1>5. /\ Len(kinds') = Len(kinds) + 1 /\ Len(kinds) \in Nat
      /\ Len(windows) \in Nat
  <2>1. /\ kinds \in Seq(Kinds) /\ Len(kinds) \in Nat /\ Len(windows) \in Nat
        /\ "report" \in Kinds
    BY AskedFacts DEF Kinds
  <2> QED BY <1>1, <2>1, AppendProperties
<1>6. frame \in Checkpoint /\ frame.of = Len(kinds') /\ frame.active = Nobody
  BY <1>5 DEF Opened, Checkpoint, Triggers
<1> HIDE DEF frame
<1>7. call'.do # "run"
  BY <1>1 DEF Wait
<1>8. /\ Lone(stack', call')
      /\ InProgress(stack', call') = Append(Interrupted(stack), frame.of)
  BY <1>1, <1>3, <1>6, <1>7, DecisionNests
<1>9. Nesting!Start
  BY <1>1, <1>4, <1>5, <1>6, <1>8, ReadOffNext DEF Nesting!Start
<1> QED BY <1>8, <1>9 DEF Nests

\* A decision is made while the table is waited for.
LEMMA MayDecideFacts ==
  ASSUME IInv, AskInv, Lone(stack, call), NEW c \in Creatures, MayDecide(c)
  PROVE  /\ stack # <<>> /\ Top \in Checkpoint /\ stack \in Seq(Frame)
         /\ Checkpoints(stack) /\ OpenProcedures = Interrupted(stack)
<1>1. call = Wait /\ stack # <<>> /\ Top.tag = "checkpoint" /\ ~TopReacts(stack)
  BY DEF MayDecide, Waiting, DecisionPending, IsDecision, TopReacts, IsReaction,
         Top
<1>2. Top \in Checkpoint /\ stack \in Seq(Frame)
  BY <1>1, StackFacts
<1> QED BY <1>1, <1>2, LoneCheckpoints, WaitingOpen DEF Top

LEMMA DecideNests ==
  ASSUME IInv, AskInv, Lone(stack, call), NEW c \in Creatures, MayDecide(c),
         Advance(Top, c), kinds' = kinds, ended' = ended
  PROVE  Nests
<1>1. /\ stack # <<>> /\ Top \in Checkpoint /\ stack \in Seq(Frame)
      /\ Checkpoints(stack) /\ OpenProcedures = Interrupted(stack)
  BY MayDecideFacts
<1>2. /\ Lone(stack', call')
      /\ InProgress(stack', call') = Interrupted(stack)
  BY <1>1, AdvanceNests
<1> QED BY <1>1, <1>2, ReadOffNext DEF Nests, Stutters

LEMMA RunReactionNests ==
  ASSUME IInv, AskInv, Lone(stack, call), NEW c \in Creatures,
         NEW kind \in {"attack", "move"}, RunReaction(c, kind)
  PROVE  Nests
<1> DEFINE p == Len(kinds')
           frame == [Top EXCEPT !.active = c, !.nested = p]
           f == Front(stack)
<1>1. /\ MayDecide(c) /\ kinds' = Append(kinds, kind) /\ ended' = ended
      /\ call' = Run(p, NoTrigger, TRUE)
      /\ stack' = ReplaceAt(stack, Len(stack), frame)
  BY DEF RunReaction, React, StartProcedure
<1>2. /\ stack # <<>> /\ Top \in Checkpoint /\ stack \in Seq(Frame)
      /\ Checkpoints(stack) /\ OpenProcedures = Interrupted(stack)
  BY <1>1, MayDecideFacts
<1>3. p = Len(kinds) + 1 /\ p \in Nat
  <2>1. kinds \in Seq(Kinds) /\ Len(kinds) \in Nat /\ kind \in Kinds
    BY AskedFacts DEF Kinds
  <2> QED BY <1>1, <2>1, AppendProperties
<1>4. /\ frame \in Frame /\ frame.of = Top.of /\ frame.tag = "checkpoint"
  BY <1>2, <1>3 DEF Checkpoint, Frame
<1>5. stack' = Append(f, frame)
  BY <1>1, <1>2, <1>4, ReplaceInPlace
<1> HIDE DEF frame
<1>6. /\ f \in Seq(Frame) /\ Checkpoints(f)
      /\ Interrupted(stack) = Append(Interrupted(f), Top.of)
  BY <1>2, FrontFacts, InterruptedPop DEF Top
<1> HIDE DEF f
<1>7. Interrupted(stack') = Interrupted(stack) /\ Checkpoints(stack')
  BY <1>4, <1>5, <1>6, InterruptedPush
<1>8. call'.do = "run" /\ call'.procedure = p /\ call'.completes = TRUE
  BY <1>1 DEF Run
<1>9. InProgress(stack', call') = Append(Interrupted(stack), p)
  BY <1>7, <1>8 DEF InProgress
<1>10. Lone(stack', call')
  BY <1>7, <1>8 DEF Lone
<1>11. Nesting!Start
  BY <1>1, <1>2, <1>3, <1>9, ReadOffNext DEF Nesting!Start
<1> QED BY <1>10, <1>11 DEF Nests

LEMMA AnswerReactionNests ==
  ASSUME IInv, AskInv, Lone(stack, call), AnswerReaction
  PROVE  Nests
<1>1. /\ call = Wait /\ TopReacts(stack) /\ stack[Len(stack)].tag = "checkpoint"
      /\ call' = Run(Top.nested, Top.handled, TRUE)
      /\ stack' = stack /\ kinds' = kinds /\ ended' = ended
  BY DEF AnswerReaction, ReactionPending, TopReacts, Top, Waiting, IsReaction
<1>2. Checkpoints(stack)
  BY <1>1, StackFacts, LoneCheckpoints
<1>3. /\ call.do = "wait" /\ call'.do = "run" /\ call'.procedure = Top.nested
      /\ call'.completes = TRUE
  BY <1>1 DEF Run, Wait
<1>4. InProgress(stack, call) = Append(Interrupted(stack), Top.nested)
  BY <1>1, <1>3 DEF InProgress, Top
<1>5. InProgress(stack', call') = Append(Interrupted(stack), Top.nested)
  BY <1>1, <1>3 DEF InProgress
<1>6. Lone(stack', call')
  BY <1>1, <1>2, <1>3 DEF Lone
<1> QED BY <1>1, <1>4, <1>5, <1>6, ReadOff, ReadOffNext DEF Nests, Stutters

LEMMA AnswerFrameNests ==
  ASSUME IInv, AskInv, Lone(stack, call), AnswerFrame
  PROVE  Nests
<1>1. /\ call = Wait /\ stack # <<>> /\ Top.tag \in {"replay", "save"}
      /\ stack' = Front(stack) /\ kinds' = kinds /\ ended' = ended
      /\ call' = Run(Top.of, IF Top.tag = "save" THEN "attackDamage"
                             ELSE Top.handled, FALSE)
  BY DEF AnswerFrame, Waiting
<1>2. call'.do = "run" /\ call'.procedure = Top.of
  BY <1>1 DEF Run
<1>3. stack \in Seq(Frame) /\ ~TopReacts(stack)
  BY <1>1, StackFacts DEF TopReacts, IsReaction, Top
<1>4. Len(stack) = 1
  <2>1. Len(stack) \in 1 .. Len(stack)
    BY <1>1, <1>3, EmptySeq
  <2>2. ~Checkpoints(stack)
    BY <1>1, <2>1 DEF Checkpoints, Top
  <2> QED BY <2>2 DEF Lone
<1>5. /\ Interrupted(stack) = Append(Interrupted(stack'), Top.of)
      /\ stack' = <<>>
  BY <1>1, <1>3, <1>4, InterruptedPop DEF Top
<1>6. OpenProcedures = Interrupted(stack)
  BY <1>1, <1>3, WaitingOpen
<1>7. InProgress(stack', call') = Append(Interrupted(stack'), Top.of)
  BY <1>2 DEF InProgress
<1>8. Lone(stack', call')
  BY <1>5, EmptySeq DEF Lone, Checkpoints
<1> QED BY <1>1, <1>5, <1>6, <1>7, <1>8, ReadOffNext DEF Nests, Stutters

LEMMA EndTurnNests ==
  ASSUME Lone(stack, call), NEW c \in Creatures, EndTurn(c)
  PROVE  Nests
<1>1. stack' = stack /\ call' = call /\ kinds' = kinds /\ ended' = ended
  BY DEF EndTurn
<1> QED BY <1>1, ReadOff, ReadOffNext DEF Nests, Stutters

\* Procedures nest: where no Reaction's attack forces a save, the stack
\* implements the stack of procedures, for any creatures, windows and depth.
THEOREM ProceduresAreNested ==
  ASSUME ~NestedSaves
  PROVE  Spec => ProceduresNest
<1> DEFINE Alone == Lone(stack, call)
<1>1. Init => Alone /\ Nesting!Init
  <2> SUFFICES ASSUME Init
               PROVE  Alone /\ Nesting!Init
    OBVIOUS
  <2>1. stack = <<>> /\ call = Wait /\ ended = {} /\ kinds = <<>>
    BY DEF Init
  <2>2. Alone
    BY <2>1, EmptySeq DEF Lone, Checkpoints, Wait
  <2>3. OpenProcedures = Interrupted(stack)
    BY <2>1, WaitingOpen DEF TopReacts
  <2>4. /\ Interrupted(stack) \in Seq(Nat) /\ Len(Interrupted(stack)) = 0
        /\ Len(kinds) = 0
    BY <2>1, EmptySeq, InterruptedTyped
  <2>5. Interrupted(stack) = <<>>
    BY <2>4, EmptySeq
  <2> QED BY <2>1, <2>2, <2>3, <2>4, <2>5 DEF Nesting!Init
<1>2. IInv /\ AskInv /\ Alone /\ [Next]_vars => Nests
  <2> SUFFICES ASSUME IInv, AskInv, Lone(stack, call), [Next]_vars
               PROVE  Nests
    OBVIOUS
  <2>1. CASE \E kind \in {"attack", "move"} : BeginAct(kind)
    BY <2>1, BeginActNests
  <2>2. ASSUME NEW c \in Creatures,
               \/ ReportReadyTrigger(c) \/ Decline(c) \/ Modify(c)
               \/ \E kind \in {"attack", "move"} : RunReaction(c, kind)
               \/ EndTurn(c)
        PROVE  Nests
    <3>1. CASE Decline(c)
      BY <3>1, DecideNests DEF Decline
    <3>2. CASE Modify(c)
      BY <3>2, DecideNests DEF Modify, React
    <3> QED BY <2>2, <3>1, <3>2, ReportReadyTriggerNests, RunReactionNests,
               EndTurnNests
  <2>3. CASE AnswerReaction
    BY <2>3, AnswerReactionNests
  <2>4. CASE AnswerFrame
    BY <2>4, AnswerFrameNests
  <2>5. CASE CompleteResolved
    BY <2>5, CompleteResolvedNests
  <2>6. CASE Resolve
    BY <2>6, ResolveNests
  <2>7. CASE \E trigger \in Triggers, audience \in SUBSET Creatures :
                OpenWindow(trigger, audience)
    BY <2>7, OpenWindowNests
  <2>8. CASE NeedInput
    BY <2>8, NeedInputNests
  <2>9. CASE NeedSave
    BY <2>9, NeedSaveNests
  <2>10. CASE UNCHANGED vars
    <3>1. stack' = stack /\ call' = call /\ kinds' = kinds /\ ended' = ended
      BY <2>10 DEF vars
    <3> QED BY <3>1, ReadOff, ReadOffNext DEF Nests, Stutters
  <2> QED
    BY <2>1, <2>2, <2>3, <2>4, <2>5, <2>6, <2>7, <2>8, <2>9, <2>10
       DEF Next, FromTheTable, WithinACall
<1>3. Nests => Alone'
  BY DEF Nests
<1>4. Nests => [Nesting!Next]_<<OpenProcedures, ended, Len(kinds)>>
  BY DEF Nests, Stutters, Nesting!Next
<1> HIDE DEF Alone
<1> QED BY <1>1, <1>2, <1>3, <1>4, InterruptInvariant, AskInvariant, PTL
        DEF Spec, ProceduresNest, Nesting!Spec
=============================================================================
