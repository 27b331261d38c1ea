--------------------------- MODULE BattleInterrupts ---------------------------
(***************************************************************************)
(* The interrupt stack of a Battle (battle-reducer/): procedures that stop *)
(* to offer Reactions, the nested procedures those Reactions run, and the  *)
(* order in which everything resumes.                                      *)
(*                                                                         *)
(* A call from the table (begin an act, decide on a Reaction, answer what  *)
(* a procedure asks, report a Ready trigger, end the turn) runs to its end *)
(* before the next.  Inside a call the code recurses through "resolve the  *)
(* procedure", "complete what resolved" and "close the checkpoint"; call   *)
(* says which is due, and each is a step.  What a procedure does in the    *)
(* world is left open: it may resolve, ask, or open a window.  A call that *)
(* ends invalid leaves the session as it was and is no step at all.        *)
(***************************************************************************)
EXTENDS Integers, Sequences, SequencesExt

CONSTANTS
  Creatures,
  Nobody,         \* no Reaction is being resolved
  NoTrigger,      \* no window of the procedure has closed
  MaxProcedures,  \* bound on the procedures started
  MaxWindows,     \* bound on the Reaction windows opened
  MaxTurns,       \* bound on the turns ended
  NestedSaves     \* may an attack made as a Reaction force a save?

Triggers == {"attackHit", "attackDamage", "afterDamage", "opportunityAttack",
             "reportedReadyTrigger"}

ASSUME InterruptAssumption ==
  /\ Nobody \notin Creatures
  /\ NoTrigger \notin Triggers
  /\ NestedSaves \in BOOLEAN
  /\ MaxProcedures \in Nat /\ MaxWindows \in Nat /\ MaxTurns \in Nat

VARIABLES
  stack,      \* the interrupt stack, the innermost frame last
  spent,      \* creatures whose Reaction is spent
  down,       \* creatures that cannot take actions, hence no Reactions
  call,       \* what the call in progress does next
  kinds,      \* history: the kind of each procedure started
  ended,      \* history: the procedures that have resolved
  windows,    \* history: each window opened, with the decisions made in it
  reacted,    \* history: Reactions taken since the creature's turn began
  turns       \* turns ended

vars == <<stack, spent, down, call, kinds, ended, windows, reacted, turns>>

-----------------------------------------------------------------------------
Kinds == {"attack", "move", "report"}

\* A checkpoint interrupts procedure of.  Its audience are those the trigger
\* concerns; active is the responder whose Reaction is being resolved, as
\* procedure nested, which resumes past handled once it has been answered.
Checkpoint == [tag : {"checkpoint"}, of : Nat, trigger : Triggers,
               window : Nat, audience : SUBSET Creatures,
               eligible : SUBSET Creatures, offered : SUBSET Creatures,
               active : Creatures \cup {Nobody}, nested : Nat,
               handled : Triggers \cup {NoTrigger}]

\* A resumed procedure that needs more input, and an attack whose damage
\* waits for a saving throw, hold the stack with frames of their own.
Replay == [tag : {"replay"}, of : Nat, handled : Triggers]

Save == [tag : {"save"}, of : Nat]

Call ==
  [do : {"wait"}] \cup [do : {"complete"}]
    \cup [do : {"run"}, procedure : Nat, after : Triggers \cup {NoTrigger},
          completes : BOOLEAN]

Wait == [do |-> "wait"]

Complete == [do |-> "complete"]

\* The procedure runs past the window it last closed; completes says whether
\* the interrupt lifecycle asked for it and looks at what it leaves behind.
Run(p, trigger, completes) ==
  [do |-> "run", procedure |-> p, after |-> trigger, completes |-> completes]

Waiting == call = Wait

Top == stack[Len(stack)]

IsDecision(frame) == frame.tag = "checkpoint" /\ frame.active = Nobody

IsReaction(frame) == frame.tag = "checkpoint" /\ frame.active # Nobody

DecisionPending == stack # <<>> /\ IsDecision(Top)

ReactionPending == stack # <<>> /\ IsReaction(Top)

CanReact(c) == c \notin spent \cup down

Able == {c \in Creatures : CanReact(c)}

Unoffered(frame) == frame.eligible \ frame.offered

\* Those of the checkpoint's audience who could still take a Reaction in it.
OpenChoices(frame) == (frame.audience \cap Able) \ frame.offered

-----------------------------------------------------------------------------
\* Which windows a procedure may open.  Replayed from its start it passes by
\* the window it has just been through; damage that was interrupted goes on
\* from there, to one window for each creature damaged.
MayOpen(p, after) ==
  IF after \in {"attackDamage", "afterDamage"} THEN {"afterDamage"}
  ELSE CASE kinds[p] = "attack" ->
              {"attackHit", "attackDamage", "afterDamage"} \ {after}
         [] kinds[p] = "move" -> {"opportunityAttack"} \ {after}
         [] kinds[p] = "report" -> {"reportedReadyTrigger"} \ {after}

\* Mutant: the procedure forgets the window it has been through
ForgetHandled(frames, trigger) == frames

\* A window that closes over a Reaction's procedure is remembered by it.
RecordHandled(frames, trigger) ==
  IF frames # <<>> /\ IsReaction(Last(frames))
  THEN ReplaceAt(frames, Len(frames), [Last(frames) EXCEPT !.handled = trigger])
  ELSE frames

\* The checkpoint on top goes and the procedure it interrupted resumes.
Close(frame) ==
  /\ stack' = RecordHandled(Front(stack), frame.trigger)
  /\ call' = Run(frame.of, frame.trigger, TRUE)

\* Mutant: the responder stays active
StaysActive(frame, c) ==
  LET done == [frame EXCEPT !.offered = @ \cup {c}]
  IN  IF Unoffered(done) = {}
      THEN Close(done)
      ELSE stack' = Append(Front(stack), done) /\ call' = Complete

\* The responder is done with the checkpoint on top.
Advance(frame, c) ==
  LET done == [frame EXCEPT !.active = Nobody, !.nested = 0,
                            !.handled = NoTrigger, !.offered = @ \cup {c}]
  IN  IF Unoffered(done) = {}
      THEN Close(done)
      ELSE stack' = Append(Front(stack), done) /\ call' = Complete

\* Mutant: the checkpoint goes on offering what it offered
KeepOffers(frame) == call' = Wait /\ UNCHANGED stack

\* The checkpoint on top offers what the state now allows, or closes.
Reconcile(frame) ==
  IF OpenChoices(frame) = {}
  THEN Close(frame)
  ELSE /\ stack' = Append(Front(stack), [frame EXCEPT !.eligible = OpenChoices(frame)])
       /\ call' = Wait

\* completeResolvedActiveInterruptIfPending: a procedure has just resolved.
CompleteResolved ==
  /\ call = Complete
  /\ IF ReactionPending THEN Advance(Top, Top.active)
     ELSE IF DecisionPending THEN Reconcile(Top)
     ELSE call' = Wait /\ UNCHANGED stack
  /\ UNCHANGED <<spent, down, kinds, ended, windows, reacted, turns>>

-----------------------------------------------------------------------------
\* What the world does to the creatures: one may fall, or come to.
Changes ==
  {down} \cup {down \cup {c} : c \in Creatures} \cup {down \ {c} : c \in Creatures}

\* The running procedure resolves.
Resolve ==
  /\ call.do = "run"
  /\ down' \in IF kinds[call.procedure] = "report" THEN {down} ELSE Changes
  /\ ended' = ended \cup {call.procedure}
  /\ call' = IF call.completes THEN Complete ELSE Wait
  /\ UNCHANGED <<stack, spent, kinds, windows, reacted, turns>>

\* The running procedure opens a window for those who can react.
OpenWindow(trigger, audience) ==
  /\ call.do = "run"
  /\ trigger \in MayOpen(call.procedure, call.after)
  /\ down' \in IF trigger = "afterDamage" THEN Changes ELSE {down}
  /\ Len(windows) < MaxWindows
  /\ LET eligible == {c \in audience : c \notin spent \cup down'}
     IN  /\ eligible # {}
         /\ stack' = Append(stack,
              [tag |-> "checkpoint", of |-> call.procedure,
               trigger |-> trigger, window |-> Len(windows) + 1,
               audience |-> audience, eligible |-> eligible, offered |-> {},
               active |-> Nobody, nested |-> 0, handled |-> NoTrigger])
  /\ windows' = Append(windows, [of |-> call.procedure, trigger |-> trigger,
                                 decided |-> <<>>])
  /\ call' = Wait
  /\ UNCHANGED <<spent, kinds, ended, reacted, turns>>

\* The running procedure asks for input.  A Reaction's procedure waits in the
\* checkpoint it answers, a resumed one in a frame of its own.  An act that
\* asks before anything happened leaves the session as it was.
NeedInput ==
  /\ call.do = "run" /\ call.completes
  /\ kinds[call.procedure] # "report"
  /\ call.after \in {NoTrigger, "attackHit"}
  /\ stack' = IF ReactionPending /\ Top.nested = call.procedure THEN stack
              ELSE Append(stack, [tag |-> "replay", of |-> call.procedure,
                                  handled |-> call.after])
  /\ call' = Wait
  /\ UNCHANGED <<spent, down, kinds, ended, windows, reacted, turns>>

\* Interrupted damage waits for a saving throw of the creature it hits.
NeedSave ==
  /\ call.do = "run" /\ call.after = "attackDamage"
  /\ stack = <<>> \/ NestedSaves
  /\ stack' = Append(stack, [tag |-> "save", of |-> call.procedure])
  /\ call' = Wait
  /\ UNCHANGED <<spent, down, kinds, ended, windows, reacted, turns>>

-----------------------------------------------------------------------------
StartProcedure(kind, completes) ==
  /\ Len(kinds) < MaxProcedures
  /\ kinds' = Append(kinds, kind)
  /\ call' = Run(Len(kinds'), NoTrigger, completes)

BeginAct(kind) ==
  /\ Waiting /\ stack = <<>>
  /\ StartProcedure(kind, FALSE)
  /\ UNCHANGED <<stack, spent, down, ended, windows, reacted, turns>>

\* Mutant: over a Reaction waiting for input too
MayReportOverInput(c) ==
  stack # <<>> /\ Top.tag = "checkpoint"
    => ~(kinds[Top.of] = "report" /\ Top.audience = {c})

\* A Ready trigger may be reported while a decision is pending, but not the
\* one that is being decided, and never while a procedure waits for input.
MayReport(c) ==
  \/ stack = <<>>
  \/ /\ DecisionPending
     /\ ~(kinds[Top.of] = "report" /\ Top.audience = {c})

\* The trigger of c's readied response is reported: c alone may answer.
ReportReadyTrigger(c) ==
  /\ Waiting /\ CanReact(c) /\ MayReport(c)
  /\ Len(kinds) < MaxProcedures /\ Len(windows) < MaxWindows
  /\ kinds' = Append(kinds, "report")
  /\ stack' = Append(stack,
       [tag |-> "checkpoint", of |-> Len(kinds'),
        trigger |-> "reportedReadyTrigger", window |-> Len(windows) + 1,
        audience |-> {c}, eligible |-> {c}, offered |-> {},
        active |-> Nobody, nested |-> 0, handled |-> NoTrigger])
  /\ windows' = Append(windows, [of |-> Len(kinds'),
                                 trigger |-> "reportedReadyTrigger",
                                 decided |-> <<>>])
  /\ UNCHANGED <<spent, down, call, ended, reacted, turns>>

RecordDecision(c) ==
  windows' = [windows EXCEPT ![Top.window].decided = Append(@, c)]

\* The checks a decision of c's has to pass.
MayDecide(c) == Waiting /\ DecisionPending /\ c \in Unoffered(Top)

Decline(c) ==
  /\ MayDecide(c)
  /\ RecordDecision(c)
  /\ Advance(Top, c)
  /\ UNCHANGED <<spent, down, kinds, ended, reacted, turns>>

\* Mutant: the Reaction stays available
SpendNothing(c) == spent

SpendReaction(c) == spent \cup {c}

React(c) ==
  /\ MayDecide(c) /\ CanReact(c)
  /\ RecordDecision(c)
  /\ spent' = SpendReaction(c)
  /\ reacted' = [reacted EXCEPT ![c] = @ + 1]

\* A Reaction that only changes a roll or reduces damage is done at once.
Modify(c) ==
  /\ React(c)
  /\ Advance(Top, c)
  /\ UNCHANGED <<down, kinds, ended, turns>>

\* A Reaction that runs a procedure of its own.
RunReaction(c, kind) ==
  /\ React(c)
  /\ StartProcedure(kind, TRUE)
  /\ stack' = ReplaceAt(stack, Len(stack),
                        [Top EXCEPT !.active = c, !.nested = Len(kinds')])
  /\ UNCHANGED <<down, ended, turns>>

\* The procedure of a pending Reaction gets what it asked for.
AnswerReaction ==
  /\ Waiting /\ ReactionPending
  /\ call' = Run(Top.nested, Top.handled, TRUE)
  /\ UNCHANGED <<stack, spent, down, kinds, ended, windows, reacted, turns>>

\* So does a resumed procedure, whose frame goes.
AnswerFrame ==
  /\ Waiting /\ stack # <<>> /\ Top.tag \in {"replay", "save"}
  /\ stack' = Front(stack)
  /\ call' = Run(Top.of, IF Top.tag = "save" THEN "attackDamage"
                         ELSE Top.handled, FALSE)
  /\ UNCHANGED <<spent, down, kinds, ended, windows, reacted, turns>>

\* The next creature's turn begins: its Reaction is available again.
EndTurn(c) ==
  /\ Waiting /\ stack = <<>>
  /\ turns < MaxTurns
  /\ turns' = turns + 1
  /\ spent' = spent \ {c}
  /\ reacted' = [reacted EXCEPT ![c] = 0]
  /\ UNCHANGED <<stack, down, call, kinds, ended, windows>>

-----------------------------------------------------------------------------
Init ==
  /\ stack = <<>>
  /\ spent = {}
  /\ down = {}
  /\ call = Wait
  /\ kinds = <<>>
  /\ ended = {}
  /\ windows = <<>>
  /\ reacted = [c \in Creatures |-> 0]
  /\ turns = 0

FromTheTable ==
  \/ \E kind \in {"attack", "move"} : BeginAct(kind)
  \/ \E c \in Creatures :
       \/ ReportReadyTrigger(c)
       \/ Decline(c)
       \/ Modify(c)
       \/ \E kind \in {"attack", "move"} : RunReaction(c, kind)
       \/ EndTurn(c)
  \/ AnswerReaction
  \/ AnswerFrame

WithinACall ==
  \/ CompleteResolved
  \/ Resolve
  \/ \E trigger \in Triggers, audience \in SUBSET Creatures :
       OpenWindow(trigger, audience)
  \/ NeedInput
  \/ NeedSave

Next == FromTheTable \/ WithinACall

Spec == Init /\ [][Next]_vars

-----------------------------------------------------------------------------
(***************************************************************************)
(* Properties                                                              *)
(***************************************************************************)

Windows == Seq([of : Nat, trigger : Triggers, decided : Seq(Creatures)])

\* The state is built from the frames, calls and records defined above; a
\* checkpoint resolves the Reaction of one who has yet to be done with it.
TypeOK ==
  /\ stack \in Seq(Checkpoint \cup Replay \cup Save)
  /\ \A i \in DOMAIN stack :
       IsReaction(stack[i]) => /\ stack[i].active \in Unoffered(stack[i])
                               /\ stack[i].nested \in DOMAIN kinds
  /\ spent \subseteq Creatures /\ down \subseteq Creatures
  /\ call \in Call
  /\ kinds \in Seq(Kinds)
  /\ ended \subseteq Nat
  /\ windows \in Windows
  /\ reacted \in [Creatures -> Nat]
  /\ turns \in Nat

\* Whenever the table is asked for a decision there is someone left to ask,
\* and everyone asked can still take a Reaction, whatever the procedures in
\* between have done to them: the frontier is never empty (the transaction's
\* interruptFrontierMissingCheckpoint) and a choice is never refused as stale.
DecisionsAreOpen ==
  Waiting /\ DecisionPending =>
    /\ Unoffered(Top) # {}
    /\ Unoffered(Top) \subseteq Able

\* A procedure stops only once for each event: replayed from its start,
\* after any number of inputs, it does not reopen a window that has closed
\* (damage sequences do offer one window for each creature damaged); and
\* inside a window each creature decides once.
AskedOnce ==
  /\ \A i, j \in DOMAIN windows :
       /\ windows[i].of = windows[j].of
       /\ windows[i].trigger = windows[j].trigger
       /\ i # j
       => windows[i].trigger = "afterDamage"
  /\ \A w \in DOMAIN windows : IsInjective(windows[w].decided)

\* A creature takes at most one Reaction between two of its turns, however
\* its Reactions nest and however often checkpoints are reconciled.
OneReaction == \A c \in Creatures : reacted[c] <= 1

\* When the table is asked for anything, no Reaction whose procedure has
\* resolved still holds a checkpoint, so what it interrupted has resumed
\* ("The runtime resumes that continuation after the interrupt resolves.").
ResolvedReactionsResume ==
  Waiting => \A i \in DOMAIN stack :
               IsReaction(stack[i]) => stack[i].nested \notin ended

\* The procedures in progress, read off the stack: each frame holds the one
\* it interrupted; the innermost runs, or is the Reaction that waits for input.
OpenProcedures ==
  LET interrupted == [i \in 1 .. Len(stack) |-> stack[i].of]
  IN  CASE call.do = "run" -> Append(interrupted, call.procedure)
        [] call.do = "wait" /\ ReactionPending -> Append(interrupted, Top.nested)
        [] OTHER -> interrupted

Nesting == INSTANCE ProcedureNesting
             WITH open <- OpenProcedures, started <- Len(kinds)

\* Procedures nest: none is resumed before what interrupts it has resolved,
\* none is skipped or run twice, and none is left behind on the stack.
ProceduresNest == Nesting!Spec
=============================================================================
