------------------------------ MODULE BattleTurns ------------------------------
(***************************************************************************)
(* The turn order of a battle: the Initiative lists and their rounds, the  *)
(* boundary between two turns, what ends at such a boundary, and the       *)
(* combatants who join, leave, disappear and come back while the order is  *)
(* running.  One Owner may summon one Familiar.                            *)
(*                                                                         *)
(* The battle is one value, as BattleState is in the code: every operation *)
(* is a function from battles to battles.  Of a timed effect the model     *)
(* keeps who bears it, who made it and when it ends; of Reactions, the     *)
(* familiar's, which its comings and goings must not give back.            *)
(***************************************************************************)
EXTENDS Integers, FiniteSets, SequencesExt

CONSTANTS
  Owner,          \* the creature that may have a companion
  Familiar,       \* the companion, as a combatant
  Others,         \* every other creature that may take part
  Scores,         \* initiative scores
  MaxLasting,     \* bound: the rounds a lasting effect is made for
  MaxEffects,     \* bound: timed effects at one time
  MaxJoins,       \* bound: combatants added or summoned
  MaxRounds,      \* bound: rounds of the battle
  TurnEndDamage   \* whether a familiar may fall to damage at its turn's end

ASSUME TurnsAssumption ==
  /\ Owner # Familiar /\ {Owner, Familiar} \cap Others = {}
  /\ IsFiniteSet(Others)
  /\ Scores \subseteq Int /\ Scores # {} /\ TurnEndDamage \in BOOLEAN
  /\ {MaxLasting, MaxEffects, MaxJoins, MaxRounds} \subseteq Nat
  /\ MaxRounds # 0

Creatures == {Owner, Familiar} \cup Others

Entries == [creature : Creatures, initiative : Scores]

Statuses ==
  {"none", "present", "temporarilyDismissed", "disappearedAtZeroHitPoints",
   "dismissedForever"}

(* "endTargetState" lasts some rounds and, when it ends, leaves its bearer *)
(* with an effect until the end of the bearer's next turn.                 *)
Lasting == {"duration", "endTargetState"}

VARIABLES
  battle,   \* round, acted, still, roster, reaction, companion and effects
  joins,    \* combatants added or summoned so far
  ends,     \* history: how many turns each creature has ended
  ended,    \* history: who has ended a turn this round
  joined,   \* history: who came into the battle this round
  reacted,  \* history: the familiar used its Reaction, no turn of its own since
  wraps     \* history: rounds that began because somebody left

vars == <<battle, joins, ends, ended, joined, reacted, wraps>>

-----------------------------------------------------------------------------
(* Initiative.                                                             *)

Order(b) == b.acted \o b.still

Current(b) == b.still[1].creature

Listed(entries) == {entries[i].creature : i \in DOMAIN entries}

NextInitiative(b) ==
  LET acted == Append(b.acted, Head(b.still))
  IN  IF Len(b.still) = 1
      THEN [b EXCEPT !.round = @ + 1, !.acted = <<>>, !.still = acted]
      ELSE [b EXCEPT !.acted = acted, !.still = Tail(@)]

(* index entries of the order stay in front of the new one.                *)
InsertAtOrderIndex(b, index, entry) ==
  LET acted == Len(b.acted)
  IN  IF index <= acted
      THEN [b EXCEPT !.acted = InsertAt(@, index + 1, entry)]
      ELSE [b EXCEPT !.still = InsertAt(@, index - acted + 1, entry)]

Ties(order, score) == {i \in DOMAIN order : order[i].initiative = score}

FirstLower(order, score) ==
  Min({i \in DOMAIN order : order[i].initiative < score} \cup {Len(order) + 1})

(* Mutant: a tie goes to the end of the order.                             *)
AtTheEnd(order, score) == {Len(order)}

(* Anywhere among those of the same score, else before the first lower.    *)
InsertionIndices(order, score) ==
  LET ties == Ties(order, score)
  IN  IF ties = {} THEN {FirstLower(order, score) - 1}
      ELSE (Min(ties) - 1) .. (Min(ties) - 1 + Cardinality(ties))

(* The entries of those who are not gone, in the order they had: the n-th  *)
(* is the one with n of them up to it (SelectSeq, written out so that      *)
(* proofs can unfold it).                                                  *)
Remaining(order, gone) ==
  LET kept == {i \in DOMAIN order : order[i].creature \notin gone}
  IN  [n \in 1 .. Cardinality(kept) |->
         order[CHOOSE i \in kept : Cardinality({j \in kept : j <= i}) = n]]

(* Mutant: those who have acted stay as many as they were.                 *)
RemoveByPosition(b, gone) ==
  LET order == Remaining(Order(b), gone)
      acted == Min({Len(b.acted), Len(order) - 1})
  IN  [b EXCEPT !.acted = SubSeq(order, 1, acted),
                !.still = SubSeq(order, acted + 1, Len(order))]

(* Mutant: the round does not turn when those still to act have left.      *)
RemoveInRound(b, gone) ==
  [b EXCEPT !.acted = Remaining(@, gone), !.still = Remaining(@, gone)]

RemoveFromInitiative(b, gone) ==
  LET acted == Remaining(b.acted, gone)
      still == Remaining(b.still, gone)
  IN  IF still # <<>> THEN [b EXCEPT !.acted = acted, !.still = still]
      ELSE [b EXCEPT !.round = @ + 1, !.acted = <<>>, !.still = acted]

-----------------------------------------------------------------------------
(* Leaving and joining.                                                    *)

NoCompanion == [status |-> "none", reaction |-> TRUE]

FamiliarPresent(b) == b.companion.status = "present"

(* Mutant: a present familiar stays when its owner leaves.                 *)
WithoutDependents(b, ids) == ids

WithDependents(b, ids) ==
  ids \cup IF FamiliarPresent(b) /\ Owner \in ids THEN {Familiar} ELSE {}

Removable(b, ids) ==
  LET gone == WithDependents(b, ids)
  IN  gone \subseteq b.roster /\ gone # b.roster

Removed(b, ids) ==
  LET gone == WithDependents(b, ids)
  IN  [RemoveFromInitiative(b, gone) EXCEPT
         !.roster = @ \ gone,
         !.reaction = @ \/ Familiar \in gone,
         !.effects = {e \in @ : {e.on, e.by} \cap gone = {}},
         !.companion = IF \/ Owner \in gone
                          \/ FamiliarPresent(b) /\ Familiar \in gone
                       THEN NoCompanion ELSE @]

(* The familiar at 0 Hit Points; its Reaction is kept with its form.       *)
Disappeared(b) ==
  [Removed(b, {Familiar}) EXCEPT
     !.companion = [status |-> "disappearedAtZeroHitPoints",
                    reaction |-> b.reaction]]

DismissedFor(b, status) ==
  LET companion == [status |-> status,
                    reaction |-> status = "dismissedForever" \/ b.reaction]
  IN  IF Familiar \in b.roster
      THEN [Removed(b, {Familiar}) EXCEPT !.companion = companion]
      ELSE [b EXCEPT !.companion = companion]

(* Mutant: only a present familiar remembers a Reaction it has used.       *)
NewFormReaction(b) == FamiliarPresent(b) => b.reaction

FamiliarReaction(b) ==
  CASE b.companion.status \in {"none", "dismissedForever"} -> TRUE
    [] FamiliarPresent(b) -> b.reaction
    [] OTHER -> b.companion.reaction

(* A cast, a cast again, or a reappearance: an earlier manifestation makes *)
(* room first.  The familiar stands after the others of its score.         *)
Summoned(b, score) ==
  LET prior == IF Familiar \in b.roster THEN Removed(b, {Familiar}) ELSE b
      after == Max(InsertionIndices(Order(prior), score))
  IN  [InsertAtOrderIndex(prior, after,
                          [creature |-> Familiar, initiative |-> score]) EXCEPT
         !.roster = @ \cup {Familiar},
         !.reaction = FamiliarReaction(b),
         !.companion = [status |-> "present", reaction |-> TRUE]]

Admitted(b, c, score, index) ==
  [InsertAtOrderIndex(b, index, [creature |-> c, initiative |-> score]) EXCEPT
     !.roster = @ \cup {c}]

-----------------------------------------------------------------------------
(* Timed effects: on their bearer, by their source, of the creature whose  *)
(* turn ends them, at that round or with that many rounds left.  until is  *)
(* history: the turn end of that creature, or the round, that was promised.*)

Effects ==
  [on : Creatures, by : Creatures, kind : Lasting \cup {"endOfTurn"},
   of : Creatures, at : Nat, until : Nat]

(* Mutant: the running turn is taken for the next one.                     *)
EndOfThisTurn(b, c, justBegun) ==
  IF c \in Listed(b.still) THEN b.round ELSE b.round + 1

(* The round in which the next turn of c ends; a turn that is running      *)
(* counts as the next one only when it has just begun.                     *)
EndOfNextTurn(b, c, justBegun) ==
  IF c \in Listed(b.still) /\ (c # Current(b) \/ justBegun)
  THEN b.round ELSE b.round + 1

(* What an ending effect leaves its bearer with.                           *)
Promotion(b, e, count, justBegun) ==
  [on |-> e.on, by |-> e.by, kind |-> "endOfTurn", of |-> e.on,
   at |-> EndOfNextTurn(b, e.on, justBegun),
   until |-> count[e.on] + IF e.on = Current(b) /\ ~justBegun THEN 2 ELSE 1]

Promotions(b, expiring, count, justBegun) ==
  {Promotion(b, e, count, justBegun) :
     e \in {x \in expiring : x.kind = "endTargetState"}}

ExpiresWith(e, actor, round) ==
  e.kind = "endOfTurn" /\ e.of = actor /\ e.at = round

(* Mutant: what has one round left is kept.                                *)
TickedLate(b, cohort, count) ==
  LET ticking == {e \in b.effects : e \in cohort}
      expiring == {e \in ticking : e.at - 1 < 0}
  IN  [b EXCEPT !.effects = (@ \ ticking)
         \cup {[e EXCEPT !.at = @ - 1] : e \in ticking \ expiring}
         \cup Promotions(b, expiring, count, TRUE)]

(* Of the lasting effects there were before the boundary, those that are   *)
(* still there are one round shorter.                                      *)
Ticked(b, cohort, count) ==
  LET ticking == {e \in b.effects : e \in cohort}
      expiring == {e \in ticking : e.at - 1 <= 0}
  IN  [b EXCEPT !.effects = (@ \ ticking)
         \cup {[e EXCEPT !.at = @ - 1] : e \in ticking \ expiring}
         \cup Promotions(b, expiring, count, TRUE)]

(* The ending actor falls to damage at the end of its turn: of the state   *)
(* that damage leaves, the boundary keeps the combatants only.             *)
EndTurnDamaged(b) ==
  LET damaged == Disappeared(b)
  IN  [b EXCEPT !.roster = damaged.roster, !.reaction = damaged.reaction,
                !.effects = damaged.effects]

AfterEndTurn(b, fallsAtEnd, fallsAtStart, count) ==
  LET actor == Current(b)
      turned == NextInitiative(b)
      next == Current(turned)
      cohort == IF turned.round > b.round
                THEN {e \in b.effects : e.kind \in Lasting} ELSE {}
      reset == [b EXCEPT !.reaction = @ \/ next = Familiar]
      damaged == IF fallsAtEnd THEN EndTurnDamaged(reset) ELSE reset
      left == {e \in damaged.effects : ~ExpiresWith(e, actor, b.round)}
      begun == [turned EXCEPT !.roster = damaged.roster,
                              !.reaction = damaged.reaction,
                              !.effects = left]
  IN  Ticked(IF fallsAtStart THEN Disappeared(begun) ELSE begun,
             cohort, count)

-----------------------------------------------------------------------------
TypeOK ==
  /\ battle \in
       [round : 1 .. MaxRounds, acted : Seq(Entries), still : Seq(Entries),
        roster : SUBSET Creatures, reaction : BOOLEAN,
        companion : [status : Statuses, reaction : BOOLEAN],
        effects : SUBSET Effects]
  /\ battle.still # <<>>
  /\ joins \in 0 .. MaxJoins /\ wraps \in Nat
  /\ ends \in [Creatures -> Nat]
  /\ {ended, joined} \subseteq SUBSET Creatures
  /\ reacted \in BOOLEAN

Monotone(order) ==
  \A i, j \in DOMAIN order :
    i < j => order[i].initiative >= order[j].initiative

StartingOrders ==
  LET Seats(roster) ==
        {f \in [1 .. Cardinality(roster) -> Entries] :
           Listed(f) = roster /\ Monotone(f)}
  IN  UNION {Seats({Owner} \cup Others), Seats(Creatures)}

Init ==
  /\ \E order \in StartingOrders :
       battle = [round |-> 1, acted |-> <<>>, still |-> order,
                 roster |-> Listed(order), reaction |-> TRUE,
                 companion |-> IF Familiar \in Listed(order)
                               THEN [NoCompanion EXCEPT !.status = "present"]
                               ELSE NoCompanion,
                 effects |-> {}]
  /\ joins = 0 /\ wraps = 0
  /\ ends = [c \in Creatures |-> 0]
  /\ ended = {} /\ joined = {} /\ reacted = FALSE

(* The history a step adds: the creature whose turn it ends (none for a    *)
(* step that ends no turn), who came in, who begins afresh.                *)
Becomes(next, ender, newcomers, refreshed) ==
  LET wrapped == next.round > battle.round
      byTurnEnd == ender # {} /\ Len(battle.still) = 1
  IN  /\ next.round <= MaxRounds
      /\ battle' = next
      /\ ends' = [c \in Creatures |-> ends[c] + IF c \in ender THEN 1 ELSE 0]
      /\ ended' = IF wrapped THEN {} ELSE (ended \cup ender) \ newcomers
      /\ joined' = (IF wrapped THEN {} ELSE joined) \cup newcomers
      /\ reacted' = (reacted /\ Familiar \notin refreshed)
      /\ wraps' = wraps + IF wrapped /\ ~byTurnEnd THEN 1 ELSE 0

-----------------------------------------------------------------------------
(* A subject is taken only from the creature whose turn it is, and only    *)
(* while that creature is a combatant.                                     *)
Admits(actor) == actor = Current(battle) /\ actor \in battle.roster

EndTurn ==
  LET actor == Current(battle)
      next == Current(NextInitiative(battle))
      Frail(c) == c = Familiar /\ c \in battle.roster /\ FamiliarPresent(battle)
      count == [ends EXCEPT ![actor] = @ + 1]
  IN  /\ Admits(actor)
      /\ \E fallsAtEnd \in {x \in BOOLEAN : x => TurnEndDamage /\ Frail(actor)},
            fallsAtStart \in {x \in BOOLEAN : x => Frail(next)} :
           /\ ~(fallsAtEnd /\ fallsAtStart)
           /\ Becomes(AfterEndTurn(battle, fallsAtEnd, fallsAtStart, count),
                      {actor}, {}, {next})
      /\ UNCHANGED joins

PutEffect(e) ==
  /\ Admits(Current(battle))
  /\ {e.on, e.by} \subseteq battle.roster
  /\ Cardinality(battle.effects) < MaxEffects
  /\ Becomes([battle EXCEPT !.effects = @ \cup {e}], {}, {}, {})
  /\ UNCHANGED joins

(* Until the end of the next turn of the bearer or of the source.          *)
UntilEndOfNextTurn ==
  \E on, by \in battle.roster : \E of \in {on, by} :
    PutEffect([on |-> on, by |-> by, kind |-> "endOfTurn", of |-> of,
               at |-> EndOfNextTurn(battle, of, FALSE),
               until |-> ends[of] + IF of = Current(battle) THEN 2 ELSE 1])

(* A feature of the current creature: this turn, or for some rounds.       *)
UseFeature ==
  LET actor == Current(battle)
  IN  \E rounds \in 0 .. MaxLasting :
        PutEffect([on |-> actor, by |-> actor, kind |-> "endOfTurn",
                   of |-> actor, at |-> battle.round + rounds,
                   until |-> ends[actor] + 1 + rounds])

LastForRounds ==
  \E on, by \in battle.roster, kind \in Lasting, rounds \in 1 .. MaxLasting :
    PutEffect([on |-> on, by |-> by, kind |-> kind, of |-> on,
               at |-> rounds, until |-> battle.round + rounds])

(* The concentration behind a lasting effect ends during a turn.           *)
BreakConcentration ==
  /\ \E e \in battle.effects :
       /\ e.kind = "endTargetState"
       /\ Becomes([battle EXCEPT !.effects =
                     (@ \ {e}) \cup Promotions(battle, {e}, ends, FALSE)],
                  {}, {}, {})
  /\ UNCHANGED joins

UseReaction ==
  /\ Familiar \in battle.roster /\ battle.reaction
  /\ battle' = [battle EXCEPT !.reaction = FALSE]
  /\ reacted' = TRUE
  /\ UNCHANGED <<joins, ends, ended, joined, wraps>>

(* Damage during a turn: the familiar disappears.                          *)
FamiliarFalls ==
  /\ Familiar \in battle.roster /\ FamiliarPresent(battle)
  /\ Becomes(Disappeared(battle), {}, {}, {})
  /\ UNCHANGED joins

Dismiss ==
  /\ Admits(Owner)
  /\ \/ /\ FamiliarPresent(battle) /\ Familiar \in battle.roster
        /\ Becomes(DismissedFor(battle, "temporarilyDismissed"), {}, {}, {})
     \/ /\ battle.companion.status # "none"
        /\ Becomes(DismissedFor(battle, "dismissedForever"), {}, {}, {})
  /\ UNCHANGED joins

Summon ==
  /\ Admits(Owner)
  /\ Familiar \in battle.roster <=> FamiliarPresent(battle)
  /\ joins < MaxJoins
  /\ joins' = joins + 1
  /\ \E score \in Scores :
       Becomes(Summoned(battle, score), {}, {Familiar},
               IF battle.companion.status \in {"none", "dismissedForever"}
               THEN {Familiar} ELSE {})

(* The roster is edited: someone joins, or leaves with its dependents.     *)
AddCombatant ==
  /\ joins < MaxJoins
  /\ joins' = joins + 1
  /\ \E c \in ({Owner} \cup Others) \ battle.roster, score \in Scores :
       \E index \in InsertionIndices(Order(battle), score) :
         Becomes(Admitted(battle, c, score, index), {}, {c}, {c})

RemoveCombatant ==
  /\ \E c \in battle.roster :
       /\ Removable(battle, {c})
       /\ Becomes(Removed(battle, {c}), {}, {}, {})
  /\ UNCHANGED joins

Next ==
  \/ EndTurn
  \/ UntilEndOfNextTurn \/ UseFeature \/ LastForRounds
  \/ BreakConcentration
  \/ UseReaction
  \/ FamiliarFalls \/ Dismiss \/ Summon
  \/ AddCombatant \/ RemoveCombatant

Spec == Init /\ [][Next]_vars

-----------------------------------------------------------------------------
(* Initiative never disagrees with the scores, whoever left or came back   *)
(* (initiative-algebra.ts: insertAtOrderIndex, removeFromInitiative).      *)
OrderedByInitiative == Monotone(Order(battle))

(* The roster and Initiative contain the same combatants, each once, and   *)
(* the familiar is among them exactly while its companion entry says it is *)
(* present (combatant-removal.ts).                                         *)
RosterMatchesOrder ==
  /\ Listed(Order(battle)) = battle.roster
  /\ Cardinality(battle.roster) = Len(Order(battle))
  /\ FamiliarPresent(battle) <=> Familiar \in battle.roster

(* A familiar has its Reaction once from one of its turns to its next, also *)
(* when it is dismissed, disappears or is summoned again in between        *)
(* (companion-lifecycle.ts: reactionAvailableForSpawnedCompanionCast).     *)
ReactionsAreNotRegained ==
  Familiar \in battle.roster /\ battle.reaction => ~reacted

(* Whoever was in the battle when the round began, and still is when it    *)
(* ends, has ended one turn in it; nobody ends two                         *)
(* (turn-boundary-lifecycle.ts: resolveEndTurn; combatant-removal.ts).     *)
OneTurnARound ==
  [][/\ \A c \in ended \ joined : ends'[c] = ends[c]
     /\ battle'.round # battle.round =>
          \A c \in (battle.roster \cap battle'.roster) \ joined :
            c \in ended \/ ends'[c] > ends[c]]_vars

(* While its bearer and its source stay, an effect ends with the turn it   *)
(* was promised to end with, neither earlier nor later, whatever happens   *)
(* to the order meanwhile (spell-end-target-state.ts: endOfNextTurn...).   *)
EffectsEndOnTime ==
  [][\A e \in battle.effects :
       e.kind = "endOfTurn" /\ {e.on, e.by} \subseteq battle'.roster
         /\ (Familiar \in {e.on, e.by} => joins' = joins)
       => (e \in battle'.effects <=> ends'[e.of] < e.until)]_vars

Lives(e) == \E d \in battle.effects : [d EXCEPT !.at = e.at] = e

(* An effect that lasts rounds lasts as many as it was made for, and at    *)
(* most one more for every round that began because somebody left          *)
(* (turn-boundary-lifecycle.ts: roundDurationCohort).                      *)
DurationsLast ==
  [][\A e \in battle.effects :
       e.kind = "duration" /\ {e.on, e.by} \subseteq battle'.roster
         /\ (Familiar \in {e.on, e.by} => joins' = joins)
       => IF Lives(e)' THEN battle'.round < e.until + wraps'
          ELSE battle'.round >= e.until]_vars
=============================================================================
