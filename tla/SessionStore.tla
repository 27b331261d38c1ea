----------------------------- MODULE SessionStore -----------------------------
(***************************************************************************)
(* The session store of one Play Session's runtime (session-store.ts): the *)
(* Character drafts, the registry of Character Sessions, the Battle, and   *)
(* the act a player has chosen but not finished.                           *)
(*                                                                         *)
(* Sheets, Battle sessions and setups are immutable objects, and the store *)
(* recognises them by identity.  Here each carries the number of its       *)
(* making and the number of the object it was computed from.  Starts,      *)
(* roster plans and ends are prepared from what the store holds and        *)
(* committed later: the store's interface lets other calls come between,   *)
(* and its checks are there for that.  An act is settled and its result    *)
(* stored in one synchronous handler, so it is one step.                   *)
(***************************************************************************)
EXTENDS Integers, FiniteSets

CONSTANTS
  Characters,     \* character ids; characterIdFromDraftId is injective, so a
                  \* draft and the character it becomes share one
  StatBlocks,     \* combatants that are no characters
  BattleIds,
  Unregistered,   \* no session under the character's id
  NoBattle,
  NoOwner,        \* no companion is present
  NoSelection,
  MaxObjects,     \* bound on the objects made
  MaxHeld,        \* bound on the preparations not yet committed
  MaxActs         \* bound on the acts chosen

ASSUME StoreAssumption ==
  /\ Characters \cap StatBlocks = {}
  /\ NoBattle \notin BattleIds
  /\ NoOwner \notin Characters
  /\ MaxObjects \in Nat /\ MaxHeld \in Nat /\ MaxActs \in Nat

VARIABLES
  drafts,       \* ids of the Character drafts
  characters,   \* the registry: character id -> session, or Unregistered
  battle,       \* the Battle state: a setup, an active session, or NoBattle
  selection,    \* the pending act with its transaction, or NoSelection
  ordinal,      \* of the selection id given last
  held,         \* prepared starts, roster plans and ends
  made,         \* objects made so far
  acts,         \* history: acts chosen so far
  shown         \* history: which selection id was shown for which act

vars == <<drafts, characters, battle, selection, ordinal, held, made, acts,
          shown>>

-----------------------------------------------------------------------------
\* A session is available (battle = NoBattle) or in a Battle, wrapping the
\* sheet it went in with.
Sheet == [v : Nat, base : Nat, battle : BattleIds \cup {NoBattle}]

Battle == [tag : {"setup", "active"}, id : BattleIds,
           roster : SUBSET (Characters \cup StatBlocks),
           owner : Characters \cup {NoOwner}, v : Nat, base : Nat]

Selection == [act : Nat, id : Nat, session : Nat]

ASSUME AbsenceAssumption ==
  /\ Unregistered \notin Sheet
  /\ NoBattle \notin Battle
  /\ NoSelection \notin Selection

InTag(tag) == battle # NoBattle /\ battle.tag = tag

Registered(c) == characters[c] # Unregistered
Available(c) == Registered(c) /\ characters[c].battle = NoBattle

\* projectCharacterSessionInBattle
InBattle(sheet, id) == [sheet EXCEPT !.battle = id]

\* The sheet an operation or a settlement computes from another.
Derived(sheet, v) == [v |-> v, base |-> sheet.v, battle |-> NoBattle]

Init ==
  /\ drafts = {}
  /\ characters = [c \in Characters |-> Unregistered]
  /\ battle = NoBattle
  /\ selection = NoSelection
  /\ ordinal = 0
  /\ held = {}
  /\ made = 0
  /\ acts = 0
  /\ shown = {}

-----------------------------------------------------------------------------
(* Drafts and sheets.  Every tool that changes a sheet reads it from the   *)
(* registry and puts its successor back in one synchronous call.           *)

CreateDraft(c) ==
  /\ c \notin drafts
  /\ ~Registered(c)
  /\ drafts' = drafts \cup {c}
  /\ UNCHANGED <<characters, battle, selection, ordinal, held, made, acts,
                 shown>>

\* characters.set does not look at what is there.
Finalize(c) ==
  /\ c \in drafts
  /\ made < MaxObjects
  /\ made' = made + 1
  /\ characters' =
       [characters EXCEPT ![c] = [v |-> made', base |-> 0, battle |-> NoBattle]]
  /\ drafts' = drafts \ {c}
  /\ UNCHANGED <<battle, selection, ordinal, held, acts, shown>>

\* Mutant: any registered session is operated on.
OperableAnywhere(c) == Registered(c)

\* Sheet operations are refused for a character in a Battle.
Operable(c) == Available(c)

\* One sheet, or with setAll the sheets of a healer and those healed.
Operate(cs) ==
  /\ cs # {}
  /\ \A c \in cs : Operable(c)
  /\ made < MaxObjects
  /\ made' = made + 1
  /\ characters' = [c \in Characters |->
                      IF c \in cs THEN Derived(characters[c], made')
                                  ELSE characters[c]]
  /\ UNCHANGED <<drafts, battle, selection, ordinal, held, acts, shown>>

-----------------------------------------------------------------------------
(* Preparations.                                                           *)

Hold(kind, settled, next) ==
  /\ Cardinality(held) < MaxHeld
  /\ made < MaxObjects
  /\ made' = made + 1
  /\ held' = held \cup
       {[kind |-> kind, session |-> battle,
         expected |-> [c \in DOMAIN settled |-> characters[c]],
         settled |-> settled, next |-> next]}
  /\ UNCHANGED <<drafts, characters, battle, selection, ordinal, acts, shown>>

\* A change of the Battle alone.
NoSheets == [c \in {} |-> NoBattle]

\* handleStartBattleToolCall up to commitBattleStart.  A setup admits no
\* companions; an active Battle may begin with one, and NoOwner stands for
\* none.
PrepareStart(tag, id, cs, others, owner) ==
  /\ battle = NoBattle
  /\ cs \cup others # {}
  /\ \A c \in cs : Available(c)
  /\ owner = NoOwner \/ (tag = "active" /\ owner \in cs)
  /\ Hold("start", [c \in cs |-> InBattle(characters[c], id)],
          [tag |-> tag, id |-> id, roster |-> cs \cup others, owner |-> owner,
           v |-> made + 1, base |-> 0])

\* The session with another roster; its context is made anew, so it is no
\* descendant of the old one.
WithRoster(roster, owner) ==
  [tag |-> battle.tag, id |-> battle.id, roster |-> roster, owner |-> owner,
   v |-> made + 1, base |-> battle.v]

\* A roster plan is refused while an act is pending.
Plannable == InTag("active") /\ selection = NoSelection

PlanAddCharacter(c) ==
  /\ Plannable
  /\ Available(c)
  /\ c \notin battle.roster
  /\ Hold("plan", [d \in {c} |-> InBattle(characters[d], battle.id)],
          WithRoster(battle.roster \cup {c}, battle.owner))

PlanAddStatBlock(n) ==
  /\ Plannable
  /\ n \notin battle.roster
  /\ Hold("plan", NoSheets, WithRoster(battle.roster \cup {n}, battle.owner))

\* Mutant: a companion stays when its owner goes.
OwnerKept(x) == battle.owner

\* A removed combatant takes the companion it owns with it.
OwnerAfterRemoval(x) == IF battle.owner = x THEN NoOwner ELSE battle.owner

\* Mutant: nothing keeps the last combatant.
AnyoneLeaves(x) == TRUE

\* removeBattleCombatants refuses to take every combatant.
SomeoneStays(x) == battle.roster # {x}

\* Only the named combatant's character is settled; its companion is none.
PlanRemove(x) ==
  /\ Plannable
  /\ x \in battle.roster
  /\ x \in Characters => Registered(x) /\ characters[x].battle = battle.id
  /\ SomeoneStays(x)
  /\ Hold("plan",
          [c \in {x} \cap Characters |-> Derived(characters[c], made + 1)],
          WithRoster(battle.roster \ {x}, OwnerAfterRemoval(x)))

PlanRemoveCompanion ==
  /\ Plannable
  /\ battle.owner # NoOwner
  /\ Hold("plan", NoSheets, WithRoster(battle.roster, NoOwner))

\* settleCharacterSessionsFromBattle
PrepareEnd ==
  /\ Plannable
  /\ \A c \in battle.roster \cap Characters :
       Registered(c) /\ characters[c].battle = battle.id
  /\ Hold("end", [c \in battle.roster \cap Characters |->
                    Derived(characters[c], made + 1)], NoBattle)

\* The caller gives up, or is refused.
Drop(w) ==
  /\ w \in held
  /\ held' = held \ {w}
  /\ UNCHANGED <<drafts, characters, battle, selection, ordinal, made, acts,
                 shown>>

-----------------------------------------------------------------------------
(* Commits.  A refused one changes nothing, and is no step.                *)

\* Mutant: the registry is not asked whether the sessions are still the same.
NeverChanged(w) == TRUE

CharactersUnchanged(w) ==
  \A c \in DOMAIN w.expected : characters[c] = w.expected[c]

\* Mutant: the act chosen outlives the Battle it was chosen in.
SelectionKept == selection

\* actionSelection.clear()
SelectionAfterCommit == NoSelection

Install(w) ==
  /\ characters' = [c \in Characters |->
                      IF c \in DOMAIN w.settled THEN w.settled[c]
                                                ELSE characters[c]]
  /\ battle' = w.next
  /\ selection' = SelectionAfterCommit
  /\ held' = held \ {w}
  /\ UNCHANGED <<drafts, ordinal, made, acts, shown>>

CommitStart(w) ==
  /\ w \in held /\ w.kind = "start"
  /\ battle = NoBattle
  /\ CharactersUnchanged(w)
  /\ w.next.roster \cap Characters = DOMAIN w.expected
  /\ Install(w)

CommitPlan(w) ==
  /\ w \in held /\ w.kind = "plan"
  /\ InTag("active")
  /\ battle = w.session
  /\ selection = NoSelection
  /\ CharactersUnchanged(w)
  /\ Install(w)

CommitEnd(w) ==
  /\ w \in held /\ w.kind = "end"
  /\ InTag("active")
  /\ battle = w.session
  /\ battle.roster \cap Characters = DOMAIN w.expected
  /\ CharactersUnchanged(w)
  /\ Install(w)

FinishSetup ==
  /\ InTag("setup")
  /\ made < MaxObjects
  /\ made' = made + 1
  /\ battle' = [battle EXCEPT !.tag = "active", !.v = made', !.base = battle.v]
  /\ selection' = NoSelection
  /\ UNCHANGED <<drafts, characters, ordinal, held, acts, shown>>

-----------------------------------------------------------------------------
(* Acts.  What the Battle runtime answers is left open: the same session   *)
(* or a descendant, in which a companion may have come or gone.            *)

Sessions ==
  {battle} \cup {WithRoster(battle.roster, owner) :
                   owner \in (battle.roster \cap Characters) \cup {NoOwner}}

Make(session) ==
  /\ made' = IF session = battle THEN made ELSE made + 1
  /\ made' <= MaxObjects

\* settled: storeActiveBattleSession
SettleAct(session) ==
  /\ InTag("active")
  /\ Make(session)
  /\ battle' = session
  /\ selection' = NoSelection
  /\ UNCHANGED <<drafts, characters, ordinal, held, acts, shown>>

\* Mutant: the previous selection is read after clear() has dropped it.
AlwaysNewId == ordinal + 1

\* A continuation keeps the id of the act it continues.
ContinuationId ==
  IF selection = NoSelection THEN ordinal + 1 ELSE selection.id

\* needsHoles, or invalid with a transaction to retry: storePending.
PendAct(session) ==
  /\ InTag("active")
  /\ selection = NoSelection => acts < MaxActs
  /\ Make(session)
  /\ battle' = session
  /\ acts' = IF selection = NoSelection THEN acts + 1 ELSE acts
  /\ selection' = [act |-> IF selection = NoSelection THEN acts'
                                                      ELSE selection.act,
                   id |-> ContinuationId, session |-> session.v]
  /\ ordinal' = IF ContinuationId > ordinal THEN ContinuationId ELSE ordinal
  /\ shown' = shown \cup {[id |-> ContinuationId, act |-> selection'.act]}
  /\ UNCHANGED <<drafts, characters, held>>

\* The runtime may refuse a cancellation of the selection's transaction.
Cancel(id) ==
  /\ InTag("active")
  /\ selection # NoSelection
  /\ selection.id = id
  /\ selection' = NoSelection
  /\ UNCHANGED <<drafts, characters, battle, ordinal, held, made, acts, shown>>

Next ==
  \/ \E c \in Characters : CreateDraft(c) \/ Finalize(c)
  \/ \E cs \in SUBSET Characters : Operate(cs)
  \/ \E tag \in {"setup", "active"}, id \in BattleIds,
        cs \in SUBSET Characters, others \in SUBSET StatBlocks,
        owner \in Characters \cup {NoOwner} :
       PrepareStart(tag, id, cs, others, owner)
  \/ \E c \in Characters : PlanAddCharacter(c)
  \/ \E n \in StatBlocks : PlanAddStatBlock(n)
  \/ \E x \in Characters \cup StatBlocks : PlanRemove(x)
  \/ PlanRemoveCompanion
  \/ PrepareEnd
  \/ \E w \in held : Drop(w) \/ CommitStart(w) \/ CommitPlan(w) \/ CommitEnd(w)
  \/ FinishSetup
  \/ InTag("active") /\ \E s \in Sessions : SettleAct(s) \/ PendAct(s)
  \/ \E id \in 1 .. MaxActs : Cancel(id)

Spec == Init /\ [][Next]_vars

-----------------------------------------------------------------------------
\* Types; a Battle always has a combatant.
TypeOK ==
  /\ drafts \subseteq Characters
  /\ characters \in [Characters -> Sheet \cup {Unregistered}]
  /\ battle \in Battle \cup {NoBattle}
  /\ battle # NoBattle => battle.roster # {}
  /\ selection \in Selection \cup {NoSelection}
  /\ ordinal \in Nat /\ made \in Nat /\ acts \in Nat
  /\ \A w \in held :
       /\ w.kind \in {"start", "plan", "end"}
       /\ {w.session, w.next} \subseteq Battle \cup {NoBattle}
       /\ DOMAIN w.expected = DOMAIN w.settled
       /\ DOMAIN w.settled \subseteq Characters
       /\ \A c \in DOMAIN w.settled : {w.expected[c], w.settled[c]} \subseteq Sheet

\* A character is in a Battle exactly when that Battle is the store's and
\* has it in its roster: no sheet stays locked after its Battle, and no
\* combatant fights with a sheet that is also used outside.
OccupancyMatchesBattle ==
  \A c \in Characters :
    LET in == IF Registered(c) THEN characters[c].battle ELSE NoBattle
    IN  in = IF battle # NoBattle /\ c \in battle.roster THEN battle.id
                                                         ELSE NoBattle

\* The pending transaction is one for the very session the store holds; the
\* runtime would answer any other with a defect.
PendingFollowsBattle ==
  selection # NoSelection => InTag("active") /\ selection.session = battle.v

\* A selection id is shown for one act only, and an act for its whole life
\* under one id, whatever was cancelled, settled or ended in between: a
\* client's cancellation can never hit another act than the one it saw.
SelectionNamesOneAct ==
  \A p, q \in shown : (p.id = q.id) <=> (p.act = q.act)

\* A companion is not in the Battle without the combatant that owns it.
CompanionsFollowTheirOwner ==
  battle # NoBattle /\ battle.owner # NoOwner => battle.owner \in battle.roster

\* What replaces a sheet or a Battle session was computed from the one it
\* replaces, however long it was held: no operation, roster change or
\* settlement is overwritten by an older plan, and finalizing a draft
\* replaces nobody.
NoLostUpdate ==
  [][/\ \A c \in Characters :
          Registered(c) => /\ Registered(c)'
                           /\ \/ characters'[c].v = characters[c].v
                              \/ characters'[c].base = characters[c].v
     /\ battle # NoBattle /\ battle' # NoBattle
          => battle'.v = battle.v \/ battle'.base = battle.v]_vars
=============================================================================
