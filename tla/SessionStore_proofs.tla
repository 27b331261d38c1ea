------------------------- MODULE SessionStore_proofs -------------------------
(***************************************************************************)
(* What holds of the session store for any number of characters, stat      *)
(* blocks, Battles, preparations and acts.                                 *)
(***************************************************************************)
EXTENDS SessionStore, TLAPS

(***************************************************************************)
(* The invariant says what a preparation still knows of the store when it  *)
(* is committed: that its check by identity is enough to keep sheets and   *)
(* Battle in step.                                                         *)
(***************************************************************************)
\* The sheets of w.settled are in the Battle that w.next leaves them in.
SettledMatchesNext(w) ==
  \A c \in DOMAIN w.settled :
    w.settled[c].battle =
      IF w.next # NoBattle /\ (w.kind = "start" \/ c \in w.next.roster)
      THEN w.next.id ELSE NoBattle

\* No other character's place changes.
OthersStay(w) ==
  w.kind = "plan" =>
    /\ w.session # NoBattle /\ w.next # NoBattle
    /\ w.next.id = w.session.id
    /\ \A c \in Characters \ DOMAIN w.settled :
         c \in w.next.roster <=> c \in w.session.roster

SettledFromExpected(w) ==
  /\ \A c \in DOMAIN w.settled :
       w.settled[c].v = w.expected[c].v \/ w.settled[c].base = w.expected[c].v
  /\ w.kind = "plan" => w.next.base = w.session.v

NextIsSound(w) ==
  /\ w.kind = "start" => w.next # NoBattle
  /\ w.kind = "end" => w.next = NoBattle
  /\ w.next # NoBattle => w.next.roster # {}
  /\ w.next # NoBattle /\ w.next.owner # NoOwner => w.next.owner \in w.next.roster

HeldType(w) ==
  /\ w.kind \in {"start", "plan", "end"}
  /\ {w.session, w.next} \subseteq Battle \cup {NoBattle}
  /\ DOMAIN w.expected = DOMAIN w.settled
  /\ DOMAIN w.settled \subseteq Characters
  /\ \A c \in DOMAIN w.settled : {w.expected[c], w.settled[c]} \subseteq Sheet

HeldSound(w) ==
  /\ HeldType(w) /\ SettledMatchesNext(w) /\ OthersStay(w)
  /\ SettledFromExpected(w) /\ NextIsSound(w)

\* A draft is nobody yet.
DraftsAreNew == \A c \in drafts : ~Registered(c)

\* Ids and acts are given out in order, and the pending act has been shown.
ShownInOrder ==
  /\ \A p \in shown : p.id \in 1 .. ordinal /\ p.act \in 1 .. acts
  /\ selection # NoSelection =>
       \E p \in shown : p.id = selection.id /\ p.act = selection.act

StoreInv ==
  /\ TypeOK
  /\ OccupancyMatchesBattle
  /\ PendingFollowsBattle
  /\ SelectionNamesOneAct
  /\ CompanionsFollowTheirOwner
  /\ DraftsAreNew
  /\ ShownInOrder
  /\ \A w \in held : HeldSound(w)

LEMMA InitStoreInv == Init => StoreInv
BY StoreAssumption, AbsenceAssumption
DEF Init, StoreInv, TypeOK, OccupancyMatchesBattle, PendingFollowsBattle,
    SelectionNamesOneAct, CompanionsFollowTheirOwner, DraftsAreNew,
    ShownInOrder, Registered

-----------------------------------------------------------------------------
(* Drafts and sheets. *)

LEMMA RegisteredSheet ==
  ASSUME TypeOK, NEW c \in Characters, Registered(c)
  PROVE  characters[c] \in Sheet
BY DEF TypeOK, Registered

LEMMA CreateDraftStep ==
  ASSUME StoreInv, NEW c \in Characters, CreateDraft(c)
  PROVE  StoreInv'
BY DEF StoreInv, CreateDraft, TypeOK, OccupancyMatchesBattle,
    PendingFollowsBattle, SelectionNamesOneAct, CompanionsFollowTheirOwner,
    DraftsAreNew, ShownInOrder, Registered, InTag, HeldSound, HeldType,
    SettledMatchesNext, OthersStay, SettledFromExpected, NextIsSound

\* A change of sheets that leaves them outside a Battle.
LEMMA SheetStep ==
  ASSUME StoreInv, NEW cs \in SUBSET Characters, NEW sheets,
         \A c \in cs : sheets[c] \in Sheet /\ sheets[c].battle = NoBattle,
         \A c \in cs : Registered(c) => characters[c].battle = NoBattle,
         characters' = [c \in Characters |->
                          IF c \in cs THEN sheets[c] ELSE characters[c]],
         drafts' \subseteq drafts,
         cs \cap drafts' = {},
         made' \in Nat,
         UNCHANGED <<battle, selection, ordinal, held, acts, shown>>
  PROVE  StoreInv'
<1>1. TypeOK'
  BY DEF StoreInv, TypeOK
<1>2. \A c \in Characters :
        Registered(c)' <=> c \in cs \/ Registered(c)
  BY AbsenceAssumption DEF Registered
<1>3. OccupancyMatchesBattle'
  <2>. SUFFICES ASSUME NEW c \in Characters
                PROVE  (IF Registered(c)' THEN characters'[c].battle
                                          ELSE NoBattle) =
                       IF battle # NoBattle /\ c \in battle.roster
                       THEN battle.id ELSE NoBattle
    BY DEF OccupancyMatchesBattle
  <2>1. (IF Registered(c) THEN characters[c].battle ELSE NoBattle) =
        IF battle # NoBattle /\ c \in battle.roster
        THEN battle.id ELSE NoBattle
    BY DEF StoreInv, OccupancyMatchesBattle
  <2>2. CASE c \in cs
    BY <1>2, <2>1, <2>2
  <2>3. CASE c \notin cs
    BY <1>2, <2>1, <2>3
  <2>. QED
    BY <2>2, <2>3
<1>4. DraftsAreNew'
  BY <1>2 DEF StoreInv, TypeOK, DraftsAreNew
<1>. QED
  BY <1>1, <1>3, <1>4
  DEF StoreInv, PendingFollowsBattle, SelectionNamesOneAct,
      CompanionsFollowTheirOwner, ShownInOrder, InTag, HeldSound, HeldType,
      SettledMatchesNext, OthersStay, SettledFromExpected, NextIsSound

LEMMA FinalizeStep ==
  ASSUME StoreInv, NEW c \in Characters, Finalize(c)
  PROVE  StoreInv'
<1>. DEFINE sheet == [v |-> made', base |-> 0, battle |-> NoBattle]
            sheets == [d \in {c} |-> sheet]
<1>1. made' \in Nat
  BY DEF StoreInv, TypeOK, Finalize
<1>2. sheet \in Sheet
  BY <1>1 DEF Sheet
<1>3. characters' = [d \in Characters |->
                       IF d \in {c} THEN sheets[d] ELSE characters[d]]
  BY DEF Finalize, StoreInv, TypeOK
<1>4. ~Registered(c)
  BY DEF Finalize, StoreInv, DraftsAreNew
<1>5. drafts' \subseteq drafts /\ {c} \cap drafts' = {}
      /\ UNCHANGED <<battle, selection, ordinal, held, acts, shown>>
  BY DEF Finalize
<1>6. \A d \in {c} : sheets[d] \in Sheet /\ sheets[d].battle = NoBattle
  BY <1>2
<1>. HIDE DEF sheets
<1>. QED
  BY <1>1, <1>3, <1>4, <1>5, <1>6, SheetStep

LEMMA DerivedSheet ==
  ASSUME NEW s \in Sheet, NEW v \in Nat
  PROVE  /\ Derived(s, v) \in Sheet
         /\ Derived(s, v).battle = NoBattle
         /\ Derived(s, v).base = s.v
BY DEF Derived, Sheet

LEMMA OperateStep ==
  ASSUME StoreInv, NEW cs \in SUBSET Characters, Operate(cs)
  PROVE  StoreInv'
<1>. DEFINE sheets == [c \in cs |-> Derived(characters[c], made')]
<1>1. made' \in Nat
  BY DEF StoreInv, TypeOK, Operate
<1>2. \A c \in cs : Available(c)
  BY DEF Operate, Operable
<1>3. \A c \in cs : sheets[c] \in Sheet /\ sheets[c].battle = NoBattle
  BY <1>1, <1>2, RegisteredSheet, DerivedSheet DEF StoreInv, Available
<1>4. characters' = [c \in Characters |->
                       IF c \in cs THEN sheets[c] ELSE characters[c]]
  BY DEF Operate
<1>5. cs \cap drafts = {}
  BY <1>2 DEF StoreInv, DraftsAreNew, Available
<1>6. UNCHANGED <<drafts, battle, selection, ordinal, held, acts, shown>>
  BY DEF Operate
<1>. HIDE DEF sheets
<1>. QED
  BY <1>1, <1>2, <1>3, <1>4, <1>5, <1>6, SheetStep DEF Available

-----------------------------------------------------------------------------
(* Preparations: each adds one sound record to those held. *)

Prepared(kind, settled, next) ==
  [kind |-> kind, session |-> battle,
   expected |-> [c \in DOMAIN settled |-> characters[c]],
   settled |-> settled, next |-> next]

LEMMA HoldStep ==
  ASSUME StoreInv, NEW kind, NEW settled, NEW next, Hold(kind, settled, next),
         HeldSound(Prepared(kind, settled, next))
  PROVE  StoreInv'
<1>1. \A w \in held' : HeldSound(w)
  BY DEF Hold, Prepared, StoreInv
<1>2. TypeOK'
  BY <1>1 DEF Hold, StoreInv, TypeOK, HeldSound, HeldType
<1>. QED
  BY <1>1, <1>2
  DEF Hold, StoreInv, OccupancyMatchesBattle, PendingFollowsBattle,
      SelectionNamesOneAct, CompanionsFollowTheirOwner, DraftsAreNew,
      ShownInOrder, Registered, InTag, HeldSound, HeldType, SettledMatchesNext,
      OthersStay, SettledFromExpected, NextIsSound

LEMMA InBattleSheet ==
  ASSUME NEW s \in Sheet, NEW id \in BattleIds
  PROVE  /\ InBattle(s, id) \in Sheet
         /\ InBattle(s, id).battle = id
         /\ InBattle(s, id).v = s.v
BY DEF InBattle, Sheet

LEMMA PrepareStartStep ==
  ASSUME StoreInv, NEW tag \in {"setup", "active"}, NEW id \in BattleIds,
         NEW cs \in SUBSET Characters, NEW others \in SUBSET StatBlocks,
         NEW owner \in Characters \cup {NoOwner},
         PrepareStart(tag, id, cs, others, owner)
  PROVE  StoreInv'
<1>. DEFINE settled == [c \in cs |-> InBattle(characters[c], id)]
            next == [tag |-> tag, id |-> id, roster |-> cs \cup others,
                     owner |-> owner, v |-> made + 1, base |-> 0]
            w == Prepared("start", settled, next)
<1>1. next \in Battle /\ next # NoBattle
  BY AbsenceAssumption DEF Battle, StoreInv, TypeOK
<1>2. \A c \in cs : characters[c] \in Sheet
  BY RegisteredSheet DEF PrepareStart, Available, StoreInv
<1>3. \A c \in cs : /\ settled[c] \in Sheet
                    /\ settled[c].battle = id
                    /\ settled[c].v = characters[c].v
  BY <1>2, InBattleSheet
<1>4. HeldType(w)
  BY <1>1, <1>2, <1>3 DEF Prepared, HeldType, PrepareStart
<1>5. SettledMatchesNext(w)
  BY <1>1, <1>3 DEF Prepared, SettledMatchesNext
<1>6. SettledFromExpected(w) /\ OthersStay(w)
  BY <1>3 DEF Prepared, SettledFromExpected, OthersStay
<1>7. NextIsSound(w)
  BY <1>1 DEF Prepared, NextIsSound, PrepareStart
<1>8. Hold("start", settled, next)
  BY DEF PrepareStart
<1>. HIDE DEF settled, next
<1>. QED
  BY <1>4, <1>5, <1>6, <1>7, <1>8, HoldStep DEF HeldSound

\* What the store's session becomes when its roster changes.
LEMMA WithRosterBattle ==
  ASSUME StoreInv, battle # NoBattle,
         NEW roster \in SUBSET (Characters \cup StatBlocks),
         NEW owner \in Characters \cup {NoOwner}
  PROVE  LET next == WithRoster(roster, owner)
         IN  /\ next \in Battle /\ next # NoBattle
             /\ next.id = battle.id /\ next.roster = roster
             /\ next.tag = battle.tag /\ next.owner = owner
             /\ next.base = battle.v
<1>. DEFINE next == WithRoster(roster, owner)
<1>1. battle \in Battle /\ made + 1 \in Nat
  BY DEF StoreInv, TypeOK
<1>2. next = [tag |-> battle.tag, id |-> battle.id, roster |-> roster,
              owner |-> owner, v |-> made + 1, base |-> battle.v]
  BY DEF WithRoster
<1>3. next \in Battle
  BY <1>1, <1>2 DEF Battle
<1>4. next # NoBattle
  BY <1>3, AbsenceAssumption
<1>5. /\ next.id = battle.id /\ next.roster = roster /\ next.tag = battle.tag
      /\ next.owner = owner /\ next.base = battle.v
  BY <1>2
<1>. QED
  BY <1>3, <1>4, <1>5

LEMMA ActiveBattle ==
  ASSUME StoreInv, InTag("active")
  PROVE  /\ battle \in Battle /\ battle # NoBattle
         /\ battle.roster \subseteq Characters \cup StatBlocks
         /\ battle.roster # {}
         /\ battle.id \in BattleIds
         /\ battle.owner \in Characters \cup {NoOwner}
         /\ battle.owner # NoOwner => battle.owner \in battle.roster
BY DEF StoreInv, TypeOK, InTag, Battle, CompanionsFollowTheirOwner

LEMMA PlanAddCharacterStep ==
  ASSUME StoreInv, NEW c \in Characters, PlanAddCharacter(c)
  PROVE  StoreInv'
<1>. DEFINE settled == [d \in {c} |-> InBattle(characters[d], battle.id)]
            next == WithRoster(battle.roster \cup {c}, battle.owner)
            w == Prepared("plan", settled, next)
<1>1. InTag("active") /\ Registered(c)
  BY DEF PlanAddCharacter, Plannable, Available
<1>2. /\ next \in Battle /\ next # NoBattle /\ next.id = battle.id
      /\ next.roster = battle.roster \cup {c} /\ next.owner = battle.owner
      /\ next.base = battle.v
  BY <1>1, ActiveBattle, WithRosterBattle
<1>3. /\ characters[c] \in Sheet
      /\ settled[c] \in Sheet /\ settled[c].battle = battle.id
      /\ settled[c].v = characters[c].v
  BY <1>1, ActiveBattle, RegisteredSheet, InBattleSheet DEF StoreInv
<1>4. HeldType(w)
  BY <1>1, <1>2, <1>3, ActiveBattle DEF Prepared, HeldType
<1>5. SettledMatchesNext(w) /\ OthersStay(w)
  BY <1>1, <1>2, <1>3, ActiveBattle DEF Prepared, SettledMatchesNext, OthersStay
<1>6. SettledFromExpected(w) /\ NextIsSound(w)
  BY <1>1, <1>2, <1>3, ActiveBattle DEF Prepared, SettledFromExpected, NextIsSound
<1>7. Hold("plan", settled, next)
  BY DEF PlanAddCharacter
<1>. HIDE DEF settled, next
<1>. QED
  BY <1>4, <1>5, <1>6, <1>7, HoldStep DEF HeldSound

\* A plan that settles no sheet and takes no character in or out.
LEMMA PlanBattleAloneStep ==
  ASSUME StoreInv, InTag("active"),
         NEW roster \in SUBSET (Characters \cup StatBlocks),
         NEW owner \in Characters \cup {NoOwner},
         roster # {}, owner # NoOwner => owner \in roster,
         roster \cap Characters = battle.roster \cap Characters,
         Hold("plan", NoSheets, WithRoster(roster, owner))
  PROVE  StoreInv'
<1>. DEFINE next == WithRoster(roster, owner)
            w == Prepared("plan", NoSheets, next)
<1>1. /\ next \in Battle /\ next # NoBattle /\ next.id = battle.id
      /\ next.roster = roster /\ next.owner = owner /\ next.base = battle.v
  BY ActiveBattle, WithRosterBattle
<1>2. HeldType(w)
  BY <1>1, ActiveBattle DEF Prepared, HeldType, NoSheets
<1>3. SettledMatchesNext(w) /\ OthersStay(w)
  BY <1>1, ActiveBattle DEF Prepared, SettledMatchesNext, OthersStay, NoSheets
<1>4. SettledFromExpected(w) /\ NextIsSound(w)
  BY <1>1, ActiveBattle DEF Prepared, SettledFromExpected, NextIsSound, NoSheets
<1>. HIDE DEF next
<1>. QED
  BY <1>2, <1>3, <1>4, HoldStep DEF HeldSound, next

LEMMA PlanAddStatBlockStep ==
  ASSUME StoreInv, NEW n \in StatBlocks, PlanAddStatBlock(n)
  PROVE  StoreInv'
<1>1. InTag("active")
  BY DEF PlanAddStatBlock, Plannable
<1>2. n \notin Characters
  BY StoreAssumption
<1>. QED
  BY <1>1, <1>2, ActiveBattle, PlanBattleAloneStep DEF PlanAddStatBlock

LEMMA PlanRemoveCompanionStep ==
  ASSUME StoreInv, PlanRemoveCompanion
  PROVE  StoreInv'
<1>1. InTag("active")
  BY DEF PlanRemoveCompanion, Plannable
<1>. QED
  BY <1>1, ActiveBattle, PlanBattleAloneStep DEF PlanRemoveCompanion

LEMMA PlanRemoveStep ==
  ASSUME StoreInv, NEW x \in Characters \cup StatBlocks, PlanRemove(x)
  PROVE  StoreInv'
<1>. DEFINE settled == [c \in {x} \cap Characters |->
                          Derived(characters[c], made + 1)]
            next == WithRoster(battle.roster \ {x}, OwnerAfterRemoval(x))
            w == Prepared("plan", settled, next)
<1>1. InTag("active") /\ (x \in Characters => Registered(x))
  BY DEF PlanRemove, Plannable
<1>2. /\ OwnerAfterRemoval(x) \in Characters \cup {NoOwner}
      /\ OwnerAfterRemoval(x) # NoOwner =>
           OwnerAfterRemoval(x) \in battle.roster \ {x}
  BY <1>1, ActiveBattle DEF OwnerAfterRemoval
<1>3. /\ next \in Battle /\ next # NoBattle /\ next.id = battle.id
      /\ next.roster = battle.roster \ {x}
      /\ next.owner = OwnerAfterRemoval(x) /\ next.base = battle.v
  BY <1>1, <1>2, ActiveBattle, WithRosterBattle
<1>4. made + 1 \in Nat
  BY DEF StoreInv, TypeOK
<1>5. \A c \in {x} \cap Characters :
        /\ characters[c] \in Sheet
        /\ settled[c] \in Sheet /\ settled[c].battle = NoBattle
        /\ settled[c].base = characters[c].v
  BY <1>1, <1>4, RegisteredSheet, DerivedSheet DEF StoreInv
<1>6. battle.roster \ {x} # {}
  BY <1>1, ActiveBattle DEF PlanRemove, SomeoneStays
<1>7. HeldType(w)
  BY <1>1, <1>3, <1>5, ActiveBattle DEF Prepared, HeldType
<1>8. SettledMatchesNext(w) /\ OthersStay(w)
  BY <1>1, <1>3, <1>5, ActiveBattle DEF Prepared, SettledMatchesNext, OthersStay
<1>9. SettledFromExpected(w) /\ NextIsSound(w)
  BY <1>1, <1>2, <1>3, <1>5, <1>6, ActiveBattle
  DEF Prepared, SettledFromExpected, NextIsSound
<1>10. Hold("plan", settled, next)
  BY DEF PlanRemove
<1>. HIDE DEF settled, next
<1>. QED
  BY <1>7, <1>8, <1>9, <1>10, HoldStep DEF HeldSound

LEMMA PrepareEndStep ==
  ASSUME StoreInv, PrepareEnd
  PROVE  StoreInv'
<1>. DEFINE here == battle.roster \cap Characters
            settled == [c \in here |-> Derived(characters[c], made + 1)]
            w == Prepared("end", settled, NoBattle)
<1>1. InTag("active") /\ \A c \in here : Registered(c)
  BY DEF PrepareEnd, Plannable
<1>2. made + 1 \in Nat
  BY DEF StoreInv, TypeOK
<1>3. \A c \in here :
        /\ characters[c] \in Sheet
        /\ settled[c] \in Sheet /\ settled[c].battle = NoBattle
        /\ settled[c].base = characters[c].v
  BY <1>1, <1>2, RegisteredSheet, DerivedSheet DEF StoreInv
<1>4. HeldType(w)
  BY <1>1, <1>3, ActiveBattle DEF Prepared, HeldType
<1>5. SettledMatchesNext(w) /\ OthersStay(w)
  BY <1>3 DEF Prepared, SettledMatchesNext, OthersStay
<1>6. SettledFromExpected(w) /\ NextIsSound(w)
  BY <1>3 DEF Prepared, SettledFromExpected, NextIsSound
<1>7. Hold("end", settled, NoBattle)
  BY DEF PrepareEnd
<1>. HIDE DEF settled
<1>. QED
  BY <1>4, <1>5, <1>6, <1>7, HoldStep DEF HeldSound

LEMMA DropStep ==
  ASSUME StoreInv, NEW w, Drop(w)
  PROVE  StoreInv'
BY DEF StoreInv, Drop, TypeOK, OccupancyMatchesBattle, PendingFollowsBattle,
    SelectionNamesOneAct, CompanionsFollowTheirOwner, DraftsAreNew,
    ShownInOrder, Registered, InTag, HeldSound, HeldType, SettledMatchesNext,
    OthersStay, SettledFromExpected, NextIsSound

-----------------------------------------------------------------------------
(* Commits. *)

\* What the three commits share: the sheets and the Battle of a sound
\* preparation take their places, and the checks made sure that the Battle
\* they leave has exactly the characters that are in it.
LEMMA InstallStep ==
  ASSUME StoreInv, NEW w \in held, CharactersUnchanged(w), Install(w),
         \A c \in Characters \ DOMAIN w.settled :
           (IF Registered(c) THEN characters[c].battle ELSE NoBattle) =
           IF w.next # NoBattle /\ c \in w.next.roster
           THEN w.next.id ELSE NoBattle,
         w.kind = "start" => DOMAIN w.settled \subseteq w.next.roster
  PROVE  StoreInv'
<1>1. HeldSound(w)
  BY DEF StoreInv
<1>2. /\ DOMAIN w.settled \subseteq Characters
      /\ \A c \in DOMAIN w.settled :
           characters[c] \in Sheet /\ w.settled[c] \in Sheet
  BY <1>1 DEF HeldSound, HeldType, CharactersUnchanged
<1>3. /\ characters' = [c \in Characters |->
                          IF c \in DOMAIN w.settled THEN w.settled[c]
                                                    ELSE characters[c]]
      /\ battle' = w.next /\ selection' = NoSelection /\ held' \subseteq held
      /\ UNCHANGED <<drafts, ordinal, made, acts, shown>>
  BY DEF Install, SelectionAfterCommit
<1>4. \A c \in Characters : Registered(c)' <=> Registered(c)
  BY <1>2, <1>3, AbsenceAssumption DEF Registered
<1>5. battle' \in Battle \cup {NoBattle} /\ (battle' # NoBattle => battle'.roster # {})
  BY <1>1, <1>3 DEF HeldSound, HeldType, NextIsSound
<1>6. TypeOK'
  <2>1. characters' \in [Characters -> Sheet \cup {Unregistered}]
    BY <1>2, <1>3 DEF StoreInv, TypeOK
  <2>. QED
    BY <1>3, <1>5, <2>1 DEF StoreInv, TypeOK
<1>7. OccupancyMatchesBattle'
  <2>. SUFFICES ASSUME NEW c \in Characters
                PROVE  (IF Registered(c)' THEN characters'[c].battle
                                          ELSE NoBattle) =
                       IF w.next # NoBattle /\ c \in w.next.roster
                       THEN w.next.id ELSE NoBattle
    BY <1>3 DEF OccupancyMatchesBattle
  <2>1. CASE c \in DOMAIN w.settled
    <3>1. Registered(c)' /\ characters'[c] = w.settled[c]
      BY <1>2, <1>3, <2>1, AbsenceAssumption DEF Registered
    <3>2. w.kind = "start" => c \in w.next.roster
      BY <2>1
    <3>. QED
      BY <1>1, <2>1, <3>1, <3>2 DEF HeldSound, SettledMatchesNext
  <2>2. CASE c \notin DOMAIN w.settled
    <3>1. characters'[c] = characters[c]
      BY <1>3, <2>2
    <3>. QED
      BY <1>4, <2>2, <3>1
  <2>. QED
    BY <2>1, <2>2
<1>8. CompanionsFollowTheirOwner'
  BY <1>1, <1>3 DEF HeldSound, NextIsSound, CompanionsFollowTheirOwner
<1>9. PendingFollowsBattle' /\ SelectionNamesOneAct' /\ ShownInOrder'
  BY <1>3 DEF PendingFollowsBattle, StoreInv, SelectionNamesOneAct, ShownInOrder
<1>10. DraftsAreNew'
  BY <1>3, <1>4 DEF StoreInv, DraftsAreNew, TypeOK
<1>11. \A v \in held' : HeldSound(v)'
  BY <1>3 DEF StoreInv, HeldSound, HeldType, SettledMatchesNext, OthersStay,
     SettledFromExpected, NextIsSound
<1>. QED
  BY <1>6, <1>7, <1>8, <1>9, <1>10, <1>11 DEF StoreInv

\* Where a character is, as the store's invariant has it.
LEMMA WhereCharactersAre ==
  ASSUME StoreInv, NEW c \in Characters
  PROVE  (IF Registered(c) THEN characters[c].battle ELSE NoBattle) =
         IF battle # NoBattle /\ c \in battle.roster
         THEN battle.id ELSE NoBattle
BY DEF StoreInv, OccupancyMatchesBattle

LEMMA CommitStartStep ==
  ASSUME StoreInv, NEW w \in held, CommitStart(w)
  PROVE  StoreInv'
<1>1. HeldSound(w)
  BY DEF StoreInv
<1>2. /\ battle = NoBattle /\ w.next # NoBattle /\ w.kind = "start"
      /\ w.next.roster \cap Characters = DOMAIN w.settled
  BY <1>1 DEF CommitStart, HeldSound, HeldType, NextIsSound
<1>3. CharactersUnchanged(w) /\ Install(w)
  BY DEF CommitStart
<1>. QED
  BY <1>2, <1>3, WhereCharactersAre, InstallStep

LEMMA CommitPlanStep ==
  ASSUME StoreInv, NEW w \in held, CommitPlan(w)
  PROVE  StoreInv'
<1>1. HeldSound(w)
  BY DEF StoreInv
<1>2. /\ w.kind = "plan" /\ battle # NoBattle /\ w.next # NoBattle
      /\ w.next.id = battle.id
      /\ \A c \in Characters \ DOMAIN w.settled :
           c \in w.next.roster <=> c \in battle.roster
  BY <1>1 DEF CommitPlan, HeldSound, OthersStay
<1>3. CharactersUnchanged(w) /\ Install(w)
  BY DEF CommitPlan
<1>. QED
  BY <1>2, <1>3, WhereCharactersAre, InstallStep

LEMMA CommitEndStep ==
  ASSUME StoreInv, NEW w \in held, CommitEnd(w)
  PROVE  StoreInv'
<1>1. HeldSound(w)
  BY DEF StoreInv
<1>2. /\ w.kind = "end" /\ w.next = NoBattle
      /\ battle.roster \cap Characters = DOMAIN w.settled
  BY <1>1 DEF CommitEnd, HeldSound, HeldType, NextIsSound
<1>3. CharactersUnchanged(w) /\ Install(w)
  BY DEF CommitEnd
<1>. QED
  BY <1>2, <1>3, WhereCharactersAre, InstallStep

-----------------------------------------------------------------------------
(* Setups and acts: another session of the same Battle. *)

\* A session with the same id and characters, and a companion whose owner is
\* in it.
Descends(session) ==
  /\ session \in Battle /\ session # NoBattle
  /\ session.id = battle.id /\ session.roster = battle.roster
  /\ session.owner # NoOwner => session.owner \in session.roster

LEMMA BattleStep ==
  ASSUME StoreInv, battle \in Battle, battle # NoBattle, battle.roster # {},
         Descends(battle'), made' \in Nat, ordinal' \in Nat, acts' \in Nat,
         selection' \in Selection \cup {NoSelection},
         PendingFollowsBattle', SelectionNamesOneAct', ShownInOrder',
         UNCHANGED <<drafts, characters, held>>
  PROVE  StoreInv'
<1>1. TypeOK'
  BY DEF StoreInv, TypeOK, Descends
<1>2. OccupancyMatchesBattle' /\ DraftsAreNew'
  BY DEF StoreInv, OccupancyMatchesBattle, DraftsAreNew, Registered, Descends
<1>3. CompanionsFollowTheirOwner'
  BY DEF CompanionsFollowTheirOwner, Descends
<1>4. \A w \in held' : HeldSound(w)'
  BY DEF StoreInv, HeldSound, HeldType, SettledMatchesNext, OthersStay,
     SettledFromExpected, NextIsSound
<1>. QED
  BY <1>1, <1>2, <1>3, <1>4 DEF StoreInv

LEMMA FinishSetupStep ==
  ASSUME StoreInv, FinishSetup
  PROVE  StoreInv'
<1>1. /\ battle \in Battle /\ battle # NoBattle /\ battle.roster # {}
      /\ battle.owner # NoOwner => battle.owner \in battle.roster
  BY DEF FinishSetup, InTag, StoreInv, TypeOK, CompanionsFollowTheirOwner
<1>2. made' \in Nat
  BY DEF FinishSetup, StoreInv, TypeOK
<1>3. battle' \in Battle /\ battle'.id = battle.id
      /\ battle'.roster = battle.roster /\ battle'.owner = battle.owner
  BY <1>1, <1>2 DEF FinishSetup, Battle
<1>4. Descends(battle')
  BY <1>1, <1>3, AbsenceAssumption DEF Descends
<1>5. /\ selection' = NoSelection
      /\ UNCHANGED <<drafts, characters, ordinal, held, acts, shown>>
  BY DEF FinishSetup
<1>6. PendingFollowsBattle' /\ SelectionNamesOneAct' /\ ShownInOrder'
  BY <1>5 DEF PendingFollowsBattle, StoreInv, SelectionNamesOneAct, ShownInOrder
<1>. QED
  BY <1>1, <1>2, <1>4, <1>5, <1>6, BattleStep DEF StoreInv, TypeOK

LEMMA SessionsDescend ==
  ASSUME StoreInv, InTag("active"), NEW session \in Sessions
  PROVE  Descends(session) /\ session.tag = "active"
<1>1. CASE session = battle
  BY <1>1, ActiveBattle DEF Descends, InTag
<1>2. CASE session # battle
  <2>1. PICK owner \in (battle.roster \cap Characters) \cup {NoOwner} :
          session = WithRoster(battle.roster, owner)
    BY <1>2 DEF Sessions
  <2>. QED
    BY <2>1, ActiveBattle, WithRosterBattle DEF Descends, InTag
<1>. QED
  BY <1>1, <1>2

LEMMA SettleActStep ==
  ASSUME StoreInv, NEW session \in Sessions, SettleAct(session)
  PROVE  StoreInv'
<1>1. InTag("active") /\ battle' = session /\ selection' = NoSelection
      /\ UNCHANGED <<drafts, characters, ordinal, held, acts, shown>>
  BY DEF SettleAct
<1>2. made' \in Nat
  BY DEF SettleAct, Make, StoreInv, TypeOK
<1>3. PendingFollowsBattle' /\ SelectionNamesOneAct' /\ ShownInOrder'
  BY <1>1 DEF PendingFollowsBattle, StoreInv, SelectionNamesOneAct, ShownInOrder
<1>4. Descends(battle')
  BY <1>1, SessionsDescend
<1>. QED
  BY <1>1, <1>2, <1>3, <1>4, ActiveBattle, BattleStep DEF StoreInv, TypeOK

LEMMA PendActStep ==
  ASSUME StoreInv, NEW session \in Sessions, PendAct(session)
  PROVE  StoreInv'
<1>. DEFINE act == IF selection = NoSelection THEN acts + 1 ELSE selection.act
            p == [id |-> ContinuationId, act |-> act]
<1>1. /\ InTag("active") /\ battle' = session
      /\ selection' = [act |-> act, id |-> ContinuationId,
                       session |-> session.v]
      /\ acts' = IF selection = NoSelection THEN acts + 1 ELSE acts
      /\ ordinal' = IF ContinuationId > ordinal THEN ContinuationId ELSE ordinal
      /\ shown' = shown \cup {p}
      /\ UNCHANGED <<drafts, characters, held>>
  <2>1. (IF selection = NoSelection THEN acts' ELSE selection.act) = act
    BY DEF PendAct
  <2>2. selection'.act = act
    BY <2>1 DEF PendAct
  <2>. QED
    BY <2>1, <2>2 DEF PendAct
<1>2. made' \in Nat
  BY DEF PendAct, Make, StoreInv, TypeOK
<1>3. Descends(session) /\ session.tag = "active" /\ session.v \in Nat
  BY <1>1, SessionsDescend DEF Descends, Battle
<1>4. /\ ordinal \in Nat /\ acts \in Nat
      /\ \A q \in shown : q.id \in 1 .. ordinal /\ q.act \in 1 .. acts
      /\ \A q, r \in shown : (q.id = r.id) <=> (q.act = r.act)
  BY DEF StoreInv, TypeOK, ShownInOrder, SelectionNamesOneAct
<1>5. /\ ordinal' \in Nat /\ acts' \in Nat /\ selection' \in Selection
      /\ ShownInOrder' /\ SelectionNamesOneAct'
  <2>1. CASE selection = NoSelection
    <3>1. /\ p.id = ordinal + 1 /\ p.act = acts + 1
          /\ selection'.id = p.id /\ selection'.act = p.act
          /\ ordinal' = ordinal + 1 /\ acts' = acts + 1
      BY <1>1, <1>4, <2>1 DEF ContinuationId
    <3>2. selection' \in Selection
      BY <1>1, <1>3, <1>4, <2>1 DEF ContinuationId, Selection
    <3>3. ShownInOrder'
      <4>1. \A r \in shown' : r \in shown \/ r = p
        BY <1>1
      <4>2. \A r \in shown' : r.id \in 1 .. ordinal' /\ r.act \in 1 .. acts'
        BY <1>4, <3>1, <4>1
      <4>3. p \in shown'
        BY <1>1
      <4>. HIDE DEF p
      <4>. QED
        BY <3>1, <4>2, <4>3 DEF ShownInOrder
    <3>4. SelectionNamesOneAct'
      BY <1>1, <1>4, <3>1 DEF SelectionNamesOneAct
    <3>. QED
      BY <1>4, <3>1, <3>2, <3>3, <3>4
  <2>2. CASE selection # NoSelection
    <3>1. PICK q \in shown : q.id = selection.id /\ q.act = selection.act
      BY <2>2 DEF StoreInv, ShownInOrder
    <3>2. /\ p.id = q.id /\ p.act = q.act
          /\ selection'.id = p.id /\ selection'.act = p.act
          /\ ordinal' = ordinal /\ acts' = acts
      BY <1>1, <1>4, <2>2, <3>1 DEF ContinuationId
    <3>3. selection' \in Selection
      BY <1>1, <1>3, <2>2 DEF ContinuationId, Selection, StoreInv, TypeOK
    <3>4. ShownInOrder'
      <4>1. \A r \in shown' : r \in shown \/ r = p
        BY <1>1
      <4>2. \A r \in shown' : r.id \in 1 .. ordinal' /\ r.act \in 1 .. acts'
        BY <1>4, <3>1, <3>2, <4>1
      <4>3. p \in shown'
        BY <1>1
      <4>. HIDE DEF p
      <4>. QED
        BY <3>2, <4>2, <4>3 DEF ShownInOrder
    <3>5. SelectionNamesOneAct'
      BY <1>1, <1>4, <3>1, <3>2 DEF SelectionNamesOneAct
    <3>. QED
      BY <1>4, <3>2, <3>3, <3>4, <3>5
  <2>. QED
    BY <2>1, <2>2
<1>6. PendingFollowsBattle'
  BY <1>1, <1>3 DEF PendingFollowsBattle, InTag, Descends
<1>. QED
  BY <1>1, <1>2, <1>3, <1>5, <1>6, ActiveBattle, BattleStep

LEMMA CancelStep ==
  ASSUME StoreInv, NEW id, Cancel(id)
  PROVE  StoreInv'
BY DEF StoreInv, Cancel, TypeOK, OccupancyMatchesBattle, PendingFollowsBattle,
    SelectionNamesOneAct, CompanionsFollowTheirOwner, DraftsAreNew,
    ShownInOrder, Registered, InTag, HeldSound, HeldType, SettledMatchesNext,
    OthersStay, SettledFromExpected, NextIsSound

LEMMA StutterStep ==
  ASSUME StoreInv, UNCHANGED vars
  PROVE  StoreInv'
BY DEF vars, StoreInv, TypeOK, OccupancyMatchesBattle, PendingFollowsBattle,
    SelectionNamesOneAct, CompanionsFollowTheirOwner, DraftsAreNew,
    ShownInOrder, Registered, InTag, HeldSound, HeldType, SettledMatchesNext,
    OthersStay, SettledFromExpected, NextIsSound

-----------------------------------------------------------------------------
\* Every step of the store keeps its invariant.
THEOREM StoreInvariant == Spec => []StoreInv
<1>1. StoreInv /\ [Next]_vars => StoreInv'
  <2>. SUFFICES ASSUME StoreInv, [Next]_vars PROVE StoreInv'
    OBVIOUS
  <2>1. CASE \E c \in Characters : CreateDraft(c) \/ Finalize(c)
    BY <2>1, CreateDraftStep, FinalizeStep
  <2>2. CASE \E cs \in SUBSET Characters : Operate(cs)
    BY <2>2, OperateStep
  <2>3. CASE \E tag \in {"setup", "active"}, id \in BattleIds,
               cs \in SUBSET Characters, others \in SUBSET StatBlocks,
               owner \in Characters \cup {NoOwner} :
               PrepareStart(tag, id, cs, others, owner)
    BY <2>3, PrepareStartStep
  <2>4. CASE \/ \E c \in Characters : PlanAddCharacter(c)
             \/ \E n \in StatBlocks : PlanAddStatBlock(n)
             \/ \E x \in Characters \cup StatBlocks : PlanRemove(x)
             \/ PlanRemoveCompanion
    BY <2>4, PlanAddCharacterStep, PlanAddStatBlockStep, PlanRemoveStep,
       PlanRemoveCompanionStep
  <2>5. CASE PrepareEnd
    BY <2>5, PrepareEndStep
  <2>6. CASE \E w \in held :
               Drop(w) \/ CommitStart(w) \/ CommitPlan(w) \/ CommitEnd(w)
    BY <2>6, DropStep, CommitStartStep, CommitPlanStep, CommitEndStep
  <2>7. CASE FinishSetup
    BY <2>7, FinishSetupStep
  <2>8. CASE InTag("active") /\ \E s \in Sessions : SettleAct(s) \/ PendAct(s)
    BY <2>8, SettleActStep, PendActStep
  <2>9. CASE \E id \in 1 .. MaxActs : Cancel(id)
    BY <2>9, CancelStep
  <2>10. CASE UNCHANGED vars
    BY <2>10, StutterStep
  <2>. QED
    BY <2>1, <2>2, <2>3, <2>4, <2>5, <2>6, <2>7, <2>8, <2>9, <2>10 DEF Next
<1>. QED
  BY <1>1, InitStoreInv, PTL DEF Spec

\* Every value of the store stays of its type, and a Battle has a combatant.
THEOREM StoreTypes == Spec => []TypeOK
<1>1. StoreInv => TypeOK
  BY DEF StoreInv
<1>. QED
  BY <1>1, StoreInvariant, PTL

\* A character is in a Battle exactly when that Battle is the store's and has
\* it: the checks by identity at a commit (battle-session-store-commit.ts,
\* battle-roster-session-store.ts) suffice for any number of preparations.
THEOREM Occupancy == Spec => []OccupancyMatchesBattle
<1>1. StoreInv => OccupancyMatchesBattle
  BY DEF StoreInv
<1>. QED
  BY <1>1, StoreInvariant, PTL

\* The pending transaction is one of the store's own session.
THEOREM PendingFollows == Spec => []PendingFollowsBattle
<1>1. StoreInv => PendingFollowsBattle
  BY DEF StoreInv
<1>. QED
  BY <1>1, StoreInvariant, PTL

\* A selection id names one act and an act has one selection id.
THEOREM SelectionIds == Spec => []SelectionNamesOneAct
<1>1. StoreInv => SelectionNamesOneAct
  BY DEF StoreInv
<1>. QED
  BY <1>1, StoreInvariant, PTL

\* No companion stays in the Battle without its owner.
THEOREM Companions == Spec => []CompanionsFollowTheirOwner
<1>1. StoreInv => CompanionsFollowTheirOwner
  BY DEF StoreInv
<1>. QED
  BY <1>1, StoreInvariant, PTL

-----------------------------------------------------------------------------
(* Lineage. *)

SheetLineage ==
  \A c \in Characters :
    Registered(c) => /\ Registered(c)'
                     /\ \/ characters'[c].v = characters[c].v
                        \/ characters'[c].base = characters[c].v

BattleLineage ==
  battle # NoBattle /\ battle' # NoBattle
    => battle'.v = battle.v \/ battle'.base = battle.v

LEMMA InstallLineage ==
  ASSUME StoreInv, NEW w \in held, CharactersUnchanged(w), Install(w),
         w.kind = "plan" => battle = w.session,
         w.kind = "start" => battle = NoBattle
  PROVE  SheetLineage /\ BattleLineage
<1>1. HeldSound(w)
  BY DEF StoreInv
<1>2. SheetLineage
  BY <1>1, AbsenceAssumption
  DEF SheetLineage, HeldSound, HeldType, SettledFromExpected,
      CharactersUnchanged, Install, Registered
<1>3. BattleLineage
  BY <1>1 DEF BattleLineage, HeldSound, HeldType, NextIsSound,
     SettledFromExpected, Install
<1>. QED
  BY <1>2, <1>3

\* Whatever is put in a sheet's or a Battle session's place was computed from
\* it, and no character leaves the registry.
THEOREM Lineage == Spec => NoLostUpdate
<1>1. StoreInv /\ [Next]_vars => [SheetLineage /\ BattleLineage]_vars
  <2>. SUFFICES ASSUME StoreInv, Next PROVE SheetLineage /\ BattleLineage
    OBVIOUS
  <2>. USE DEF SheetLineage, BattleLineage, Registered
  <2>1. CASE \E c \in Characters : CreateDraft(c)
    BY <2>1 DEF CreateDraft
  <2>2. ASSUME NEW c \in Characters, Finalize(c)
        PROVE  SheetLineage /\ BattleLineage
    <3>1. characters[c] = Unregistered
      BY <2>2 DEF Finalize, StoreInv, DraftsAreNew
    <3>2. \A d \in Characters : d # c => characters'[d] = characters[d]
      BY <2>2 DEF Finalize, StoreInv, TypeOK
    <3>. QED
      BY <2>2, <3>1, <3>2 DEF Finalize
  <2>3. ASSUME NEW cs \in SUBSET Characters, Operate(cs)
        PROVE  SheetLineage /\ BattleLineage
    <3>1. \A c \in cs : /\ characters'[c] \in Sheet
                        /\ characters'[c].base = characters[c].v
      BY <2>3, RegisteredSheet, DerivedSheet
      DEF Operate, Operable, Available, StoreInv, TypeOK
    <3>2. \A c \in Characters \ cs : characters'[c] = characters[c]
      BY <2>3 DEF Operate
    <3>. QED
      BY <2>3, <3>1, <3>2, AbsenceAssumption DEF Operate
  <2>4. ASSUME NEW kind, NEW settled, NEW next, Hold(kind, settled, next)
        PROVE  SheetLineage /\ BattleLineage
    BY <2>4 DEF Hold
  <2>5. CASE \E tag \in {"setup", "active"}, id \in BattleIds,
               cs \in SUBSET Characters, others \in SUBSET StatBlocks,
               owner \in Characters \cup {NoOwner} :
               PrepareStart(tag, id, cs, others, owner)
    BY <2>4, <2>5 DEF PrepareStart
  <2>6. CASE \/ \E c \in Characters : PlanAddCharacter(c)
             \/ \E n \in StatBlocks : PlanAddStatBlock(n)
             \/ \E x \in Characters \cup StatBlocks : PlanRemove(x)
             \/ PlanRemoveCompanion
             \/ PrepareEnd
    BY <2>4, <2>6
    DEF PlanAddCharacter, PlanAddStatBlock, PlanRemove, PlanRemoveCompanion,
        PrepareEnd
  <2>7. ASSUME NEW w \in held,
               Drop(w) \/ CommitStart(w) \/ CommitPlan(w) \/ CommitEnd(w)
        PROVE  SheetLineage /\ BattleLineage
    BY <2>7, InstallLineage DEF Drop, CommitStart, CommitPlan, CommitEnd
  <2>8. CASE FinishSetup
    <3>1. battle \in Battle
      BY <2>8 DEF FinishSetup, InTag, StoreInv, TypeOK
    <3>2. battle'.base = battle.v
      BY <2>8, <3>1 DEF FinishSetup, Battle
    <3>. QED
      BY <2>8, <3>2 DEF FinishSetup
  <2>9. ASSUME InTag("active"), NEW session \in Sessions,
               SettleAct(session) \/ PendAct(session)
        PROVE  SheetLineage /\ BattleLineage
    <3>1. session = battle \/ session.base = battle.v
      BY <2>9 DEF Sessions, WithRoster
    <3>. QED
      BY <2>9, <3>1 DEF SettleAct, PendAct
  <2>10. CASE \E id \in 1 .. MaxActs : Cancel(id)
    BY <2>10 DEF Cancel
  <2>. QED
    BY <2>1, <2>2, <2>3, <2>5, <2>6, <2>7, <2>8, <2>9, <2>10 DEF Next
<1>2. [SheetLineage /\ BattleLineage]_vars =>
      [/\ \A c \in Characters :
            Registered(c) => /\ Registered(c)'
                             /\ \/ characters'[c].v = characters[c].v
                                \/ characters'[c].base = characters[c].v
       /\ battle # NoBattle /\ battle' # NoBattle
            => battle'.v = battle.v \/ battle'.base = battle.v]_vars
  BY DEF SheetLineage, BattleLineage
<1>. QED
  BY <1>1, <1>2, StoreInvariant, PTL DEF Spec, NoLostUpdate
=============================================================================
