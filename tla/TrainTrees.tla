----------------------------- MODULE TrainTrees -----------------------------
(***************************************************************************)
(* What the trees of a run are made of and what its gates say of them,     *)
(* for every value of the constants: a pull request is held for a red      *)
(* gate only on its own work; and as long as no two gates are at their     *)
(* rows at once a family lands on the row of its own gate, a tree found    *)
(* red never lands, and the base is kept the promise of GatedBase.         *)
(***************************************************************************)
EXTENDS TrainPlaces

---------------------------------------------------------------------------
(* Nobody is held for the work of another.                                 *)

\* What a family was planned as, and the last verdict on it.
SamePlan(a, b) == a.steps = b.steps /\ a.after = b.after /\ a.base = b.base
SameRow(a, b) == SamePlan(a, b) /\ a.result = b.result /\ a.gate = b.gate
RowsStay == \A f \in DOMAIN families : f \in DOMAIN families' /\ SameRow(families'[f], families[f])

LEMMA StatusPlan ==
  ASSUME NEW row \in Family, NEW s
  PROVE  SameRow(row, row) /\ SameRow([row EXCEPT !.status = s], row) /\ SameRow([row EXCEPT !.future = s], row)
BY DEF Family, SamePlan, SameRow

\* A family stays as it was planned, and only a gate gives it a verdict.
LEMMA PlanKept ==
  ASSUME TypeOK, [Next]_vars, \A f \in DOMAIN families : ~Gate(f)
  PROVE  RowsStay
<1>1. /\ \A f \in DOMAIN families : families[f] \in Family
      /\ families \in Seq(Family) /\ DOMAIN families = 1..Len(families) /\ Len(families) \in Nat
  BY BatchTyped DEF TypeOK, GatesTyped
<1>2. CASE UNCHANGED families
  BY <1>1, <1>2, StatusPlan DEF RowsStay
<1>3. ASSUME NEW g \in DOMAIN families, NEW s, families' = Setting(g, s)
      PROVE  RowsStay
  <2>1. /\ DOMAIN families' = DOMAIN families
        /\ \A f \in DOMAIN families : families'[f] = families[f] \/ families'[f] = [families[f] EXCEPT !.status = s]
    BY <1>3 DEF Setting
  <2> QED BY <1>1, <2>1, StatusPlan DEF RowsStay
<1>4. CASE PlanClose
  <2>1. CASE UNCHANGED families
    BY <1>2, <2>1
  <2>2. CASE ~UNCHANGED families
    <3>1. PICK new : families' = Append(families, new)
      BY <1>4, <2>2 DEF PlanClose
    <3>2. \A f \in DOMAIN families : f \in DOMAIN families' /\ families'[f] = families[f]
      BY <1>1, <3>1
    <3> QED BY <1>1, <3>2, StatusPlan DEF RowsStay
  <2> QED BY <2>1, <2>2
<1>5. CASE Submit
  <2>1. /\ DOMAIN families' = DOMAIN families
        /\ \A f \in DOMAIN families : families'[f] \in {families[f], [families[f] EXCEPT !.future = "queued"]}
    BY <1>5 DEF Submit
  <2> QED BY <1>1, <2>1, StatusPlan DEF RowsStay
<1>6. CASE Cancel
  <2>1. /\ DOMAIN families' = DOMAIN families
        /\ \A f \in DOMAIN families : families'[f] =
             IF families[f].future # "queued" THEN families[f]
             ELSE [families[f] EXCEPT !.future = "cancelled",
                                      !.status = IF stop THEN "REQUEUED" ELSE families[f].status]
    BY <1>6 DEF Cancel
  <2>2. \A f \in DOMAIN families :
          SameRow([families[f] EXCEPT !.future = "cancelled",
                                      !.status = IF stop THEN "REQUEUED" ELSE families[f].status], families[f])
    BY <1>1 DEF Family, SamePlan, SameRow
  <2> QED BY <1>1, <2>1, <2>2, StatusPlan DEF RowsStay
<1>7. CASE Collect
  <2>1. PICK g : /\ g = batch[1]
                 /\ CollectStopped(g) \/ CollectDry(g) \/ CollectGreen(g) \/ CollectUnread(g) \/ CollectRed(g)
    BY <1>7 DEF Collect
  <2>2. batch # <<>>
    BY <1>7 DEF Collect, TypeOK, Pointers
  <2>3. g \in DOMAIN families
    BY <2>1, <2>2, BatchTail, BatchTyped
  <2>4. UNCHANGED families \/ (\E s : families' = Setting(g, s)) \/ (\E s : families' = Void(g, s))
    BY <2>1 DEF CollectStopped, CollectDry, CollectGreen, CollectUnread, CollectRed
  <2>5. ASSUME NEW s, families' = Void(g, s) PROVE RowsStay
    <3>1. /\ DOMAIN families' = DOMAIN families
          /\ \A f \in DOMAIN families : families'[f] \in {families[f], [families[f] EXCEPT !.status = s],
                                                          [families[f] EXCEPT !.status = "SPECULATION_VOID"]}
      BY <2>5 DEF Void
    <3> QED BY <1>1, <3>1, StatusPlan DEF RowsStay
  <2> QED BY <1>2, <1>3, <2>3, <2>4, <2>5
<1>8. CASE PartGated
  <2>1. cur \in DOMAIN families
    BY <1>8 DEF PartGated, TypeOK, Pointers
  <2> QED BY <1>2, <1>3, <1>8, <2>1 DEF PartGated
<1>9. CASE Land
  <2>1. cur \in DOMAIN families
    BY <1>9, LandingPointers DEF Land, LandCheck, Decide, Reobserve, Push, Await, Merge, Confirm, Landing
  <2>2. \/ UNCHANGED families
        \/ \E s : families' = Setting(cur, s)
        \/ \E s, sha : families' = [families EXCEPT ![cur].status = s, ![cur].landed = sha]
    <3>1. CASE LandCheck \/ Decide \/ Reobserve \/ Push \/ Await \/ Merge
      BY <3>1 DEF LandCheck, Decide, Reobserve, Push, Await, Merge, ReadFails, Withheld, Leave
    <3>2. CASE Confirm
      BY <3>2 DEF Confirm, Leave
    <3> QED BY <1>9, <3>1, <3>2 DEF Land
  <2>3. ASSUME NEW s, NEW sha, families' = [families EXCEPT ![cur].status = s, ![cur].landed = sha]
        PROVE  RowsStay
    <3>1. /\ DOMAIN families' = DOMAIN families
          /\ \A f \in DOMAIN families : families'[f] \in {families[f], [families[f] EXCEPT !.status = s, !.landed = sha]}
      BY <2>3
    <3>2. \A f \in DOMAIN families : SameRow([families[f] EXCEPT !.status = s, !.landed = sha], families[f])
      BY <1>1 DEF Family, SamePlan, SameRow
    <3> QED BY <1>1, <3>1, <3>2, StatusPlan DEF RowsStay
  <2> QED BY <1>2, <1>3, <2>1, <2>2, <2>3
<1>10. CASE StopEarly \/ Snapshot \/ Pairs \/ Round \/ PlanStep \/ PartsDone \/ Part \/ Join \/ Disturb \/ Finished
            \/ UNCHANGED vars
  <2>1. CASE StopEarly \/ Snapshot \/ Pairs \/ Round \/ PlanStep
    BY <1>2, <2>1 DEF StopEarly, Snapshot, Pairs, Round, PlanStep, RunUnread, Untouched
  <2>2. CASE PartsDone \/ Part \/ Join \/ Disturb \/ Finished \/ UNCHANGED vars
    BY <1>2, <2>2 DEF PartsDone, Part, Join, Disturb, Outside, Finished, vars
  <2> QED BY <1>10, <2>1, <2>2
<1> QED BY <1>4, <1>5, <1>6, <1>7, <1>8, <1>9, <1>10 DEF Next, Train

Planning == \A f \in DOMAIN families : f \in DOMAIN families' /\ SamePlan(families'[f], families[f])

\* A red verdict is one of a tree that was found red.
RedKnown == \A f \in DOMAIN families : families[f].result.verdict = "red" => \E r \in red : r.tree = FamilyTree(f)

\* The base a family was planned on is one the run has seen.
Based ==
  /\ pc = "plan" => fold.base \in DOMAIN main
  /\ \A f \in DOMAIN families : families[f].base \in DOMAIN main

\* The tree of a family is that of its last step, and a step keeps it.
LEMMA SameTree ==
  ASSUME NEW f, families'[f].steps = families[f].steps
  PROVE  FamilyTree(f)' = FamilyTree(f)
BY DEF FamilyTree

\* A gate gives a family that verdict only whose tree is remembered as red.
LEMMA GateKept ==
  ASSUME TypeOK, RedKnown, NEW g \in DOMAIN families, Gate(g)
  PROVE  Planning /\ RedKnown' /\ DOMAIN families' = DOMAIN families /\ red \subseteq red'
<1>1. families[g] \in Family /\ DOMAIN families' = DOMAIN families
      /\ \A f \in DOMAIN families \ {g} : families'[f] = families[f]
  BY FamilyTyped DEF TypeOK, Gate, GateCancelled, GateReused, GateStart, GatePostponed, GateFinish, GateRecord
<1>2. red \subseteq red'
  BY DEF Gate, GateCancelled, GateReused, GateStart, GatePostponed, GateFinish, GateRecord
<1>3. /\ SamePlan(families'[g], families[g])
      /\ \/ families'[g].result = families[g].result
         \/ families'[g].result.verdict = "red" => \E r \in red' : r.tree = FamilyTree(g)
  <2>1. CASE GateStart(g) \/ GateRecord(g) \/ GateCancelled(g)
    BY <1>1, <2>1 DEF GateStart, GateRecord, GateCancelled, Family, SamePlan
  <2>2. CASE GateReused(g) \/ GatePostponed(g) \/ GateFinish(g)
    <3>1. PICK s, n, r : /\ families' = [families EXCEPT ![g].future = "recording", ![g].status = s,
                                                        ![g].gate = n, ![g].result = r]
                         /\ r.verdict = "red" => \E x \in red' : x.tree = FamilyTree(g)
      <4>1. CASE GateReused(g)
        <5>1. PICK known \in KnownRed(FamilyTree(g)) :
                families' = [families EXCEPT
                  ![g].future = "recording", ![g].status = "RED", ![g].gate = NextRow,
                  ![g].result = [verdict |-> gates[known.gate].verdict,
                                 tree |-> gates[known.gate].tree, reused |-> known.gate]]
          BY <4>1 DEF GateReused
        <5>2. \E x \in red' : x.tree = FamilyTree(g)
          BY <1>2, <5>1 DEF KnownRed
        <5> QED BY <5>1, <5>2, Zenon
      <4>2. CASE GatePostponed(g)
        <5>1. [verdict |-> "unread", tree |-> FamilyTree(g), reused |-> 0].verdict # "red"
          OBVIOUS
        <5> QED BY <4>2, <5>1, Zenon DEF GatePostponed
      <4>3. CASE GateFinish(g)
        <5>1. PICK verdict \in {"green", "red", "unread"} :
                /\ families' = [families EXCEPT
                     ![g].future = "recording", ![g].status = GateStatus(verdict), ![g].gate = NextRow,
                     ![g].result = [verdict |-> verdict, tree |-> FamilyTree(g), reused |-> 0]]
                /\ red' = IF verdict = "red" /\ KnownRed(FamilyTree(g)) = {}
                          THEN red \union {[tree |-> FamilyTree(g), gate |-> NextRow]} ELSE red
          BY <4>3 DEF GateFinish
        <5>2. ASSUME verdict = "red" PROVE \E x \in red' : x.tree = FamilyTree(g)
          <6>1. CASE KnownRed(FamilyTree(g)) = {}
            <7>1. [tree |-> FamilyTree(g), gate |-> NextRow] \in red'
              BY <5>1, <5>2, <6>1
            <7>2. [tree |-> FamilyTree(g), gate |-> NextRow].tree = FamilyTree(g)
              OBVIOUS
            <7> QED BY <7>1, <7>2
          <6>2. CASE KnownRed(FamilyTree(g)) # {}
            BY <1>2, <6>2 DEF KnownRed
          <6> QED BY <6>1, <6>2
        <5>3. [verdict |-> verdict, tree |-> FamilyTree(g), reused |-> 0].verdict = verdict
          OBVIOUS
        <5> QED BY <5>1, <5>2, <5>3, Zenon
      <4> QED BY <2>2, <4>1, <4>2, <4>3
    <3>2. families'[g].result = r /\ SamePlan(families'[g], families[g])
      BY <1>1, <3>1 DEF Family, SamePlan
    <3> QED BY <3>1, <3>2
  <2> QED BY <2>1, <2>2 DEF Gate
<1>4. \A f \in DOMAIN families : SamePlan(families'[f], families[f])
  BY <1>1, <1>3 DEF SamePlan
<1>5. \A f \in DOMAIN families : FamilyTree(f)' = FamilyTree(f)
  BY <1>4, SameTree DEF SamePlan
<1>6. RedKnown'
  <2> SUFFICES ASSUME NEW f \in DOMAIN families, families'[f].result.verdict = "red"
               PROVE  \E r \in red' : r.tree = FamilyTree(f)'
    BY <1>1 DEF RedKnown
  <2>1. CASE families'[f].result = families[f].result
    BY <1>2, <1>5, <2>1 DEF RedKnown
  <2>2. CASE families'[f].result # families[f].result
    <3>1. f = g
      BY <1>1, <2>2
    <3> QED BY <1>3, <1>5, <2>2, <3>1
  <2> QED BY <2>1, <2>2
<1> QED BY <1>1, <1>2, <1>4, <1>6 DEF Planning

\* Only the planning adds a family.
LEMMA NoOtherFamily ==
  ASSUME TypeOK, LandingInv, RoundInv, [Next]_vars, ~PlanClose
  PROVE  DOMAIN families' = DOMAIN families
<1>1. CASE Onward
  BY <1>1 DEF Onward, Respected
<1>2. CASE Land
  <2>1. LandCheck \/ Decide \/ Reobserve \/ Push \/ Await \/ Merge => DOMAIN families' = DOMAIN families
    BY DEF LandCheck, Decide, Reobserve, Push, Await, Merge, ReadFails, Withheld, Leave, Setting
  <2>2. Confirm => DOMAIN families' = DOMAIN families
    BY DEF Confirm, Leave, Setting
  <2> QED BY <1>2, <2>1, <2>2 DEF Land
<1>3. Onward \/ Land
  BY PlanningOnward, SubmitOnward, CollectOnward, PartsOnward, GateOnward, DisturbOnward DEF Next, Train
<1> QED BY <1>1, <1>2, <1>3

\* Where the base and the plans of the families stay, and what is known of the red ones.
LEMMA PlanNext ==
  ASSUME TypeOK, LandingInv, RoundInv, RedKnown, [Next]_vars
  PROVE  Planning /\ Grown /\ RedKnown' /\ red \subseteq red'
<1>1. Grown
  BY RunGrows
<1>2. Tip \in DOMAIN main
  BY TipTyped DEF TypeOK
<1>3. Planning /\ RedKnown' /\ red \subseteq red'
  <2>1. CASE \E g \in DOMAIN families : Gate(g)
    BY <2>1, GateKept
  <2>2. CASE \A g \in DOMAIN families : ~Gate(g)
    <3>1. RowsStay
      BY <2>2, PlanKept
    <3>2. Planning
      BY <3>1 DEF RowsStay, SameRow, Planning
    <3>3. UNCHANGED red
      <4>1. CASE StopEarly \/ Snapshot \/ Pairs \/ Round \/ PlanStep \/ PlanClose \/ Submit
        BY <4>1 DEF StopEarly, Snapshot, Pairs, Round, RunUnread, PlanStep, Untouched, PlanClose, Submit
      <4>2. CASE Collect \/ PartsDone \/ Part \/ PartGated \/ Cancel \/ Join
        BY <4>2 DEF Collect, CollectStopped, CollectDry, CollectGreen, CollectUnread, CollectRed, ByCollect,
           PartsDone, Part, PartGated, Cancel, Join
      <4>3. CASE Land
        BY <4>3 DEF Land, LandCheck, Decide, Reobserve, Push, Await, Merge, Confirm, ByLanding
      <4>4. CASE Disturb \/ Finished \/ UNCHANGED vars
        BY <4>4 DEF Disturb, Outside, Finished, vars
      <4> QED BY <2>2, <4>1, <4>2, <4>3, <4>4 DEF Next, Train
    <3>4. RedKnown'
      <4> SUFFICES ASSUME NEW f \in DOMAIN families', families'[f].result.verdict = "red"
                   PROVE  \E r \in red : r.tree = FamilyTree(f)'
        BY <3>3 DEF RedKnown
      <4>1. f \in DOMAIN families
        <5>1. CASE PlanClose
          <6>1. PICK after : families' \in {families, Append(families, NewFamily(fold.steps, fold.base, after, settling))}
            BY <5>1 DEF PlanClose
          <6> DEFINE new == NewFamily(fold.steps, fold.base, after, settling)
          <6>2. new.result.verdict # "red"
            BY DEF NewFamily, NoResult
          <6>3. families \in Seq(Family) /\ DOMAIN families = 1..Len(families) /\ Len(families) \in Nat
            BY BatchTyped DEF TypeOK, GatesTyped
          <6>4. families' = families \/ families' = Append(families, new)
            BY <6>1
          <6> HIDE DEF new
          <6>5. CASE families' = Append(families, new)
            <7>1. DOMAIN families' = 1..(Len(families) + 1) /\ families'[Len(families) + 1] = new
              BY <6>3, <6>5
            <7>2. f # Len(families) + 1
              BY <6>2, <7>1
            <7> QED BY <6>3, <7>1, <7>2
          <6> QED BY <6>4, <6>5
        <5>2. CASE ~PlanClose
          <6>1. DOMAIN families' = DOMAIN families
            BY <5>2, NoOtherFamily
          <6> QED BY <6>1
        <5> QED BY <5>1, <5>2
      <4>2. families'[f].result = families[f].result /\ families'[f].steps = families[f].steps
        BY <3>1, <4>1 DEF RowsStay, SameRow, SamePlan
      <4>3. FamilyTree(f)' = FamilyTree(f)
        BY <4>2, SameTree
      <4> QED BY <4>1, <4>2, <4>3 DEF RedKnown
    <3> QED BY <3>2, <3>3, <3>4
  <2> QED BY <2>1, <2>2
<1> QED BY <1>1, <1>3

\* A merge step adds what the head brings to what is folded already.
LEMMA JoinedLanes ==
  ASSUME NEW a \in Commit, NEW b \in Commit
  PROVE  Joined(a, b).lanes = a.lanes \union b.lanes
<1>1. CASE IsAncestor(a, b)
  BY <1>1 DEF Joined, IsAncestor
<1>2. CASE ~IsAncestor(a, b) /\ IsAncestor(b, a)
  BY <1>2 DEF Joined, IsAncestor
<1>3. CASE ~IsAncestor(a, b) /\ ~IsAncestor(b, a)
  BY <1>3 DEF Joined
<1> QED BY <1>1, <1>2, <1>3

\* A planning step skips a pull request or folds its head as it was read.
LEMMA FoldSteps ==
  ASSUME TypeOK, PlanStep
  PROVE  LET n == Head(fold.todo)
             joined == Joined(fold.acc, rows[n])
         IN /\ n \in PR /\ fold'.base = fold.base /\ fold'.todo = Tail(fold.todo)
            /\ \/ fold'.steps = fold.steps /\ fold'.acc = fold.acc
               \/ /\ fold'.steps = Append(fold.steps, [pr |-> n, commit |-> joined])
                  /\ fold'.acc = joined /\ joined # fold.acc
<1> DEFINE n == Head(fold.todo)
           joined == Joined(fold.acc, rows[n])
           skipped == [fold EXCEPT !.todo = Tail(@)]
<1>1. fold \in Folding /\ fold.todo \in Seq(PR) /\ fold.todo # <<>>
  BY FoldTyped DEF PlanStep
<1>2. n \in PR
  BY <1>1
<1>3. \/ fold' = skipped
      \/ /\ fold' = [skipped EXCEPT !.acc = joined, !.steps = Append(@, [pr |-> n, commit |-> joined])]
         /\ joined # fold.acc
  BY DEF PlanStep
<1> HIDE DEF n, joined
<1>4. CASE fold' = skipped
  BY <1>1, <1>2, <1>4 DEF Folding, n, joined
<1>5. CASE /\ fold' = [skipped EXCEPT !.acc = joined, !.steps = Append(@, [pr |-> n, commit |-> joined])]
           /\ joined # fold.acc
  <2>1. fold'.base = fold.base /\ fold'.acc = joined /\ fold'.todo = Tail(fold.todo)
        /\ fold'.steps = Append(fold.steps, [pr |-> n, commit |-> joined])
    BY <1>1, <1>5 DEF Folding
  <2> QED BY <1>2, <1>5, <2>1 DEF n, joined
<1> QED BY <1>3, <1>4, <1>5

\* A fold goes on or begins; nothing else leads into one.
LEMMA OtherwisePlanned ==
  ASSUME TypeOK,
         StopEarly \/ Snapshot \/ Pairs \/ Submit \/ Collect \/ PartsDone \/ PartGated \/ Land \/ Cancel \/ Join
  PROVE  pc' # "plan"
<1>1. CASE StopEarly \/ Snapshot \/ Submit \/ PartsDone \/ PartGated \/ Cancel
  BY <1>1 DEF StopEarly, Snapshot, RunUnread, Submit, PartsDone, PartGated, Cancel
<1>2. CASE Pairs \/ Join
  BY <1>2 DEF Pairs, Choose, Join, Continue
<1>3. CASE Collect
  BY <1>3 DEF Collect, CollectStopped, CollectDry, CollectGreen, CollectUnread, CollectRed
<1>4. CASE LandCheck \/ Decide \/ Reobserve \/ Push \/ Await \/ Merge
  BY <1>4 DEF LandCheck, Decide, Reobserve, Push, Await, Merge, ReadFails, Withheld, Leave
<1>5. CASE Confirm
  BY <1>5 DEF Confirm, Leave
<1> QED BY <1>1, <1>2, <1>3, <1>4, <1>5 DEF Land

\* Every family was planned on a base the run has seen.
LEMMA BasedNext ==
  ASSUME TypeOK, LandingInv, RoundInv, RedKnown, Based, [Next]_vars
  PROVE  Based'
<1>1. Planning /\ Grown
  BY PlanNext
<1>2. Tip \in DOMAIN main
  BY TipTyped DEF TypeOK
<1>3. CASE PlanClose
  <2>1. PICK after : families' \in {families, Append(families, NewFamily(fold.steps, fold.base, after, settling))}
    BY <1>3 DEF PlanClose
  <2> DEFINE new == NewFamily(fold.steps, fold.base, after, settling)
  <2>2. new.base = fold.base
    BY DEF NewFamily
  <2>3. families \in Seq(Family) /\ DOMAIN families = 1..Len(families) /\ Len(families) \in Nat
    BY BatchTyped DEF TypeOK, GatesTyped
  <2>4. families' = families \/ families' = Append(families, new)
    BY <2>1
  <2> HIDE DEF new
  <2>5. \A f \in DOMAIN families' : families'[f].base \in {fold.base} \union {families[g].base : g \in DOMAIN families}
    <3>1. CASE families' = Append(families, new)
      <4>1. DOMAIN families' = 1..(Len(families) + 1) /\ families'[Len(families) + 1] = new
            /\ \A f \in DOMAIN families : families'[f] = families[f]
        BY <2>3, <3>1
      <4> QED BY <2>2, <2>3, <4>1
    <3> QED BY <2>4, <3>1
  <2>6. fold' = [fold EXCEPT !.steps = <<>>, !.todo = Upto(fold.rest, fold.size), !.rest = From(@, fold.size + 1)]
        /\ pc = "plan" /\ main' = main
    BY <1>3 DEF PlanClose
  <2>7. fold'.base = fold.base
    BY <2>6 DEF TypeOK, ThreadTyped, Folding
  <2> QED BY <2>5, <2>6, <2>7 DEF Based
<1>4. CASE ~PlanClose
  <2>1. \A f \in DOMAIN families' : f \in DOMAIN families
    BY <1>4, NoOtherFamily
  <2>2. \A f \in DOMAIN families' : families'[f].base \in DOMAIN main'
    BY <1>1, <2>1 DEF Planning, SamePlan, Based, Grown
  <2>3. pc' = "plan" => fold'.base \in DOMAIN main'
    <3>1. CASE Round \/ Part
      <4>1. pc' = "plan" => main' = main /\ fold'.base = Tip
        <5>1. CASE Round
          <6>1. pc' = "plan" => main' = main /\ \E size \in FamilySizes :
                   fold' = [base |-> Tip, acc |-> BaseCommit(Tip), steps |-> <<>>,
                            todo |-> Upto(queue, size), rest |-> From(queue, size + 1), size |-> size]
            BY <5>1 DEF Round, RunUnread, world
          <6> QED BY <6>1
        <5>2. CASE Part
          <6>1. pc' = "plan" => main' = main /\ 
                   fold' = [base |-> Tip, acc |-> BaseCommit(Tip), steps |-> <<>>, todo |-> Head(stack),
                            rest |-> <<>>, size |-> 1]
            BY <5>2 DEF Part
          <6> QED BY <6>1
        <5> QED BY <3>1, <5>1, <5>2
      <4>2. pc # "plan"
        BY <3>1 DEF Round, Part
      <4> QED BY <1>2, <4>1, <4>2
    <3>2. CASE PlanStep
      <4>1. pc = "plan" /\ main' = main
        BY <3>2 DEF PlanStep, Untouched
      <4>2. fold'.base = fold.base
        BY <3>2, FoldSteps
      <4> QED BY <4>1, <4>2 DEF Based
    <3>3. CASE (\E f \in DOMAIN families : Gate(f)) \/ Disturb \/ Finished \/ UNCHANGED vars
      <4>1. UNCHANGED <<thread, pc>>
        BY <3>3 DEF Gate, GateCancelled, GateReused, GateStart, GatePostponed, GateFinish, GateRecord, ByGate,
           Disturb, Outside, Finished, vars
      <4> QED BY <1>1, <4>1 DEF thread, Based, Grown
    <3>4. CASE StopEarly \/ Snapshot \/ Pairs \/ Submit \/ Collect \/ PartsDone \/ PartGated \/ Land \/ Cancel \/ Join
      BY <3>4, OtherwisePlanned
    <3> QED BY <1>4, <3>1, <3>2, <3>3, <3>4 DEF Next, Train
  <2> QED BY <2>2, <2>3 DEF Based
<1> QED BY <1>3, <1>4

\* The families of this round whose verdict is still to be used.
Awaiting ==
  IF ~InRound THEN {}
  ELSE IF settling THEN (IF pc \in {"submit", "gate"} THEN {cur} ELSE {})
  ELSE IF pc \in Landing THEN ToSet(Tail(batch)) ELSE ToSet(batch)

\* The tree a family was folded onto: of its base, or of the family it is stacked on.
Under(f) == IF families[f].after = 0 THEN main[families[f].base].tree ELSE FamilyTree(families[f].after)

\* Its first step adds to that tree what the head of its first member was read to hold.
FirstOwn(f) ==
  LET first == families[f].steps[1]
  IN first.commit.lanes = Under(f) \union rows[first.pr].lanes

OwnWork == \A f \in Awaiting : FirstOwn(f)

\* The tree the part being planned is folded onto, and what is folded so far.
Onto == IF settling \/ batch = <<>> THEN main[fold.base].tree ELSE FamilyTree(batch[Len(batch)])

FoldOwn ==
  pc = "plan" =>
    IF fold.steps = <<>> THEN fold.acc.lanes = Onto
    ELSE /\ fold.steps[1].commit.lanes = Onto \union rows[fold.steps[1].pr].lanes
         /\ fold.acc = fold.steps[Len(fold.steps)].commit

OwnInv == RedKnown /\ Based /\ OwnWork /\ FoldOwn

LEMMA AwaitingTyped == ASSUME TypeOK PROVE Awaiting \subseteq DOMAIN families
<1>1. ToSet(batch) \subseteq DOMAIN families
  BY BatchTyped
<1>2. CASE ~settling /\ pc \in Landing
  <2>1. batch # <<>>
    BY <1>2, LandingPointers
  <2> QED BY <1>1, <1>2, <2>1, BatchTail DEF Awaiting
<1>3. CASE settling /\ pc \in {"submit", "gate"}
  <2>1. cur \in DOMAIN families
    BY <1>3 DEF TypeOK, Pointers
  <2> QED BY <1>3, <2>1 DEF Awaiting
<1> QED BY <1>1, <1>2, <1>3 DEF Awaiting

LEMMA NoneAwaiting == ASSUME batch' = <<>>, ~settling', pc' \notin Landing PROVE Awaiting' = {}
BY DEF Awaiting, ToSet

LEMMA TailListed == ASSUME NEW q \in Seq(Nat), q # <<>> PROVE ToSet(Tail(q)) \subseteq ToSet(q)
BY ListHead

\* A step outside the landings and the planning uses a verdict or leaves it.
LEMMA AwaitingGoes ==
  ASSUME TypeOK, RoundInv, InRound, InRound',
         \/ Submit \/ Collect \/ PartsDone \/ Part \/ PartGated \/ Cancel
         \/ PlanStep \/ (\E f \in DOMAIN families : Gate(f)) \/ Disturb \/ Finished \/ UNCHANGED vars
  PROVE  Awaiting' \subseteq Awaiting
<1>1. CASE PlanStep \/ (\E f \in DOMAIN families : Gate(f)) \/ Disturb \/ Finished \/ UNCHANGED vars
  <2>1. UNCHANGED <<pc, settling, batch, cur>>
    BY <1>1 DEF PlanStep, Untouched, Gate, GateCancelled, GateReused, GateStart, GatePostponed, GateFinish,
       GateRecord, ByGate, Disturb, Outside, Finished, vars, thread
  <2> QED BY <2>1 DEF Awaiting, InRound, Queued
<1>2. CASE Submit
  <2>1. pc = "submit" /\ settling' = settling /\ cur' = cur
        /\ \/ batch' = batch /\ pc' = IF settling THEN "gate" ELSE "collect"
           \/ settling /\ pc' = "part"
           \/ ~settling /\ batch' = <<>> /\ pc' = "drain"
    BY <1>2 DEF Submit
  <2>2. CASE batch' = batch /\ pc' = IF settling THEN "gate" ELSE "collect"
    BY <2>1, <2>2 DEF Awaiting, InRound, Queued, Landing
  <2>3. CASE settling /\ pc' = "part"
    BY <2>1, <2>3 DEF Awaiting
  <2>4. CASE ~settling /\ batch' = <<>> /\ pc' = "drain"
    BY <2>1, <2>4, NoneAwaiting DEF Landing
  <2> QED BY <2>1, <2>2, <2>3, <2>4
<1>3. CASE Collect
  <2>1. pc = "collect" /\ batch # <<>> /\ batch \in Seq(Nat)
    BY <1>3 DEF Collect, TypeOK, Pointers, ThreadTyped
  <2>2. ~settling
    BY <2>1 DEF RoundInv, InOrder
  <2>3. settling' = settling
        /\ \/ batch' = <<>> /\ pc' \in {"drain", "part"}
           \/ batch' = Tail(batch) /\ pc' \in {"drain", "collect"}
           \/ batch' = batch /\ pc' = "land"
    BY <1>3 DEF Collect, CollectStopped, CollectDry, CollectGreen, CollectUnread, CollectRed
  <2>4. ToSet(Tail(batch)) \subseteq ToSet(batch)
    BY <2>1, TailListed
  <2>5. Awaiting = ToSet(batch)
    BY <2>1, <2>2 DEF Awaiting, InRound, Queued, Landing
  <2>6. CASE batch' = <<>> /\ pc' \in {"drain", "part"}
    BY <2>2, <2>3, <2>6, NoneAwaiting DEF Landing
  <2>7. CASE batch' = Tail(batch) /\ pc' \in {"drain", "collect"}
    BY <2>2, <2>3, <2>4, <2>5, <2>7 DEF Awaiting, Landing
  <2>8. CASE batch' = batch /\ pc' = "land"
    BY <2>2, <2>3, <2>4, <2>5, <2>8 DEF Awaiting, Landing
  <2> QED BY <2>3, <2>6, <2>7, <2>8
<1>4. CASE PartsDone \/ Part
  <2>1. pc = "part" /\ batch' = batch /\ batch = <<>>
    BY <1>4 DEF PartsDone, Part, RoundInv, InOrder
  <2>2. \/ ~settling' /\ pc' \notin Landing
        \/ settling' /\ pc' \in {"part", "plan"}
    BY <1>4 DEF PartsDone, Part, Landing, TypeOK, ThreadTyped
  <2>3. CASE ~settling' /\ pc' \notin Landing
    BY <2>1, <2>3, NoneAwaiting
  <2>4. CASE settling' /\ pc' \in {"part", "plan"}
    BY <2>4 DEF Awaiting
  <2> QED BY <2>2, <2>3, <2>4
<1>5. CASE PartGated
  <2>1. settling /\ settling' = settling /\ pc' \in {"part", "land"}
    BY <1>5 DEF PartGated, TypeOK, Pointers
  <2> QED BY <2>1 DEF Awaiting
<1>6. CASE Cancel
  <2>1. UNCHANGED <<settling, batch, cur>> /\ pc = "drain" /\ pc' = "join"
    BY <1>6 DEF Cancel, thread
  <2> QED BY <2>1 DEF Awaiting, InRound, Queued, Landing
<1> QED BY <1>1, <1>2, <1>3, <1>4, <1>5, <1>6

\* A landing uses the verdict of the family it lands, and leaves those behind it.
LEMMA AwaitingLands ==
  ASSUME TypeOK, RoundInv, InRound', Land
  PROVE  Awaiting' \subseteq Awaiting
<1>1. pc \in Landing /\ batch \in Seq(Nat) /\ (~settling => batch # <<>>)
  BY LandingPointers DEF Land, LandCheck, Decide, Reobserve, Push, Await, Merge, Confirm, Landing, TypeOK, ThreadTyped
<1>2. settling' = settling
  BY DEF Land, LandCheck, Decide, Reobserve, Push, Await, Merge, Confirm, ByLanding
<1>3. CASE settling
  <2>1. pc' \notin {"submit", "gate"}
    <3>1. CASE LandCheck \/ Decide \/ Reobserve \/ Push \/ Await \/ Merge
      BY <3>1, <1>3 DEF LandCheck, Decide, Reobserve, Push, Await, Merge, ReadFails, Withheld, Leave
    <3>2. CASE Confirm
      BY <3>2, <1>3 DEF Confirm, Leave
    <3> QED BY <3>1, <3>2 DEF Land
  <2> QED BY <1>2, <1>3, <2>1 DEF Awaiting
<1>4. CASE ~settling
  <2>1. \/ batch' = <<>> /\ pc' = "drain"
        \/ batch' = batch /\ pc' \in Landing
        \/ batch' = Tail(batch) /\ pc' \in {"drain", "collect"}
    <3>1. CASE LandCheck \/ Decide \/ Reobserve \/ Push \/ Await \/ Merge
      BY <3>1, <1>4 DEF LandCheck, Decide, Reobserve, Push, Await, Merge, ReadFails, Withheld, Leave, Landing
    <3>2. CASE Confirm
      BY <3>2, <1>4 DEF Confirm, Leave, Landing
    <3> QED BY <3>1, <3>2 DEF Land
  <2>2. Awaiting = ToSet(Tail(batch))
    BY <1>1, <1>4 DEF Awaiting, InRound, Queued, Landing
  <2>3. CASE batch' = <<>> /\ pc' = "drain"
    BY <1>2, <1>4, <2>3, NoneAwaiting DEF Landing
  <2>4. CASE batch' = batch /\ pc' \in Landing
    BY <1>2, <1>4, <2>2, <2>4 DEF Awaiting
  <2>5. CASE batch' = Tail(batch) /\ pc' \in {"drain", "collect"}
    BY <1>2, <1>4, <2>2, <2>5 DEF Awaiting, Landing
  <2> QED BY <2>1, <2>3, <2>4, <2>5
<1> QED BY <1>3, <1>4

\* Whoever is in a family behind the one at hand is not the one that is merged.
LEMMA BehindApart ==
  ASSUME TypeOK, PlacesInv, pc = "merge", ~settling, NEW f \in ToSet(Tail(batch))
  PROVE  f \in DOMAIN families /\ families[f].steps[1].pr # N
<1>1. batch # <<>> /\ pc \in Landing
  BY LandingPointers DEF Landing
<1>2. PICK i \in DOMAIN Tail(batch) : f = Tail(batch)[i]
  BY DEF ToSet
<1>3. f = batch[i + 1] /\ i + 1 \in DOMAIN batch /\ i \in Nat /\ i >= 1 /\ 1 \in DOMAIN batch
      /\ DOMAIN batch = 1..Len(batch) /\ Len(batch) \in Nat
  BY <1>1, <1>2, BatchTail, BatchTyped
<1>4. f \in DOMAIN families /\ batch[1] \in DOMAIN families
  BY <1>3, BatchTyped
<1> DEFINE n == Len(families[batch[1]].steps)
<1>5. n \in Nat /\ families[f].steps \in Seq(Step) /\ families[f].steps # <<>> /\ later \in Seq(PR)
  BY <1>4, MembersTyped, LenProperties DEF TypeOK, Pointers, ThreadTyped
<1>6. 1 \in DOMAIN families[f].steps
  BY <1>5
<1>7. PICK off \in [DOMAIN batch -> Nat] : Starts(off)
  BY <1>1 DEF PlacesInv, LinedUp, Landing
<1>8. off[1] = 0 /\ off[1] + n <= off[i + 1]
      /\ off[i + 1] + 1 \in DOMAIN later /\ later[off[i + 1] + 1] = families[f].steps[1].pr
  BY <1>1, <1>3, <1>6, <1>7 DEF Starts
<1>9. off[i + 1] \in Nat /\ off[i + 1] >= n
  BY <1>3, <1>5, <1>7, <1>8
<1> DEFINE k == off[i + 1] + 1 - n
<1> HIDE DEF n
<1>10. DOMAIN later = 1..Len(later) /\ Len(later) \in Nat
  BY <1>5
<1>11. n <= Len(later) /\ k \in 1..(Len(later) - n) /\ n + k = off[i + 1] + 1
  <2>1. n \in Nat
    BY <1>5 DEF n
  <2>2. off[i + 1] + 1 <= Len(later)
    BY <1>8, <1>9, <1>10
  <2> QED BY <1>9, <1>10, <2>1, <2>2
<1>12. From(later, n + 1) \in Seq(PR) /\ Len(From(later, n + 1)) = Len(later) - n
       /\ \A j \in 1..(Len(later) - n) : From(later, n + 1)[j] = later[n + j]
  BY <1>5, <1>11, ListBehind
<1> HIDE DEF k
<1>13. From(later, n + 1)[k] = families[f].steps[1].pr
  BY <1>8, <1>11, <1>12
<1>14. families[f].steps[1].pr \in ToSet(From(later, n + 1))
  <2>1. k \in 1..Len(From(later, n + 1))
    BY <1>11, <1>12
  <2> QED BY <1>12, <1>13, <2>1, ListedAt
<1>15. Line = From(later, n + 1)
  BY <1>1 DEF Line, Behind, n
<1>16. N \in ToSet(InHand) /\ ToSet(InHand) \cap ToSet(Line) = {}
  <2>1. N \in ToSet(InHand)
    BY <1>1, LandingPlaces
  <2>2. InRound /\ pc # "plan"
    BY DEF InRound, Queued
  <2> QED BY <2>1, <2>2, Spread
<1> QED BY <1>4, <1>14, <1>15, <1>16

\* What was read of a pull request stays while its family waits for its verdict.
LEMMA ReadKept ==
  ASSUME TypeOK, PlacesInv, InRound, [Next]_vars, NEW f \in Awaiting
  PROVE  rows'[families[f].steps[1].pr] = rows[families[f].steps[1].pr]
<1>1. CASE Merge
  <2>1. rows' = rows \/ rows' = [rows EXCEPT ![N] = Prepared]
    BY <1>1 DEF Merge
  <2>2. pc = "merge"
    BY <1>1 DEF Merge
  <2>3. ~settling /\ f \in ToSet(Tail(batch))
    BY <2>2 DEF Awaiting, Landing
  <2>4. families[f].steps[1].pr # N
    BY <2>2, <2>3, BehindApart
  <2>5. rows \in [PR -> Commit]
    BY DEF TypeOK, ThreadTyped
  <2>6. f \in DOMAIN families
    BY <2>2, <2>3, BehindApart
  <2>7. families[f].steps[1].pr \in PR
    <3>1. families[f].steps \in Seq(Step) /\ families[f].steps # <<>>
      BY <2>6, MembersTyped DEF TypeOK, Pointers
    <3>2. families[f].steps[1] \in Step
      BY <3>1
    <3> QED BY <3>2 DEF Step
  <2> QED BY <2>1, <2>4, <2>5, <2>7
<1>2. CASE ~Merge
  <2>1. rows' = rows
    <3>1. CASE StopEarly \/ Snapshot \/ Pairs \/ Round
      BY <3>1 DEF StopEarly, Snapshot, Pairs, Round, InRound, Queued
    <3>2. CASE PlanStep \/ PlanClose \/ Submit \/ PartsDone \/ Part \/ PartGated \/ Cancel \/ Join
      BY <3>2 DEF PlanStep, Untouched, PlanClose, Submit, PartsDone, Part, PartGated, ByCollect, Cancel, Join
    <3>3. CASE Collect
      BY <3>3 DEF Collect, CollectStopped, CollectDry, CollectGreen, CollectUnread, CollectRed, ByCollect
    <3>4. CASE LandCheck \/ Decide \/ Reobserve \/ Push \/ Await
      BY <3>4 DEF LandCheck, Decide, Reobserve, Push, Await
    <3>5. CASE Confirm
      BY <3>5 DEF Confirm
    <3>6. CASE (\E g \in DOMAIN families : Gate(g)) \/ Disturb \/ Finished \/ UNCHANGED vars
      BY <3>6 DEF Gate, GateCancelled, GateReused, GateStart, GatePostponed, GateFinish, GateRecord, ByGate,
         Disturb, Outside, Finished, vars
    <3> QED BY <1>2, <3>1, <3>2, <3>3, <3>4, <3>5, <3>6 DEF Next, Train, Land
  <2> QED BY <2>1
<1> QED BY <1>1, <1>2

\* The tree a family was folded onto stays what it was.
LEMMA UnderKept ==
  ASSUME Based, RoundInv, Planning, Grown, NEW f \in DOMAIN families
  PROVE  Under(f)' = Under(f)
<1>1. families'[f].after = families[f].after /\ families'[f].base = families[f].base
  BY DEF Planning, SamePlan
<1>2. families[f].base \in DOMAIN main
  BY DEF Based
<1>3. main'[families[f].base] = main[families[f].base]
  BY <1>2 DEF Grown
<1>4. CASE families[f].after = 0
  BY <1>1, <1>3, <1>4 DEF Under
<1>5. CASE families[f].after # 0
  <2>1. families[f].after \in DOMAIN families
    BY <1>5 DEF RoundInv, Chained
  <2>2. families'[families[f].after].steps = families[families[f].after].steps
    BY <2>1 DEF Planning, SamePlan
  <2>3. FamilyTree(families[f].after)' = FamilyTree(families[f].after)
    <3> DEFINE g == families[f].after
    <3>1. \A h : families'[h].steps = families[h].steps =>
             families'[h].steps[Len(families'[h].steps)].commit.lanes = families[h].steps[Len(families[h].steps)].commit.lanes
      OBVIOUS
    <3>2. families'[families'[f].after].steps = families[g].steps
      BY <1>1, <2>2
    <3> QED BY <3>2 DEF FamilyTree
  <2> QED BY <1>1, <1>5, <2>3 DEF Under
<1> QED BY <1>4, <1>5

\* A family that awaits its verdict goes on adding only its own first member's work.
LEMMA FirstKept ==
  ASSUME TypeOK, LandingInv, RoundInv, PlacesInv, RedKnown, Based, InRound, [Next]_vars,
         NEW f \in Awaiting, FirstOwn(f)
  PROVE  FirstOwn(f)'
<1>1. Planning /\ Grown
  BY PlanNext
<1>2. f \in DOMAIN families
  BY AwaitingTyped
<1>3. Under(f)' = Under(f)
  BY <1>1, <1>2, UnderKept
<1>4. families'[f].steps = families[f].steps
  BY <1>1, <1>2 DEF Planning, SamePlan
<1>5. rows'[families[f].steps[1].pr] = rows[families[f].steps[1].pr]
  BY ReadKept
<1> QED BY <1>3, <1>4, <1>5 DEF FirstOwn

\* What the planning makes of a part of which something is left.
LEMMA FamilyAdded ==
  ASSUME TypeOK, PlanClose, fold.steps # <<>>
  PROVE  LET new == Len(families) + 1
         IN /\ DOMAIN families' = DOMAIN families \union {new} /\ new \notin DOMAIN families
            /\ \A f \in DOMAIN families : families'[f] = families[f]
            /\ families'[new].steps = fold.steps /\ families'[new].base = fold.base
            /\ families'[new].after = IF settling \/ batch = <<>> THEN 0 ELSE batch[Len(batch)]
            /\ batch' = (IF settling THEN batch ELSE Append(batch, new))
            /\ cur' = (IF settling THEN new ELSE cur)
<1> DEFINE after == IF settling \/ batch = <<>> THEN 0 ELSE batch[Len(batch)]
           new == NewFamily(fold.steps, fold.base, after, settling)
<1>1. families' = Append(families, new)
      /\ batch' = (IF settling THEN batch ELSE Append(batch, Len(families) + 1))
      /\ cur' = (IF settling THEN Len(families) + 1 ELSE cur)
  BY DEF PlanClose
<1>2. new.steps = fold.steps /\ new.base = fold.base /\ new.after = after
  BY DEF NewFamily
<1>3. families \in Seq(Family) /\ DOMAIN families = 1..Len(families) /\ Len(families) \in Nat
  BY BatchTyped DEF TypeOK, GatesTyped
<1> HIDE DEF new, after
<1>4. /\ DOMAIN families' = 1..(Len(families) + 1) /\ families'[Len(families) + 1] = new
      /\ \A f \in DOMAIN families : families'[f] = families[f]
  BY <1>1, <1>3
<1> QED BY <1>1, <1>2, <1>3, <1>4 DEF after

\* What is folded of a part, onto the families planned before it.
LEMMA PlanStepOwn ==
  ASSUME TypeOK, FoldOwn, PlanStep
  PROVE  FoldOwn'
<1> DEFINE n == Head(fold.todo)
           joined == Joined(fold.acc, rows[n])
<1>1. /\ n \in PR /\ fold'.base = fold.base
      /\ \/ fold'.steps = fold.steps /\ fold'.acc = fold.acc
         \/ fold'.steps = Append(fold.steps, [pr |-> n, commit |-> joined]) /\ fold'.acc = joined
  BY FoldSteps
<1>2. pc = "plan" /\ pc' = "plan" /\ UNCHANGED <<main, settling, batch, families, rows>>
  BY DEF PlanStep, Untouched
<1>3. Onto' = Onto
  BY <1>1, <1>2 DEF Onto, FamilyTree
<1>4. CASE fold'.steps = fold.steps /\ fold'.acc = fold.acc
  BY <1>2, <1>3, <1>4 DEF FoldOwn
<1>5. CASE fold'.steps = Append(fold.steps, [pr |-> n, commit |-> joined]) /\ fold'.acc = joined
  <2>1. fold.acc \in Commit /\ rows[n] \in Commit /\ fold.steps \in Seq(Step)
    BY <1>1, FoldTyped DEF TypeOK, ThreadTyped
  <2>2. joined.lanes = fold.acc.lanes \union rows[n].lanes
    BY <2>1, JoinedLanes
  <2>3. joined \in Commit
    BY <2>1, JoinedTyped
  <2> HIDE DEF joined, n
  <2> DEFINE s == [pr |-> n, commit |-> joined]
  <2>4. s \in Step /\ s.pr = n /\ s.commit = joined
    BY <1>1, <2>3 DEF Step
  <2> HIDE DEF s
  <2>5. fold'.steps = Append(fold.steps, s)
    BY <1>5 DEF s
  <2>6. /\ Len(fold'.steps) = Len(fold.steps) + 1 /\ fold'.steps # <<>>
        /\ fold'.steps[Len(fold'.steps)] = s
        /\ fold'.steps[1] = IF fold.steps = <<>> THEN s ELSE fold.steps[1]
    BY <2>1, <2>4, <2>5
  <2>7. fold'.acc = fold'.steps[Len(fold'.steps)].commit
    BY <1>5, <2>4, <2>6
  <2>8. fold'.steps[1].commit.lanes = Onto \union rows[fold'.steps[1].pr].lanes
    <3>1. CASE fold.steps = <<>>
      <4>1. fold.acc.lanes = Onto
        BY <1>2, <3>1 DEF FoldOwn
      <4> QED BY <2>2, <2>4, <2>6, <3>1, <4>1
    <3>2. CASE fold.steps # <<>>
      BY <1>2, <2>6, <3>2 DEF FoldOwn
    <3> QED BY <3>1, <3>2
  <2> QED BY <1>2, <1>3, <2>6, <2>7, <2>8 DEF FoldOwn
<1> QED BY <1>1, <1>4, <1>5

\* The next part of a round is folded onto the family just planned.
LEMMA PlanCloseOwn ==
  ASSUME TypeOK, FoldOwn, PlanClose
  PROVE  FoldOwn'
<1> SUFFICES ASSUME pc' = "plan" PROVE FoldOwn'
  BY DEF FoldOwn
<1>1. pc = "plan" /\ ~settling /\ settling' = settling /\ UNCHANGED <<main, rows>>
  BY DEF PlanClose, AfterFold
<1>2. fold' = [fold EXCEPT !.steps = <<>>, !.todo = Upto(fold.rest, fold.size), !.rest = From(@, fold.size + 1)]
  BY DEF PlanClose
<1>3. fold'.steps = <<>> /\ fold'.base = fold.base /\ fold'.acc = fold.acc
  BY <1>2, FoldTyped DEF Folding
<1>4. fold.acc.lanes = Onto'
  <2>1. CASE fold.steps = <<>>
    <3>1. families' = families /\ batch' = batch
      BY <2>1 DEF PlanClose
    <3>2. Onto' = Onto
      BY <1>1, <1>3, <3>1 DEF Onto, FamilyTree
    <3> QED BY <1>1, <2>1, <3>2 DEF FoldOwn
  <2>2. CASE fold.steps # <<>>
    <3> DEFINE new == Len(families) + 1
    <3>1. families'[new].steps = fold.steps /\ batch' = Append(batch, new)
      BY <1>1, <2>2, FamilyAdded
    <3>2. batch \in Seq(Nat) /\ new \in Nat
      BY BatchTyped
    <3> HIDE DEF new
    <3>3. batch' # <<>> /\ batch'[Len(batch')] = new
      BY <3>1, <3>2
    <3>4. Onto' = families'[new].steps[Len(families'[new].steps)].commit.lanes
      BY <1>1, <3>3 DEF Onto, FamilyTree
    <3>5. fold.acc = fold.steps[Len(fold.steps)].commit
      BY <1>1, <2>2 DEF FoldOwn
    <3> QED BY <3>1, <3>4, <3>5
  <2> QED BY <2>1, <2>2
<1> QED BY <1>3, <1>4 DEF FoldOwn

\* The family just planned adds only its own first member's work.
LEMMA PlanCloseFirst ==
  ASSUME TypeOK, LandingInv, RoundInv, PlacesInv, OwnInv, PlanClose, [Next]_vars
  PROVE  OwnWork'
<1>1. pc = "plan" /\ pc' # "done" /\ settling' = settling /\ UNCHANGED <<main, rows>>
      /\ pc' \in {"plan", "submit", "part", "drain"}
  BY DEF PlanClose, AfterFold
<1>2. InRound
  BY <1>1 DEF InRound, Queued
<1>3. CASE fold.steps = <<>>
  <2>1. families' = families /\ batch' = batch /\ cur' = cur
    BY <1>3 DEF PlanClose
  <2>2. settling => pc' = "part"
    BY <1>3 DEF PlanClose, AfterFold
  <2>3. Awaiting' \subseteq Awaiting
    BY <1>1, <2>1, <2>2 DEF Awaiting, InRound, Queued, Landing
  <2> QED BY <1>2, <2>3, FirstKept DEF OwnInv, OwnWork
<1>4. CASE fold.steps # <<>>
  <2>0. PICK new : new = Len(families) + 1
    OBVIOUS
  <2>1. /\ families'[new].steps = fold.steps /\ families'[new].base = fold.base
        /\ families'[new].after = IF settling \/ batch = <<>> THEN 0 ELSE batch[Len(batch)]
        /\ batch' = (IF settling THEN batch ELSE Append(batch, new))
        /\ cur' = (IF settling THEN new ELSE cur)
        /\ \A f \in DOMAIN families : families'[f] = families[f]
    BY <1>4, <2>0, FamilyAdded
  <2>2. batch \in Seq(Nat) /\ new \in Nat /\ \A i \in DOMAIN batch : batch[i] \in DOMAIN families /\ batch[i] # 0
    BY <2>0, BatchTyped
  <2>3. Awaiting' \subseteq Awaiting \union {new}
    <3>1. CASE settling
      BY <1>1, <2>1, <3>1 DEF Awaiting
    <3>2. CASE ~settling
      <4>1. ToSet(batch') = ToSet(batch) \union {new}
        BY <2>1, <2>2, <3>2, ListAppend
      <4> QED BY <1>1, <3>2, <4>1 DEF Awaiting, InRound, Queued, Landing
    <3> QED BY <3>1, <3>2
  <2>4. FirstOwn(new)'
    <3>1. fold.steps[1].commit.lanes = Onto \union rows[fold.steps[1].pr].lanes
      BY <1>1, <1>4 DEF OwnInv, FoldOwn
    <3>2. IF families'[new].after = 0 THEN main'[families'[new].base].tree = Onto
          ELSE families'[families'[new].after].steps[Len(families'[families'[new].after].steps)].commit.lanes = Onto
      <4>1. CASE settling \/ batch = <<>>
        BY <1>1, <2>1, <4>1 DEF Onto
      <4>2. CASE ~settling /\ batch # <<>>
        <5>1. Len(batch) \in DOMAIN batch
          BY <2>2, <4>2
        <5>2. PICK g : g = batch[Len(batch)]
          OBVIOUS
        <5>3. g \in DOMAIN families /\ g # 0 /\ families'[new].after = g
          BY <2>1, <2>2, <4>2, <5>1, <5>2
        <5>4. families'[g] = families[g]
          BY <2>1, <5>3
        <5>5. Onto = families[g].steps[Len(families[g].steps)].commit.lanes
          BY <4>2, <5>2 DEF Onto, FamilyTree
        <5> QED BY <5>3, <5>4, <5>5
      <4> QED BY <4>1, <4>2
    <3>3. Under(new)' = Onto
      BY <3>2 DEF Under, FamilyTree
    <3> QED BY <1>1, <2>1, <3>1, <3>3 DEF FirstOwn
  <2> QED BY <1>2, <2>3, <2>4, FirstKept DEF OwnInv, OwnWork
<1> QED BY <1>3, <1>4

\* A fold that begins is empty and on the base; one that goes on is not disturbed.
LEMMA FoldOwnNext ==
  ASSUME TypeOK, LandingInv, RoundInv, OwnInv, [Next]_vars
  PROVE  FoldOwn'
<1>1. Planning /\ Grown
  BY PlanNext DEF OwnInv
<1>2. CASE PlanStep \/ PlanClose
  BY <1>2, PlanStepOwn, PlanCloseOwn DEF OwnInv
<1>3. CASE Round \/ Part
  <2> SUFFICES ASSUME pc' = "plan" PROVE FoldOwn'
    BY DEF FoldOwn
  <2>1. /\ fold'.base = Tip /\ fold'.acc = BaseCommit(Tip) /\ fold'.steps = <<>> /\ main' = main
        /\ settling' \/ batch' = <<>>
    <3>1. CASE Round
      <4>1. /\ main' = main /\ batch' = <<>>
            /\ \E size \in FamilySizes :
                 fold' = [base |-> Tip, acc |-> BaseCommit(Tip), steps |-> <<>>,
                          todo |-> Upto(queue, size), rest |-> From(queue, size + 1), size |-> size]
        BY <3>1 DEF Round, RunUnread, world
      <4> QED BY <4>1
    <3>2. CASE Part
      <4>1. pc = "part"
        BY <3>2 DEF Part
      <4>2. /\ main' = main /\ settling' = TRUE
            /\ fold' = [base |-> Tip, acc |-> BaseCommit(Tip), steps |-> <<>>, todo |-> Head(stack),
                        rest |-> <<>>, size |-> 1]
        BY <3>2, <4>1 DEF Part
      <4> QED BY <4>2
    <3> QED BY <1>3, <3>1, <3>2
  <2>2. BaseCommit(Tip).lanes = main[Tip].tree
    BY DEF BaseCommit
  <2>3. Onto' = main[Tip].tree
    BY <2>1 DEF Onto
  <2> QED BY <2>1, <2>2, <2>3 DEF FoldOwn
<1>4. CASE (\E f \in DOMAIN families : Gate(f)) \/ Disturb \/ Finished \/ UNCHANGED vars
  <2>1. UNCHANGED <<fold, settling, batch, pc, rows>>
    BY <1>4 DEF Gate, GateCancelled, GateReused, GateStart, GatePostponed, GateFinish, GateRecord, ByGate,
       Disturb, Outside, Finished, vars, thread
  <2> SUFFICES ASSUME pc = "plan" PROVE FoldOwn'
    BY <2>1 DEF FoldOwn
  <2>2. Onto' = Onto
    <3>1. CASE settling \/ batch = <<>>
      <4>1. main'[fold.base] = main[fold.base]
        BY <1>1 DEF OwnInv, Based, Grown
      <4> QED BY <2>1, <3>1, <4>1 DEF Onto
    <3>2. CASE ~settling /\ batch # <<>>
      <4>1. PICK g : g = batch[Len(batch)]
        OBVIOUS
      <4>2. g \in DOMAIN families
        <5>1. Len(batch) \in DOMAIN batch
          BY <3>2, BatchTyped
        <5> QED BY <4>1, <5>1, BatchTyped
      <4>3. families'[g].steps = families[g].steps
        BY <1>1, <4>2 DEF Planning, SamePlan
      <4>4. Onto = families[g].steps[Len(families[g].steps)].commit.lanes
        BY <3>2, <4>1 DEF Onto, FamilyTree
      <4>5. Onto' = families'[g].steps[Len(families'[g].steps)].commit.lanes
        BY <2>1, <3>2, <4>1 DEF Onto, FamilyTree
      <4> QED BY <4>3, <4>4, <4>5
    <3> QED BY <3>1, <3>2
  <2> QED BY <2>1, <2>2 DEF OwnInv, FoldOwn
<1>5. CASE StopEarly \/ Snapshot \/ Pairs \/ Submit \/ Collect \/ PartsDone \/ PartGated \/ Land \/ Cancel \/ Join
  BY <1>5, OtherwisePlanned DEF FoldOwn
<1> QED BY <1>2, <1>3, <1>4, <1>5 DEF Next, Train

\* Every step of the run keeps it.
LEMMA OwnNext ==
  ASSUME TypeOK, LandingInv, RoundInv, PlacesInv, OwnInv, [Next]_vars
  PROVE  OwnInv'
<1>1. RedKnown' /\ Based' /\ FoldOwn'
  BY PlanNext, BasedNext, FoldOwnNext DEF OwnInv
<1>2. OwnWork'
  <2>1. CASE ~InRound'
    BY <2>1 DEF OwnWork, Awaiting
  <2>2. CASE InRound' /\ ~InRound
    <3>1. CASE (\E f \in DOMAIN families : Gate(f)) \/ Disturb \/ Finished \/ UNCHANGED vars
      <4>1. pc' = pc
        BY <3>1 DEF Gate, GateCancelled, GateReused, GateStart, GatePostponed, GateFinish, GateRecord, ByGate,
           Disturb, Outside, Finished, vars
      <4> QED BY <2>2, <4>1 DEF InRound, Queued
    <3>2. CASE StopEarly \/ Snapshot \/ Pairs
      <4>1. pc' \in {"snapshot", "pairs", "round", "done"}
        BY <3>2 DEF StopEarly, Snapshot, RunUnread, Pairs, Choose, Continue
      <4> QED BY <2>2, <4>1 DEF InRound, Queued
    <3>3. CASE Round
      <4>1. pc' = "done" \/ (batch' = <<>> /\ ~settling' /\ pc' = "plan")
        BY <3>3 DEF Round, RunUnread
      <4>2. Awaiting' = {}
        BY <2>2, <4>1, NoneAwaiting DEF InRound, Landing
      <4> QED BY <4>2 DEF OwnWork
    <3>4. CASE PlanStep \/ PlanClose \/ Submit \/ Collect \/ PartsDone \/ Part \/ PartGated \/ Land \/ Cancel \/ Join
      <4>1. InRound
        BY <3>4 DEF PlanStep, PlanClose, Submit, Collect, PartsDone, Part, PartGated, Land, LandCheck, Decide,
           Reobserve, Push, Await, Merge, Confirm, Cancel, Join, InRound, Queued
      <4> QED BY <2>2, <4>1
    <3> QED BY <3>1, <3>2, <3>3, <3>4 DEF Next, Train
  <2>3. CASE InRound' /\ InRound
    <3>1. CASE PlanClose
      BY <3>1, PlanCloseFirst
    <3>2. CASE ~PlanClose
      <4>1. ~(StopEarly \/ Snapshot \/ Pairs \/ Round \/ Join)
        BY <2>3 DEF StopEarly, Snapshot, Pairs, Round, Join, Continue, InRound, Queued
      <4>2. Awaiting' \subseteq Awaiting
        BY <2>3, <3>2, <4>1, AwaitingGoes, AwaitingLands DEF Next, Train
      <4> QED BY <2>3, <4>2, FirstKept DEF OwnInv, OwnWork
    <3> QED BY <3>1, <3>2
  <2> QED BY <2>1, <2>2, <2>3
<1> QED BY <1>1, <1>2 DEF OwnInv

\* A run starts without families.
LEMMA InitOwn == ASSUME Init PROVE OwnInv /\ HeldForItself
<1>1. families = <<>> /\ held = {} /\ pc = "snapshot"
  BY DEF Init
<1>2. Awaiting = {} /\ DOMAIN families = {}
  BY <1>1 DEF Awaiting, InRound, Queued
<1> QED BY <1>1, <1>2 DEF OwnInv, RedKnown, Based, OwnWork, FoldOwn, HeldForItself

\* A lone red family is held on the tree of the base and itself, which was found red.
LEMMA SettleOwn ==
  ASSUME TypeOK, LandingInv, RoundInv, OwnInv, HeldForItself, [Next]_vars,
         NEW f \in Awaiting, families[f].result.verdict = "red", BaseLanded(f), SettleRed(f)
  PROVE  HeldForItself'
<1>1. f \in DOMAIN families
  BY AwaitingTyped
<1>2. \E i \in DOMAIN main : Under(f) = main[i].tree
  <2>1. CASE families[f].after = 0
    BY <1>1, <2>1 DEF OwnInv, Based, Under
  <2>2. CASE families[f].after # 0
    <3>1. Landed(families[f].after) /\ families[f].after \in DOMAIN families
      BY <1>1, <2>2 DEF BaseLanded, RoundInv, Chained
    <3>2. families[families[f].after].landed \in DOMAIN main
          /\ main[families[families[f].after].landed].tree = FamilyTree(families[f].after)
      BY <3>1 DEF LandingInv, Finishes
    <3> QED BY <2>2, <3>2 DEF Under
  <2> QED BY <2>1, <2>2
<1>3. \E r \in red : r.tree = FamilyTree(f)
  BY <1>1 DEF OwnInv, RedKnown
<1>4. Grown /\ red \subseteq red'
  BY PlanNext DEF OwnInv
<1>5. ASSUME NEW h \in held
      PROVE  h.reason = "GATE_RED" => /\ \E i \in DOMAIN main' : h.tree = main'[i].tree \union h.head
                                      /\ \E r \in red' : r.tree = h.tree
  BY <1>4, <1>5 DEF HeldForItself, Grown
<1>6. CASE ~Alone(f)
  <2>1. held' = held
    BY <1>6 DEF SettleRed
  <2> QED BY <1>5, <2>1 DEF HeldForItself
<1>7. CASE Alone(f)
  <2> DEFINE n == Members(f)[1]
             new == [pr |-> n, reason |-> "GATE_RED", head |-> rows[n].lanes, tree |-> FamilyTree(f)]
  <2>1. held' = held \union {new}
    BY <1>7 DEF SettleRed
  <2>2. families[f].steps \in Seq(Step) /\ families[f].steps # <<>> /\ Members(f) \in Seq(PR)
    BY <1>1, MembersTyped DEF TypeOK, Pointers
  <2>3. Len(families[f].steps) = 1 /\ n = families[f].steps[1].pr
    <3>1. DOMAIN Members(f) = DOMAIN families[f].steps
          /\ \A i \in DOMAIN families[f].steps : Members(f)[i] = families[f].steps[i].pr
      BY DEF Members, Numbers
    <3>2. Len(Members(f)) = Len(families[f].steps)
      BY <2>2, <3>1
    <3>3. 1 \in DOMAIN families[f].steps
      BY <2>2
    <3> QED BY <1>7, <3>1, <3>2, <3>3 DEF Alone
  <2>4. FamilyTree(f) = Under(f) \union rows[n].lanes
    <3>1. FirstOwn(f)
      BY DEF OwnInv, OwnWork
    <3>2. FamilyTree(f) = families[f].steps[1].commit.lanes
      BY <2>3 DEF FamilyTree
    <3> QED BY <2>3, <3>1, <3>2 DEF FirstOwn
  <2>5. new.tree = FamilyTree(f) /\ new.head = rows[n].lanes
    OBVIOUS
  <2> HIDE DEF new, n
  <2>6. /\ \E i \in DOMAIN main' : new.tree = main'[i].tree \union new.head
        /\ \E r \in red' : r.tree = new.tree
    <3>1. PICK i \in DOMAIN main : Under(f) = main[i].tree
      BY <1>2
    <3>2. i \in DOMAIN main' /\ main'[i] = main[i]
      BY <1>4 DEF Grown
    <3> QED BY <1>3, <1>4, <2>4, <2>5, <3>1, <3>2
  <2> QED BY <1>5, <2>1, <2>6 DEF HeldForItself
<1> QED BY <1>6, <1>7

\* Whoever is held for a red gate is held by settle_red, with its own tree.
LEMMA HeldOwnNext ==
  ASSUME TypeOK, LandingInv, RoundInv, OwnInv, HeldForItself, [Next]_vars
  PROVE  HeldForItself'
<1>1. Grown /\ red \subseteq red'
  BY PlanNext DEF OwnInv
<1>2. ASSUME \A h \in held' \ held : h.reason # "GATE_RED"
      PROVE  HeldForItself'
  <2> SUFFICES ASSUME NEW h \in held', h.reason = "GATE_RED"
               PROVE  /\ \E i \in DOMAIN main' : h.tree = main'[i].tree \union h.head
                      /\ \E r \in red' : r.tree = h.tree
    BY DEF HeldForItself
  <2>1. h \in held
    BY <1>2
  <2> QED BY <1>1, <2>1 DEF HeldForItself, Grown
<1>3. CASE Collect
  <2>1. pc = "collect" /\ batch # <<>>
    BY <1>3 DEF Collect, TypeOK, Pointers
  <2>2. CollectRed(batch[1]) \/ held' = held
    BY <1>3 DEF Collect, CollectStopped, CollectDry, CollectGreen, CollectUnread
  <2>3. CASE CollectRed(batch[1])
    <3>1. ~settling
      BY <2>1 DEF RoundInv, InOrder
    <3>2. batch[1] \in Awaiting
      <4>1. batch[1] \in ToSet(batch)
        BY <2>1, HeadApart DEF RoundInv
      <4> QED BY <2>1, <3>1, <4>1 DEF Awaiting, InRound, Queued, Landing
    <3>3. BaseLanded(batch[1])
      <4>1. Linked(1)
        BY <2>1, BatchTail DEF RoundInv, Chained
      <4> QED BY <2>3, <4>1 DEF Linked, CollectRed
    <3> QED BY <2>3, <3>2, <3>3, SettleOwn DEF CollectRed
  <2> QED BY <1>2, <2>2, <2>3
<1>4. CASE PartGated
  <2>1. pc = "gate" /\ settling
    BY <1>4 DEF PartGated, TypeOK, Pointers
  <2>2. held' = held \/ (families[cur].result.verdict = "red" /\ SettleRed(cur))
    BY <1>4 DEF PartGated
  <2>3. CASE families[cur].result.verdict = "red" /\ SettleRed(cur)
    <3>1. cur \in Awaiting
      BY <2>1 DEF Awaiting, InRound, Queued
    <3>2. BaseLanded(cur)
      BY <2>1 DEF BaseLanded, RoundInv, Chained, AtHand
    <3> QED BY <2>3, <3>1, <3>2, SettleOwn
  <2> QED BY <1>2, <2>2, <2>3
<1>5. CASE PlanStep
  <2>1. held' = held \/ held' = held \union {[pr |-> Head(fold.todo), reason |-> "CONFLICT",
                                             head |-> rows[Head(fold.todo)].lanes, tree |-> fold.acc.lanes]}
    BY <1>5 DEF PlanStep
  <2> QED BY <1>2, <2>1
<1>6. CASE ~Collect /\ ~PartGated /\ ~PlanStep
  <2>1. held' = held
    <3>1. CASE StopEarly \/ Snapshot \/ Pairs \/ Round \/ PlanClose \/ Submit
      BY <3>1 DEF StopEarly, Snapshot, Pairs, Round, RunUnread, PlanClose, Submit, lists
    <3>2. CASE PartsDone \/ Part \/ Cancel \/ Join \/ Land
      BY <3>2 DEF PartsDone, Part, Cancel, Join, Land, LandCheck, Decide, Reobserve, Push, Await, Merge, Confirm,
         ByLanding, lists
    <3>3. CASE (\E f \in DOMAIN families : Gate(f)) \/ Disturb \/ Finished \/ UNCHANGED vars
      BY <3>3 DEF Gate, GateCancelled, GateReused, GateStart, GatePostponed, GateFinish, GateRecord, ByGate,
         Disturb, Outside, Finished, vars, lists
    <3> QED BY <1>6, <3>1, <3>2, <3>3 DEF Next, Train
  <2> QED BY <1>2, <2>1
<1> QED BY <1>3, <1>4, <1>5, <1>6

\* A pull request is held for a red gate only when exactly that tree was found red, and
\* it is the tree of a commit of the base and the pull request's own work (settle_red):
\* nobody is held for what another one, still in flight, brought into the gate.
THEOREM NobodyIsHeldForAnother == Spec => []HeldForItself
<1>1. Init => OwnInv /\ HeldForItself
  BY InitOwn
<1>2. TypeOK /\ LandingInv /\ RoundInv /\ PlacesInv /\ OwnInv /\ HeldForItself /\ [Next]_vars
        => OwnInv' /\ HeldForItself'
  BY OwnNext, HeldOwnNext
<1> QED BY <1>1, <1>2, TrainTypeOK, TrainLandingInv, RoundAlways, PlacesAlways, PTL DEF Spec

---------------------------------------------------------------------------
(* The rows of the gates, and the trees that were found red.               *)

\* No two gates are between the release of the lock and the append of their row: what
\* the code would guarantee by adding the row under the lock it read the index under.
\* (Finding 1 is what happens otherwise.)
RecordsApart ==
  \A f, g \in DOMAIN families : families[f].future = "recording" /\ families[g].future = "recording" => f = g

\* A family that is handed to the gates was not there before.
Unasked ==
  /\ pc \in {"plan", "submit"} /\ ~settling => \A i \in DOMAIN batch : families[batch[i]].future = "none"
  /\ pc = "submit" /\ settling => families[cur].future = "none"

Waits(f) == families[f].future \in {"queued", "running"}
Judged(f) == families[f].future \in {"recording", "done"}
Green(f) == Judged(f) /\ families[f].result.verdict = "green"
FreshRed(f) == Judged(f) /\ families[f].result.verdict = "red" /\ families[f].result.reused = 0

RowOf(f) == [family |-> f, tree |-> families[f].result.tree, verdict |-> families[f].result.verdict,
             reused |-> families[f].result.reused]

\* The trees of the families stay.
TreesStay == \A f \in DOMAIN families : f \in DOMAIN families' /\ FamilyTree(f)' = FamilyTree(f)

\* A step that leaves the plans leaves the trees.
LEMMA PlanTrees == ASSUME Planning PROVE TreesStay
BY SameTree DEF Planning, SamePlan, TreesStay

\* A step that is no gate's hands families that were never asked for to the gates, and
\* cancels some that wait.
Handed ==
  /\ UNCHANGED <<gates, red>> /\ RowsStay
  /\ \A f \in DOMAIN families :
       \/ families'[f].future = families[f].future
       \/ families[f].future = "none" /\ families'[f].future = "queued" /\ Serving(f) /\ Submit
       \/ families[f].future = "queued" /\ families'[f].future = "cancelled"
  /\ \A f \in DOMAIN families' : f \in DOMAIN families \/ families'[f].future = "none"

\* The run's thread and what happens outside only hand over and cancel.
LEMMA NoGateHanded ==
  ASSUME TypeOK, Unasked, [Next]_vars, \A f \in DOMAIN families : ~Gate(f)
  PROVE  Handed
<1>1. RowsStay
  BY PlanKept
<1>2. UNCHANGED <<gates, red>>
  <2>1. CASE StopEarly \/ Snapshot \/ Pairs \/ Round \/ PlanStep \/ PlanClose \/ Submit
    BY <2>1 DEF StopEarly, Snapshot, Pairs, Round, RunUnread, PlanStep, Untouched, PlanClose, Submit
  <2>2. CASE Collect \/ PartsDone \/ Part \/ PartGated \/ Cancel \/ Join
    BY <2>2 DEF Collect, CollectStopped, CollectDry, CollectGreen, CollectUnread, CollectRed, ByCollect,
       PartsDone, Part, PartGated, Cancel, Join
  <2>3. CASE Land
    BY <2>3 DEF Land, LandCheck, Decide, Reobserve, Push, Await, Merge, Confirm, ByLanding
  <2>4. CASE Disturb \/ Finished \/ UNCHANGED vars
    BY <2>4 DEF Disturb, Outside, Finished, vars
  <2> QED BY <2>1, <2>2, <2>3, <2>4 DEF Next, Train
<1>3. \A f \in DOMAIN families : families[f] \in Family
  BY FamilyTyped DEF TypeOK
<1>4. CASE Submit
  <2>1. \A f \in DOMAIN families : families'[f] = families[f]
          \/ /\ families'[f] = [families[f] EXCEPT !.future = "queued"]
             /\ f \in IF settling THEN {cur} ELSE ToSet(batch)
    BY <1>4 DEF Submit
  <2>2. DOMAIN families' = DOMAIN families
    BY <1>4 DEF Submit
  <2>3. \A f \in IF settling THEN {cur} ELSE ToSet(batch) : families[f].future = "none" /\ Serving(f)
    BY <1>4 DEF Submit, Unasked, Serving, AtHand, ToSet
  <2>4. \A f \in DOMAIN families : [families[f] EXCEPT !.future = "queued"].future = "queued"
    BY <1>3 DEF Family
  <2>5. \A f \in DOMAIN families :
          \/ families'[f].future = families[f].future
          \/ families[f].future = "none" /\ families'[f].future = "queued" /\ Serving(f) /\ Submit
    BY <1>4, <2>1, <2>3, <2>4
  <2> QED BY <1>1, <1>2, <2>2, <2>5 DEF Handed
<1>5. CASE Cancel
  <2>1. /\ DOMAIN families' = DOMAIN families
        /\ \A f \in DOMAIN families : families'[f].future = IF families[f].future = "queued" THEN "cancelled"
                                                           ELSE families[f].future
    BY <1>3, <1>5 DEF Cancel, Family
  <2> QED BY <1>1, <1>2, <2>1 DEF Handed
<1>6. CASE StopEarly \/ Snapshot \/ Pairs \/ Round \/ PlanStep \/ Join \/ Disturb \/ Finished \/ UNCHANGED vars
  <2>1. families' = families
    BY <1>6 DEF StopEarly, Snapshot, Pairs, Round, RunUnread, PlanStep, Untouched, Join, Disturb, Outside,
       Finished, vars
  <2> QED BY <1>1, <1>2, <2>1 DEF Handed
<1>7. CASE PlanClose \/ Collect \/ PartsDone \/ Part \/ PartGated \/ Land
  <2>1. FuturesKept
    BY <1>7, PlanCloseFutures, ServingFutures
  <2> QED BY <1>1, <1>2, <2>1 DEF FuturesKept, RowsStay, Handed
<1> QED BY <1>4, <1>5, <1>6, <1>7 DEF Next, Train

\* What a gate does to its family, one kind of step at a time.
SetsOff(f) == families[f].future = "queued" /\ families'[f].future \in {"cancelled", "running"}
              /\ (families'[f].future = "running" => KnownRed(FamilyTree(f)) = {})
              /\ families'[f].result = families[f].result /\ UNCHANGED <<gates, red>>
Takes(f, verdict, tree, reused) ==
  /\ families'[f].future = "recording" /\ families'[f].gate = NextRow /\ gates' = gates
  /\ families'[f].result.verdict = verdict /\ families'[f].result.tree = tree /\ families'[f].result.reused = reused
Copies(f) == \E known \in KnownRed(FamilyTree(f)) :
  /\ known.gate \in DOMAIN gates /\ families[f].future = "queued" /\ red' = red
  /\ Takes(f, gates[known.gate].verdict, gates[known.gate].tree, known.gate)
Judges(f) == \E verdict \in {"green", "red", "unread"} :
  /\ families[f].future = "running" \/ verdict = "unread"
  /\ families[f].future \in {"queued", "running"}
  /\ Takes(f, verdict, FamilyTree(f), 0)
  /\ red' = IF verdict = "red" /\ KnownRed(FamilyTree(f)) = {}
            THEN red \union {[tree |-> FamilyTree(f), gate |-> NextRow]} ELSE red
Records(f) ==
  /\ families[f].future = "recording" /\ families'[f].future = "done"
  /\ families'[f].gate = families[f].gate /\ families'[f].result = families[f].result
  /\ gates' = Append(gates, RowOf(f)) /\ red' = red

\* The row a gate fills in.
Filled(f, s, n, v, t, u) ==
  families' = [families EXCEPT ![f].future = "recording", ![f].status = s, ![f].gate = n,
                               ![f].result = [verdict |-> v, tree |-> t, reused |-> u]]

\* What such a row reads.
LEMMA FilledRow ==
  ASSUME NEW f \in DOMAIN families, families[f] \in Family, NEW s, NEW n, NEW v, NEW t, NEW u, Filled(f, s, n, v, t, u)
  PROVE  /\ families'[f].future = "recording" /\ families'[f].gate = n
         /\ families'[f].result.verdict = v /\ families'[f].result.tree = t /\ families'[f].result.reused = u
<1>1. PICK r : r = [verdict |-> v, tree |-> t, reused |-> u]
  OBVIOUS
<1>2. r.verdict = v /\ r.tree = t /\ r.reused = u
  BY <1>1
<1>3. families' = [families EXCEPT ![f].future = "recording", ![f].status = s, ![f].gate = n, ![f].result = r]
  BY <1>1, Zenon DEF Filled
<1>4. families'[f].future = "recording" /\ families'[f].gate = n /\ families'[f].result = r
  BY <1>3 DEF Family
<1> QED BY <1>2, <1>4

\* A gate starts, copies a red row, judges a tree or adds its row, and touches nothing
\* of the run's thread (gate_family).
LEMMA GateKinds ==
  ASSUME TypeOK, NEW f \in DOMAIN families, Gate(f)
  PROVE  /\ UNCHANGED <<main, pulls, thread, lists, mode, pc, rows, stopped>>
         /\ DOMAIN families' = DOMAIN families /\ \A g \in DOMAIN families \ {f} : families'[g] = families[g]
         /\ SetsOff(f) \/ Copies(f) \/ Judges(f) \/ Records(f)
<1>1. families[f] \in Family
  BY FamilyTyped DEF TypeOK
<1>2. /\ UNCHANGED <<main, pulls, thread, lists, mode, pc, rows, stopped>>
      /\ DOMAIN families' = DOMAIN families /\ \A g \in DOMAIN families \ {f} : families'[g] = families[g]
  BY DEF Gate, GateCancelled, GateReused, GateStart, GatePostponed, GateFinish, GateRecord, ByGate
<1>4. CASE GateCancelled(f) \/ GateStart(f)
  <2>1. families[f].future = "queued" /\ UNCHANGED <<gates, red>>
    BY <1>4 DEF GateCancelled, GateStart, Startable
  <2>2. families'[f].future \in {"cancelled", "running"} /\ families'[f].result = families[f].result
    BY <1>1, <1>4 DEF GateCancelled, GateStart, Family
  <2>3. families'[f].future = "running" => KnownRed(FamilyTree(f)) = {}
    BY <1>1, <1>4 DEF GateCancelled, GateStart, Family
  <2> QED BY <1>2, <2>1, <2>2, <2>3 DEF SetsOff
<1>5. CASE GateReused(f)
  <2>1. PICK known \in KnownRed(FamilyTree(f)) :
          /\ known.gate \in DOMAIN gates
          /\ Filled(f, "RED", NextRow, gates[known.gate].verdict, gates[known.gate].tree, known.gate)
    BY <1>5, Zenon DEF GateReused, Filled
  <2>2. families[f].future = "queued" /\ UNCHANGED <<gates, red>>
    BY <1>5 DEF GateReused, Startable
  <2>3. Takes(f, gates[known.gate].verdict, gates[known.gate].tree, known.gate)
    BY <1>1, <2>1, <2>2, FilledRow DEF Takes
  <2> QED BY <1>2, <2>1, <2>2, <2>3 DEF Copies
<1>6. CASE GatePostponed(f)
  <2>1. Filled(f, "GATE_RETRY", NextRow, "unread", FamilyTree(f), 0)
    BY <1>6, Zenon DEF GatePostponed, Filled
  <2>2. families[f].future = "queued" /\ UNCHANGED <<gates, red>>
    BY <1>6 DEF GatePostponed, Startable
  <2>3. Takes(f, "unread", FamilyTree(f), 0)
    BY <1>1, <2>1, <2>2, FilledRow DEF Takes
  <2> QED BY <1>2, <2>2, <2>3 DEF Judges
<1>7. CASE GateFinish(f)
  <2>1. PICK verdict \in {"green", "red", "unread"} :
          /\ Filled(f, GateStatus(verdict), NextRow, verdict, FamilyTree(f), 0)
          /\ red' = IF verdict = "red" /\ KnownRed(FamilyTree(f)) = {}
                    THEN red \union {[tree |-> FamilyTree(f), gate |-> NextRow]} ELSE red
    BY <1>7, Zenon DEF GateFinish, Filled
  <2>2. families[f].future = "running" /\ gates' = gates
    BY <1>7 DEF GateFinish
  <2>3. Takes(f, verdict, FamilyTree(f), 0)
    BY <1>1, <2>1, <2>2, FilledRow DEF Takes
  <2> QED BY <1>2, <2>1, <2>2, <2>3 DEF Judges
<1>8. CASE GateRecord(f)
  <2>1. families'[f].future = "done" /\ families'[f].gate = families[f].gate /\ families'[f].result = families[f].result
    BY <1>1, <1>8 DEF GateRecord, Family
  <2>2. families[f].future = "recording" /\ gates' = Append(gates, RowOf(f)) /\ red' = red
    BY <1>8 DEF GateRecord, RowOf
  <2> QED BY <1>2, <2>1, <2>2 DEF Records
<1> QED BY <1>2, <1>4, <1>5, <1>6, <1>7, <1>8 DEF Gate

\* A family in the hands of a gate was handed to it.
LEMMA GateAsked ==
  ASSUME TypeOK, NEW f \in DOMAIN families, Gate(f)
  PROVE  families[f].future \in {"queued", "running", "recording"}
BY GateKinds DEF SetsOff, Copies, Judges, Records

\* A round, and a bisection, hand to the gates only what they have just planned.
LEMMA UnaskedNext == ASSUME TypeOK, LandingInv, RoundInv, Unasked, [Next]_vars PROVE Unasked'
<1>1. CASE \E f \in DOMAIN families : Gate(f)
  <2>1. PICK f \in DOMAIN families : Gate(f)
    BY <1>1
  <2>2. /\ UNCHANGED <<pc, batch, cur, settling>>
        /\ \A g \in DOMAIN families \ {f} : families'[g] = families[g]
    BY <2>1, GateKinds DEF thread
  <2>3. families[f].future # "none"
    BY <2>1, GateAsked
  <2>4. \A i \in DOMAIN batch : batch[i] \in DOMAIN families
    BY BatchTyped
  <2>5. pc = "submit" /\ settling => cur \in DOMAIN families
    BY DEF TypeOK, Pointers
  <2> QED BY <2>2, <2>3, <2>4, <2>5 DEF Unasked
<1>2. CASE PlanClose
  <2>1. pc = "plan" /\ settling' = settling /\ (settling => pc' # "plan")
    BY <1>2 DEF PlanClose, AfterFold
  <2>2. CASE fold.steps = <<>>
    <3>1. families' = families /\ batch' = batch /\ (pc' = "submit" => ~settling)
      BY <1>2, <2>2 DEF PlanClose, AfterFold
    <3> QED BY <2>1, <3>1 DEF Unasked
  <2>3. CASE fold.steps # <<>>
    <3> DEFINE new == Len(families) + 1
    <3>1. /\ new \notin DOMAIN families /\ new \in DOMAIN families' /\ \A f \in DOMAIN families : families'[f] = families[f]
          /\ batch' = (IF settling THEN batch ELSE Append(batch, new))
          /\ cur' = (IF settling THEN new ELSE cur)
      BY <1>2, <2>3, FamilyAdded
    <3>2. families'[new].future = "none"
      BY <1>2, <3>1, PlanCloseFutures DEF FuturesKept
    <3> HIDE DEF new
    <3>3. /\ batch \in Seq(Nat) /\ Len(batch) \in Nat /\ DOMAIN batch = 1..Len(batch)
          /\ \A i \in DOMAIN batch : batch[i] \in DOMAIN families
      BY BatchTyped
    <3>4. ~settling => \A i \in DOMAIN batch' : batch'[i] = new \/ (i \in DOMAIN batch /\ batch'[i] = batch[i])
      BY <3>1, <3>3
    <3> QED BY <2>1, <3>1, <3>2, <3>3, <3>4 DEF Unasked
  <2> QED BY <2>2, <2>3
<1>3. CASE Round \/ Part
  <2>1. pc' # "submit" /\ (pc' = "plan" /\ ~settling' => batch' = <<>>)
    BY <1>3 DEF Round, Part, RunUnread
  <2> QED BY <2>1 DEF Unasked
<1>4. CASE PlanStep \/ Disturb \/ Finished \/ UNCHANGED vars
  <2>1. UNCHANGED <<pc, batch, cur, settling, families>>
    BY <1>4 DEF PlanStep, Untouched, Disturb, Outside, Finished, vars, thread
  <2> QED BY <2>1 DEF Unasked
<1>5. CASE StopEarly \/ Snapshot \/ Pairs \/ Submit \/ Collect \/ PartsDone \/ PartGated \/ Land \/ Cancel \/ Join
  <2>1. pc' # "plan"
    BY <1>5, OtherwisePlanned
  <2>2. pc' # "submit"
    <3>1. CASE StopEarly \/ Snapshot \/ Submit \/ PartsDone \/ PartGated \/ Cancel
      BY <3>1 DEF StopEarly, Snapshot, RunUnread, Submit, PartsDone, PartGated, Cancel
    <3>2. CASE Pairs \/ Join
      BY <3>2 DEF Pairs, Choose, Join, Continue
    <3>3. CASE Collect
      BY <3>3 DEF Collect, CollectStopped, CollectDry, CollectGreen, CollectUnread, CollectRed
    <3>4. CASE LandCheck \/ Decide \/ Reobserve \/ Push \/ Await \/ Merge
      BY <3>4 DEF LandCheck, Decide, Reobserve, Push, Await, Merge, ReadFails, Withheld, Leave
    <3>5. CASE Confirm
      BY <3>5 DEF Confirm, Leave
    <3> QED BY <1>5, <3>1, <3>2, <3>3, <3>4, <3>5 DEF Land
  <2> QED BY <2>1, <2>2 DEF Unasked
<1> QED BY <1>1, <1>2, <1>3, <1>4, <1>5 DEF Next, Train

---------------------------------------------------------------------------
(* Every family's index is its own row's, as long as the gates record one  *)
(* after the other.                                                        *)

\* A family about to be recorded has the index its row will get, a recorded one the
\* index of its row, and both were judged on their own tree.
IndexOwn(f) ==
  /\ families[f].future = "recording" => families[f].gate = NextRow
  /\ families[f].future = "done" => families[f].gate \in DOMAIN gates /\ gates[families[f].gate] = RowOf(f)
  /\ Judged(f) => families[f].result.tree = FamilyTree(f)

\* A tree known red has a red row, or its gate is about to add it.
RedRow(r) ==
  \/ r.gate \in DOMAIN gates /\ gates[r.gate].tree = r.tree /\ gates[r.gate].verdict = "red"
  \/ \E f \in DOMAIN families :
       /\ families[f].future = "recording" /\ r.gate = NextRow
       /\ families[f].result.tree = r.tree /\ families[f].result.verdict = "red"

\* A row is what a family's gate said.
RowOwn(i) ==
  LET f == gates[i].family
  IN f \in DOMAIN families /\ families[f].future = "done" /\ gates[i] = RowOf(f)

Indexed ==
  /\ \A f \in DOMAIN families : IndexOwn(f)
  /\ \A r \in red : RedRow(r)
  /\ \A i \in DOMAIN gates : RowOwn(i)

\* The rows are numbered from one.
LEMMA RowsTyped ==
  ASSUME TypeOK
  PROVE  /\ Len(gates) \in Nat /\ DOMAIN gates = 1..Len(gates) /\ NextRow = Len(gates) + 1
         /\ NextRow \notin DOMAIN gates
         /\ \A row : row \in GateRow /\ gates' = Append(gates, row) =>
              /\ DOMAIN gates' = DOMAIN gates \union {NextRow} /\ gates'[NextRow] = row
              /\ \A i \in DOMAIN gates : gates'[i] = gates[i]
              /\ NextRow' # NextRow
<1>1. gates \in Seq(GateRow) /\ Len(gates) \in Nat /\ DOMAIN gates = 1..Len(gates)
  BY LenProperties DEF TypeOK, GatesTyped
<1>2. ASSUME NEW row \in GateRow, gates' = Append(gates, row)
      PROVE  /\ DOMAIN gates' = 1..(Len(gates) + 1) /\ gates'[Len(gates) + 1] = row /\ Len(gates') = Len(gates) + 1
             /\ \A i \in DOMAIN gates : gates'[i] = gates[i]
  BY <1>1, <1>2
<1>3. ASSUME NEW row \in GateRow, gates' = Append(gates, row)
      PROVE  /\ DOMAIN gates' = DOMAIN gates \union {NextRow} /\ gates'[NextRow] = row
             /\ \A i \in DOMAIN gates : gates'[i] = gates[i]
             /\ NextRow' # NextRow
  <2>1. NextRow = Len(gates) + 1 /\ NextRow' = Len(gates') + 1
    BY DEF NextRow
  <2> QED BY <1>1, <1>2, <1>3, <2>1
<1>4. NextRow = Len(gates) + 1 /\ NextRow \notin DOMAIN gates
  BY <1>1 DEF NextRow
<1> QED BY <1>1, <1>3, <1>4

\* What a gate says is a row.
LEMMA RowTyped == ASSUME TypeOK, NEW f \in DOMAIN families PROVE RowOf(f) \in GateRow
<1>1. families[f] \in Family /\ f \in Nat
  BY FamilyTyped DEF TypeOK
<1> QED BY <1>1 DEF GateRow, RowOf, Family

\* A family that no gate works on and that keeps its row keeps its index.
LEMMA IndexKept ==
  ASSUME NEW f \in DOMAIN families, IndexOwn(f), gates' = gates, families'[f].steps = families[f].steps,
         families'[f].result = families[f].result, families'[f].gate = families[f].gate,
         families'[f].future \in {"recording", "done"} => families'[f].future = families[f].future
  PROVE  IndexOwn(f)'
<1>1. FamilyTree(f)' = FamilyTree(f)
  BY SameTree
<1> QED BY <1>1 DEF IndexOwn, RowOf, Judged, NextRow

\* Steps of the run's thread and of the outside leave the rows as they are.
LEMMA OthersIndexed ==
  ASSUME TypeOK, Unasked, Indexed, [Next]_vars, \A f \in DOMAIN families : ~Gate(f)
  PROVE  Indexed'
<1>1. Handed
  BY NoGateHanded
<1>2. \A f \in DOMAIN families : f \in DOMAIN families' /\ SameRow(families'[f], families[f])
  BY <1>1 DEF Handed, RowsStay
<1>3. \A f \in DOMAIN families' : IndexOwn(f)'
  <2>1. ASSUME NEW f \in DOMAIN families PROVE IndexOwn(f)'
    <3>1. IndexOwn(f) /\ gates' = gates
      BY <1>1 DEF Indexed, Handed
    <3>2. families'[f].future \in {"recording", "done"} => families'[f].future = families[f].future
      BY <1>1 DEF Handed
    <3> QED BY <1>2, <3>1, <3>2, IndexKept DEF SameRow, SamePlan
  <2>2. ASSUME NEW f \in DOMAIN families', f \notin DOMAIN families PROVE IndexOwn(f)'
    BY <1>1, <2>2 DEF Handed, IndexOwn, Judged
  <2> QED BY <2>1, <2>2
<1>4. \A r \in red' : RedRow(r)'
  <2> SUFFICES ASSUME NEW r \in red PROVE RedRow(r)'
    BY <1>1 DEF Handed
  <2>1. RedRow(r) /\ gates' = gates
    BY <1>1 DEF Indexed, Handed
  <2>2. \A f \in DOMAIN families : families[f].future = "recording" =>
          f \in DOMAIN families' /\ families'[f].future = "recording" /\ families'[f].result = families[f].result
    BY <1>1, <1>2 DEF Handed, SameRow
  <2> QED BY <2>1, <2>2 DEF RedRow, NextRow
<1>5. \A i \in DOMAIN gates' : RowOwn(i)'
  <2> SUFFICES ASSUME NEW i \in DOMAIN gates PROVE RowOwn(i)'
    BY <1>1 DEF Handed
  <2>1. RowOwn(i) /\ gates' = gates
    BY <1>1 DEF Indexed, Handed
  <2>2. \A f \in DOMAIN families : families[f].future = "done" =>
          f \in DOMAIN families' /\ families'[f].future = "done" /\ families'[f].result = families[f].result
    BY <1>1, <1>2 DEF Handed, SameRow
  <2> QED BY <2>1, <2>2 DEF RowOwn, RowOf
<1> QED BY <1>3, <1>4, <1>5 DEF Indexed

\* A gate leaves the rows and the indices of the other families alone.
LEMMA OtherIndexed ==
  ASSUME TypeOK, RedKnown, Indexed, NEW f \in DOMAIN families, Gate(f), gates' = gates
  PROVE  /\ \A g \in DOMAIN families \ {f} : IndexOwn(g)'
         /\ \A i \in DOMAIN gates' : RowOwn(i)'
         /\ \A r \in red : RedRow(r)'
<1>1. /\ DOMAIN families' = DOMAIN families /\ \A g \in DOMAIN families \ {f} : families'[g] = families[g]
      /\ SetsOff(f) \/ Copies(f) \/ Judges(f) \/ Records(f)
  BY GateKinds
<1>2. families[f].future \in {"queued", "running"}
  <2>1. ~Records(f)
    <3>1. SUFFICES ASSUME gates' = Append(gates, RowOf(f)) PROVE FALSE
      BY DEF Records
    <3>2. NextRow \in DOMAIN gates' /\ NextRow \notin DOMAIN gates
      BY <3>1, RowTyped, RowsTyped
    <3> QED BY <3>2
  <2> QED BY <1>1, <2>1 DEF SetsOff, Copies, Judges
<1>3. \A g \in DOMAIN families \ {f} : IndexOwn(g)'
  BY <1>1, IndexKept DEF Indexed
<1>4. ASSUME NEW i \in DOMAIN gates' PROVE RowOwn(i)'
  <2>1. RowOwn(i)
    BY <1>4 DEF Indexed
  <2> QED BY <1>1, <1>2, <2>1 DEF RowOwn, RowOf
<1>5. ASSUME NEW r \in red PROVE RedRow(r)'
  <2>1. RedRow(r)
    BY DEF Indexed
  <2> QED BY <1>1, <1>2, <2>1 DEF RedRow, NextRow
<1> QED BY <1>3, <1>4, <1>5

\* A gate's steps keep the rows in order while only one of them is about to record.
LEMMA GateIndexed ==
  ASSUME TypeOK, RedKnown, RecordsApart, Indexed, NEW f \in DOMAIN families, Gate(f)
  PROVE  Indexed'
<1>1. /\ DOMAIN families' = DOMAIN families /\ \A g \in DOMAIN families \ {f} : families'[g] = families[g]
      /\ SetsOff(f) \/ Copies(f) \/ Judges(f) \/ Records(f)
  BY GateKinds
<1>2. /\ \A g \in DOMAIN families : IndexOwn(g)
      /\ \A r \in red : RedRow(r)
      /\ \A i \in DOMAIN gates : RowOwn(i)
  BY DEF Indexed
<1>3. FamilyTree(f)' = FamilyTree(f)
  BY GateKept, PlanTrees DEF TreesStay
<1>4. CASE SetsOff(f)
  <2>1. gates' = gates /\ red' = red /\ IndexOwn(f)'
    BY <1>1, <1>4 DEF SetsOff, IndexOwn, Judged
  <2> QED BY <1>1, <2>1, OtherIndexed DEF Indexed
<1>5. ASSUME NEW verdict, NEW reused, Takes(f, verdict, FamilyTree(f), reused),
             red' = red \/ (verdict = "red" /\ red' = red \union {[tree |-> FamilyTree(f), gate |-> NextRow]})
      PROVE  Indexed'
  <2>1. gates' = gates /\ NextRow' = NextRow
    BY <1>5 DEF Takes, NextRow
  <2>2. IndexOwn(f)'
    BY <1>1, <1>3, <1>5, <2>1 DEF Takes, IndexOwn, Judged
  <2>3. ASSUME NEW r, r = [tree |-> FamilyTree(f), gate |-> NextRow], verdict = "red" PROVE RedRow(r)'
    <3>1. r.tree = FamilyTree(f) /\ r.gate = NextRow
      BY <2>3
    <3> QED BY <1>1, <1>5, <2>1, <2>3, <3>1 DEF Takes, RedRow
  <2>4. \A r \in red : RedRow(r)'
    BY <2>1, OtherIndexed
  <2>5. \A r \in red' : RedRow(r)'
    BY <1>5, <2>3, <2>4
  <2>6. \A i \in DOMAIN gates' : RowOwn(i)'
    BY <2>1, OtherIndexed
  <2>7. \A g \in DOMAIN families' : IndexOwn(g)'
    BY <1>1, <2>1, <2>2, OtherIndexed
  <2> QED BY <2>5, <2>6, <2>7 DEF Indexed
<1>6. CASE Copies(f)
  <2>1. PICK known \in KnownRed(FamilyTree(f)) :
          /\ known.gate \in DOMAIN gates /\ red' = red
          /\ Takes(f, gates[known.gate].verdict, gates[known.gate].tree, known.gate)
    BY <1>6 DEF Copies
  <2>2. known \in red /\ known.tree = FamilyTree(f)
    BY DEF KnownRed
  <2>3. gates[known.gate].tree = FamilyTree(f)
    BY <1>2, <2>1, <2>2, RowsTyped DEF RedRow
  <2> QED BY <1>5, <2>1, <2>3
<1>7. CASE Judges(f)
  <2>1. PICK verdict \in {"green", "red", "unread"} :
          /\ Takes(f, verdict, FamilyTree(f), 0)
          /\ red' = IF verdict = "red" /\ KnownRed(FamilyTree(f)) = {}
                    THEN red \union {[tree |-> FamilyTree(f), gate |-> NextRow]} ELSE red
    BY <1>7 DEF Judges
  <2> QED BY <1>5, <2>1
<1>8. CASE Records(f)
  <2> DEFINE row == RowOf(f)
  <2>1. /\ families[f].future = "recording" /\ families'[f].future = "done" /\ red' = red
        /\ families'[f].gate = families[f].gate /\ families'[f].result = families[f].result
        /\ gates' = Append(gates, row)
    BY <1>8 DEF Records
  <2>2. row \in GateRow
    BY RowTyped
  <2>3. /\ DOMAIN gates' = DOMAIN gates \union {NextRow} /\ gates'[NextRow] = row
        /\ \A i \in DOMAIN gates : gates'[i] = gates[i]
    BY <2>1, <2>2, RowsTyped
  <2>4. row.family = f /\ row.tree = families[f].result.tree /\ row.verdict = families[f].result.verdict
    BY DEF RowOf
  <2>5. RowOf(f)' = row
    BY <2>1 DEF RowOf
  <2> HIDE DEF row
  <2>6. ASSUME NEW g \in DOMAIN families, g # f PROVE IndexOwn(g)'
    <3>1. families'[g] = families[g] /\ families[g].future # "recording" /\ IndexOwn(g) /\ RowOf(g)' = RowOf(g)
      BY <1>1, <1>2, <2>1, <2>6 DEF RecordsApart, RowOf
    <3>2. FamilyTree(g)' = FamilyTree(g)
      BY <3>1, SameTree
    <3> QED BY <2>3, <3>1, <3>2 DEF IndexOwn, Judged
  <2>7. IndexOwn(f)'
    BY <1>1, <1>2, <1>3, <2>1, <2>3, <2>5 DEF IndexOwn, Judged
  <2>8. ASSUME NEW r \in red PROVE RedRow(r)'
    <3>1. CASE r.gate \in DOMAIN gates /\ gates[r.gate].tree = r.tree /\ gates[r.gate].verdict = "red"
      BY <2>3, <3>1 DEF RedRow
    <3>2. CASE ~(r.gate \in DOMAIN gates /\ gates[r.gate].tree = r.tree /\ gates[r.gate].verdict = "red")
      <4>1. r.gate = NextRow /\ families[f].result.tree = r.tree /\ families[f].result.verdict = "red"
        BY <1>2, <2>1, <3>2 DEF RedRow, RecordsApart
      <4> QED BY <2>3, <2>4, <4>1 DEF RedRow
    <3> QED BY <3>1, <3>2
  <2>9. ASSUME NEW i \in DOMAIN gates' PROVE RowOwn(i)'
    <3>1. CASE i = NextRow
      BY <1>1, <2>1, <2>3, <2>4, <2>5, <3>1 DEF RowOwn
    <3>2. CASE i \in DOMAIN gates
      <4>1. RowOwn(i) /\ gates'[i] = gates[i]
        BY <1>2, <2>3, <3>2
      <4>2. gates[i].family # f
        BY <2>1, <4>1 DEF RowOwn
      <4>3. families'[gates[i].family] = families[gates[i].family]
        BY <1>1, <4>1, <4>2 DEF RowOwn
      <4> QED BY <1>1, <4>1, <4>3 DEF RowOwn, RowOf
    <3> QED BY <2>3, <2>9, <3>1, <3>2
  <2> QED BY <1>1, <2>1, <2>6, <2>7, <2>8, <2>9 DEF Indexed
<1> QED BY <1>1, <1>4, <1>6, <1>7, <1>8

\* Every step keeps them, while the gates record one after the other.
LEMMA IndexedNext ==
  ASSUME TypeOK, Unasked, RedKnown, RecordsApart, Indexed, [Next]_vars
  PROVE  Indexed'
BY OthersIndexed, GateIndexed

---------------------------------------------------------------------------
(* What lands was found green.                                             *)

LandsGreen ==
  /\ pc \in Landing => families[cur].result.verdict = "green"
  /\ \A f \in DOMAIN families : Landed(f) => families[f].result.verdict = "green"

\* A step that neither enters a landing nor lands a family.
LEMMA GreenKept ==
  ASSUME TypeOK, LandsGreen, NoneLands, pc' \in Landing => pc \in Landing /\ cur' = cur,
         \A f \in DOMAIN families :
           f \in DOMAIN families' /\ (families[f].future = "done" => families'[f].result = families[f].result),
         RoundInv
  PROVE  LandsGreen'
<1>1. \A f \in DOMAIN families : Landed(f) => families[f].future = "done"
  BY DEF RoundInv, LandedRests
<1>2. pc \in Landing => cur \in DOMAIN families /\ families[cur].future = "done"
  BY DEF RoundInv, InOrder, TypeOK, Pointers
<1> QED BY <1>1, <1>2 DEF LandsGreen, NoneLands, Landed

\* A family is landed, and has landed, on a green verdict of its own.
LEMMA GreenNext ==
  ASSUME TypeOK, LandingInv, RoundInv, LandsGreen, [Next]_vars
  PROVE  LandsGreen'
<1>1. \A f \in DOMAIN families :
        f \in DOMAIN families' /\ (families[f].future = "done" => families'[f].result = families[f].result)
  <2>1. CASE \A f \in DOMAIN families : ~Gate(f)
    <3>1. RowsStay
      BY <2>1, PlanKept
    <3> QED BY <3>1 DEF RowsStay, SameRow
  <2>2. CASE \E f \in DOMAIN families : Gate(f)
    <3>1. PICK f \in DOMAIN families : Gate(f)
      BY <2>2
    <3>2. families[f].future # "done"
      BY <3>1, GateAsked
    <3>3. /\ DOMAIN families' = DOMAIN families
          /\ \A g \in DOMAIN families \ {f} : families'[g] = families[g]
      BY <3>1, GateKinds
    <3> QED BY <3>2, <3>3
  <2> QED BY <2>1, <2>2
<1>2. CASE Quiet /\ (pc' \in Landing => pc \in Landing /\ cur' = cur)
  BY <1>1, <1>2, GreenKept DEF Quiet
<1>3. CASE CollectGreen(batch[1]) \/ PartGated
  <2>1. CASE pc' \in Landing
    <3>1. /\ families' = families /\ cur' \in DOMAIN families /\ families[cur'].result.verdict = "green"
      <4>1. CASE CollectGreen(batch[1])
        BY <4>1, BatchHead DEF CollectGreen, Collected, TypeOK, Pointers
      <4>2. CASE PartGated
        BY <2>1, <4>2 DEF PartGated, TypeOK, Pointers, Landing
      <4> QED BY <1>3, <4>1, <4>2
    <3> QED BY <3>1 DEF LandsGreen, Landed
  <2>2. CASE pc' \notin Landing
    <3>1. Quiet
      BY <1>3, CollectQuiet, PartsQuiet DEF Collect, CollectGreen, Collected
    <3> QED BY <1>2, <2>2, <3>1
  <2> QED BY <2>1, <2>2
<1>4. CASE Land
  <2>1. CASE LandCheck \/ Decide \/ Reobserve \/ Push \/ Await
    <3>1. Quiet
      BY <2>1, LandingQuiet
    <3>2. pc \in Landing /\ cur' = cur
      BY <2>1 DEF LandCheck, Decide, Reobserve, Push, Await, ByLanding, Landing
    <3> QED BY <1>2, <3>1, <3>2
  <2>2. CASE Merge
    <3>1. pc \in Landing /\ cur' = cur
      BY <2>2 DEF Merge, ByLanding, Landing
    <3>2. NoneLands
      BY <2>2, SameLandsNone, ReadFailsLandsNone DEF Merge
    <3> QED BY <1>1, <3>1, <3>2, GreenKept
  <2>3. CASE Confirm
    <3>1. /\ pc \in Landing /\ cur' = cur /\ cur \in DOMAIN families
          /\ \/ Leave("LANDED_TREE_UNREAD", Tail(Rest)) \/ Leave("TREE_MISMATCH", <<>>)
             \/ families' = families
             \/ families' = [families EXCEPT ![cur].status = "LANDED", ![cur].landed = merges[Len(merges)].sha]
                /\ pc' \notin Landing
      BY <2>3, LandingPointers DEF Confirm, ByLanding, Landing
    <3>2. CASE \/ Leave("LANDED_TREE_UNREAD", Tail(Rest)) \/ Leave("TREE_MISMATCH", <<>>)
               \/ families' = families
      <4>1. NoneLands
        BY <3>2, SameLandsNone, LeaveLandsNone
      <4> QED BY <1>1, <3>1, <4>1, GreenKept
    <3>3. CASE families' = [families EXCEPT ![cur].status = "LANDED", ![cur].landed = merges[Len(merges)].sha]
               /\ pc' \notin Landing
      <4>1. /\ DOMAIN families' = DOMAIN families
            /\ \A f \in DOMAIN families : families'[f].result = families[f].result
            /\ \A f \in DOMAIN families : f # cur => families'[f].status = families[f].status
        <5>1. families[cur] \in Family
          BY <3>1, FamilyTyped DEF TypeOK
        <5> QED BY <3>1, <3>3, <5>1 DEF Family
      <4> QED BY <3>1, <3>3, <4>1 DEF LandsGreen, Landed
    <3> QED BY <3>1, <3>2, <3>3
  <2> QED BY <1>4, <2>1, <2>2, <2>3 DEF Land
<1>5. CASE ~Land /\ ~PartGated /\ ~CollectGreen(batch[1])
  <2>1. Quiet
    BY <1>5, PlanningQuiet, PlanCloseQuiet, SubmitQuiet, GateQuiet, CollectQuiet, PartsQuiet, DisturbQuiet,
       StutterQuiet DEF Next, Train, Finished
  <2>2. pc' \in Landing => pc \in Landing /\ cur' = cur
    <3>1. CASE \E f \in DOMAIN families : Gate(f)
      BY <3>1, GateKinds DEF thread
    <3>2. CASE Disturb \/ Finished \/ UNCHANGED vars
      BY <3>2 DEF Disturb, Outside, Finished, vars, thread
    <3>3. CASE StopEarly \/ Snapshot \/ Round \/ Submit \/ PartsDone \/ Part \/ Cancel
      BY <3>3 DEF StopEarly, Snapshot, RunUnread, Round, Submit, PartsDone, Part, Cancel, Landing
    <3>4. CASE Pairs \/ Join
      BY <3>4 DEF Pairs, Choose, Join, Continue, Landing
    <3>5. CASE PlanStep \/ PlanClose
      BY <3>5 DEF PlanStep, PlanClose, AfterFold, Landing
    <3>6. CASE Collect
      BY <1>5, <3>6 DEF Collect, CollectStopped, CollectDry, CollectUnread, CollectRed, Landing
    <3> QED BY <1>5, <3>1, <3>2, <3>3, <3>4, <3>5, <3>6 DEF Next, Train
  <2> QED BY <1>2, <2>1, <2>2
<1> QED BY <1>3, <1>4, <1>5

\* The invariant of the families' own work.
LEMMA OwnAlways == Spec => []OwnInv
<1>1. Init => OwnInv
  BY InitOwn
<1>2. TypeOK /\ LandingInv /\ RoundInv /\ PlacesInv /\ OwnInv /\ [Next]_vars => OwnInv'
  BY OwnNext
<1> QED BY <1>1, <1>2, TrainTypeOK, TrainLandingInv, RoundAlways, PlacesAlways, PTL DEF Spec

\* A landing decision is taken, and its effects follow, on the green row of the very
\* family that lands, in every behaviour in which no two gates are between taking the
\* index of a row and adding it (gate_family, _receive_landing_decision): the race is
\* the only way to decide on another family's row.
THEOREM DecidesOnOwnGate == Spec /\ []RecordsApart => []DecidedOnOwnGate
<1>1. Init => Unasked /\ Indexed /\ LandsGreen
  BY DEF Init, Unasked, Indexed, LandsGreen, Landing
<1>2. /\ TypeOK /\ LandingInv /\ RoundInv /\ Unasked /\ [Next]_vars => Unasked'
      /\ TypeOK /\ LandingInv /\ RoundInv /\ LandsGreen /\ [Next]_vars => LandsGreen'
  BY UnaskedNext, GreenNext
<1>3. TypeOK /\ Unasked /\ OwnInv /\ RecordsApart /\ Indexed /\ [Next]_vars => Indexed'
  BY IndexedNext DEF OwnInv
<1>4. TypeOK /\ RoundInv /\ Indexed /\ LandsGreen => DecidedOnOwnGate
  <2> SUFFICES ASSUME TypeOK, RoundInv, Indexed, LandsGreen, mode = "decided",
                      pc \in {"recheck", "push", "await", "merge", "confirm"}
               PROVE  LET row == gates[families[cur].gate]
                      IN row.family = cur /\ row.verdict = "green" /\ row.tree = FamilyTree(cur)
    BY DEF DecidedOnOwnGate
  <2>1. pc \in Landing
    BY DEF Landing
  <2>2. cur \in DOMAIN families /\ families[cur].future = "done" /\ families[cur].result.verdict = "green"
    BY <2>1 DEF TypeOK, Pointers, RoundInv, InOrder, LandsGreen
  <2>3. gates[families[cur].gate] = RowOf(cur) /\ families[cur].result.tree = FamilyTree(cur)
    BY <2>2 DEF Indexed, IndexOwn, Judged
  <2> QED BY <2>2, <2>3 DEF RowOf
<1> QED BY <1>1, <1>2, <1>3, <1>4, TrainTypeOK, TrainLandingInv, RoundAlways, OwnAlways, PTL DEF Spec

---------------------------------------------------------------------------
(* What the trees of the families are made of.                             *)

\* A tree is what authors wrote and what reached the base from outside.
Authored(t) == {x \in t : x[1] # 0}
Foreign(t) == {x \in t : x[1] = 0}

\* The base only grows, and heads hold nothing foreign but what was on it.
Rising == \A i, j \in DOMAIN main : i <= j => main[i].tree \subseteq main[j].tree
SeenCommit(c) == c.base <= Tip /\ Foreign(c.lanes) \subseteq main[Tip].tree
SeenInv == Rising /\ \A p \in PR : SeenCommit(pulls[p].head) /\ SeenCommit(rows[p])

\* Only a snapshot and a merge change what the run has read of the heads.
LEMMA RowsRead ==
  ASSUME TypeOK, [Next]_vars, ~Snapshot
  PROVE  rows' = rows \/ (Merge /\ rows' = [rows EXCEPT ![N] = Prepared])
<1>1. CASE StopEarly \/ Pairs \/ Round \/ PlanStep \/ PlanClose \/ Submit
  BY <1>1 DEF StopEarly, Pairs, Round, RunUnread, PlanStep, Untouched, PlanClose, Submit
<1>2. CASE Collect \/ PartsDone \/ Part \/ PartGated \/ Cancel \/ Join
  BY <1>2 DEF Collect, CollectStopped, CollectDry, CollectGreen, CollectUnread, CollectRed, ByCollect,
     PartsDone, Part, PartGated, Cancel, Join
<1>3. CASE LandCheck \/ Decide \/ Reobserve \/ Push \/ Await \/ Confirm
  BY <1>3 DEF LandCheck, Decide, Reobserve, Push, Await, Confirm, ByLanding
<1>4. CASE Merge
  BY <1>4 DEF Merge
<1>5. CASE \E f \in DOMAIN families : Gate(f)
  BY <1>5, GateKinds
<1>6. CASE Disturb \/ Finished \/ UNCHANGED vars
  BY <1>6 DEF Disturb, Outside, Finished, vars
<1> QED BY <1>1, <1>2, <1>3, <1>4, <1>5, <1>6 DEF Next, Train, Land

\* A merge puts the prepared commit on the base, or nothing.
LEMMA MergeGrows ==
  ASSUME TypeOK, Merge, main' # main
  PROVE  pc \in Landing /\ \E r \in BaseRow : main' = Append(main, r) /\ r.tree = main[Tip].tree \union Prepared.lanes
<1>1. main[Tip].tree \in Tree /\ Tip \in Nat
  BY TipTyped, MainIndex DEF TypeOK, BaseRow
<1>2. pc \in Landing
  BY DEF Merge, Landing
<1>3. N \in PR /\ Prepared \in Commit
  BY <1>2, LandingPointers
<1> DEFINE r == [tree |-> main[Tip].tree \union Prepared.lanes, by |-> N]
<1>4. main' = Append(main, r)
  BY DEF Merge, GitHubAccepts
<1>5. r \in BaseRow
  BY <1>1, <1>3 DEF BaseRow, Tree, Commit
<1>6. r.tree = main[Tip].tree \union Prepared.lanes
  OBVIOUS
<1> HIDE DEF r
<1> QED BY <1>2, <1>4, <1>5, <1>6

\* Whatever else reaches the base comes from outside.
LEMMA BaseGrows ==
  ASSUME TypeOK, [Next]_vars, main' # main
  PROVE  \E r \in BaseRow :
           /\ main' = Append(main, r) /\ main[Tip].tree \subseteq r.tree
           /\ Merge \/ Authored(r.tree) = Authored(main[Tip].tree)
<1>1. main[Tip].tree \in Tree /\ Tip \in Nat
  BY TipTyped, MainIndex DEF TypeOK, BaseRow
<1>2. CASE Merge
  <2>1. PICK r \in BaseRow : main' = Append(main, r) /\ r.tree = main[Tip].tree \union Prepared.lanes
    BY <1>2, MergeGrows
  <2> QED BY <1>2, <2>1
<1>3. CASE OutsideCommit
  <2>1. PICK added \in {{}, {<<0, Tip>>}} : main' = Append(main, [tree |-> main[Tip].tree \union added, by |-> 0])
    BY <1>3 DEF OutsideCommit
  <2> DEFINE r == [tree |-> main[Tip].tree \union added, by |-> 0]
  <2>2. added \subseteq Lane /\ \A x \in added : x[1] = 0
    BY <1>1 DEF Lane
  <2>3. r \in BaseRow
    BY <1>1, <2>2 DEF BaseRow, Tree
  <2>4. r.tree = main[Tip].tree \union added
    OBVIOUS
  <2>5. Authored(r.tree) = Authored(main[Tip].tree)
    BY <2>2, <2>4 DEF Authored
  <2> HIDE DEF r
  <2> QED BY <1>3, <2>1, <2>3, <2>4, <2>5 DEF r
<1> QED BY <1>2, <1>3, BaseSteps DEF vars, world

\* What was seen of a base that grows stays seen.
LEMMA SeenStays ==
  ASSUME TypeOK, Rising, [Next]_vars
  PROVE  Rising' /\ main[Tip].tree \subseteq main'[Tip'].tree /\ Tip <= Tip' /\ \A c \in Commit : SeenCommit(c) => SeenCommit(c)'
<1>1. CASE main' = main
  <2>1. Tip' = Tip
    BY <1>1 DEF Tip
  <2> QED BY <1>1, <2>1, TipTyped DEF Rising, SeenCommit, TypeOK
<1>2. CASE main' # main
  <2>1. PICK r \in BaseRow : main' = Append(main, r) /\ main[Tip].tree \subseteq r.tree
    BY <1>2, BaseGrows
  <2>2. /\ Grown /\ DOMAIN main' = DOMAIN main \union {Tip + 1} /\ main'[Tip + 1] = r /\ Tip + 1 \notin DOMAIN main
    BY <2>1, Appended
  <2>3. Tip \in DOMAIN main /\ DOMAIN main = 1..Tip /\ Tip \in Nat /\ Tip' = Tip + 1
    BY <2>1, TipTyped, LenProperties DEF TypeOK, RemoteTyped, Tip
  <2>4. Rising'
    <3> SUFFICES ASSUME NEW i \in DOMAIN main', NEW j \in DOMAIN main', i <= j
                 PROVE  main'[i].tree \subseteq main'[j].tree
      BY DEF Rising
    <3>1. CASE j \in DOMAIN main
      <4>1. i \in DOMAIN main
        BY <2>2, <2>3, <3>1
      <4> QED BY <2>2, <3>1, <4>1 DEF Grown, Rising
    <3>2. CASE j = Tip + 1 /\ i \in DOMAIN main
      <4>1. main[i].tree \subseteq main[Tip].tree
        BY <2>3, <3>2 DEF Rising
      <4> QED BY <2>1, <2>2, <3>2, <4>1 DEF Grown
    <3> QED BY <2>2, <3>1, <3>2
  <2>5. \A c \in Commit : SeenCommit(c) => SeenCommit(c)'
    <3> SUFFICES ASSUME NEW c \in Commit, SeenCommit(c) PROVE SeenCommit(c)'
      OBVIOUS
    <3>1. c.base <= Tip /\ c.base \in Nat
      BY DEF SeenCommit, Commit
    <3> QED BY <3>1, <2>1, <2>2, <2>3 DEF SeenCommit
  <2> QED BY <2>1, <2>2, <2>3, <2>4, <2>5
<1> QED BY <1>1, <1>2

\* What the landing prepares holds nothing foreign either.
LEMMA PreparedSeen ==
  ASSUME TypeOK, SeenInv, pc \in Landing
  PROVE  /\ Prepared \in Commit /\ SeenCommit(Prepared)
         /\ Prepared.lanes = main[expected].tree \union rows[N].lanes /\ main[expected].tree \subseteq main[Tip].tree
<1>1. expected \in DOMAIN main /\ Tip \in DOMAIN main /\ N \in PR /\ Prepared \in Commit
  BY TipTyped, LandingPointers DEF TypeOK, Pointers
<1>2. rows[N] \in Commit /\ BaseCommit(expected) \in Commit /\ SeenCommit(rows[N])
  BY <1>1, HeadsTyped, BaseCommitTyped DEF TypeOK, SeenInv
<1>3. expected \in Nat /\ Tip \in Nat /\ expected <= Tip /\ BaseCommit(expected).lanes = main[expected].tree
      /\ BaseCommit(expected).base = expected
  BY <1>1, LenProperties DEF TypeOK, RemoteTyped, Tip, BaseCommit
<1>4. main[expected].tree \subseteq main[Tip].tree
  BY <1>1, <1>3 DEF SeenInv, Rising
<1>5. Prepared.lanes = main[expected].tree \union rows[N].lanes
  BY <1>2, <1>3, JoinedLanes DEF Prepared
<1>6. Prepared.base \in {expected, rows[N].base}
  BY <1>2, <1>3 DEF Prepared, Joined, Larger
<1>7. SeenCommit(Prepared)
  BY <1>2, <1>3, <1>4, <1>5, <1>6 DEF SeenCommit, Foreign
<1> QED BY <1>1, <1>4, <1>5, <1>7

\* A head is what it was, what an author adds to it, or what the run prepared.
LEMMA HeadsMove ==
  ASSUME TypeOK, [Next]_vars, NEW p \in PR
  PROVE  \/ pulls'[p].head = pulls[p].head
         \/ pc \in Landing /\ pulls'[p].head = Prepared
         \/ /\ pulls'[p].head.base = pulls[p].head.base
            /\ Foreign(pulls'[p].head.lanes) = Foreign(pulls[p].head.lanes)
<1>1. pulls \in [PR -> [open : BOOLEAN, label : BOOLEAN, head : Commit]]
  BY DEF TypeOK, RemoteTyped
<1>2. CASE pulls' = pulls
  BY <1>2
<1>3. CASE Merge
  BY <1>1, <1>3 DEF Merge
<1>4. CASE Push
  BY <1>1, <1>4 DEF Push, Landing
<1>5. CASE \E n \in PR : HoldLabel(n)
  BY <1>1, <1>5 DEF HoldLabel
<1>6. CASE \E n \in PR : AuthorPush(n)
  <2>1. PICK n \in PR : pulls' = [pulls EXCEPT ![n].head.lanes = @ \union {<<n, left["push"]>>}]
    BY <1>6 DEF AuthorPush
  <2> DEFINE new == <<n, left["push"]>>
  <2>2. new[1] # 0
    BY PRAssumption
  <2> HIDE DEF new
  <2>3. pulls' = [pulls EXCEPT ![n].head.lanes = @ \union {new}]
    BY <2>1 DEF new
  <2>4. p # n => pulls'[p] = pulls[p]
    BY <1>1, <2>3
  <2>5. p = n => pulls'[p].head.base = pulls[p].head.base /\ pulls'[p].head.lanes = pulls[p].head.lanes \union {new}
    BY <1>1, <2>3 DEF Commit
  <2> QED BY <2>2, <2>4, <2>5 DEF Foreign
<1>7. pulls' = pulls \/ Merge \/ Push \/ \E n \in PR : HoldLabel(n) \/ AuthorPush(n)
  <2>1. CASE StopEarly \/ Snapshot \/ Pairs \/ Round \/ PlanStep \/ PlanClose \/ Submit
    BY <2>1 DEF StopEarly, Snapshot, Pairs, Round, RunUnread, PlanStep, Untouched, PlanClose, Submit, world
  <2>2. CASE Collect \/ PartsDone \/ Part \/ PartGated \/ Cancel \/ Join
    BY <2>2 DEF Collect, CollectStopped, CollectDry, CollectGreen, CollectUnread, CollectRed, ByCollect,
       PartsDone, Part, PartGated, Cancel, Join, world
  <2>3. CASE LandCheck \/ Decide \/ Reobserve \/ Await \/ Confirm
    BY <2>3 DEF LandCheck, Decide, Reobserve, Await, Confirm, world
  <2>4. CASE \E f \in DOMAIN families : Gate(f)
    BY <2>4, GateKinds
  <2>5. CASE Disturb \/ Finished \/ UNCHANGED vars
    BY <2>5 DEF Disturb, OutsideCommit, RequestStop, Finished, vars, world
  <2> QED BY <2>1, <2>2, <2>3, <2>4, <2>5 DEF Next, Train, Land
<1> QED BY <1>2, <1>3, <1>4, <1>5, <1>6, <1>7

\* Every commit the run knows, or an author pushes, is of a base the run can see.
LEMMA SeenNext == ASSUME TypeOK, SeenInv, [Next]_vars PROVE SeenInv'
<1>1. Rising' /\ \A c \in Commit : SeenCommit(c) => SeenCommit(c)'
  BY SeenStays DEF SeenInv
<1>2. \A p \in PR : /\ pulls[p].head \in Commit /\ rows[p] \in Commit
                    /\ SeenCommit(pulls[p].head) /\ SeenCommit(rows[p])
  BY HeadsTyped DEF SeenInv
<1>3. pc \in Landing => Prepared \in Commit /\ SeenCommit(Prepared)
  BY PreparedSeen
<1>4. ASSUME NEW p \in PR, NEW c \in Commit, SeenCommit(c),
             NEW d, d = c \/ (d.base = c.base /\ Foreign(d.lanes) = Foreign(c.lanes))
      PROVE  SeenCommit(d)'
  <2>1. SeenCommit(c)'
    BY <1>1, <1>4
  <2> QED BY <1>4, <2>1 DEF SeenCommit
<1>5. ASSUME NEW p \in PR PROVE SeenCommit(pulls[p].head)'
  <2>1. PICK d : d = pulls'[p].head
    OBVIOUS
  <2>2. SeenCommit(d)'
    BY <1>2, <1>3, <1>4, <2>1, HeadsMove
  <2> QED BY <2>1, <2>2 DEF SeenCommit
<1>6. ASSUME NEW p \in PR PROVE SeenCommit(rows[p])'
  <2>1. rows'[p] = rows[p] \/ rows'[p] = pulls[p].head \/ (pc \in Landing /\ rows'[p] = Prepared)
    <3>1. CASE Snapshot
      BY <3>1 DEF Snapshot, RunUnread
    <3>2. CASE ~Snapshot
      <4>1. rows' = rows \/ (pc = "merge" /\ rows' = [rows EXCEPT ![N] = Prepared])
        BY <3>2, RowsRead DEF Merge
      <4>2. rows \in [PR -> Commit]
        BY DEF TypeOK, ThreadTyped
      <4> QED BY <4>1, <4>2 DEF Landing
    <3> QED BY <3>1, <3>2
  <2>2. PICK d : d = rows'[p]
    OBVIOUS
  <2>3. SeenCommit(d)'
    BY <1>1, <1>2, <1>3, <2>1, <2>2
  <2> QED BY <2>2, <2>3 DEF SeenCommit
<1> QED BY <1>1, <1>5, <1>6 DEF SeenInv

---------------------------------------------------------------------------
(* The families the run has landed, and those it still serves.             *)

Winner(f) == Landed(f) \/ Serving(f)

\* Only the planning takes a family up; whatever else the run does serves fewer.
LEMMA WinnersNext ==
  ASSUME TypeOK, LandingInv, RoundInv, [Next]_vars, ~PlanClose
  PROVE  /\ DOMAIN families' = DOMAIN families
         /\ \A f : Serving(f)' => Serving(f)
         /\ \A f \in DOMAIN families : Landed(f)' => Winner(f)
<1>1. DOMAIN families' = DOMAIN families
  BY NoOtherFamily
<1>2. CASE Onward
  <2>1. ToSet(batch') \subseteq ToSet(batch)
    BY <1>2, OrderKept DEF Onward, RoundInv
  <2>2. AtHand' => Serving(cur')
    BY <1>2 DEF Onward
  <2>3. \A f : Serving(f)' => Serving(f)
    BY <2>1, <2>2 DEF Serving
  <2>4. \A f \in DOMAIN families : Landed(f)' => Landed(f)
    BY <1>1, <1>2 DEF Onward, NoneLands, Landed
  <2> QED BY <1>1, <2>3, <2>4 DEF Winner
<1>3. CASE Land
  <2>1. pc \in Landing /\ cur' = cur /\ settling' = settling /\ Serving(cur)
    BY <1>3 DEF Land, LandCheck, Decide, Reobserve, Push, Await, Merge, Confirm, ByLanding, Landing, Serving, AtHand
  <2>2. \/ batch' = batch \/ batch' = <<>> \/ (batch # <<>> /\ batch' = Tail(batch))
    <3>1. CASE LandCheck \/ Decide \/ Reobserve \/ Push \/ Await \/ Merge
      BY <3>1 DEF LandCheck, Decide, Reobserve, Push, Await, Merge, ReadFails, Withheld, Leave
    <3>2. CASE Confirm
      <4>1. settling \/ batch # <<>>
        BY <2>1, LandingPointers
      <4> QED BY <3>2, <4>1 DEF Confirm, Leave
    <3> QED BY <1>3, <3>1, <3>2 DEF Land
  <2>3. ToSet(batch') \subseteq ToSet(batch)
    BY <2>2, OrderKept DEF RoundInv
  <2>4. \A f : Serving(f)' => Serving(f)
    BY <2>1, <2>3 DEF Serving
  <2>5. \A f \in DOMAIN families : f # cur => (Landed(f)' => Landed(f))
    <3>1. CASE LandCheck \/ Decide \/ Reobserve \/ Push \/ Await \/ Merge
      <4>1. NoneLands
        BY <3>1, LandingQuiet, SameLandsNone, ReadFailsLandsNone DEF Quiet, Merge
      <4> QED BY <1>1, <4>1 DEF NoneLands, Landed
    <3>2. CASE Confirm
      <4>1. \/ Leave("LANDED_TREE_UNREAD", Tail(Rest)) \/ Leave("TREE_MISMATCH", <<>>)
            \/ families' = families
            \/ families' = [families EXCEPT ![cur].status = "LANDED", ![cur].landed = merges[Len(merges)].sha]
        BY <3>2 DEF Confirm
      <4>2. CASE Leave("LANDED_TREE_UNREAD", Tail(Rest)) \/ Leave("TREE_MISMATCH", <<>>) \/ families' = families
        <5>1. NoneLands
          BY <4>2, SameLandsNone, LeaveLandsNone
        <5> QED BY <1>1, <5>1 DEF NoneLands, Landed
      <4>3. CASE families' = [families EXCEPT ![cur].status = "LANDED", ![cur].landed = merges[Len(merges)].sha]
        BY <4>3 DEF Landed
      <4> QED BY <4>1, <4>2, <4>3
    <3> QED BY <1>3, <3>1, <3>2 DEF Land
  <2> QED BY <1>1, <2>1, <2>4, <2>5 DEF Winner
<1> QED BY <1>2, <1>3, PlanningOnward, SubmitOnward, CollectOnward, PartsOnward, GateOnward, DisturbOnward
  DEF Next, Train

\* What is on the base by authors, when the run merges nothing.
LEMMA AuthoredStays ==
  ASSUME TypeOK, [Next]_vars, ~Merge
  PROVE  Authored(main'[Tip'].tree) = Authored(main[Tip].tree)
<1>1. CASE main' = main
  BY <1>1 DEF Tip
<1>2. CASE main' # main
  <2>1. PICK r \in BaseRow : main' = Append(main, r) /\ Authored(r.tree) = Authored(main[Tip].tree)
    BY <1>2, BaseGrows
  <2>2. main'[Tip + 1] = r
    BY <2>1, Appended
  <2>3. Tip' = Tip + 1
    BY <2>1, LenProperties DEF TypeOK, RemoteTyped, Tip
  <2> QED BY <2>1, <2>2, <2>3
<1> QED BY <1>1, <1>2

\* A landed family is on the base.
LEMMA LandedOnBase ==
  ASSUME TypeOK, LandingInv, Rising, NEW f \in DOMAIN families, Landed(f)
  PROVE  FamilyTree(f) \subseteq main[Tip].tree
<1>1. families[f].landed \in DOMAIN main /\ main[families[f].landed].tree = FamilyTree(f)
  BY DEF LandingInv, Finishes
<1>2. Tip \in DOMAIN main /\ families[f].landed <= Tip
  BY <1>1, TipTyped, LenProperties DEF TypeOK, RemoteTyped, Tip
<1> QED BY <1>1, <1>2 DEF Rising

---------------------------------------------------------------------------
(* Every part is folded onto what was served before it.                    *)

\* What the authors of a pull request had written when it was read.
Read(p) == Authored(rows[p].lanes)

Folds ==
  pc = "plan" =>
    /\ \A p \in PR : rows[p].base <= fold.acc.base /\ Foreign(rows[p].lanes) \subseteq fold.acc.lanes
    /\ Authored(main[Tip].tree) \subseteq fold.acc.lanes
    /\ \A k \in DOMAIN fold.steps : Read(fold.steps[k].pr) \subseteq fold.acc.lanes
    /\ \A f \in DOMAIN families : Winner(f) =>
         /\ FamilyTree(f) \subseteq fold.acc.lanes
         /\ fold.steps # <<>> => ~(Authored(fold.acc.lanes) \subseteq FamilyTree(f))

\* A fold begins on the base.
LEMMA FoldsBegin ==
  ASSUME TypeOK, LandingInv, RoundInv, SeenInv, Round \/ Part, pc' = "plan"
  PROVE  Folds'
<1>1. /\ UNCHANGED <<main, rows, families>> /\ batch' = <<>>
      /\ fold'.acc = BaseCommit(Tip) /\ fold'.steps = <<>>
  BY DEF Round, Part, RunUnread, world, lists, RoundInv, InOrder
<1>2. BaseCommit(Tip).lanes = main[Tip].tree /\ BaseCommit(Tip).base = Tip /\ Tip' = Tip
  BY <1>1 DEF BaseCommit, Tip
<1>3. \A f \in DOMAIN families : Winner(f)' => Landed(f)
  BY <1>1 DEF Winner, Serving, AtHand, Landing, ToSet, Landed
<1>4. \A f \in DOMAIN families : FamilyTree(f)' = FamilyTree(f)
  BY <1>1, SameTree
<1>5. \A f \in DOMAIN families : Landed(f) => FamilyTree(f) \subseteq main[Tip].tree
  BY LandedOnBase DEF SeenInv
<1>6. \A p \in PR : rows[p].base <= Tip /\ Foreign(rows[p].lanes) \subseteq main[Tip].tree
  BY DEF SeenInv, SeenCommit
<1> QED BY <1>1, <1>2, <1>3, <1>4, <1>5, <1>6 DEF Folds, Authored

\* A member that is folded brings work that was not folded yet.
LEMMA FoldGrows ==
  ASSUME NEW acc \in Commit, NEW head \in Commit, head.base <= acc.base, Foreign(head.lanes) \subseteq acc.lanes,
         Joined(acc, head) # acc
  PROVE  /\ Joined(acc, head).lanes = acc.lanes \union head.lanes /\ acc.base <= Joined(acc, head).base
         /\ \E x \in Authored(head.lanes) : x \notin acc.lanes
<1>1. Joined(acc, head).lanes = acc.lanes \union head.lanes
  BY JoinedLanes
<1>2. acc.base \in Nat /\ head.base \in Nat
  BY DEF Commit
<1>3. acc.base <= Joined(acc, head).base
  BY <1>2 DEF Joined, IsAncestor, Larger
<1>4. ASSUME head.lanes \subseteq acc.lanes PROVE FALSE
  <2>1. IsAncestor(head, acc) /\ ~IsAncestor(acc, head)
    <3>1. IsAncestor(head, acc)
      BY <1>4 DEF IsAncestor
    <3>2. IsAncestor(acc, head) => head = acc
      BY <1>2, <1>4 DEF IsAncestor, Commit
    <3> QED BY <3>1, <3>2 DEF Joined
  <2> QED BY <2>1 DEF Joined
<1>5. PICK x \in head.lanes : x \notin acc.lanes
  BY <1>4
<1>6. x \in Authored(head.lanes)
  BY <1>5 DEF Authored, Foreign
<1> QED BY <1>1, <1>3, <1>5, <1>6

\* A member is folded, or left out of the fold.
LEMMA FoldsStep ==
  ASSUME TypeOK, SeenInv, Folds, PlanStep
  PROVE  Folds'
<1> DEFINE n == Head(fold.todo)
           joined == Joined(fold.acc, rows[n])
<1>1. pc = "plan" /\ pc' = "plan" /\ UNCHANGED <<main, rows, families, batch, cur, settling>>
  BY DEF PlanStep, Untouched
<1>2. /\ n \in PR /\ fold.acc \in Commit /\ rows[n] \in Commit
      /\ fold.steps \in Seq(Step) /\ Len(fold.steps) \in Nat /\ DOMAIN fold.steps = 1..Len(fold.steps)
  BY FoldSteps, FoldTyped, HeadsTyped, LenProperties
<1>3. \/ fold'.steps = fold.steps /\ fold'.acc = fold.acc
      \/ /\ fold'.steps = Append(fold.steps, [pr |-> n, commit |-> joined])
         /\ fold'.acc = joined /\ joined # fold.acc
  BY FoldSteps
<1>4. /\ \A f : Winner(f)' <=> Winner(f)
      /\ \A f \in DOMAIN families : FamilyTree(f)' = FamilyTree(f)
      /\ \A p : Read(p)' = Read(p)
      /\ Tip' = Tip
  BY <1>1, SameTree DEF Winner, Serving, AtHand, Landed, Read, Tip
<1>5. /\ \A p \in PR : rows[p].base <= fold.acc.base /\ Foreign(rows[p].lanes) \subseteq fold.acc.lanes
      /\ Authored(main[Tip].tree) \subseteq fold.acc.lanes
      /\ \A k \in DOMAIN fold.steps : Read(fold.steps[k].pr) \subseteq fold.acc.lanes
      /\ \A f \in DOMAIN families : Winner(f) =>
           /\ FamilyTree(f) \subseteq fold.acc.lanes
           /\ fold.steps # <<>> => ~(Authored(fold.acc.lanes) \subseteq FamilyTree(f))
  BY <1>1 DEF Folds
<1>6. CASE fold'.steps = fold.steps /\ fold'.acc = fold.acc
  BY <1>1, <1>4, <1>5, <1>6 DEF Folds
<1>7. CASE /\ fold'.steps = Append(fold.steps, [pr |-> n, commit |-> joined])
           /\ fold'.acc = joined /\ joined # fold.acc
  <2>1. joined.lanes = fold.acc.lanes \union rows[n].lanes /\ fold.acc.base <= joined.base
    BY <1>2, <1>5, <1>7, FoldGrows
  <2>2. PICK x \in Authored(rows[n].lanes) : x \notin fold.acc.lanes
    BY <1>2, <1>5, <1>7, FoldGrows
  <2>3. joined.base \in Nat /\ fold.acc.base \in Nat /\ \A p \in PR : rows[p].base \in Nat
    BY <1>2, JoinedTyped, HeadsTyped DEF Commit
  <2> DEFINE new == [pr |-> n, commit |-> joined]
  <2>4. new.pr = n
    OBVIOUS
  <2>5. fold'.steps = Append(fold.steps, new)
    BY <1>7
  <2> HIDE DEF n, joined, new
  <2>6. \A k \in DOMAIN fold'.steps : fold'.steps[k] = new \/ (k \in DOMAIN fold.steps /\ fold'.steps[k] = fold.steps[k])
    BY <1>2, <2>5
  <2>7. \A k \in DOMAIN fold'.steps : Read(fold'.steps[k].pr) \subseteq joined.lanes
    BY <1>5, <2>1, <2>4, <2>6 DEF Read, Authored
  <2>8. \A p \in PR : rows[p].base <= joined.base /\ Foreign(rows[p].lanes) \subseteq joined.lanes
    BY <1>5, <2>1, <2>3
  <2>9. \A f \in DOMAIN families : Winner(f) =>
          FamilyTree(f) \subseteq joined.lanes /\ ~(Authored(joined.lanes) \subseteq FamilyTree(f))
    BY <1>5, <2>1, <2>2 DEF Authored
  <2> QED BY <1>1, <1>4, <1>5, <1>7, <2>1, <2>7, <2>8, <2>9 DEF Folds
<1> QED BY <1>3, <1>6, <1>7

\* A family that is folded is served from then on, and its tree is what is folded.
LEMMA FoldCloses ==
  ASSUME TypeOK, LandingInv, RoundInv, FoldOwn, PlanClose, fold.steps # <<>>
  PROVE  \E new \in Nat :
           /\ DOMAIN families' = DOMAIN families \union {new} /\ new \notin DOMAIN families
           /\ \A f \in DOMAIN families : families'[f] = families[f] /\ f < new
           /\ families'[new].steps = fold.steps /\ FamilyTree(new)' = fold.acc.lanes
           /\ families'[new].future = "none" /\ ~Landed(new)' /\ Serving(new)'
           /\ \A f : Serving(f)' => f = new \/ Serving(f)
           /\ batch' = (IF settling THEN batch ELSE Append(batch, new))
           /\ cur' = (IF settling THEN new ELSE cur)
<1>0. PICK new : new = Len(families) + 1
  OBVIOUS
<1>1. /\ DOMAIN families' = DOMAIN families \union {new} /\ new \notin DOMAIN families
      /\ \A f \in DOMAIN families : families'[f] = families[f]
      /\ families'[new].steps = fold.steps
      /\ batch' = (IF settling THEN batch ELSE Append(batch, new))
      /\ cur' = (IF settling THEN new ELSE cur)
  BY <1>0, FamilyAdded
<1>2. new \in Nat /\ \A f \in DOMAIN families : f < new
  BY <1>0, BatchTyped
<1>3. families'[new].future = "none"
  BY <1>1, PlanCloseFutures DEF FuturesKept
<1>4. ~Landed(new)'
  <2>1. NoneLands
    BY PlanCloseQuiet DEF Quiet
  <2> QED BY <1>1, <2>1 DEF NoneLands, Landed
<1>5. FamilyTree(new)' = fold.acc.lanes
  <2>1. pc = "plan" /\ fold.acc = fold.steps[Len(fold.steps)].commit
    BY DEF FoldOwn, PlanClose
  <2> QED BY <1>1, <2>1 DEF FamilyTree
<1>6. /\ pc = "plan" /\ settling' = settling /\ (settling => pc' = "submit") /\ (~settling => pc' \in {"plan", "submit", "drain"})
  BY DEF PlanClose, AfterFold
<1>7. batch \in Seq(Nat) /\ Len(batch) \in Nat /\ DOMAIN batch = 1..Len(batch)
  BY BatchTyped
<1>8. ~settling => ToSet(batch') = ToSet(batch) \union {new}
  <2>1. ~settling => DOMAIN batch' = 1..(Len(batch) + 1) /\ batch'[Len(batch) + 1] = new
                     /\ \A i \in DOMAIN batch : batch'[i] = batch[i]
    BY <1>1, <1>2, <1>7
  <2> QED BY <1>7, <2>1 DEF ToSet
<1>9. Serving(new)' /\ \A f : Serving(f)' => f = new \/ Serving(f)
  <2>1. CASE settling
    BY <1>1, <1>6, <2>1 DEF Serving, AtHand
  <2>2. CASE ~settling
    BY <1>6, <1>8, <2>2 DEF Serving, AtHand, Landing
  <2> QED BY <2>1, <2>2
<1> QED BY <1>1, <1>2, <1>3, <1>4, <1>5, <1>9

\* The next chunk is folded on top of what was planned before it.
LEMMA FoldsClose ==
  ASSUME TypeOK, LandingInv, RoundInv, FoldOwn, Folds, PlanClose, pc' = "plan"
  PROVE  Folds'
<1>1. UNCHANGED <<main, rows, settling>> /\ pc = "plan" /\ ~settling
  BY DEF PlanClose, AfterFold
<1>2. fold'.steps = <<>> /\ fold'.acc = fold.acc
  <2>1. fold \in Folding
    BY FoldTyped
  <2> QED BY <2>1 DEF PlanClose, Folding
<1>3. Tip' = Tip
  BY <1>1 DEF Tip
<1>4. \A f \in DOMAIN families' : Winner(f)' => FamilyTree(f)' \subseteq fold.acc.lanes
  <2>1. CASE fold.steps = <<>>
    <3>1. UNCHANGED <<families, batch>>
      BY <2>1 DEF PlanClose
    <3>2. \A f \in DOMAIN families : FamilyTree(f)' = FamilyTree(f) /\ (Winner(f)' => Winner(f))
      BY <1>1, <3>1, SameTree DEF Winner, Landed, Serving, AtHand, Landing
    <3> QED BY <1>1, <3>1, <3>2 DEF Folds
  <2>2. CASE fold.steps # <<>>
    <3>1. PICK new \in Nat :
            /\ DOMAIN families' = DOMAIN families \union {new} /\ new \notin DOMAIN families
            /\ \A f \in DOMAIN families : families'[f] = families[f]
            /\ FamilyTree(new)' = fold.acc.lanes
            /\ \A f : Serving(f)' => f = new \/ Serving(f)
      BY <2>2, FoldCloses
    <3>3. \A f \in DOMAIN families : FamilyTree(f)' = FamilyTree(f) /\ (Winner(f)' => Winner(f))
      BY <3>1, SameTree DEF Winner, Landed
    <3> QED BY <1>1, <3>1, <3>3 DEF Folds
  <2> QED BY <2>1, <2>2
<1> QED BY <1>1, <1>2, <1>3, <1>4 DEF Folds

\* Every part is folded onto what was served before it, at every step.
LEMMA FoldsNext ==
  ASSUME TypeOK, LandingInv, RoundInv, OwnInv, SeenInv, Folds, [Next]_vars
  PROVE  Folds'
<1>1. CASE pc' # "plan"
  BY <1>1 DEF Folds
<1>2. CASE pc' = "plan" /\ (Round \/ Part)
  BY <1>2, FoldsBegin
<1>3. CASE PlanStep
  BY <1>3, FoldsStep
<1>4. CASE pc' = "plan" /\ PlanClose
  BY <1>4, FoldsClose DEF OwnInv
<1>5. CASE ~PlanClose /\ pc' = "plan" /\ ((\E f \in DOMAIN families : Gate(f)) \/ Disturb \/ Finished \/ UNCHANGED vars)
  <2>1. pc = "plan" /\ UNCHANGED <<fold, rows>>
    BY <1>5, GateKinds DEF thread, Disturb, Outside, Finished, vars
  <2>2. Authored(main'[Tip'].tree) = Authored(main[Tip].tree)
    BY <2>1, AuthoredStays DEF Merge
  <2>3. DOMAIN families' = DOMAIN families /\ \A f \in DOMAIN families : Winner(f)' => Winner(f)
    BY <1>5, WinnersNext DEF Winner
  <2>4. \A f \in DOMAIN families : FamilyTree(f)' = FamilyTree(f)
    BY PlanNext, PlanTrees DEF OwnInv, TreesStay
  <2> QED BY <2>1, <2>2, <2>3, <2>4 DEF Folds, Read
<1> QED BY <1>1, <1>2, <1>3, <1>4, <1>5, OtherwisePlanned DEF Next, Train

\* Between rounds there is no family to serve.
ServesNone == pc \in {"snapshot", "pairs", "round"} => batch = <<>>

\* The families that were planned after one the run serves, or has landed, hold work
\* of authors that one does not.
ClimbApart == \A f, g \in DOMAIN families : f < g /\ Winner(f) => ~(Authored(FamilyTree(g)) \subseteq FamilyTree(f))
\* Of those it serves the later holds all that the earlier does.
ClimbUp == \A f, g \in DOMAIN families : f < g /\ Serving(f) /\ Serving(g) => FamilyTree(f) \subseteq FamilyTree(g)
\* A family it serves holds the work of its members and all authors' work on the base.
Holds(f) ==
  /\ \A k \in DOMAIN families[f].steps : Read(families[f].steps[k].pr) \subseteq FamilyTree(f)
  /\ Authored(main[Tip].tree) \subseteq FamilyTree(f)
ClimbHolds == \A f \in DOMAIN families : Serving(f) => Holds(f)

ClimbInv == ServesNone /\ ClimbApart /\ ClimbUp /\ ClimbHolds

\* A round is left with all its families done (round).
LEMMA ServesNoneNext == ASSUME TypeOK, Emptied, ServesNone, [Next]_vars PROVE ServesNone'
<1>1. CASE StopEarly \/ Snapshot \/ Pairs \/ Round
  BY <1>1 DEF ServesNone, StopEarly, Snapshot, Pairs, Round, RunUnread, thread
<1>2. CASE Join
  BY <1>2 DEF ServesNone, Emptied, Join
<1>3. CASE \E f \in DOMAIN families : Gate(f)
  BY <1>3, GateKinds DEF ServesNone, thread
<1>4. CASE Disturb \/ Finished \/ UNCHANGED vars
  BY <1>4 DEF ServesNone, Disturb, Outside, Finished, vars, thread
<1>5. CASE PlanStep \/ PlanClose \/ Submit \/ PartsDone \/ Part \/ PartGated \/ Cancel
  BY <1>5 DEF ServesNone, PlanStep, PlanClose, AfterFold, Submit, PartsDone, Part, PartGated, Cancel
<1>6. CASE Collect
  BY <1>6 DEF ServesNone, Collect, CollectStopped, CollectDry, CollectGreen, CollectUnread, CollectRed
<1>7. CASE LandCheck \/ Decide \/ Reobserve \/ Push \/ Await \/ Merge
  BY <1>7 DEF ServesNone, LandCheck, Decide, Reobserve, Push, Await, Merge, ReadFails, Withheld, Leave
<1>8. CASE Confirm
  BY <1>8 DEF ServesNone, Confirm, Leave
<1> QED BY <1>1, <1>2, <1>3, <1>4, <1>5, <1>6, <1>7, <1>8 DEF Next, Train, Land

\* A step that plans no family keeps the order of their trees.
LEMMA ClimbKept ==
  ASSUME ClimbApart, ClimbUp, TreesStay, DOMAIN families' = DOMAIN families,
         \A f : Serving(f)' => Serving(f),
         \A f \in DOMAIN families : Landed(f)' => Winner(f)
  PROVE  ClimbApart' /\ ClimbUp'
<1>1. \A f \in DOMAIN families : Winner(f)' => Winner(f)
  BY DEF Winner
<1>2. \A f \in DOMAIN families : FamilyTree(f)' = FamilyTree(f)
  BY DEF TreesStay
<1>3. \A f, g \in DOMAIN families' : f < g /\ Winner(f)' => ~(Authored(FamilyTree(g)') \subseteq FamilyTree(f)')
  BY <1>1, <1>2 DEF ClimbApart
<1>4. \A f, g \in DOMAIN families' : f < g /\ Serving(f)' /\ Serving(g)' => FamilyTree(f)' \subseteq FamilyTree(g)'
  BY <1>2 DEF ClimbUp
<1> QED BY <1>3, <1>4 DEF ClimbApart, ClimbUp

\* A part of which nothing was folded leaves no family.
LEMMA ClosesEmpty ==
  ASSUME TypeOK, PlanClose, fold.steps = <<>>
  PROVE  /\ families' = families /\ UNCHANGED <<main, rows, batch>>
         /\ TreesStay /\ \A f : Serving(f)' => Serving(f)
         /\ \A f \in DOMAIN families : Landed(f)' => Winner(f)
<1>1. /\ families' = families /\ UNCHANGED <<main, rows, batch, cur, settling>> /\ pc = "plan"
      /\ settling => pc' = "part"
      /\ ~settling => pc' \in {"plan", "drain", "submit"}
  BY DEF PlanClose, AfterFold
<1>2. \A f \in DOMAIN families : FamilyTree(f)' = FamilyTree(f)
  BY <1>1, SameTree
<1> QED BY <1>1, <1>2 DEF TreesStay, Winner, Landed, Serving, AtHand, Landing

\* What is planned climbs above what was planned before.
LEMMA ClimbNext ==
  ASSUME TypeOK, LandingInv, RoundInv, OwnInv, Folds, ClimbApart, ClimbUp, [Next]_vars
  PROVE  ClimbApart' /\ ClimbUp'
<1>1. TreesStay
  BY PlanNext, PlanTrees DEF OwnInv
<1>2. CASE ~PlanClose
  BY <1>1, <1>2, WinnersNext, ClimbKept
<1>3. CASE PlanClose /\ fold.steps = <<>>
  BY <1>1, <1>3, ClosesEmpty, ClimbKept
<1>4. CASE PlanClose /\ fold.steps # <<>>
  <2>1. PICK new \in Nat :
          /\ DOMAIN families' = DOMAIN families \union {new} /\ new \notin DOMAIN families
          /\ \A f \in DOMAIN families : families'[f] = families[f] /\ f < new
          /\ FamilyTree(new)' = fold.acc.lanes
          /\ ~Landed(new)' /\ \A f : Serving(f)' => f = new \/ Serving(f)
    BY <1>4, FoldCloses DEF OwnInv
  <2>2. \A f \in DOMAIN families : FamilyTree(f)' = FamilyTree(f) /\ (Winner(f)' => Winner(f)) /\ f \in Nat
    BY <1>1, <2>1, BatchTyped DEF TreesStay, Winner, Landed
  <2>3. \A f \in DOMAIN families : Winner(f) =>
          FamilyTree(f) \subseteq fold.acc.lanes /\ ~(Authored(fold.acc.lanes) \subseteq FamilyTree(f))
    BY <1>4 DEF Folds, PlanClose
  <2>4. ASSUME NEW f \in DOMAIN families', NEW g \in DOMAIN families', f < g
        PROVE  f \in DOMAIN families /\ (g \in DOMAIN families \/ g = new)
    BY <2>1, <2>2, <2>4
  <2>5. ASSUME NEW f \in DOMAIN families', NEW g \in DOMAIN families', f < g, Winner(f)'
        PROVE  ~(Authored(FamilyTree(g)') \subseteq FamilyTree(f)')
    <3>1. f \in DOMAIN families /\ Winner(f) /\ FamilyTree(f)' = FamilyTree(f)
      BY <2>2, <2>4, <2>5
    <3>2. CASE g = new
      BY <2>1, <2>3, <3>1, <3>2
    <3>3. CASE g \in DOMAIN families
      BY <2>2, <2>5, <3>1, <3>3 DEF ClimbApart
    <3> QED BY <2>4, <2>5, <3>2, <3>3
  <2>6. ASSUME NEW f \in DOMAIN families', NEW g \in DOMAIN families', f < g, Serving(f)', Serving(g)'
        PROVE  FamilyTree(f)' \subseteq FamilyTree(g)'
    <3>1. f \in DOMAIN families /\ Serving(f) /\ FamilyTree(f)' = FamilyTree(f)
      BY <2>1, <2>2, <2>4, <2>6
    <3>2. CASE g = new
      BY <2>1, <2>3, <3>1, <3>2 DEF Winner
    <3>3. CASE g \in DOMAIN families
      <4>1. Serving(g) /\ FamilyTree(g)' = FamilyTree(g)
        BY <2>1, <2>2, <2>6, <3>3
      <4> QED BY <2>6, <3>1, <3>3, <4>1 DEF ClimbUp
    <3> QED BY <2>4, <2>6, <3>2, <3>3
  <2>7. \A f, g \in DOMAIN families' : f < g /\ Winner(f)' => ~(Authored(FamilyTree(g)') \subseteq FamilyTree(f)')
    BY <2>5
  <2>8. \A f, g \in DOMAIN families' : f < g /\ Serving(f)' /\ Serving(g)' => FamilyTree(f)' \subseteq FamilyTree(g)'
    BY <2>6
  <2> QED BY <2>7, <2>8 DEF ClimbApart, ClimbUp
<1> QED BY <1>2, <1>3, <1>4

\* A merge brings to the base, and to what was read, only work of the family that lands.
LEMMA MergedWork ==
  ASSUME TypeOK, LandingInv, RoundInv, SeenInv, ClimbHolds, Merge
  PROVE  /\ pc \in Landing /\ cur \in DOMAIN families /\ Serving(cur) /\ rows \in [PR -> Commit] /\ N \in PR
         /\ Authored(Prepared.lanes) \subseteq FamilyTree(cur)
         /\ Authored(main'[Tip'].tree) \subseteq FamilyTree(cur)
<1>1. pc \in Landing
  BY DEF Merge, Landing
<1>2. cur \in DOMAIN families /\ at \in DOMAIN families[cur].steps /\ N \in PR
  BY <1>1, LandingPointers
<1>3. Serving(cur) /\ Holds(cur)
  BY <1>1, <1>2 DEF Serving, AtHand, ClimbHolds
<1>4. Read(N) \subseteq FamilyTree(cur)
  BY <1>2, <1>3 DEF Holds, Planned, N
<1>5. Authored(Prepared.lanes) \subseteq FamilyTree(cur)
  BY <1>1, <1>3, <1>4, PreparedSeen DEF Authored, Read, Holds
<1>6. Authored(main'[Tip'].tree) \subseteq FamilyTree(cur)
  <2>1. CASE main' = main
    BY <1>3, <2>1 DEF Holds, Tip
  <2>2. CASE main' # main
    <3>1. PICK r \in BaseRow : main' = Append(main, r) /\ r.tree = main[Tip].tree \union Prepared.lanes
      BY <2>2, MergeGrows
    <3>2. main'[Tip + 1] = r /\ Tip' = Tip + 1
      BY <3>1, Appended, LenProperties DEF TypeOK, RemoteTyped, Tip
    <3> QED BY <1>3, <1>5, <3>1, <3>2 DEF Holds, Authored
  <2> QED BY <2>1, <2>2
<1> QED BY <1>1, <1>2, <1>3, <1>5, <1>6 DEF TypeOK, ThreadTyped

\* A family that is served holds the work of its members, and what is on the base.
LEMMA HoldsNext ==
  ASSUME TypeOK, LandingInv, RoundInv, OwnInv, SeenInv, Folds, ClimbInv, [Next]_vars
  PROVE  ClimbHolds'
<1>0. ServesNone /\ ClimbUp /\ ClimbHolds
  BY DEF ClimbInv
<1>1. /\ TreesStay
      /\ \A f \in DOMAIN families : families'[f].steps = families[f].steps /\ FamilyTree(f)' = FamilyTree(f)
  BY PlanNext, PlanTrees DEF OwnInv, TreesStay, Planning, SamePlan
<1>2. CASE PlanClose /\ fold.steps # <<>>
  <2>1. PICK new \in Nat :
          /\ DOMAIN families' = DOMAIN families \union {new}
          /\ families'[new].steps = fold.steps /\ FamilyTree(new)' = fold.acc.lanes
          /\ \A f : Serving(f)' => f = new \/ Serving(f)
    BY <1>2, FoldCloses DEF OwnInv
  <2>2. UNCHANGED <<main, rows>> /\ pc = "plan" /\ Tip' = Tip
    BY <1>2 DEF PlanClose, Tip
  <2>3. Holds(new)'
    BY <2>1, <2>2 DEF Folds, Holds, Read
  <2>4. ASSUME NEW f \in DOMAIN families, Serving(f)' PROVE f = new \/ Holds(f)'
    <3>1. f = new \/ Holds(f)
      BY <1>0, <2>1, <2>4 DEF ClimbHolds
    <3> QED BY <1>1, <2>2, <3>1 DEF Holds, Read
  <2> QED BY <2>1, <2>3, <2>4 DEF ClimbHolds
<1>3. CASE ~PlanClose \/ fold.steps = <<>>
  <2>1. DOMAIN families' = DOMAIN families /\ \A f : Serving(f)' => Serving(f)
    <3>1. CASE PlanClose
      BY <1>3, <3>1, ClosesEmpty
    <3>2. CASE ~PlanClose
      BY <3>2, WinnersNext
    <3> QED BY <3>1, <3>2
  <2>2. CASE ~Merge /\ ~Snapshot
    <3>1. rows' = rows /\ Authored(main'[Tip'].tree) = Authored(main[Tip].tree)
      BY <2>2, RowsRead, AuthoredStays
    <3>2. \A f \in DOMAIN families : Holds(f) => Holds(f)'
      BY <1>1, <3>1 DEF Holds, Read
    <3> QED BY <1>0, <2>1, <3>2 DEF ClimbHolds
  <2>3. CASE Snapshot
    <3>1. batch = <<>> /\ ~AtHand
      BY <1>0, <2>3 DEF Snapshot, ServesNone, AtHand, Landing
    <3>2. \A f : ~Serving(f)
      BY <3>1 DEF Serving, ToSet
    <3> QED BY <2>1, <3>2 DEF ClimbHolds
  <2>4. CASE Merge
    <3>1. /\ cur \in DOMAIN families /\ Serving(cur) /\ rows \in [PR -> Commit] /\ N \in PR /\ pc \in Landing
          /\ Authored(Prepared.lanes) \subseteq FamilyTree(cur)
          /\ Authored(main'[Tip'].tree) \subseteq FamilyTree(cur)
      BY <1>0, <2>4, MergedWork
    <3>2. ASSUME NEW f \in DOMAIN families, Serving(f) PROVE FamilyTree(cur) \subseteq FamilyTree(f)
      <4>1. CASE f = cur
        BY <4>1
      <4>2. CASE f # cur
        <5>1. f \in ToSet(batch)
          BY <3>2, <4>2 DEF Serving
        <5>2. PICK i \in DOMAIN batch : batch[i] = f
          BY <5>1 DEF ToSet
        <5>3. batch # <<>> /\ ~settling
          BY <5>2 DEF RoundInv, InOrder
        <5>4. batch[1] = cur /\ 1 \in DOMAIN batch /\ i # 1
          BY <3>1, <4>2, <5>2, <5>3, BatchTail, LandingPointers
        <5>5. cur < f
          BY <5>2, <5>4, BatchTyped DEF RoundInv, InOrder
        <5> QED BY <1>0, <3>1, <3>2, <5>5 DEF ClimbUp
      <4> QED BY <4>1, <4>2
    <3>3. rows' = rows \/ rows' = [rows EXCEPT ![N] = Prepared]
      BY <2>4 DEF Merge
    <3>4. \A p \in PR : Read(p)' = Read(p) \/ Read(p)' \subseteq FamilyTree(cur)
      BY <3>1, <3>3 DEF Read
    <3>5. \A f \in DOMAIN families : \A k \in DOMAIN families[f].steps : families[f].steps[k].pr \in PR
      <4>1. \A f \in DOMAIN families : families[f].steps \in Seq(Step)
        BY MembersTyped DEF TypeOK
      <4>2. ASSUME NEW f \in DOMAIN families, NEW k \in DOMAIN families[f].steps
            PROVE  families[f].steps[k].pr \in PR
        <5>1. families[f].steps[k] \in Step
          BY <4>1
        <5> QED BY <5>1 DEF Step
      <4> QED BY <4>2
    <3>6. ASSUME NEW f \in DOMAIN families, Serving(f) PROVE Holds(f)'
      <4>1. Holds(f)
        BY <1>0, <3>6 DEF ClimbHolds
      <4>2. \A k \in DOMAIN families[f].steps : Read(families[f].steps[k].pr)' \subseteq FamilyTree(f)
        <5> SUFFICES ASSUME NEW k \in DOMAIN families[f].steps
                     PROVE  Read(families[f].steps[k].pr)' \subseteq FamilyTree(f)
          OBVIOUS
        <5>1. PICK p \in PR : p = families[f].steps[k].pr
          BY <3>5
        <5>2. p = families'[f].steps[k].pr /\ Read(families[f].steps[k].pr)' = Read(p)'
          BY <1>1, <5>1 DEF Read
        <5> QED BY <3>2, <3>4, <3>6, <4>1, <5>1, <5>2 DEF Holds
      <4> QED BY <1>1, <3>1, <3>2, <3>6, <4>2 DEF Holds
    <3> QED BY <2>1, <3>6 DEF ClimbHolds
  <2> QED BY <2>2, <2>3, <2>4
<1> QED BY <1>2, <1>3

\* The trees of the families climb, at every step.
LEMMA ClimbInvNext ==
  ASSUME TypeOK, LandingInv, RoundInv, OwnInv, Emptied, SeenInv, Folds, ClimbInv, [Next]_vars
  PROVE  ClimbInv'
BY ServesNoneNext, ClimbNext, HoldsNext DEF ClimbInv

---------------------------------------------------------------------------
(* What waits for a gate, and the trees judged before and beside it.       *)

\* Nobody but the steps that hand it to the gates lets a family wait.
LEMMA WaitsNext ==
  ASSUME TypeOK, Unasked, [Next]_vars
  PROVE  \A g \in DOMAIN families' : Waits(g)' => g \in DOMAIN families /\ (Waits(g) \/ (Submit /\ Serving(g)))
<1>1. CASE \E f \in DOMAIN families : Gate(f)
  <2>1. PICK f \in DOMAIN families : Gate(f)
    BY <1>1
  <2> QED BY <2>1, GateKinds, GateAsked DEF Waits, SetsOff, Copies, Judges, Records, Takes
<1>2. CASE \A f \in DOMAIN families : ~Gate(f)
  BY <1>2, NoGateHanded DEF Handed, Waits
<1> QED BY <1>1, <1>2

\* While a round is collected, who waits is served by it.
PendServed ==
  ~settling /\ (pc = "collect" \/ pc \in Landing) => \A g \in DOMAIN families : Waits(g) => g \in ToSet(batch)

\* A step of a round that is being collected gives up at most the family at its head.
LEMMA CollectingSteps ==
  ASSUME TypeOK, InOrder, [Next]_vars, ~settling', pc' = "collect" \/ pc' \in Landing, ~Submit
  PROVE  /\ ~settling /\ (pc = "collect" \/ pc \in Landing)
         /\ \/ batch' = batch
            \/ batch # <<>> /\ batch' = Tail(batch) /\ families[batch[1]].future = "done"
<1>1. CASE StopEarly \/ Snapshot \/ Round \/ PartsDone \/ Part \/ Cancel
  BY <1>1 DEF StopEarly, Snapshot, RunUnread, Round, PartsDone, Part, Cancel, Landing
<1>2. CASE Pairs \/ Join
  BY <1>2 DEF Pairs, Choose, Join, Continue, Landing
<1>3. CASE PlanStep \/ PlanClose
  BY <1>3 DEF PlanStep, PlanClose, AfterFold, Landing
<1>4. CASE PartGated
  BY <1>4 DEF PartGated, TypeOK, Pointers
<1>5. CASE Collect
  <2>1. batch # <<>>
    BY <1>5 DEF Collect, TypeOK, Pointers
  <2> QED BY <1>5, <2>1 DEF Collect, CollectStopped, CollectDry, CollectGreen, CollectUnread, CollectRed, Collected, Landing
<1>6. CASE Land
  <2>1. pc \in Landing /\ settling' = settling
    BY <1>6 DEF Land, LandCheck, Decide, Reobserve, Push, Await, Merge, Confirm, ByLanding, Landing
  <2>2. batch # <<>> /\ families[batch[1]].future = "done"
    BY <2>1, LandingPointers DEF InOrder
  <2>3. CASE LandCheck \/ Decide \/ Reobserve \/ Push \/ Await \/ Merge
    BY <2>1, <2>2, <2>3 DEF LandCheck, Decide, Reobserve, Push, Await, Merge, ReadFails, Withheld, Leave, Landing
  <2>4. CASE Confirm
    BY <2>1, <2>2, <2>4 DEF Confirm, Leave, Landing
  <2> QED BY <1>6, <2>3, <2>4 DEF Land
<1>7. CASE (\E f \in DOMAIN families : Gate(f)) \/ Disturb \/ Finished \/ UNCHANGED vars
  BY <1>7, GateKinds DEF thread, Disturb, Outside, Finished, vars
<1> QED BY <1>1, <1>2, <1>3, <1>4, <1>5, <1>6, <1>7 DEF Next, Train

\* What is handed to the gates is of the round.
LEMMA PendServedNext ==
  ASSUME TypeOK, RoundInv, Unasked, Drained, PendServed, [Next]_vars
  PROVE  PendServed'
<1> SUFFICES ASSUME ~settling', pc' = "collect" \/ pc' \in Landing, NEW g \in DOMAIN families', Waits(g)'
             PROVE  g \in ToSet(batch)'
  BY DEF PendServed
<1>1. g \in DOMAIN families /\ (Waits(g) \/ (Submit /\ Serving(g)))
  BY WaitsNext
<1>2. CASE Submit
  <2>1. ~settling /\ pc = "submit" /\ batch' = batch
    BY <1>2 DEF Submit, Landing
  <2>2. ~Waits(g)
    BY <1>1, <2>1 DEF Drained, BetweenRounds, Over, Waits
  <2> QED BY <1>1, <2>1, <2>2 DEF Serving, AtHand, Landing, ToSet
<1>3. CASE ~Submit
  <2>1. /\ ~settling /\ (pc = "collect" \/ pc \in Landing)
        /\ \/ batch' = batch
           \/ batch # <<>> /\ batch' = Tail(batch) /\ families[batch[1]].future = "done"
    BY <1>3, CollectingSteps DEF RoundInv
  <2>2. g \in ToSet(batch) /\ Waits(g)
    BY <1>1, <1>3, <2>1 DEF PendServed
  <2>3. CASE batch' = batch
    BY <2>2, <2>3 DEF ToSet
  <2>4. CASE batch # <<>> /\ batch' = Tail(batch) /\ families[batch[1]].future = "done"
    <3>1. batch \in Seq(Nat) /\ ToSet(batch) = {batch[1]} \union ToSet(Tail(batch))
      BY <2>4, BatchTyped, ListHead
    <3>2. g # batch[1]
      BY <2>2, <2>4 DEF Waits
    <3> QED BY <2>2, <2>4, <3>1, <3>2 DEF ToSet
  <2> QED BY <2>1, <2>3, <2>4
<1> QED BY <1>2, <1>3

---------------------------------------------------------------------------
(* What a bisection folds, the families that wait were planned above.      *)

Bisecting == pc = "part" \/ (settling /\ (pc \in {"plan", "submit", "gate"} \/ pc \in Landing))

\* All that the bisection has in hand is within these lanes, and no family that still
\* waits for its gate is.
Within(lanes) ==
  /\ Authored(main[Tip].tree) \subseteq lanes
  /\ \A p \in Parts(stack) : Read(p) \subseteq lanes
  /\ pc = "plan" => Authored(fold.acc.lanes) \subseteq lanes /\ \A p \in ToSet(fold.todo) : Read(p) \subseteq lanes
  /\ AtHand => Authored(FamilyTree(cur)) \subseteq lanes
  /\ \A g \in DOMAIN families : Waits(g) /\ ~(AtHand /\ g = cur) => ~(Authored(FamilyTree(g)) \subseteq lanes)

PartsInv == Bisecting => \E lanes : Within(lanes)

\* Who is in the parts is a pull request of the run.
LEMMA PartsTyped == ASSUME NEW st \in Seq(Seq(PR)) PROVE Parts(st) \subseteq PR
<1>1. \A i \in DOMAIN st : st[i] \in Seq(PR)
  BY ListedAt
<1>2. \A i \in DOMAIN st : ToSet(st[i]) \subseteq PR
  BY <1>1, ListedAt
<1> QED BY <1>2 DEF Parts

\* Splitting a family gives the parts nobody but its members.
LEMMA SplitParts ==
  ASSUME NEW st \in Seq(Seq(PR)), NEW q \in Seq(PR), NEW halves \in Splits(q)
  PROVE  Parts(halves \o st) \subseteq ToSet(q) \union Parts(st)
<1>1. Len(q) \in Nat /\ DOMAIN q = 1..Len(q)
  BY ListedAt
<1>2. \E a, b \in Seq(PR) : halves = <<a, b>> /\ ToSet(a) \subseteq ToSet(q) /\ ToSet(b) \subseteq ToSet(q)
  <2>1. CASE halves = <<SubSeq(q, 1, Len(q) \div 2), From(q, Len(q) \div 2 + 1)>>
    <3>1. PICK h \in Nat : h = Len(q) \div 2 /\ h <= Len(q)
      BY <1>1
    <3>2. /\ SubSeq(q, 1, h) \in Seq(PR) /\ From(q, h + 1) \in Seq(PR)
          /\ ToSet(q) = ToSet(SubSeq(q, 1, h)) \union ToSet(From(q, h + 1))
      BY <3>1, ListSplit
    <3> QED BY <2>1, <3>1, <3>2
  <2>2. CASE \E i \in DOMAIN q : halves = <<SubSeq(q, 1, i - 1) \o From(q, i + 1), <<q[i]>> >>
    <3>1. PICK i \in DOMAIN q : halves = <<SubSeq(q, 1, i - 1) \o From(q, i + 1), <<q[i]>> >>
      BY <2>2
    <3>2. PICK h \in Nat : h + 1 = i /\ i - 1 = h /\ h <= Len(q)
      <4>1. i - 1 \in Nat /\ (i - 1) + 1 = i /\ i - 1 <= Len(q)
        BY <1>1
      <4> QED BY <4>1
    <3>3. SubSeq(q, 1, h) \in Seq(PR) /\ ToSet(SubSeq(q, 1, h)) \subseteq ToSet(q)
      BY <3>2, ListSplit
    <3>4. From(q, i + 1) \in Seq(PR) /\ q[i] \in PR /\ q[i] \in ToSet(q)
      BY <1>1, ListFrom, ListedAt
    <3>5. ToSet(From(q, i + 1)) \subseteq ToSet(q)
      <4>1. PICK k \in Nat : k = i /\ k <= Len(q)
        BY <1>1
      <4> QED BY <4>1, ListSplit
    <3>6. \A u, v : u \in Seq(PR) /\ v \in Seq(PR) => u \o v \in Seq(PR) /\ ToSet(u \o v) = ToSet(u) \union ToSet(v)
      BY ListsJoined, ConcatProperties
    <3>7. <<q[i]>> \in Seq(PR) /\ ToSet(<<q[i]>>) = {q[i]}
      <4>1. <<q[i]>> \in Seq(PR) /\ Len(<<q[i]>>) = 1 /\ <<q[i]>>[1] = q[i]
        BY <3>4, SingletonTyped
      <4>2. DOMAIN <<q[i]>> = 1..1
        BY <4>1, ListedAt
      <4> QED BY <4>1, <4>2 DEF ToSet
    <3>8. PICK u : u = SubSeq(q, 1, i - 1) \o From(q, i + 1)
      OBVIOUS
    <3>9. PICK v : v = <<q[i]>>
      OBVIOUS
    <3>10. u \in Seq(PR) /\ ToSet(u) \subseteq ToSet(q)
      BY <3>2, <3>3, <3>4, <3>5, <3>6, <3>8
    <3> QED BY <3>1, <3>4, <3>7, <3>8, <3>9, <3>10
  <2> QED BY <2>1, <2>2 DEF Splits
<1>3. PICK a \in Seq(PR), b \in Seq(PR) : halves = <<a, b>> /\ ToSet(a) \subseteq ToSet(q) /\ ToSet(b) \subseteq ToSet(q)
  BY <1>2
<1> DEFINE u == halves \o st
<1>4. /\ Len(st) \in Nat /\ DOMAIN st = 1..Len(st)
      /\ halves \in Seq(Seq(PR)) /\ Len(halves) = 2 /\ halves[1] = a /\ halves[2] = b
  BY <1>3, LenProperties
<1>5. /\ u \in Seq(Seq(PR)) /\ Len(u) = 2 + Len(st)
      /\ \A i \in 1..(2 + Len(st)) : u[i] = IF i <= 2 THEN halves[i] ELSE st[i - 2]
  <2>1. /\ halves \o st \in Seq(Seq(PR)) /\ Len(halves \o st) = Len(halves) + Len(st)
        /\ \A i \in 1..(Len(halves) + Len(st)) :
             (halves \o st)[i] = IF i <= Len(halves) THEN halves[i] ELSE st[i - Len(halves)]
    BY <1>4, ConcatProperties
  <2> QED BY <1>4, <2>1
<1>6. \A i \in DOMAIN u : u[i] = a \/ u[i] = b \/ (i - 2 \in DOMAIN st /\ u[i] = st[i - 2])
  <2>1. DOMAIN u = 1..(2 + Len(st))
    BY <1>5, LenProperties
  <2>2. \A i \in DOMAIN u : i = 1 \/ i = 2 \/ (i - 2 \in 1..Len(st) /\ ~(i <= 2))
    BY <1>4, <2>1
  <2>3. 1 \in DOMAIN u /\ 2 \in DOMAIN u /\ 1 <= 2
    BY <1>4, <2>1
  <2> QED BY <1>4, <1>5, <2>1, <2>2, <2>3
<1> HIDE DEF u
<1>7. Parts(u) \subseteq ToSet(q) \union Parts(st)
  BY <1>3, <1>6, PartsAt
<1> QED BY <1>7 DEF u

\* The steps of a bisection that hold on to what it has in hand.
LEMMA WithinKept ==
  ASSUME NEW lanes, Within(lanes), TreesStay,
         Authored(main'[Tip'].tree) \subseteq lanes,
         \A p \in Parts(stack') : Read(p)' \subseteq lanes,
         pc' = "plan" => Authored(fold'.acc.lanes) \subseteq lanes /\ \A p \in ToSet(fold'.todo) : Read(p)' \subseteq lanes,
         AtHand' => Authored(FamilyTree(cur)') \subseteq lanes,
         \A g \in DOMAIN families' : Waits(g)' /\ ~(AtHand' /\ g = cur') =>
           g \in DOMAIN families /\ Waits(g) /\ ~(AtHand /\ g = cur)
  PROVE  Within(lanes)'
<1>1. \A g \in DOMAIN families' : Waits(g)' /\ ~(AtHand' /\ g = cur') => ~(Authored(FamilyTree(g)') \subseteq lanes)
  BY DEF Within, TreesStay
<1>2. Authored(FamilyTree(cur))' = Authored(FamilyTree(cur)')
  BY DEF Authored
<1> QED BY <1>1, <1>2 DEF Within, Authored

\* A served family holds what its members' authors had written.
LEMMA MembersRead ==
  ASSUME TypeOK, NEW f \in DOMAIN families, Holds(f)
  PROVE  \A p \in ToSet(Members(f)) : Read(p) \subseteq FamilyTree(f)
<1>1. ToSet(Members(f)) = {families[f].steps[k].pr : k \in DOMAIN families[f].steps}
  BY DEF Members, Numbers, ToSet
<1> QED BY <1>1 DEF Holds

\* Settling a red family leaves parts of its members and of what was there.
LEMMA SettledParts ==
  ASSUME TypeOK, NEW f \in DOMAIN families, SettleRed(f)
  PROVE  Parts(stack') \subseteq ToSet(Members(f)) \union Parts(stack)
<1>1. stack \in Seq(Seq(PR)) /\ Members(f) \in Seq(PR)
  BY MembersTyped DEF TypeOK, ThreadTyped
<1>2. stack' = stack \/ \E halves \in Splits(Members(f)) : stack' = halves \o stack
  BY DEF SettleRed
<1> QED BY <1>1, <1>2, SplitParts

\* A bisection begins with the family that is red, below all that still wait.
LEMMA BisectionBegins ==
  ASSUME TypeOK, LandingInv, RoundInv, OwnInv, Unasked, Emptied, ClimbInv, PendServed, [Next]_vars, Collect
  PROVE  PartsInv'
<1> DEFINE f == batch[1]
<1>1. pc = "collect" /\ batch # <<>> /\ ~settling /\ stack = <<>> /\ settling' = settling
  BY DEF Collect, TypeOK, Pointers, RoundInv, InOrder, Emptied, CollectStopped, CollectDry, CollectGreen,
     CollectUnread, CollectRed
<1>2. f \in DOMAIN families /\ f \in ToSet(batch) /\ TreesStay
  BY <1>1, BatchHead, BatchTail, PlanNext, PlanTrees DEF ToSet, OwnInv
<1>3. CASE ~CollectRed(f)
  <2>1. pc' # "part"
    BY <1>3 DEF Collect, CollectStopped, CollectDry, CollectGreen, CollectUnread
  <2> QED BY <1>1, <2>1 DEF PartsInv, Bisecting
<1>4. CASE CollectRed(f)
  <2>1. UNCHANGED <<main, rows>> /\ pc' = "part" /\ SettleRed(f) /\ families[f].future = "done"
    BY <1>4 DEF CollectRed, ByCollect, Collected
  <2>2. Serving(f) /\ Holds(f)
    BY <1>2 DEF Serving, ClimbInv, ClimbHolds
  <2>3. Authored(main'[Tip'].tree) \subseteq FamilyTree(f)
    BY <2>1, <2>2 DEF Holds, Tip
  <2>4. \A p \in Parts(stack') : Read(p)' \subseteq FamilyTree(f)
    <3>1. Parts(stack') \subseteq ToSet(Members(f))
      BY <1>1, <1>2, <2>1, SettledParts, NoParts
    <3> QED BY <1>2, <2>1, <2>2, <3>1, MembersRead DEF Read
  <2>5. ASSUME NEW g \in DOMAIN families', Waits(g)' PROVE ~(Authored(FamilyTree(g)') \subseteq FamilyTree(f))
    <3>1. g \in DOMAIN families /\ Waits(g)
      BY <1>1, <2>5, WaitsNext DEF Submit
    <3>2. g \in ToSet(batch) /\ g # f
      BY <1>1, <2>1, <3>1 DEF PendServed, Waits
    <3>3. f < g
      <4>1. PICK i \in DOMAIN batch : batch[i] = g
        BY <3>2 DEF ToSet
      <4>2. 1 \in DOMAIN batch /\ i # 1 /\ i > 1
        BY <1>1, <3>2, <4>1, BatchTail, BatchTyped
      <4> QED BY <4>1, <4>2 DEF RoundInv, InOrder
    <3>4. FamilyTree(g)' = FamilyTree(g)
      BY <1>2, <3>1 DEF TreesStay
    <3> QED BY <1>2, <2>2, <3>1, <3>3, <3>4 DEF ClimbInv, ClimbApart, Winner
  <2>6. ~AtHand'
    BY <1>1, <2>1 DEF AtHand, Landing
  <2>7. PICK lanes : lanes = FamilyTree(f)
    OBVIOUS
  <2>8. Within(lanes)'
    BY <2>1, <2>3, <2>4, <2>5, <2>6, <2>7 DEF Within, Authored
  <2> QED BY <2>8 DEF PartsInv
<1> QED BY <1>3, <1>4

\* The next part is taken up.
LEMMA PartWithin ==
  ASSUME TypeOK, NEW lanes, Within(lanes), TreesStay, Unasked, [Next]_vars, Part
  PROVE  Within(lanes)'
<1>1. /\ stack # <<>> /\ stack' = Tail(stack) /\ UNCHANGED <<main, rows, families, cur>> /\ pc = "part"
      /\ pc' # "plan" \/ (pc' = "plan" /\ fold'.acc = BaseCommit(Tip) /\ fold'.todo = Head(stack))
      /\ pc' \in {"part", "plan"}
  BY DEF Part, lists, thread
<1>2. Parts(stack) = ToSet(Head(stack)) \union Parts(stack')
  BY <1>1, PartsHead DEF TypeOK, ThreadTyped
<1>3. ~AtHand /\ ~AtHand'
  BY <1>1 DEF AtHand, Landing
<1>4. BaseCommit(Tip).lanes = main[Tip].tree /\ main'[Tip'] = main[Tip] /\ \A p : Read(p)' = Read(p)
  BY <1>1 DEF BaseCommit, Tip, Read
<1>5. \A g \in DOMAIN families' : Waits(g)' => g \in DOMAIN families /\ Waits(g)
  BY <1>1 DEF Waits
<1>6. Authored(main'[Tip'].tree) \subseteq lanes /\ \A p \in Parts(stack') : Read(p)' \subseteq lanes
  BY <1>2, <1>4 DEF Within
<1>7. pc' = "plan" => Authored(fold'.acc.lanes) \subseteq lanes /\ \A p \in ToSet(fold'.todo) : Read(p)' \subseteq lanes
  BY <1>1, <1>2, <1>4 DEF Within
<1> QED BY <1>3, <1>5, <1>6, <1>7, WithinKept

\* The part is folded.
LEMMA PlanWithin ==
  ASSUME TypeOK, NEW lanes, Within(lanes), TreesStay, PlanStep
  PROVE  Within(lanes)'
<1>1. pc = "plan" /\ UNCHANGED <<main, rows, families, stack, cur, pc, settling>> /\ fold.todo # <<>>
  BY DEF PlanStep, Untouched
<1>2. fold.acc \in Commit /\ fold.todo \in Seq(PR) /\ \A p \in PR : rows[p] \in Commit
  BY FoldTyped, HeadsTyped
<1> DEFINE n == Head(fold.todo)
<1>3. /\ n \in PR /\ fold'.todo = Tail(fold.todo)
      /\ fold'.acc = fold.acc \/ fold'.acc = Joined(fold.acc, rows[n])
  BY FoldSteps
<1>4. ToSet(fold.todo) = {n} \union ToSet(fold'.todo)
  BY <1>1, <1>2, <1>3, ListHead
<1>5. fold'.acc.lanes \subseteq fold.acc.lanes \union rows[n].lanes
  BY <1>2, <1>3, JoinedLanes
<1>6. Authored(fold'.acc.lanes) \subseteq lanes /\ \A p \in ToSet(fold'.todo) : Read(p)' \subseteq lanes
  BY <1>1, <1>4, <1>5 DEF Within, Authored, Read
<1>7. ~AtHand /\ ~AtHand' /\ main'[Tip'] = main[Tip] /\ stack' = stack /\ \A p : Read(p)' = Read(p)
  BY <1>1 DEF AtHand, Landing, Tip, Read
<1>8. \A g \in DOMAIN families' : Waits(g)' => g \in DOMAIN families /\ Waits(g)
  BY <1>1 DEF Waits
<1>9. Authored(main'[Tip'].tree) \subseteq lanes /\ \A p \in Parts(stack') : Read(p)' \subseteq lanes
  BY <1>7 DEF Within
<1> QED BY <1>6, <1>7, <1>8, <1>9, WithinKept

\* A folded part is gated next.
LEMMA CloseWithin ==
  ASSUME TypeOK, LandingInv, RoundInv, OwnInv, NEW lanes, Within(lanes), TreesStay, settling, PlanClose
  PROVE  Within(lanes)'
<1>1. /\ pc = "plan" /\ pc' \in {"part", "submit"} /\ (pc' = "submit" => fold.steps # <<>>)
      /\ UNCHANGED <<main, rows, stack, settling>>
  BY DEF PlanClose, AfterFold
<1>2. ~AtHand /\ main'[Tip'] = main[Tip] /\ \A p : Read(p)' = Read(p)
  BY <1>1 DEF AtHand, Landing, Tip, Read
<1>3. Authored(main'[Tip'].tree) \subseteq lanes /\ \A p \in Parts(stack') : Read(p)' \subseteq lanes
  BY <1>1, <1>2 DEF Within
<1>4. \A g \in DOMAIN families' : Waits(g)' => g \in DOMAIN families /\ Waits(g)
  BY PlanCloseFutures DEF FuturesKept, Waits
<1>5. AtHand' => Authored(FamilyTree(cur)') \subseteq lanes
  <2> SUFFICES ASSUME pc' = "submit" PROVE Authored(FamilyTree(cur)') \subseteq lanes
    BY <1>1 DEF AtHand, Landing
  <2>1. PICK new \in Nat : FamilyTree(new)' = fold.acc.lanes /\ cur' = new
    BY <1>1, FoldCloses DEF OwnInv
  <2>2. FamilyTree(cur)' = fold.acc.lanes
    BY <2>1 DEF FamilyTree
  <2> QED BY <1>1, <2>2 DEF Within
<1> QED BY <1>1, <1>2, <1>3, <1>4, <1>5, WithinKept

\* Nothing new is in hand while a part is handed over, gated or given back.
LEMMA HandWithin ==
  ASSUME TypeOK, RoundInv, ClimbInv, Unasked, NEW lanes, Within(lanes), TreesStay, [Next]_vars,
         settling, Submit \/ PartGated
  PROVE  Within(lanes)'
<1>1. UNCHANGED <<main, rows, cur, settling>> /\ pc' # "plan" /\ AtHand /\ cur \in DOMAIN families
  BY DEF Submit, PartGated, ByCollect, AtHand, world, TypeOK, Pointers
<1>2. main'[Tip'] = main[Tip] /\ \A p : Read(p)' = Read(p)
  BY <1>1 DEF Tip, Read
<1>3. \A p \in Parts(stack') : Read(p)' \subseteq lanes
  <2>1. stack' = stack \/ SettleRed(cur)
    BY DEF Submit, PartGated
  <2>2. Serving(cur) /\ Holds(cur)
    BY <1>1 DEF Serving, ClimbInv, ClimbHolds
  <2>3. Parts(stack') \subseteq ToSet(Members(cur)) \union Parts(stack)
    BY <1>1, <2>1, SettledParts
  <2>4. \A p \in ToSet(Members(cur)) : Read(p) \subseteq lanes
    <3>1. \A p \in ToSet(Members(cur)) : Read(p) \subseteq FamilyTree(cur)
      BY <1>1, <2>2, MembersRead
    <3> QED BY <1>1, <3>1 DEF Within, Authored, Read
  <2> QED BY <1>2, <2>3, <2>4 DEF Within
<1>4. FamilyTree(cur)' = FamilyTree(cur)
  BY <1>1 DEF TreesStay, FamilyTree
<1>5. AtHand' => Authored(FamilyTree(cur)') \subseteq lanes
  BY <1>1, <1>4 DEF Within
<1>6. \A g \in DOMAIN families' : Waits(g)' /\ ~(AtHand' /\ g = cur') =>
        g \in DOMAIN families /\ Waits(g) /\ ~(AtHand /\ g = cur)
  <2>1. CASE Submit
    <3>1. families[cur].future = "none" /\ pc = "submit" /\ pc' \in {"part", "gate"}
      BY <2>1 DEF Submit, Unasked
    <3>2. pc' = "part" => families' = families
      BY <2>1 DEF Submit
    <3>3. pc' = "gate" => AtHand'
      BY <1>1 DEF AtHand
    <3>4. DOMAIN families' = DOMAIN families /\ \A g \in DOMAIN families \ {cur} : families'[g] = families[g]
      BY <2>1 DEF Submit
    <3> QED BY <1>1, <3>1, <3>2, <3>3, <3>4 DEF Waits
  <2>2. CASE PartGated
    <3>1. families[cur].future = "done"
      BY <2>2 DEF PartGated
    <3>2. ~Submit
      BY <2>2 DEF PartGated, Submit
    <3> QED BY <1>1, <3>1, <3>2, WaitsNext DEF Waits
  <2> QED BY <2>1, <2>2
<1> QED BY <1>1, <1>2, <1>3, <1>5, <1>6, WithinKept DEF Within

\* A landing brings to the base what its family holds.
LEMMA LandWithin ==
  ASSUME TypeOK, LandingInv, RoundInv, SeenInv, ClimbInv, Unasked, NEW lanes, Within(lanes), TreesStay, [Next]_vars, Land
  PROVE  Within(lanes)'
<1>1. pc \in Landing /\ UNCHANGED <<cur, settling, stack>> /\ pc' # "plan" /\ pc' \notin {"submit", "gate"}
  BY OtherwisePlanned DEF Land, LandCheck, Decide, Reobserve, Push, Await, Merge, Confirm, ByLanding, Landing,
     ReadFails, Withheld, Leave
<1>2. cur \in DOMAIN families /\ families[cur].future = "done" /\ AtHand /\ Authored(FamilyTree(cur)) \subseteq lanes
  BY <1>1, LandingPointers DEF RoundInv, InOrder, AtHand, Within
<1>3. /\ Authored(main'[Tip'].tree) \subseteq lanes
      /\ \A p \in Parts(stack) : Read(p)' \subseteq lanes
  <2>1. CASE ~Merge
    <3>1. Authored(main'[Tip'].tree) = Authored(main[Tip].tree) /\ rows' = rows
      BY <1>1, <2>1, AuthoredStays, RowsRead DEF Snapshot, Landing
    <3> QED BY <3>1 DEF Within, Read
  <2>2. CASE Merge
    <3>1. /\ rows \in [PR -> Commit] /\ N \in PR
          /\ Authored(Prepared.lanes) \subseteq FamilyTree(cur)
          /\ Authored(main'[Tip'].tree) \subseteq FamilyTree(cur)
      BY <2>2, MergedWork DEF ClimbInv
    <3>2. rows' = rows \/ rows' = [rows EXCEPT ![N] = Prepared]
      BY <2>2 DEF Merge
    <3>3. \A p \in PR : rows'[p] = rows[p] \/ rows'[p] = Prepared
      BY <3>1, <3>2
    <3>4. \A p \in PR : Read(p)' = Read(p) \/ Read(p)' = Authored(Prepared.lanes)
      BY <3>3 DEF Read
    <3>5. Parts(stack) \subseteq PR
      BY PartsTyped DEF TypeOK, ThreadTyped
    <3> QED BY <1>2, <3>1, <3>4, <3>5 DEF Within, Authored
  <2> QED BY <2>1, <2>2
<1>4. FamilyTree(cur)' = FamilyTree(cur)
  BY <1>1, <1>2 DEF TreesStay, FamilyTree
<1>5. \A g \in DOMAIN families' : Waits(g)' => g \in DOMAIN families /\ Waits(g)
  BY <1>1, WaitsNext DEF Submit, Landing
<1>6. ~Waits(cur)
  BY <1>2 DEF Waits
<1>7. \A g \in DOMAIN families' : Waits(g)' /\ ~(AtHand' /\ g = cur') =>
        g \in DOMAIN families /\ Waits(g) /\ ~(AtHand /\ g = cur)
  BY <1>5, <1>6
<1> QED BY <1>1, <1>2, <1>3, <1>4, <1>7, WithinKept

\* What happens beside the bisection takes nothing up.
LEMMA BesideWithin ==
  ASSUME TypeOK, NEW lanes, Within(lanes), TreesStay, Unasked, [Next]_vars, ~Merge, ~Submit,
         (\E f \in DOMAIN families : Gate(f)) \/ Disturb \/ Finished \/ UNCHANGED vars
  PROVE  Within(lanes)'
<1>1. UNCHANGED <<thread, rows, pc>>
  BY GateKinds DEF Disturb, Outside, Finished, vars
<1>2. Authored(main'[Tip'].tree) = Authored(main[Tip].tree)
  BY AuthoredStays
<1>3. UNCHANGED <<fold, stack, cur, settling>> /\ \A p : Read(p)' = Read(p)
  BY <1>1 DEF thread, Read
<1>4. \A g \in DOMAIN families' : Waits(g)' => g \in DOMAIN families /\ Waits(g)
  BY WaitsNext
<1>5. AtHand' = AtHand /\ (AtHand => cur \in DOMAIN families)
  BY <1>1, <1>3 DEF AtHand, TypeOK, Pointers
<1>6. AtHand => FamilyTree(cur)' = FamilyTree(cur)
  BY <1>3, <1>5 DEF TreesStay, FamilyTree
<1>7. /\ Authored(main'[Tip'].tree) \subseteq lanes
      /\ \A p \in Parts(stack') : Read(p)' \subseteq lanes
      /\ pc' = "plan" => Authored(fold'.acc.lanes) \subseteq lanes /\ \A p \in ToSet(fold'.todo) : Read(p)' \subseteq lanes
      /\ AtHand' => Authored(FamilyTree(cur)') \subseteq lanes
  BY <1>1, <1>2, <1>3, <1>5, <1>6 DEF Within
<1>8. \A g \in DOMAIN families' : Waits(g)' /\ ~(AtHand' /\ g = cur') =>
        g \in DOMAIN families /\ Waits(g) /\ ~(AtHand /\ g = cur)
  BY <1>3, <1>4, <1>5
<1> QED BY <1>7, <1>8, WithinKept

\* A bisection folds only what is below the families that wait, at every step.
LEMMA PartsInvNext ==
  ASSUME TypeOK, LandingInv, RoundInv, OwnInv, Unasked, Emptied, SeenInv, ClimbInv, PendServed, PartsInv, [Next]_vars
  PROVE  PartsInv'
<1>1. TreesStay
  BY PlanNext, PlanTrees DEF OwnInv
<1>2. CASE Collect
  BY <1>2, BisectionBegins
<1>3. CASE Bisecting /\ ~Collect
  <2>1. PICK lanes : Within(lanes)
    BY <1>3 DEF PartsInv
  <2>2. CASE Part
    BY <1>1, <2>1, <2>2, PartWithin DEF PartsInv
  <2>3. CASE PlanStep
    BY <1>1, <2>1, <2>3, PlanWithin DEF PartsInv
  <2>4. CASE PlanClose
    <3>1. settling
      BY <1>3, <2>4 DEF Bisecting, PlanClose, Landing
    <3> QED BY <1>1, <2>1, <2>4, <3>1, CloseWithin DEF PartsInv
  <2>5. CASE Submit \/ PartGated
    <3>1. settling
      BY <1>3, <2>5 DEF Bisecting, Submit, PartGated, Landing
    <3> QED BY <1>1, <2>1, <2>5, <3>1, HandWithin DEF PartsInv
  <2>6. CASE Land
    BY <1>1, <2>1, <2>6, LandWithin DEF PartsInv
  <2>7. CASE ~Land /\ ~Submit /\ ((\E f \in DOMAIN families : Gate(f)) \/ Disturb \/ Finished \/ UNCHANGED vars)
    BY <1>1, <2>1, <2>7, BesideWithin DEF PartsInv, Land
  <2>8. CASE PartsDone
    BY <2>8 DEF PartsDone, PartsInv, Bisecting
  <2>9. CASE StopEarly \/ Snapshot \/ Pairs \/ Round \/ Cancel \/ Join
    BY <1>3, <2>9 DEF StopEarly, Snapshot, Pairs, Round, Cancel, Join, Bisecting, Landing
  <2> QED BY <1>3, <2>2, <2>3, <2>4, <2>5, <2>6, <2>7, <2>8, <2>9 DEF Next, Train
<1>4. CASE ~Bisecting /\ ~Collect
  <2>1. ~Bisecting'
    <3>1. CASE Land
      <4>1. pc \in Landing /\ settling' = settling
        BY <3>1 DEF Land, LandCheck, Decide, Reobserve, Push, Await, Merge, Confirm, ByLanding, Landing
      <4>2. ~settling => pc' # "part"
        BY <3>1, <4>1 DEF Land, LandCheck, Decide, Reobserve, Push, Await, Merge, Confirm, Landing, ReadFails,
           Withheld, Leave
      <4> QED BY <1>4, <4>1, <4>2 DEF Bisecting
    <3>2. CASE PlanStep \/ PlanClose \/ Submit
      BY <1>4, <3>2 DEF PlanStep, Untouched, PlanClose, AfterFold, Submit, Bisecting
    <3>3. CASE PartsDone \/ Part
      BY <1>4, <3>3 DEF PartsDone, Part, Bisecting
    <3>4. CASE PartGated
      BY <1>4, <3>4 DEF PartGated, Bisecting, TypeOK, Pointers
    <3>5. CASE StopEarly \/ Snapshot \/ Round \/ Cancel
      BY <1>4, <3>5 DEF StopEarly, Snapshot, RunUnread, Round, Cancel, thread, Bisecting, Landing
    <3>6. CASE Pairs \/ Join
      BY <1>4, <3>6 DEF Pairs, Choose, Join, Continue, Bisecting, Landing
    <3>7. CASE (\E f \in DOMAIN families : Gate(f)) \/ Disturb \/ Finished \/ UNCHANGED vars
      BY <1>4, <3>7, GateKinds DEF Disturb, Outside, Finished, vars, thread, Bisecting
    <3> QED BY <1>4, <3>1, <3>2, <3>3, <3>4, <3>5, <3>6, <3>7 DEF Next, Train
  <2> QED BY <2>1 DEF PartsInv
<1> QED BY <1>2, <1>3, <1>4

---------------------------------------------------------------------------
(* No tree is judged green beside, or after, a red verdict of its own.     *)

\* What is planned above a family that waits is not its tree.
WaitsApart == \A g, f \in DOMAIN families : Waits(g) /\ g < f => FamilyTree(f) # FamilyTree(g)
\* A family that runs is none a gate of this run found red.
RunsFresh == \A f, g \in DOMAIN families : families[f].future = "running" /\ FreshRed(g) => FamilyTree(f) # FamilyTree(g)
\* A family it serves, or has landed, that was found green is none a gate found red.
GreenIsNotRed == \A f, g \in DOMAIN families : Winner(f) /\ Green(f) /\ FreshRed(g) => FamilyTree(f) # FamilyTree(g)

\* A new family is of another tree than those before it; the others only stop waiting.
LEMMA WaitsApartNext ==
  ASSUME TypeOK, LandingInv, RoundInv, OwnInv, Unasked, Drained, ClimbInv, PartsInv, WaitsApart, [Next]_vars
  PROVE  WaitsApart'
<1>1. TreesStay
  BY PlanNext, PlanTrees DEF OwnInv
<1>2. CASE ~PlanClose
  <2>1. DOMAIN families' = DOMAIN families
    BY <1>2, NoOtherFamily
  <2>2. ASSUME NEW g \in DOMAIN families, NEW f \in DOMAIN families, Waits(g)', g < f
        PROVE  FamilyTree(f)' # FamilyTree(g)'
    <3>1. Waits(g) \/ Serving(g)
      BY <2>1, <2>2, WaitsNext
    <3>2. FamilyTree(f) # FamilyTree(g)
      <4>1. CASE Waits(g)
        BY <2>2, <4>1 DEF WaitsApart
      <4>2. CASE Serving(g)
        BY <2>2, <4>2 DEF ClimbInv, ClimbApart, Winner, Authored
      <4> QED BY <3>1, <4>1, <4>2
    <3> QED BY <1>1, <3>2 DEF TreesStay
  <2> QED BY <2>1, <2>2 DEF WaitsApart
<1>3. CASE PlanClose
  <2>1. \A g \in DOMAIN families' : Waits(g)' => g \in DOMAIN families /\ Waits(g)
    BY <1>3, PlanCloseFutures DEF FuturesKept, Waits
  <2>2. CASE fold.steps = <<>>
    <3>1. families' = families
      BY <1>3, <2>2, ClosesEmpty
    <3> QED BY <1>1, <2>1, <3>1 DEF WaitsApart, TreesStay
  <2>3. CASE fold.steps # <<>>
    <3>1. PICK new \in Nat :
            DOMAIN families' = DOMAIN families \union {new} /\ FamilyTree(new)' = fold.acc.lanes
      BY <1>3, <2>3, FoldCloses DEF OwnInv
    <3>2. pc = "plan" /\ ~AtHand
      BY <1>3 DEF PlanClose, AtHand, Landing
    <3>3. ASSUME NEW g \in DOMAIN families, Waits(g) PROVE fold.acc.lanes # FamilyTree(g)
      <4>1. settling
        BY <3>2, <3>3 DEF Drained, BetweenRounds, Over, Waits
      <4>2. PICK lanes : Within(lanes)
        BY <3>2, <4>1 DEF PartsInv, Bisecting
      <4> QED BY <3>2, <3>3, <4>2 DEF Within
    <3>4. ASSUME NEW g \in DOMAIN families', NEW f \in DOMAIN families', Waits(g)', g < f
          PROVE  FamilyTree(f)' # FamilyTree(g)'
      <4>1. g \in DOMAIN families /\ Waits(g) /\ FamilyTree(g)' = FamilyTree(g)
        BY <1>1, <2>1, <3>4 DEF TreesStay
      <4>2. CASE f = new
        BY <3>1, <3>3, <4>1, <4>2
      <4>3. CASE f \in DOMAIN families
        BY <1>1, <3>4, <4>1, <4>3 DEF TreesStay, WaitsApart
      <4> QED BY <3>1, <4>2, <4>3
    <3> QED BY <3>4 DEF WaitsApart
  <2> QED BY <2>2, <2>3
<1> QED BY <1>2, <1>3

\* Where no gate steps, no verdict is new.
LEMMA NoNewVerdict ==
  ASSUME Handed
  PROVE  \A f \in DOMAIN families' :
           /\ families'[f].future = "running" => f \in DOMAIN families /\ families[f].future = "running"
           /\ Green(f)' => f \in DOMAIN families /\ Green(f)
           /\ FreshRed(f)' => f \in DOMAIN families /\ FreshRed(f)
<1>1. ASSUME NEW f \in DOMAIN families', f \in DOMAIN families
      PROVE  /\ families'[f].result = families[f].result
             /\ families'[f].future \in {"running", "recording", "done"} => families'[f].future = families[f].future
  BY <1>1 DEF Handed, RowsStay, SameRow
<1>2. \A f \in DOMAIN families' : f \notin DOMAIN families => families'[f].future = "none"
  BY DEF Handed
<1> QED BY <1>1, <1>2 DEF Green, FreshRed, Judged

\* What a gate of this run may find of its family.
LEMMA GateVerdicts ==
  ASSUME TypeOK, Indexed, NEW h \in DOMAIN families, Gate(h)
  PROVE  /\ DOMAIN families' = DOMAIN families /\ \A g \in DOMAIN families \ {h} : families'[g] = families[g]
         /\ families'[h].future = "running" => KnownRed(FamilyTree(h)) = {}
         /\ Green(h)' \/ FreshRed(h)' =>
              \/ families[h].future = "running"
              \/ (Green(h)' <=> Green(h)) /\ (FreshRed(h)' <=> FreshRed(h))
         /\ ~(Green(h)' /\ FreshRed(h)')
<1>1. /\ DOMAIN families' = DOMAIN families /\ \A g \in DOMAIN families \ {h} : families'[g] = families[g]
      /\ SetsOff(h) \/ Copies(h) \/ Judges(h) \/ Records(h)
  BY GateKinds
<1>2. CASE SetsOff(h)
  BY <1>1, <1>2 DEF SetsOff, Green, FreshRed, Judged
<1>3. CASE Copies(h)
  <2>1. PICK known \in KnownRed(FamilyTree(h)) :
          known.gate \in DOMAIN gates /\ Takes(h, gates[known.gate].verdict, gates[known.gate].tree, known.gate)
    BY <1>3 DEF Copies
  <2>2. gates[known.gate].verdict = "red"
    BY <2>1, RowsTyped DEF Indexed, RedRow, KnownRed
  <2>3. known.gate # 0
    BY <2>1, RowsTyped
  <2>4. families'[h].future = "recording" /\ families'[h].result.verdict = "red" /\ families'[h].result.reused # 0
    BY <2>1, <2>2, <2>3 DEF Takes
  <2> QED BY <1>1, <2>4 DEF Green, FreshRed
<1>4. CASE Judges(h)
  <2>1. PICK verdict \in {"green", "red", "unread"} :
          /\ families[h].future = "running" \/ verdict = "unread"
          /\ Takes(h, verdict, FamilyTree(h), 0)
    BY <1>4 DEF Judges
  <2>2. families'[h].future = "recording" /\ families'[h].result.verdict = verdict
    BY <2>1 DEF Takes
  <2> QED BY <1>1, <2>1, <2>2 DEF Green, FreshRed
<1>5. CASE Records(h)
  BY <1>1, <1>5 DEF Records, Green, FreshRed, Judged
<1> QED BY <1>1, <1>2, <1>3, <1>4, <1>5

\* A gate starts on a tree that is not known red, and no other gate of that tree runs.
LEMMA RunsFreshNext ==
  ASSUME TypeOK, OwnInv, LandingInv, RoundInv, Unasked, Indexed, WaitsApart, RunsFresh, [Next]_vars
  PROVE  RunsFresh'
<1>1. TreesStay
  BY PlanNext, PlanTrees DEF OwnInv
<1>2. CASE \A f \in DOMAIN families : ~Gate(f)
  <2>1. Handed
    BY <1>2, NoGateHanded
  <2>2. ASSUME NEW f \in DOMAIN families', NEW g \in DOMAIN families', families'[f].future = "running", FreshRed(g)'
        PROVE  FamilyTree(f)' # FamilyTree(g)'
    <3>1. f \in DOMAIN families /\ families[f].future = "running" /\ g \in DOMAIN families /\ FreshRed(g)
      BY <2>1, <2>2, NoNewVerdict
    <3> QED BY <1>1, <3>1 DEF TreesStay, RunsFresh
  <2> QED BY <2>2 DEF RunsFresh
<1>3. ASSUME NEW h \in DOMAIN families, Gate(h) PROVE RunsFresh'
  <2>1. /\ DOMAIN families' = DOMAIN families /\ \A g \in DOMAIN families \ {h} : families'[g] = families[g]
        /\ families'[h].future = "running" => KnownRed(FamilyTree(h)) = {}
        /\ Green(h)' \/ FreshRed(h)' =>
             \/ families[h].future = "running"
             \/ (Green(h)' <=> Green(h)) /\ (FreshRed(h)' <=> FreshRed(h))
    BY <1>3, GateVerdicts
  <2>2. ASSUME NEW f \in DOMAIN families, NEW g \in DOMAIN families, families'[f].future = "running", FreshRed(g)'
        PROVE  FamilyTree(f) # FamilyTree(g)
    <3>1. f # g
      BY <2>2 DEF FreshRed, Judged
    <3>2. f # h => families[f].future = "running"
      BY <2>1, <2>2
    <3>3. g # h => FreshRed(g)
      BY <2>1, <2>2 DEF FreshRed, Judged
    <3>4. CASE f = h
      <4>1. FreshRed(g) /\ KnownRed(FamilyTree(f)) = {}
        BY <2>1, <2>2, <3>1, <3>3, <3>4
      <4>2. \E r \in red : r.tree = FamilyTree(g)
        BY <4>1 DEF FreshRed, OwnInv, RedKnown
      <4> QED BY <4>1, <4>2 DEF KnownRed
    <3>5. CASE f # h /\ g = h
      <4>1. families[f].future = "running" /\ (families[g].future = "running" \/ FreshRed(g))
        BY <2>1, <2>2, <3>2, <3>5
      <4>2. f < g \/ g < f
        BY <3>1, BatchTyped
      <4> QED BY <4>1, <4>2 DEF Waits, WaitsApart, RunsFresh
    <3>6. CASE f # h /\ g # h
      BY <3>2, <3>3, <3>6 DEF RunsFresh
    <3> QED BY <3>4, <3>5, <3>6
  <2> QED BY <1>1, <2>1, <2>2 DEF TreesStay, RunsFresh
<1> QED BY <1>2, <1>3

\* A tree judged while it is served was not judged red before.
LEMMA GreenIsNotRedNext ==
  ASSUME TypeOK, OwnInv, LandingInv, RoundInv, Unasked, Indexed, ClimbInv, WaitsApart, RunsFresh, GreenIsNotRed, [Next]_vars
  PROVE  GreenIsNotRed'
<1>1. TreesStay
  BY PlanNext, PlanTrees DEF OwnInv
<1>2. CASE \A f \in DOMAIN families : ~Gate(f)
  <2>1. Handed
    BY <1>2, NoGateHanded
  <2>2. \A f \in DOMAIN families : Winner(f)' => Winner(f)
    <3>1. CASE ~PlanClose
      BY <3>1, WinnersNext DEF Winner
    <3>2. CASE PlanClose /\ fold.steps = <<>>
      BY <3>2, ClosesEmpty DEF Winner
    <3>3. CASE PlanClose /\ fold.steps # <<>>
      <4>1. PICK new \in Nat : /\ new \notin DOMAIN families
                               /\ \A f \in DOMAIN families : families'[f] = families[f]
                               /\ \A f : Serving(f)' => f = new \/ Serving(f)
        BY <3>3, FoldCloses DEF OwnInv
      <4> QED BY <4>1 DEF Winner, Landed
    <3> QED BY <3>1, <3>2, <3>3
  <2>3. ASSUME NEW f \in DOMAIN families', NEW g \in DOMAIN families', Winner(f)', Green(f)', FreshRed(g)'
        PROVE  FamilyTree(f)' # FamilyTree(g)'
    <3>1. f \in DOMAIN families /\ Green(f) /\ g \in DOMAIN families /\ FreshRed(g)
      BY <2>1, <2>3, NoNewVerdict
    <3> QED BY <1>1, <2>2, <2>3, <3>1 DEF TreesStay, GreenIsNotRed
  <2> QED BY <2>3 DEF GreenIsNotRed
<1>3. ASSUME NEW h \in DOMAIN families, Gate(h) PROVE GreenIsNotRed'
  <2>1. /\ DOMAIN families' = DOMAIN families /\ \A g \in DOMAIN families \ {h} : families'[g] = families[g]
        /\ Green(h)' \/ FreshRed(h)' =>
             \/ families[h].future = "running"
             \/ (Green(h)' <=> Green(h)) /\ (FreshRed(h)' <=> FreshRed(h))
        /\ ~(Green(h)' /\ FreshRed(h)')
    BY <1>3, GateVerdicts
  <2>2. \A f \in DOMAIN families : Winner(f)' => Winner(f)
    <3>1. UNCHANGED <<thread, pc>>
      BY <1>3, GateKinds
    <3>2. \A f : Serving(f)' <=> Serving(f)
      BY <3>1 DEF thread, Serving, AtHand
    <3>3. NoneLands
      BY <1>3, GateQuiet DEF Quiet
    <3>4. \A f \in DOMAIN families : Landed(f)' => Landed(f)
      BY <2>1, <3>3 DEF NoneLands, Landed
    <3> QED BY <3>2, <3>4 DEF Winner
  <2>3. ASSUME NEW f \in DOMAIN families, NEW g \in DOMAIN families, Winner(f), Green(f)', FreshRed(g)'
        PROVE  FamilyTree(f) # FamilyTree(g)
    <3>1. f # h => Green(f)
      BY <2>1, <2>3 DEF Green, Judged
    <3>2. g # h => FreshRed(g)
      BY <2>1, <2>3 DEF FreshRed, Judged
    <3>3. CASE f # h /\ g # h
      BY <2>3, <3>1, <3>2, <3>3 DEF GreenIsNotRed
    <3>4. CASE f = h /\ g # h
      <4>1. FreshRed(g) /\ (families[f].future = "running" \/ Green(f))
        BY <2>1, <2>3, <3>2, <3>4
      <4> QED BY <2>3, <4>1 DEF RunsFresh, GreenIsNotRed
    <3>5. CASE f # h /\ g = h
      <4>1. Green(f) /\ (families[g].future = "running" \/ FreshRed(g))
        BY <2>1, <2>3, <3>1, <3>5
      <4>2. f < g \/ g < f
        BY <3>5, BatchTyped
      <4>3. CASE f < g
        BY <2>3, <4>3 DEF ClimbInv, ClimbApart, Authored
      <4>4. CASE g < f
        BY <2>3, <4>1, <4>4 DEF Waits, WaitsApart, GreenIsNotRed
      <4> QED BY <4>2, <4>3, <4>4
    <3>6. CASE f = h /\ g = h
      BY <2>1, <2>3, <3>6
    <3> QED BY <3>3, <3>4, <3>5, <3>6
  <2> QED BY <1>1, <2>1, <2>2, <2>3 DEF TreesStay, GreenIsNotRed
<1> QED BY <1>2, <1>3

\* A tree that a gate of the run found red is never landed as a gated family, in every
\* behaviour in which no two gates are between taking the index of a row and adding it
\* (gate_family, red_trees): whatever is planned, gated or bisected beside it meanwhile.
THEOREM RedTreesNeverLand == Spec /\ []RecordsApart => []RedTreeNeverLanded
<1> DEFINE TreesInv == /\ Drained /\ Emptied /\ Unasked /\ SeenInv /\ Folds /\ ClimbInv /\ PendServed /\ PartsInv
                       /\ WaitsApart /\ LandsGreen
           RedInv == Indexed /\ RunsFresh /\ GreenIsNotRed
<1>1. Init => TreesInv /\ RedInv
  <2> SUFFICES ASSUME Init PROVE TreesInv /\ RedInv
    OBVIOUS
  <2>1. /\ families = <<>> /\ gates = <<>> /\ red = {} /\ pc = "snapshot" /\ batch = <<>> /\ ~settling /\ stack = <<>>
    BY DEF Init
  <2>2. DOMAIN families = {} /\ DOMAIN gates = {}
    BY <2>1
  <2>3. SeenInv
    <3>1. main = <<[tree |-> {}, by |-> 0]>> /\ Tip = 1 /\ DOMAIN main = {1} /\ main[1].tree = {}
      BY DEF Init, Tip
    <3>2. PICK stacking \in Stackings :
            pulls = [p \in PR |-> [open |-> TRUE, label |-> FALSE, head |-> [lanes |-> stacking[p] \X {0}, base |-> 1]]]
      BY DEF Init
    <3>3. \A p \in PR : SeenCommit(pulls[p].head)
      <4> SUFFICES ASSUME NEW p \in PR PROVE SeenCommit(pulls[p].head)
        OBVIOUS
      <4>1. pulls[p].head.base = 1 /\ pulls[p].head.lanes = stacking[p] \X {0}
        BY <3>2
      <4>2. \A x \in stacking[p] \X {0} : x[1] # 0
        BY PRAssumption, StackingsAssumption
      <4> QED BY <3>1, <4>1, <4>2 DEF SeenCommit, Foreign
    <3>4. \A p \in PR : SeenCommit(rows[p])
      BY <3>1 DEF Init, NoCommit, SeenCommit, Foreign
    <3> QED BY <3>1, <3>3, <3>4 DEF SeenInv, Rising
  <2>4. Drained /\ Emptied /\ Unasked /\ PendServed /\ PartsInv /\ WaitsApart /\ LandsGreen
    BY <2>1, <2>2 DEF Drained, BetweenRounds, Emptied, Unasked, PendServed, PartsInv, Bisecting, WaitsApart, LandsGreen, Landing
  <2>5. Folds /\ ClimbInv
    BY <2>1, <2>2 DEF Folds, ClimbInv, ServesNone, ClimbApart, ClimbUp, ClimbHolds
  <2>6. RedInv
    BY <2>1, <2>2 DEF Indexed, RunsFresh, GreenIsNotRed
  <2> QED BY <2>3, <2>4, <2>5, <2>6
<1>2. TypeOK /\ LandingInv /\ RoundInv /\ OwnInv /\ TreesInv /\ [Next]_vars => TreesInv'
  BY DrainedNext, EmptiedNext, UnaskedNext, SeenNext, FoldsNext, ClimbInvNext, PendServedNext, PartsInvNext,
     WaitsApartNext, GreenNext
<1>3. TypeOK /\ LandingInv /\ RoundInv /\ OwnInv /\ TreesInv /\ RedInv /\ RecordsApart /\ [Next]_vars => RedInv'
  BY IndexedNext, RunsFreshNext, GreenIsNotRedNext DEF OwnInv
<1>4. RoundInv /\ TreesInv /\ RedInv => RedTreeNeverLanded
  <2> SUFFICES ASSUME RoundInv, TreesInv, RedInv, NEW f \in DOMAIN families, Landed(f),
                      NEW i \in DOMAIN gates, gates[i].verdict = "red", gates[i].reused = 0
               PROVE  gates[i].tree # FamilyTree(f)
    BY DEF RedTreeNeverLanded
  <2>1. Winner(f) /\ Green(f)
    BY DEF RoundInv, LandedRests, LandsGreen, Winner, Green, Judged
  <2>2. PICK g \in DOMAIN families : families[g].future = "done" /\ gates[i] = RowOf(g)
    BY DEF Indexed, RowOwn
  <2>3. FreshRed(g) /\ gates[i].tree = families[g].result.tree
    BY <2>2 DEF RowOf, FreshRed, Judged
  <2>4. families[g].result.tree = FamilyTree(g)
    BY <2>2 DEF Indexed, IndexOwn, Judged
  <2> QED BY <2>1, <2>3, <2>4 DEF GreenIsNotRed
<1> HIDE DEF TreesInv, RedInv
<1> QED BY <1>1, <1>2, <1>3, <1>4, TrainTypeOK, TrainLandingInv, RoundAlways, OwnAlways, PTL DEF Spec

---------------------------------------------------------------------------
(* A run that gates one family at a time.                                  *)

Live(f) == families[f].future \in {"queued", "running", "recording"}

\* Only the family the run gates itself, or the first of the round it collects, is with
\* a gate.
SingleGate ==
  \A f \in DOMAIN families : Live(f) =>
    (pc = "gate" /\ f = cur) \/ (pc = "collect" /\ batch # <<>> /\ f = batch[1])

\* Nobody but the steps that hand it to the gates brings a family to a gate.
LEMMA LiveNext ==
  ASSUME TypeOK, Unasked, [Next]_vars
  PROVE  \A g \in DOMAIN families' : Live(g)' => g \in DOMAIN families /\ (Live(g) \/ (Submit /\ Serving(g)))
<1>1. CASE \E f \in DOMAIN families : Gate(f)
  <2>1. PICK f \in DOMAIN families : Gate(f)
    BY <1>1
  <2> QED BY <2>1, GateKinds, GateAsked DEF Live
<1>2. CASE \A f \in DOMAIN families : ~Gate(f)
  BY <1>2, NoGateHanded DEF Handed, Live
<1> QED BY <1>1, <1>2

\* It is, while a round has one family at the most.
LEMMA SingleGateNext ==
  ASSUME TypeOK, Unasked, SingleGate, Len(batch) <= 1, [Next]_vars
  PROVE  SingleGate'
<1>1. \A g \in DOMAIN families' : Live(g)' => g \in DOMAIN families /\ (Live(g) \/ (Submit /\ Serving(g)))
  BY LiveNext
<1>2. CASE Submit
  <2>1. \A g \in DOMAIN families : ~Live(g)
    BY <1>2 DEF Submit, SingleGate
  <2>2. ASSUME NEW g \in DOMAIN families', Live(g)'
        PROVE  (pc' = "gate" /\ g = cur') \/ (pc' = "collect" /\ batch' # <<>> /\ g = batch'[1])
    <3>1. Serving(g) /\ g \in DOMAIN families /\ pc = "submit"
      BY <1>1, <1>2, <2>1, <2>2 DEF Submit
    <3>2. ~stop
      <4>1. stop => families' = families
        BY <1>2 DEF Submit
      <4> QED BY <2>1, <2>2, <3>1, <4>1 DEF Live
    <3>3. UNCHANGED <<batch, cur>> /\ pc' = (IF settling THEN "gate" ELSE "collect")
          /\ ((g = cur /\ settling) \/ g \in ToSet(batch))
          /\ (settling => g = cur)
      <4>1. UNCHANGED <<batch, cur>> /\ pc' = (IF settling THEN "gate" ELSE "collect")
        BY <1>2, <3>2 DEF Submit
      <4>2. (g = cur /\ settling) \/ g \in ToSet(batch)
        BY <3>1 DEF Serving, AtHand, Landing
      <4>3. settling /\ g # cur => families'[g] = families[g]
        BY <1>2, <3>1, <3>2 DEF Submit
      <4> QED BY <2>1, <2>2, <3>1, <4>1, <4>2, <4>3 DEF Live
    <3>4. CASE settling
      BY <3>3, <3>4
    <3>5. CASE ~settling
      <4>1. PICK i \in DOMAIN batch : g = batch[i]
        BY <3>3, <3>5 DEF ToSet
      <4>2. i = 1 /\ batch # <<>>
        BY <4>1, BatchTyped
      <4> QED BY <3>3, <3>5, <4>1, <4>2
    <3> QED BY <3>4, <3>5
  <2> QED BY <2>2 DEF SingleGate
<1>3. CASE Collect \/ PartGated
  <2>1. \A g \in DOMAIN families : ~Live(g)
    <3>1. CASE Collect
      BY <3>1 DEF Collect, Collected, CollectStopped, CollectDry, CollectGreen, CollectUnread, CollectRed, SingleGate, Live
    <3>2. CASE PartGated
      BY <3>2 DEF PartGated, SingleGate, Live
    <3> QED BY <1>3, <3>1, <3>2
  <2>2. ~Submit
    BY <1>3 DEF Submit, Collect, PartGated
  <2> QED BY <1>1, <2>1, <2>2 DEF SingleGate
<1>4. CASE ~Submit /\ ((\E f \in DOMAIN families : Gate(f)) \/ Disturb \/ Finished \/ UNCHANGED vars)
  <2>1. UNCHANGED <<pc, batch, cur>>
    BY <1>4, GateKinds DEF thread, Disturb, Outside, Finished, vars
  <2> QED BY <1>1, <1>4, <2>1 DEF SingleGate
<1>5. CASE StopEarly \/ Snapshot \/ Pairs \/ Round \/ PlanStep \/ PlanClose \/ PartsDone \/ Part \/ Land \/ Cancel \/ Join
  <2>1. pc \notin {"gate", "collect", "submit"}
    BY <1>5 DEF StopEarly, Snapshot, Pairs, Round, PlanStep, PlanClose, PartsDone, Part, Land, LandCheck, Decide,
       Reobserve, Push, Await, Merge, Confirm, Cancel, Join
  <2>2. \A g \in DOMAIN families : ~Live(g)
    BY <2>1 DEF SingleGate
  <2>3. ~Submit
    BY <2>1 DEF Submit
  <2> QED BY <1>1, <2>2, <2>3 DEF SingleGate
<1> QED BY <1>2, <1>3, <1>4, <1>5 DEF Next, Train

\* As long as no round has more than one family, no two gates are at their rows at once.
LEMMA OneGateAtATime == Spec /\ [](Len(batch) <= 1) => []RecordsApart
<1>1. Init => Unasked /\ SingleGate
  BY DEF Init, Unasked, SingleGate
<1>2. TypeOK /\ LandingInv /\ RoundInv /\ Unasked /\ [Next]_vars => Unasked'
  BY UnaskedNext
<1>3. TypeOK /\ Unasked /\ SingleGate /\ Len(batch) <= 1 /\ [Next]_vars => SingleGate'
  BY SingleGateNext
<1>4. SingleGate => RecordsApart
  BY DEF SingleGate, RecordsApart, Live
<1> QED BY <1>1, <1>2, <1>3, <1>4, TrainTypeOK, TrainLandingInv, RoundAlways, PTL DEF Spec

\* Where a family may hold the whole queue, a round has one.
Undivided ==
  /\ Len(batch) <= 1
  /\ pc = "plan" /\ ~settling => batch = <<>> /\ fold.rest = <<>>

\* A queue without repetitions is no longer than there are pull requests.
LEMMA QueueFits == ASSUME TypeOK, IsInjective(queue) PROVE Len(queue) \in Nat /\ Len(queue) <= Cardinality(PR)
<1>1. queue \in Seq(PR) /\ Len(queue) \in Nat /\ DOMAIN queue = 1..Len(queue) /\ queue \in [1..Len(queue) -> PR]
  BY LenProperties DEF TypeOK, ThreadTyped
<1>2. queue \in Injection(1..Len(queue), PR)
  BY <1>1 DEF Injection
<1>3. Cardinality(1..Len(queue)) <= Cardinality(PR)
  BY <1>2, FS_Injection, PRAssumption
<1>4. Cardinality(1..Len(queue)) = Len(queue)
  BY <1>1, FS_Interval
<1> QED BY <1>1, <1>3, <1>4

\* The first chunk takes the whole queue, and leaves nothing for another (round).
LEMMA UndividedNext ==
  ASSUME TypeOK, InOrder, PlacesInv, \A size \in FamilySizes : Cardinality(PR) <= size, Undivided, [Next]_vars
  PROVE  Undivided'
<1>1. batch \in Seq(Nat) /\ Len(batch) \in Nat
  BY BatchTyped
<1>2. CASE Round
  <2>1. CASE pc' # "plan"
    BY <1>2, <2>1 DEF Round, RunUnread, thread, Undivided
  <2>2. CASE pc' = "plan"
    <3>1. /\ batch' = <<>> /\ pc = "round"
          /\ \E size \in FamilySizes : fold'.rest = From(queue, size + 1)
      BY <1>2, <2>2 DEF Round, RunUnread
    <3>2. PICK size \in FamilySizes : fold'.rest = From(queue, size + 1)
      BY <3>1
    <3>3. Len(queue) \in Nat /\ Len(queue) <= Cardinality(PR)
      BY <3>1, QueueFits DEF PlacesInv, QueueOnce
    <3>4. size \in Nat /\ Cardinality(PR) <= size /\ Cardinality(PR) \in Nat
      BY SizesAssumption, PRAssumption, FS_CardinalityType
    <3>5. fold'.rest = <<>>
      BY <3>2, <3>3, <3>4, SubSeqEmpty DEF From
    <3> QED BY <3>1, <3>5 DEF Undivided
  <2> QED BY <2>1, <2>2
<1>3. CASE PlanStep
  <2>1. fold \in Folding
    BY FoldTyped
  <2>2. UNCHANGED <<batch, pc, settling>> /\ fold'.rest = fold.rest
    BY <1>3, <2>1 DEF PlanStep, Untouched, Folding
  <2> QED BY <2>2 DEF Undivided
<1>4. CASE PlanClose
  <2>1. settling' = settling /\ pc = "plan"
    BY <1>4 DEF PlanClose
  <2>2. CASE settling
    <3>1. batch' = batch
      BY <1>4, <2>2 DEF PlanClose
    <3> QED BY <2>1, <2>2, <3>1 DEF Undivided
  <2>3. CASE ~settling
    <3>1. pc' # "plan" /\ batch = <<>> /\ batch' \in {batch, Append(batch, Len(families) + 1)}
      BY <1>4, <2>1, <2>3 DEF PlanClose, AfterFold, Undivided
    <3>2. PICK new \in Nat : batch' = batch \/ batch' = Append(batch, new)
      <4>1. Len(families) + 1 \in Nat
        BY BatchTyped
      <4> QED BY <3>1, <4>1
    <3>3. Len(batch) = 0
      BY <3>1
    <3>4. Len(Append(batch, new)) = 1
      BY <1>1, <3>3, AppendProperties
    <3>5. Len(batch') <= 1
      BY <3>2, <3>3, <3>4
    <3> QED BY <3>1, <3>5 DEF Undivided
  <2> QED BY <2>2, <2>3
<1>5. CASE (\E f \in DOMAIN families : Gate(f)) \/ Disturb \/ Finished \/ UNCHANGED vars
  <2>1. UNCHANGED <<pc, batch, settling, fold>>
    BY <1>5, GateKinds DEF thread, Disturb, Outside, Finished, vars
  <2> QED BY <2>1 DEF Undivided
<1>6. CASE StopEarly \/ Snapshot \/ Pairs \/ Submit \/ Collect \/ PartsDone \/ Part \/ PartGated \/ Land \/ Cancel \/ Join
  <2>1. pc' = "plan" => settling'
    BY <1>6, OtherwisePlanned DEF Part
  <2>2. batch' = batch \/ batch' = <<>> \/ (batch # <<>> /\ batch' = Tail(batch))
    <3>1. CASE StopEarly \/ Snapshot \/ PartsDone \/ Part \/ PartGated \/ Cancel \/ Submit
      BY <3>1 DEF StopEarly, Snapshot, RunUnread, PartsDone, Part, PartGated, Cancel, Submit, thread
    <3>2. CASE Pairs \/ Join
      BY <3>2 DEF Pairs, Join
    <3>3. CASE Collect
      BY <3>3 DEF Collect, CollectStopped, CollectDry, CollectGreen, CollectUnread, CollectRed, TypeOK, Pointers
    <3>4. CASE LandCheck \/ Decide \/ Reobserve \/ Push \/ Await \/ Merge
      BY <3>4 DEF LandCheck, Decide, Reobserve, Push, Await, Merge, ReadFails, Withheld, Leave
    <3>5. CASE Confirm
      <4>1. settling \/ batch # <<>>
        BY <3>5, LandingPointers DEF Confirm, Landing
      <4> QED BY <3>5, <4>1 DEF Confirm, Leave
    <3> QED BY <1>6, <3>1, <3>2, <3>3, <3>4, <3>5 DEF Land
  <2>3. Len(batch') <= 1
    <3>1. CASE batch # <<>> /\ batch' = Tail(batch)
      BY <1>1, <3>1, ListHead DEF Undivided
    <3> QED BY <1>1, <2>2, <3>1 DEF Undivided
  <2> QED BY <2>1, <2>3 DEF Undivided
<1> QED BY <1>2, <1>3, <1>4, <1>5, <1>6 DEF Next, Train

\* Where every family may hold the whole queue no two gates are at their rows at once.
LEMMA UndividedApart ==
  ASSUME \A size \in FamilySizes : Cardinality(PR) <= size
  PROVE  Spec => []RecordsApart
<1>1. Init => Undivided
  BY DEF Init, Undivided
<1>2. TypeOK /\ RoundInv /\ PlacesInv /\ Undivided /\ [Next]_vars => Undivided'
  BY UndividedNext DEF RoundInv
<1>3. Undivided => Len(batch) <= 1
  BY DEF Undivided
<1> QED BY <1>1, <1>2, <1>3, OneGateAtATime, TrainTypeOK, RoundAlways, PlacesAlways, PTL DEF Spec

\* Where every family may hold the whole queue, as a run is configured that does not
\* speculate, nothing races: a decision is taken on the green row of the family that
\* lands, and a tree found red never lands (round, gate_family).
THEOREM NoRaceWithoutSpeculation ==
  ASSUME \A size \in FamilySizes : Cardinality(PR) <= size
  PROVE  Spec => []DecidedOnOwnGate /\ []RedTreeNeverLanded
BY UndividedApart, DecidesOnOwnGate, RedTreesNeverLand, PTL

---------------------------------------------------------------------------
(* The base is kept the promise of GatedBase.                              *)

\* What is left of a list at one of its places.
LEMMA LeftAt ==
  ASSUME NEW S, NEW q \in Seq(S), NEW i \in DOMAIN q
  PROVE  /\ From(q, i) # <<>> /\ Head(From(q, i)) = q[i]
         /\ From(q, i)[Len(From(q, i))] = q[Len(q)]
         /\ Tail(From(q, i)) = From(q, i + 1)
         /\ From(q, i + 1) = <<>> <=> i = Len(q)
<1>1. Len(q) \in Nat /\ i \in 1..Len(q)
  BY ListedAt
<1>2. PICK h \in Nat : h + 1 = i /\ h <= Len(q)
  <2>1. i - 1 \in Nat /\ (i - 1) + 1 = i /\ i - 1 <= Len(q)
    BY <1>1
  <2> QED BY <2>1
<1>3. /\ From(q, i) \in Seq(S) /\ Len(From(q, i)) = Len(q) - h
      /\ \A j \in 1..(Len(q) - h) : From(q, i)[j] = q[h + j]
  BY <1>2, ListBehind
<1>4. Len(q) - h \in 1..(Len(q) - h) /\ h + (Len(q) - h) = Len(q) /\ 1 \in 1..(Len(q) - h) /\ Len(q) - h # 0
  BY <1>1, <1>2
<1>5. From(q, i) # <<>> /\ From(q, i)[1] = q[i] /\ From(q, i)[Len(From(q, i))] = q[Len(q)]
  BY <1>2, <1>3, <1>4, EmptySeq
<1>6. Head(From(q, i)) = From(q, i)[1]
  BY <1>3, <1>5, ListHead
<1>7. i \in Nat /\ i <= Len(q)
  BY <1>1
<1>8. From(q, i + 1) \in Seq(S) /\ Len(From(q, i + 1)) = Len(q) - i
  BY <1>7, ListBehind
<1>9. From(q, i + 1) = <<>> <=> i = Len(q)
  BY <1>1, <1>8, EmptySeq
<1> QED BY <1>5, <1>6, <1>9, ListFrom

\* What is left to land of a family, from one of its members on.
LEMMA LeftOf ==
  ASSUME TypeOK, NEW f \in DOMAIN families, NEW i \in DOMAIN families[f].steps
  PROVE  /\ From(Commits(f), i) # <<>>
         /\ Head(From(Commits(f), i)).tree = families[f].steps[i].commit.lanes
         /\ Head(From(Commits(f), i)).by = families[f].steps[i].pr
         /\ From(Commits(f), i)[Len(From(Commits(f), i))].tree = FamilyTree(f)
         /\ Tail(From(Commits(f), i)) = From(Commits(f), i + 1)
         /\ From(Commits(f), i + 1) = <<>> <=> i = Len(families[f].steps)
<1> DEFINE row(k) == [tree |-> families[f].steps[k].commit.lanes, by |-> families[f].steps[k].pr]
           Rows == {row(k) : k \in DOMAIN families[f].steps}
<1>1. families[f].steps \in Seq(Step) /\ families[f].steps # <<>>
  BY MembersTyped DEF TypeOK, Pointers
<1>2. DOMAIN families[f].steps = 1..Len(families[f].steps) /\ Len(families[f].steps) \in Nat \ {0}
  BY <1>1, LenProperties, EmptySeq
<1>3. Commits(f) = [k \in 1..Len(families[f].steps) |-> row(k)]
  BY <1>2 DEF Commits
<1>4. \A k \in 1..Len(families[f].steps) : row(k) \in Rows
  BY <1>2
<1>5. \A k \in DOMAIN families[f].steps : row(k).tree = families[f].steps[k].commit.lanes
                                         /\ row(k).by = families[f].steps[k].pr
  OBVIOUS
<1> HIDE DEF row, Rows
<1>6. Commits(f) \in [1..Len(families[f].steps) -> Rows]
  BY <1>3, <1>4
<1>7. Commits(f) \in Seq(Rows)
  BY <1>2, <1>6, SeqDef
<1>8. Len(Commits(f)) = Len(families[f].steps)
  BY <1>2, <1>6, <1>7, LenProperties
<1>9. i \in DOMAIN Commits(f) /\ Commits(f)[i] = row(i) /\ Commits(f)[Len(Commits(f))] = row(Len(families[f].steps))
  BY <1>2, <1>3, <1>8
<1>10. Len(families[f].steps) \in DOMAIN families[f].steps
  BY <1>2
<1>11. /\ From(Commits(f), i) # <<>> /\ Head(From(Commits(f), i)) = row(i)
       /\ From(Commits(f), i)[Len(From(Commits(f), i))] = row(Len(families[f].steps))
       /\ Tail(From(Commits(f), i)) = From(Commits(f), i + 1)
       /\ From(Commits(f), i + 1) = <<>> <=> i = Len(families[f].steps)
  BY <1>7, <1>8, <1>9, LeftAt
<1> QED BY <1>5, <1>10, <1>11 DEF FamilyTree

\* Whoever else reached the base since the member was checked came from outside.
SinceCheck == pc \in Readied => \A i \in DOMAIN main : i > expected => main[i].by = 0

\* Between the check of a member and its merge only the outside puts commits on the base.
LEMMA SinceCheckNext == ASSUME TypeOK, SinceCheck, [Next]_vars PROVE SinceCheck'
<1> SUFFICES ASSUME pc' \in Readied PROVE \A i \in DOMAIN main' : i > expected' => main'[i].by = 0
  BY DEF SinceCheck
<1>1. CASE LandCheck
  <2>1. ~(\E s, b : Leave(s, b))
    BY DEF Leave, Readied
  <2>2. Tip = expected /\ UNCHANGED <<main, expected>>
    BY <1>1, <2>1 DEF LandCheck, Withheld, ReadFails
  <2>3. \A i \in DOMAIN main : i <= Tip
    BY LenProperties DEF TypeOK, RemoteTyped, Tip
  <2>4. expected \in Nat /\ \A i \in DOMAIN main : i \in Nat
    BY LenProperties DEF TypeOK, RemoteTyped, ThreadTyped
  <2> QED BY <2>2, <2>3, <2>4
<1>2. CASE ~LandCheck
  <2>1. pc \in Readied /\ expected' = expected
    BY <1>2, ReadiedSteps DEF vars, thread
  <2>2. \A i \in DOMAIN main : i > expected => main[i].by = 0
    BY <2>1 DEF SinceCheck
  <2>3. CASE OutsideCommit
    <3>1. PICK added \in {{}, {<<0, Tip>>}} : main' = Append(main, [tree |-> main[Tip].tree \union added, by |-> 0])
      BY <2>3 DEF OutsideCommit
    <3> DEFINE r == [tree |-> main[Tip].tree \union added, by |-> 0]
    <3>2. main[Tip].tree \in Tree /\ Tip \in Nat
      BY TipTyped, MainIndex DEF TypeOK, BaseRow
    <3>3. r \in BaseRow
      <4>1. added \subseteq Lane
        BY <3>2 DEF Lane
      <4> QED BY <3>2, <4>1 DEF BaseRow, Tree
    <3>4. r.by = 0
      OBVIOUS
    <3>5. main' = Append(main, r)
      BY <3>1
    <3> HIDE DEF r
    <3>6. /\ Grown /\ DOMAIN main' = DOMAIN main \union {Tip + 1} /\ main'[Tip + 1] = r
      BY <3>3, <3>5, Appended
    <3> QED BY <2>1, <2>2, <3>4, <3>6 DEF Grown
  <2>4. CASE main' = main
    BY <2>1, <2>2, <2>4
  <2>5. ~Merge
    BY DEF Merge, ReadFails, Leave, Readied
  <2> QED BY <2>3, <2>4, <2>5, BaseSteps DEF vars, world
<1> QED BY <1>1, <1>2

\* A green verdict is a gate's own, and never a copied row.
GreenOwn == \A f \in DOMAIN families : Green(f) => families[f].result.reused = 0

\* The copied rows are red ones.
LEMMA GreenOwnNext ==
  ASSUME TypeOK, Unasked, Indexed, GreenOwn, [Next]_vars
  PROVE  GreenOwn'
<1>1. CASE \A f \in DOMAIN families : ~Gate(f)
  <2>1. Handed
    BY <1>1, NoGateHanded
  <2>2. \A f \in DOMAIN families' : Green(f)' => f \in DOMAIN families /\ Green(f)
    BY <2>1, NoNewVerdict
  <2> QED BY <2>1, <2>2 DEF GreenOwn, Handed, RowsStay, SameRow
<1>2. ASSUME NEW h \in DOMAIN families, Gate(h) PROVE GreenOwn'
  <2>1. /\ DOMAIN families' = DOMAIN families /\ \A g \in DOMAIN families \ {h} : families'[g] = families[g]
        /\ SetsOff(h) \/ Copies(h) \/ Judges(h) \/ Records(h)
    BY <1>2, GateKinds
  <2>2. Green(h)' => families'[h].result.reused = 0
    <3>1. CASE SetsOff(h)
      BY <3>1 DEF SetsOff, Green, Judged
    <3>2. CASE Copies(h)
      <4>1. PICK known \in KnownRed(FamilyTree(h)) :
              known.gate \in DOMAIN gates /\ Takes(h, gates[known.gate].verdict, gates[known.gate].tree, known.gate)
        BY <3>2 DEF Copies
      <4>2. gates[known.gate].verdict = "red"
        BY <4>1, RowsTyped DEF Indexed, RedRow, KnownRed
      <4> QED BY <4>1, <4>2 DEF Takes, Green
    <3>3. CASE Judges(h)
      BY <3>3 DEF Judges, Takes
    <3>4. CASE Records(h)
      BY <3>4 DEF Records, Green, Judged, GreenOwn
    <3> QED BY <2>1, <3>1, <3>2, <3>3, <3>4
  <2> QED BY <2>1, <2>2 DEF GreenOwn, Green, Judged
<1> QED BY <1>1, <1>2

\* What the proof of the refinement knows of a state.
PromiseInv ==
  /\ LandingInv /\ UnseenInv /\ RoundInv /\ Unasked /\ Indexed /\ LandsGreen /\ SinceCheck /\ GreenOwn

\* The tree of a family whose gate has ended green passed a gate.
LEMMA GreenPassed ==
  ASSUME PromiseInv, NEW f \in DOMAIN families, families[f].future = "done", families[f].result.verdict = "green"
  PROVE  FamilyTree(f) \in Passed
<1>1. Judged(f) /\ Green(f)
  BY DEF Judged, Green
<1>2. families[f].result.tree = FamilyTree(f) /\ PassedGate(f)
  BY <1>1 DEF PromiseInv, Indexed, IndexOwn, GreenOwn, PassedGate
<1> QED BY <1>2 DEF Passed

\* Wherever a family has landed whole, the base has its tree, which passed a gate.
LEMMA PromiseLandsGated == ASSUME PromiseInv PROVE LandsGated
<1> SUFFICES ASSUME NEW f \in DOMAIN families, Landed(f)
             PROVE  families[f].landed \in DOMAIN main /\ main[families[f].landed].tree \in Passed
  BY DEF LandsGated, Base!EndsPassed, LandedAt
<1>1. families[f].landed \in DOMAIN main /\ main[families[f].landed].tree = FamilyTree(f)
  BY DEF PromiseInv, LandingInv, Finishes
<1>2. families[f].future = "done" /\ families[f].result.verdict = "green"
  BY DEF PromiseInv, RoundInv, LandedRests, LandsGreen
<1> QED BY <1>1, <1>2, GreenPassed

\* A step of the run's thread or of the outside judges no tree.
LEMMA PassedStays == ASSUME Handed PROVE Passed' = Passed
<1>1. \A f \in DOMAIN families : f \in DOMAIN families' /\ families'[f].result = families[f].result
  BY DEF Handed, RowsStay, SameRow
<1>2. \A f \in DOMAIN families : PassedGate(f)' <=> PassedGate(f)
  BY <1>1 DEF Handed, PassedGate
<1>3. \A f \in DOMAIN families' : f \notin DOMAIN families => ~PassedGate(f)'
  BY DEF Handed, PassedGate
<1> QED BY <1>1, <1>2, <1>3 DEF Passed

\* What passed a gate is not judged again.
LEMMA PassedGrows == ASSUME TypeOK, NEW h \in DOMAIN families, Gate(h) PROVE Passed \subseteq Passed'
<1>1. /\ DOMAIN families' = DOMAIN families /\ \A g \in DOMAIN families \ {h} : families'[g] = families[g]
      /\ SetsOff(h) \/ Copies(h) \/ Judges(h) \/ Records(h)
  BY GateKinds
<1>2. PassedGate(h) => PassedGate(h)' /\ families'[h].result = families[h].result
  BY <1>1 DEF PassedGate, SetsOff, Copies, Judges, Records
<1>3. \A f \in DOMAIN families : PassedGate(f) => PassedGate(f)' /\ families'[f].result = families[f].result
  BY <1>1, <1>2 DEF PassedGate
<1> QED BY <1>1, <1>3 DEF Passed

\* Where no family lands and those that have landed rest, so do the commits they landed with.
LEMMA LandedAtStays ==
  ASSUME NoneLands, \A f \in DOMAIN families : Landed(f) => families'[f].status = "LANDED"
  PROVE  LandedAt' = LandedAt
BY DEF NoneLands, Landed, LandedAt

\* Another status of the family at hand, or none, leaves the landed ones alone.
LEMMA SettingLandedAt ==
  ASSUME RoundInv, pc \in Landing, families' = families \/ \E s : s # "LANDED" /\ families' = Setting(cur, s)
  PROVE  LandedAt' = LandedAt
<1>1. NoneLands
  BY SameLandsNone, SettingLandsNone
<1>2. \A f \in DOMAIN families : Landed(f) => f # cur
  BY DEF RoundInv, LandedRests, Serving, AtHand
<1>3. \A f \in DOMAIN families : Landed(f) => families'[f].status = "LANDED"
  BY <1>2 DEF Setting, Landed
<1> QED BY <1>1, <1>3, LandedAtStays

\* Where the landing at hand stays, so does what is left of it.
LEMMA ToLandStays ==
  ASSUME TypeOK, \A f \in DOMAIN families : f \in DOMAIN families' /\ families'[f].steps = families[f].steps,
         \/ pc \notin Landing /\ pc' \notin Landing
         \/ pc \in Landing /\ pc' \in Landing /\ UNCHANGED <<cur, at>>
  PROVE  ToLand' = ToLand
<1>1. CASE pc \notin Landing /\ pc' \notin Landing
  BY <1>1 DEF ToLand
<1>2. CASE pc \in Landing /\ pc' \in Landing /\ UNCHANGED <<cur, at>>
  <2>1. cur \in DOMAIN families
    BY <1>2, LandingPointers
  <2>2. Commits(cur)' = Commits(cur)
    BY <1>2, <2>1 DEF Commits
  <2> QED BY <1>2, <2>2 DEF ToLand
<1> QED BY <1>1, <1>2

\* A step that leaves the base, what the run has read of it and its landing alone.
LEMMA Judging ==
  ASSUME UNCHANGED <<main, ToLand, expected, ToReadBack, LandedAt, stopped>>, Passed \subseteq Passed'
  PROVE  Base!Next
BY DEF Base!Judge, Base!Next

\* A landing is given up.
LEMMA GivingUp ==
  ASSUME TypeOK, Handed, pc \in Landing, pc' \notin Landing, UNCHANGED <<main, expected, stopped, LandedAt>>
  PROVE  Base!Next
<1>1. ToLand # <<>> /\ ToLand' = <<>> /\ ToReadBack' = 0
  BY LandingPointers, LeftOf DEF ToLand, ToReadBack, Landing
<1>2. Passed' = Passed
  BY PassedStays
<1> QED BY <1>1, <1>2 DEF Base!GiveUp, Base!Next

\* Gates judge, and do nothing else.
LEMMA GatePromise ==
  ASSUME TypeOK, PromiseInv, NEW h \in DOMAIN families, Gate(h)
  PROVE  Base!Next
<1>1. /\ UNCHANGED <<main, pulls, thread, lists, mode, pc, rows, stopped>>
      /\ DOMAIN families' = DOMAIN families /\ \A g \in DOMAIN families \ {h} : families'[g] = families[g]
  BY GateKinds
<1>2. NoneLands
  BY GateQuiet DEF Quiet, PromiseInv
<1>3. ~Landed(h)
  BY GateAsked DEF PromiseInv, RoundInv, LandedRests
<1>4. LandedAt' = LandedAt
  BY <1>1, <1>2, <1>3, LandedAtStays DEF Landed
<1>5. ToLand' = ToLand
  BY <1>1, <1>2, ToLandStays DEF NoneLands, thread
<1>6. ToReadBack' = ToReadBack /\ expected' = expected
  BY <1>1 DEF ToReadBack, thread, lists
<1> QED BY <1>1, <1>4, <1>5, <1>6, PassedGrows, Judging

\* What happens outside puts a commit on the base, or leaves all of it alone.
LEMMA DisturbPromise ==
  ASSUME TypeOK, Handed, Disturb \/ Finished \/ UNCHANGED vars
  PROVE  Base!Next
<1>1. UNCHANGED <<thread, lists, pc, stopped, families>>
  BY DEF Disturb, Outside, Finished, vars
<1>2. UNCHANGED <<ToLand, expected, ToReadBack, LandedAt>>
  BY <1>1 DEF thread, lists, ToLand, Commits, ToReadBack, LandedAt, Landed
<1>3. Passed' = Passed
  BY PassedStays
<1>4. CASE main' = main
  BY <1>1, <1>2, <1>3, <1>4, Judging
<1>5. CASE main' # main
  <2>1. OutsideCommit
    BY <1>5 DEF Disturb, RequestStop, AuthorPush, HoldLabel, Finished, vars, world
  <2>2. PICK added \in {{}, {<<0, Tip>>}} : main' = Append(main, [tree |-> main[Tip].tree \union added, by |-> 0])
    BY <2>1 DEF OutsideCommit
  <2> DEFINE r == [tree |-> main[Tip].tree \union added, by |-> 0]
  <2>3. main[Tip].tree \in Tree /\ Tip \in Nat
    BY TipTyped, MainIndex DEF TypeOK, BaseRow
  <2>4. r \in BaseRow
    <3>1. added \subseteq Lane
      BY <2>3 DEF Lane
    <3> QED BY <2>3, <3>1 DEF BaseRow, Tree
  <2>5. main' = Append(main, r) /\ r.by = 0 /\ main[Tip].tree \subseteq r.tree
    BY <2>2
  <2> HIDE DEF r
  <2>6. main'[Tip + 1] = r /\ Len(main') = Tip + 1
    BY <2>4, <2>5, Appended, AppendProperties DEF TypeOK, RemoteTyped, Tip
  <2> QED BY <1>1, <1>2, <1>3, <2>5, <2>6 DEF Base!Outside, Base!Grows, Base!trains, Base!Next, Tip
<1> QED BY <1>4, <1>5

\* The run between two landings: it reads the base or leaves it alone.
Between == StopEarly \/ Snapshot \/ Pairs \/ Round \/ PlanStep \/ PlanClose \/ Submit
           \/ Collect \/ PartsDone \/ Part \/ PartGated \/ Cancel \/ Join

LEMMA BetweenKeeps ==
  ASSUME TypeOK, PromiseInv, Between
  PROVE  /\ UNCHANGED <<main, stopped, LandedAt>> /\ pc \notin Landing
         /\ expected' = expected \/ (expected' = Tip /\ pc' \notin Landing)
<1>1. Quiet
  BY PlanningQuiet, PlanCloseQuiet, SubmitQuiet, CollectQuiet, PartsQuiet DEF Between, PromiseInv
<1>2. main' = main
  <2>1. CASE StopEarly \/ Snapshot \/ Pairs \/ Round \/ PlanStep \/ PlanClose \/ Submit
    BY <2>1 DEF StopEarly, Snapshot, Pairs, Round, RunUnread, PlanStep, Untouched, PlanClose, Submit, world
  <2>2. CASE Collect \/ PartsDone \/ Part \/ PartGated \/ Cancel \/ Join
    BY <2>2 DEF Collect, CollectStopped, CollectDry, CollectGreen, CollectUnread, CollectRed, ByCollect,
       PartsDone, Part, PartGated, Cancel, Join, world
  <2> QED BY <2>1, <2>2 DEF Between
<1>3. pc \notin Landing
  BY DEF Between, StopEarly, Snapshot, Pairs, Round, PlanStep, PlanClose, Submit, Collect, PartsDone, Part,
     PartGated, Cancel, Join, RunUnread, Landing
<1>4. \A f \in DOMAIN families : Landed(f) => families'[f].status = "LANDED"
  <2>1. CASE PlanClose
    <3>1. families' = families \/ \E new : families' = Append(families, new)
      BY <2>1 DEF PlanClose
    <3>2. \A f \in DOMAIN families : families'[f] = families[f]
      <4>1. families \in Seq(Family) /\ DOMAIN families = 1..Len(families) /\ Len(families) \in Nat
        BY BatchTyped DEF TypeOK, GatesTyped
      <4> QED BY <3>1, <4>1
    <3> QED BY <3>2 DEF Landed
  <2>2. CASE ~PlanClose
    <3>1. Onward
      BY <2>2, PlanningOnward, SubmitOnward, CollectOnward, PartsOnward DEF Between, PromiseInv
    <3> QED BY <3>1 DEF Onward, Respected, PromiseInv, RoundInv, LandedRests, Landed
  <2> QED BY <2>1, <2>2
<1>5. LandedAt' = LandedAt
  BY <1>1, <1>4, LandedAtStays DEF Quiet
<1>6. expected' = expected \/ (expected' = Tip /\ pc' \notin Landing)
  <2>1. CASE StopEarly \/ Snapshot \/ Pairs \/ PlanStep \/ PlanClose \/ Submit
    BY <2>1 DEF StopEarly, Snapshot, Pairs, RunUnread, PlanStep, Untouched, PlanClose, Submit, thread
  <2>2. CASE Collect \/ PartsDone \/ PartGated \/ Cancel \/ Join
    BY <2>2 DEF Collect, CollectStopped, CollectDry, CollectGreen, CollectUnread, CollectRed, ByCollect,
       PartsDone, PartGated, Cancel, Join, thread
  <2>3. CASE Round \/ Part
    BY <2>3 DEF Round, Part, RunUnread, thread, Landing
  <2> QED BY <2>1, <2>2, <2>3 DEF Between
<1> QED BY <1>1, <1>2, <1>3, <1>5, <1>6 DEF Quiet

\* It takes a family up to land only when its gate has ended green.
LEMMA BeginsGreen ==
  ASSUME TypeOK, PromiseInv, Between, pc' \in Landing
  PROVE  /\ UNCHANGED <<families, expected>> /\ at' = 1 /\ pc' = "land" /\ ~stopped
         /\ cur' \in DOMAIN families /\ families[cur'].future = "done" /\ families[cur'].result.verdict = "green"
<1>1. (\E f \in {batch[1]} : CollectGreen(f)) \/ PartGated
  <2>1. CASE StopEarly \/ Snapshot \/ Round \/ PlanStep \/ PlanClose \/ Submit
    BY <2>1 DEF StopEarly, Snapshot, Round, RunUnread, PlanStep, PlanClose, AfterFold, Submit, Landing
  <2>2. CASE Pairs \/ Join
    BY <2>2 DEF Pairs, Choose, Join, Continue, Landing
  <2>3. CASE Collect
    BY <2>3 DEF Collect, CollectStopped, CollectDry, CollectUnread, CollectRed, Landing
  <2>4. CASE PartsDone \/ Part \/ Cancel
    BY <2>4 DEF PartsDone, Part, Cancel, Landing
  <2> QED BY <2>1, <2>2, <2>3, <2>4 DEF Between
<1>2. CASE \E f \in {batch[1]} : CollectGreen(f)
  <2>1. ~stopped
    BY <1>2 DEF CollectGreen, Collected, PromiseInv, LandingInv, StoppedRests
  <2>2. batch[1] \in DOMAIN families
    BY <1>2, BatchHead DEF CollectGreen, Collected, TypeOK, Pointers
  <2> QED BY <1>2, <2>1, <2>2 DEF CollectGreen, Collected, ByCollect
<1>3. CASE PartGated
  <2>1. ~stopped /\ cur \in DOMAIN families
    BY <1>3 DEF PartGated, PromiseInv, LandingInv, StoppedRests, TypeOK, Pointers
  <2> QED BY <1>3, <2>1 DEF PartGated, ByCollect, Landing
<1> QED BY <1>1, <1>2, <1>3

LEMMA BetweenPromise ==
  ASSUME TypeOK, PromiseInv, Handed, Between
  PROVE  Base!Next
<1>1. /\ UNCHANGED <<main, stopped, LandedAt>> /\ pc \notin Landing
      /\ expected' = expected \/ (expected' = Tip /\ pc' \notin Landing)
  BY BetweenKeeps
<1>2. Passed' = Passed
  BY PassedStays
<1>3. ToLand = <<>> /\ ToReadBack = 0
  BY <1>1 DEF ToLand, ToReadBack, Landing
<1>4. CASE pc' \notin Landing
  <2>1. ToLand' = <<>> /\ ToReadBack' = 0
    BY <1>4 DEF ToLand, ToReadBack, Landing
  <2>2. CASE expected' = expected
    BY <1>1, <1>2, <1>3, <2>1, <2>2, Judging
  <2>3. CASE expected' = Tip
    BY <1>1, <1>2, <1>3, <2>1, <2>3 DEF Base!Look, Base!Next, Tip
  <2> QED BY <1>1, <2>2, <2>3
<1>5. CASE pc' \in Landing
  <2>1. /\ UNCHANGED <<families, expected>> /\ at' = 1 /\ pc' = "land" /\ ~stopped
        /\ cur' \in DOMAIN families /\ families[cur'].future = "done" /\ families[cur'].result.verdict = "green"
    BY <1>5, BeginsGreen
  <2>2. PICK f \in DOMAIN families : f = cur'
    BY <2>1
  <2>3. FamilyTree(f) \in Passed
    BY <2>1, <2>2, GreenPassed
  <2>4. 1 \in DOMAIN families[f].steps
    <3>1. families[f].steps \in Seq(Step) /\ families[f].steps # <<>>
      BY MembersTyped DEF TypeOK, Pointers
    <3> QED BY <3>1, ListHead
  <2>5. ToLand' = From(Commits(f), 1) /\ ToReadBack' = 0
    BY <1>5, <2>1, <2>2 DEF ToLand, Commits, ToReadBack
  <2>6. ToLand' # <<>> /\ (ToLand[Len(ToLand)])'.tree \in Passed
    BY <2>3, <2>4, <2>5, LeftOf
  <2> QED BY <1>1, <1>2, <1>3, <2>1, <2>5, <2>6 DEF Base!Begin, Base!Next
<1> QED BY <1>4, <1>5

\* A landing before its merge is given up, or goes on and touches nothing of the base.
LEMMA LandingPromise ==
  ASSUME TypeOK, PromiseInv, Handed, LandCheck \/ Decide \/ Reobserve \/ Push \/ Await
  PROVE  Base!Next
<1>1. /\ UNCHANGED <<main, merges, stopped, cur, at, expected>> /\ pc \in Landing /\ pc # "confirm"
      /\ \/ ReadFails \/ Withheld \/ Leave(StopStatus("REQUEUED"), Rest)
            \/ Leave(StopStatus("RETRY"), <<>>)
         \/ /\ pc' \in {"decide", "push", "recheck", "reread", "await", "merge"}
            /\ UNCHANGED families
  BY DEF LandCheck, Decide, Reobserve, Push, Await, ByLanding, world, Landing
<1>2. Passed' = Passed
  BY PassedStays
<1>3. CASE ReadFails \/ Withheld \/ Leave(StopStatus("REQUEUED"), Rest) \/ Leave(StopStatus("RETRY"), <<>>)
  <2>1. pc' \notin Landing /\ \E s : s # "LANDED" /\ families' = Setting(cur, s)
    BY <1>3 DEF ReadFails, Withheld, Leave, StopStatus, Landing
  <2>2. LandedAt' = LandedAt
    BY <1>1, <2>1, SettingLandedAt DEF PromiseInv
  <2> QED BY <1>1, <2>1, <2>2, GivingUp
<1>4. CASE /\ pc' \in {"decide", "push", "recheck", "reread", "await", "merge"}
           /\ UNCHANGED families
  <2>1. ToLand' = ToLand /\ LandedAt' = LandedAt
    BY <1>1, <1>4, ToLandStays, SettingLandedAt DEF PromiseInv, Landing
  <2>2. ToReadBack' = ToReadBack
    BY <1>1, <1>4 DEF ToReadBack
  <2> QED BY <1>1, <1>2, <2>1, <2>2, Judging
<1> QED BY <1>1, <1>3, <1>4

\* What the merge puts on the base is the planned commit, on top of what came from outside.
LEMMA MergeCommits ==
  ASSUME TypeOK, PromiseInv, pc = "merge", GitHubAccepts(N, Prepared),
         main' = Append(main, [tree |-> main[Tip].tree \union pulls[N].head.lanes, by |-> N])
  PROVE  Base!Commit(Head(ToLand))
<1> DEFINE r == [tree |-> main[Tip].tree \union pulls[N].head.lanes, by |-> N]
<1>1. /\ pc \in Landing /\ N \in PR /\ expected \in DOMAIN main /\ ~stopped /\ pc \in Readied
      /\ cur \in DOMAIN families /\ at \in DOMAIN families[cur].steps
  BY LandingPointers DEF Landing, Readied, TypeOK, Pointers, PromiseInv, LandingInv, StoppedRests
<1>2. Head(ToLand).by = N /\ Head(ToLand).tree = Planned.commit.lanes
  BY <1>1, LeftOf DEF ToLand, Planned, N
<1>3. Prepared \in Commit /\ pulls[N].head = Prepared /\ Prepared.lanes = Planned.commit.lanes
  BY <1>1, LandingPointers DEF GitHubAccepts, PromiseInv, UnseenInv, AsPrepared
<1>4. main[expected].tree \subseteq Prepared.lanes
  <2>1. rows[N] \in Commit /\ BaseCommit(expected) \in Commit
    BY <1>1, HeadsTyped, BaseCommitTyped DEF TypeOK
  <2>2. Prepared.lanes = BaseCommit(expected).lanes \union rows[N].lanes
    BY <2>1, JoinedLanes DEF Prepared
  <2> QED BY <2>2 DEF BaseCommit
<1>5. main[Tip] \in BaseRow /\ main \in Seq(BaseRow) /\ Tip = Len(main)
  BY TipTyped, MainIndex DEF TypeOK, RemoteTyped, Tip
<1>6. r \in BaseRow
  BY <1>1, <1>3, <1>5 DEF BaseRow, Commit, Tree
<1>7. r.by = N /\ r.tree = main[Tip].tree \union Planned.commit.lanes
  BY <1>3
<1>8. main' = Append(main, r)
  OBVIOUS
<1> HIDE DEF r
<1>9. Len(main') = Len(main) + 1 /\ main'[Len(main) + 1] = r
  BY <1>5, <1>6, <1>8, AppendProperties
<1>10. ToReadBack = 0
  BY DEF ToReadBack
<1>11. \A i \in DOMAIN main : i > expected => main[i].by = 0
  BY <1>1 DEF PromiseInv, SinceCheck
<1>12. Base!Grows(N)
  BY <1>5, <1>7, <1>8, <1>9 DEF Base!Grows
<1>13. main'[Len(main')] = r
  BY <1>9
<1>14. expected = Len(main) => r.tree = Planned.commit.lanes
  BY <1>3, <1>4, <1>5, <1>7
<1> QED BY <1>1, <1>2, <1>5, <1>7, <1>10, <1>11, <1>12, <1>13, <1>14 DEF Base!Commit

\* The merge lands the next commit, loses the answer, or is given up.
LEMMA MergePromise ==
  ASSUME TypeOK, PromiseInv, Handed, Merge
  PROVE  Base!Next
<1>1. /\ pc = "merge" /\ pc \in Landing /\ UNCHANGED <<cur, at, expected, stopped>>
      /\ cur \in DOMAIN families /\ at \in DOMAIN families[cur].steps
  BY LandingPointers DEF Merge, ByLanding, Landing
<1>2. Passed' = Passed
  BY PassedStays
<1>3. ToLand # <<>> /\ ToReadBack = 0
  BY <1>1, LeftOf DEF ToLand, ToReadBack
<1>4. ASSUME ReadFails
      PROVE  pc' \notin Landing /\ LandedAt' = LandedAt /\ ToLand' = <<>> /\ ToReadBack' = 0
  <2>1. pc' \notin Landing /\ \E s : s # "LANDED" /\ families' = Setting(cur, s)
    BY <1>4 DEF ReadFails, Leave, StopStatus, Landing
  <2>2. LandedAt' = LandedAt
    BY <1>1, <2>1, SettingLandedAt DEF PromiseInv
  <2> QED BY <2>1, <2>2 DEF ToLand, ToReadBack, Landing
<1>5. CASE ReadFails /\ main' = main
  BY <1>1, <1>4, <1>5, GivingUp
<1>6. CASE /\ GitHubAccepts(N, Prepared)
           /\ main' = Append(main, [tree |-> main[Tip].tree \union pulls[N].head.lanes, by |-> N])
  <2>1. Base!Commit(Head(ToLand))
    BY <1>1, <1>6, MergeCommits
  <2>2. CASE ReadFails
    BY <1>1, <1>2, <1>3, <1>4, <2>1, <2>2 DEF Base!LandUnheard, Base!Next
  <2>3. CASE /\ pc' = "confirm" /\ UNCHANGED families
             /\ \E m : m.sha = Tip + 1 /\ m \in MergeRow /\ merges' = Append(merges, m)
    <3>1. ToLand' = ToLand /\ LandedAt' = LandedAt
      BY <1>1, <2>3, ToLandStays, SettingLandedAt DEF PromiseInv, Landing
    <3>2. ToReadBack' = Tip + 1
      <4>1. PICK m \in MergeRow : m.sha = Tip + 1 /\ merges' = Append(merges, m)
        BY <2>3
      <4>2. merges \in Seq(MergeRow)
        BY DEF TypeOK, ListsTyped
      <4>3. merges'[Len(merges')] = m
        BY <4>1, <4>2, AppendProperties
      <4> QED BY <2>3, <4>1, <4>3 DEF ToReadBack
    <3>3. Len(main') = Tip + 1
      BY <2>1 DEF Base!Commit, Base!Grows, Tip
    <3> QED BY <1>1, <1>2, <1>3, <2>1, <3>1, <3>2, <3>3 DEF Base!Land, Base!Next
  <2>4. ReadFails \/ /\ pc' = "confirm" /\ UNCHANGED families
                     /\ \E m : m.sha = Tip + 1 /\ m \in MergeRow /\ merges' = Append(merges, m)
    <3>1. CASE ReadFails
      BY <3>1
    <3>2. CASE ~ReadFails
      <4> DEFINE m == [pr |-> N, family |-> cur, sha |-> Tip + 1, tree |-> Planned.commit.lanes,
                       identity |-> "unread"]
      <4>1. pc' = "confirm" /\ UNCHANGED families /\ merges' = Append(merges, m)
        BY <3>2 DEF Merge
      <4>2. N \in PR /\ cur \in Nat /\ Tip + 1 \in Nat /\ Planned \in Step
        BY <1>1, LandingPointers, TipTyped DEF TypeOK, ThreadTyped
      <4>3. m \in MergeRow
        BY <4>2 DEF MergeRow, Step, Commit
      <4>4. m.sha = Tip + 1
        OBVIOUS
      <4> HIDE DEF m
      <4> QED BY <4>1, <4>3, <4>4
    <3> QED BY <3>1, <3>2
  <2> QED BY <2>2, <2>3, <2>4
<1>7. \/ ReadFails /\ main' = main
      \/ /\ GitHubAccepts(N, Prepared)
         /\ main' = Append(main, [tree |-> main[Tip].tree \union pulls[N].head.lanes, by |-> N])
  BY DEF Merge
<1> QED BY <1>5, <1>6, <1>7

\* The merge is read back: it is as planned and the landing goes on, it is not and the run
\* stops, or it could not be read.
LEMMA ConfirmPromise ==
  ASSUME TypeOK, PromiseInv, Handed, Confirm
  PROVE  Base!Next
<1> DEFINE last == merges[Len(merges)]
<1>1. /\ pc = "confirm" /\ pc \in Landing /\ UNCHANGED <<cur, main>>
      /\ cur \in DOMAIN families /\ at \in DOMAIN families[cur].steps
  BY LandingPointers DEF Confirm, ByLanding, Landing
<1>2. Passed' = Passed
  BY PassedStays
<1>3. /\ ToLand # <<>> /\ Head(ToLand).tree = Planned.commit.lanes
      /\ Tail(ToLand) = From(Commits(cur), at + 1)
      /\ Tail(ToLand) = <<>> <=> at = Len(families[cur].steps)
  <2>1. ToLand = From(Commits(cur), at)
    BY <1>1 DEF ToLand
  <2> QED BY <1>1, <2>1, LeftOf DEF Planned
<1>4. Len(merges) \in DOMAIN merges /\ last \in MergeRow /\ last.sha \in DOMAIN main
  <2>1. merges \in Seq(MergeRow) /\ merges # <<>>
    BY <1>1 DEF TypeOK, ListsTyped, Pointers
  <2>2. Len(merges) \in DOMAIN merges
    BY <2>1, LenProperties, EmptySeq
  <2> QED BY <2>1, <2>2, ElementOfSeq, LenProperties DEF TypeOK, Pointers
<1>5. ToReadBack = last.sha /\ ToReadBack # 0
  <2>1. last.sha # 0
    BY <1>4, LenProperties DEF TypeOK, RemoteTyped
  <2> QED BY <1>1, <2>1 DEF ToReadBack
<1>6. Identical(last) <=> main[ToReadBack].tree = Head(ToLand).tree
  BY <1>1, <1>3, <1>5 DEF Identical, PromiseInv, LandingInv, Progress
<1> HIDE DEF last
<1>7. ASSUME NEW s, NEW back, s # "LANDED", Leave(s, back)
      PROVE  pc' \notin Landing /\ LandedAt' = LandedAt /\ ToLand' = <<>> /\ ToReadBack' = 0
  <2>1. pc' \notin Landing /\ families' = Setting(cur, s)
    BY <1>7 DEF Leave, Landing
  <2>2. LandedAt' = LandedAt
    BY <1>1, <1>7, <2>1, SettingLandedAt DEF PromiseInv
  <2> QED BY <2>1, <2>2 DEF ToLand, ToReadBack, Landing
<1>8. CASE Leave("LANDED_TREE_UNREAD", Tail(Rest)) /\ UNCHANGED <<stopped, expected>>
  BY <1>1, <1>7, <1>8, GivingUp
<1>9. CASE ~Identical(last) /\ stopped' = TRUE /\ Leave("TREE_MISMATCH", <<>>) /\ expected' = expected
  <2>1. LandedAt' = LandedAt /\ ToLand' = <<>> /\ ToReadBack' = 0
    BY <1>7, <1>9
  <2> QED BY <1>1, <1>2, <1>5, <1>6, <1>9, <2>1 DEF Base!Halt, Base!Next
<1>10. CASE /\ Identical(last) /\ expected' = last.sha /\ stopped' = stopped
            /\ at < Len(families[cur].steps) /\ at' = at + 1 /\ pc' = "land" /\ families' = families
  <2>1. ToLand' = Tail(ToLand) /\ ToReadBack' = 0
    <3>1. Commits(cur)' = Commits(cur)
      BY <1>1, <1>10 DEF Commits
    <3> QED BY <1>1, <1>3, <1>10, <3>1 DEF ToLand, ToReadBack, Landing
  <2>2. Tail(ToLand) # <<>>
    <3>1. at # Len(families[cur].steps)
      BY <1>1, <1>10, LandingPointers
    <3> QED BY <1>3, <3>1
  <2>3. LandedAt' = LandedAt
    BY <1>1, <1>10, SettingLandedAt DEF PromiseInv
  <2> QED BY <1>1, <1>2, <1>5, <1>6, <1>10, <2>1, <2>2, <2>3 DEF Base!ReadBack, Base!Next
<1>11. CASE /\ Identical(last) /\ expected' = last.sha /\ stopped' = stopped
            /\ ~(at < Len(families[cur].steps)) /\ pc' \notin Landing
            /\ families' = [families EXCEPT ![cur].status = "LANDED", ![cur].landed = last.sha]
  <2>1. ToLand' = <<>> /\ ToReadBack' = 0
    BY <1>11 DEF ToLand, ToReadBack, Landing
  <2>2. Tail(ToLand) = <<>>
    <3>1. families[cur].steps \in Seq(Step)
      BY <1>1, MembersTyped DEF TypeOK
    <3>2. at = Len(families[cur].steps)
      BY <1>1, <1>11, <3>1, LenProperties
    <3> QED BY <1>3, <3>2
  <2>3. LandedAt' = LandedAt \union {last.sha}
    <3>1. ~Landed(cur) /\ families[cur] \in Family
      BY <1>1, FamilyTyped DEF PromiseInv, RoundInv, LandedRests, Serving, AtHand, TypeOK
    <3>2. /\ DOMAIN families' = DOMAIN families /\ families'[cur].status = "LANDED" /\ families'[cur].landed = last.sha
          /\ \A f \in DOMAIN families \ {cur} : families'[f] = families[f]
      BY <1>1, <1>11, <3>1 DEF Family
    <3>3. \A f \in DOMAIN families \ {cur} : Landed(f)' <=> Landed(f)
      BY <3>2 DEF Landed
    <3>4. Landed(cur)'
      BY <1>1, <3>2 DEF Landed
    <3> QED BY <1>1, <3>1, <3>2, <3>3, <3>4 DEF LandedAt
  <2> QED BY <1>1, <1>2, <1>5, <1>6, <1>11, <2>1, <2>2, <2>3 DEF Base!ReadBack, Base!Next
<1>12. \/ Leave("LANDED_TREE_UNREAD", Tail(Rest)) /\ UNCHANGED <<stopped, expected>>
       \/ ~Identical(last) /\ stopped' = TRUE /\ Leave("TREE_MISMATCH", <<>>) /\ expected' = expected
       \/ /\ Identical(last) /\ expected' = last.sha /\ stopped' = stopped
          /\ at < Len(families[cur].steps) /\ at' = at + 1 /\ pc' = "land" /\ families' = families
       \/ /\ Identical(last) /\ expected' = last.sha /\ stopped' = stopped
          /\ ~(at < Len(families[cur].steps)) /\ pc' \notin Landing
          /\ families' = [families EXCEPT ![cur].status = "LANDED", ![cur].landed = last.sha]
  BY DEF Confirm, last, Landing
<1> QED BY <1>8, <1>9, <1>10, <1>11, <1>12

\* Every step of the run keeps the promise.
LEMMA PromiseNext == ASSUME TypeOK, PromiseInv, [Next]_vars PROVE Base!Next
<1>1. CASE \E f \in DOMAIN families : Gate(f)
  BY <1>1, GatePromise
<1>2. CASE \A f \in DOMAIN families : ~Gate(f)
  <2>1. Handed
    BY <1>2, NoGateHanded DEF PromiseInv
  <2> QED BY <1>2, <2>1, DisturbPromise, BetweenPromise, LandingPromise, MergePromise, ConfirmPromise
      DEF Next, Train, Land, Between
<1> QED BY <1>1, <1>2

\* What every step keeps of it, while the gates record one after the other.
LEMMA PromiseAlways == Spec /\ []RecordsApart => []PromiseInv
<1>1. Init => Unasked /\ Indexed /\ LandsGreen /\ SinceCheck /\ GreenOwn
  BY DEF Init, Unasked, Indexed, LandsGreen, Landing, SinceCheck, Readied, GreenOwn
<1>2. Init => UnseenInv
  BY DEF Init, UnseenInv, AsPrepared, Readied, NothingUnseenMerged
<1>3. TypeOK /\ LandingInv /\ UnseenInv /\ [Next]_vars => UnseenInv'
  BY UnseenNext
<1>4. /\ TypeOK /\ LandingInv /\ RoundInv /\ Unasked /\ [Next]_vars => Unasked'
      /\ TypeOK /\ LandingInv /\ RoundInv /\ LandsGreen /\ [Next]_vars => LandsGreen'
      /\ TypeOK /\ SinceCheck /\ [Next]_vars => SinceCheck'
  BY UnaskedNext, GreenNext, SinceCheckNext
<1>5. /\ TypeOK /\ Unasked /\ OwnInv /\ RecordsApart /\ Indexed /\ [Next]_vars => Indexed'
      /\ TypeOK /\ Unasked /\ Indexed /\ GreenOwn /\ [Next]_vars => GreenOwn'
  BY IndexedNext, GreenOwnNext DEF OwnInv
<1>6. LandingInv /\ UnseenInv /\ RoundInv /\ Unasked /\ Indexed /\ LandsGreen /\ SinceCheck /\ GreenOwn => PromiseInv
  BY DEF PromiseInv
<1> QED BY <1>1, <1>2, <1>3, <1>4, <1>5, <1>6, TrainTypeOK, TrainLandingInv, RoundAlways, OwnAlways, PTL DEF Spec

\* In every behaviour in which no two gates are between taking the index of a row and
\* adding it, the run is one of those GatedBase allows: whatever is lost, fails, is pushed
\* or reaches the base meanwhile, it lands only what passed a gate as a whole, each commit
\* as planned, and nothing after a mismatch (round, settle_red, land_family).
THEOREM ImplementsGatedBase == Spec /\ []RecordsApart => KeepsGatedBase
<1>1. Init => Base!Init
  <2> SUFFICES ASSUME Init PROVE Base!Init
    OBVIOUS
  <2>1. main = <<[tree |-> {}, by |-> 0]>> /\ pc = "snapshot" /\ families = <<>> /\ expected = 1 /\ stopped = FALSE
    BY DEF Init
  <2>2. Len(main) = 1 /\ main[1].by = 0
    BY <2>1
  <2>3. Passed = {} /\ LandedAt = {} /\ ToLand = <<>> /\ ToReadBack = 0
    BY <2>1 DEF Passed, LandedAt, ToLand, ToReadBack, Landing
  <2> QED BY <2>1, <2>2, <2>3 DEF Base!Init
<1>2. TypeOK /\ PromiseInv /\ [Next]_vars => [Base!Next]_<<main, Base!trains>>
  BY PromiseNext
<1> QED BY <1>1, <1>2, TrainTypeOK, PromiseAlways, PTL DEF Spec, KeepsGatedBase, Base!Spec

\* There, wherever a family has landed whole, the base has a tree that a gate of this run
\* itself found green (train.py: the base ends on exactly the tree that was gated).
THEOREM LandsWhatPassed == Spec /\ []RecordsApart => []LandsGated
BY PromiseAlways, PromiseLandsGated, PTL

\* Where every family may hold the whole queue both hold without any such condition.
THEOREM PromiseWithoutSpeculation ==
  ASSUME \A size \in FamilySizes : Cardinality(PR) <= size
  PROVE  Spec => KeepsGatedBase /\ []LandsGated
BY UndividedApart, ImplementsGatedBase, LandsWhatPassed, PTL
=============================================================================
