---------------------------- MODULE TrainProofs -----------------------------
(***************************************************************************)
(* The state of a train run is well typed, for every value of the          *)
(* constants: TypeOK is inductive. One lemma for each action of Train,     *)
(* and before them one for each operator the actions build their values    *)
(* from. Then what a run lands and what holds from one of its rounds to    *)
(* the next: a family that landed left exactly the trees it planned on     *)
(* the base branch, and a merged tree that differs from the plan ends the  *)
(* run's landings; gates end with their round, families land in the order  *)
(* they were gated in, a family that is left half landed says so, and      *)
(* nothing reaches the base that was not planned.                          *)
(***************************************************************************)
EXTENDS Train, SequenceTheorems, FiniteSetTheorems, TLAPS

\* A listing of pull requests is a sequence of them (snapshot, choose_families).
LEMMA ListingsTyped == ASSUME NEW n \in Nat PROVE Listings(n) \subseteq Seq(PR)
<1> SUFFICES ASSUME NEW q \in Listings(n) PROVE q \in Seq(PR)
  OBVIOUS
<1>1. PICK k \in 0..n : q \in [1..k -> PR]
  BY DEF Listings
<1> QED
  BY <1>1, SeqDef

\* So is a queue: there are finitely many pull requests in a run.
LEMMA QueuesTyped == Queues \subseteq Seq(PR)
<1>1. Cardinality(PR) \in Nat
  BY FS_CardinalityType, PRAssumption
<1> QED
  BY <1>1, ListingsTyped DEF Queues

\* A sequence of one element.
LEMMA SingletonTyped == ASSUME NEW S, NEW e \in S PROVE <<e>> \in Seq(S) /\ Len(<<e>>) = 1 /\ <<e>>[1] = e
OBVIOUS

\* The commit of a pull request not read yet.
LEMMA NoCommitTyped == NoCommit \in Commit
BY DEF NoCommit, Commit, Tree

\* The run starts typed.
LEMMA InitTypeOK == Init => TypeOK
<1> SUFFICES ASSUME Init PROVE TypeOK
  OBVIOUS
<1>1. RemoteTyped
  <2>1. main \in Seq(BaseRow)
    <3>1. [tree |-> {}, by |-> 0] \in BaseRow
      BY DEF BaseRow, Tree
    <3> QED
      BY <3>1, SingletonTyped DEF Init
  <2>2. PICK stacking \in Stackings :
          pulls = [p \in PR |-> [open |-> TRUE, label |-> FALSE,
                                 head |-> [lanes |-> stacking[p] \X {0}, base |-> 1]]]
    BY DEF Init
  <2>3. \A p \in PR : stacking[p] \X {0} \in Tree
    BY StackingsAssumption DEF Tree, Lane
  <2>4. \A p \in PR : [lanes |-> stacking[p] \X {0}, base |-> 1] \in Commit
    BY <2>3 DEF Commit
  <2>5. pulls \in [PR -> [open : BOOLEAN, label : BOOLEAN, head : Commit]]
    BY <2>2, <2>4
  <2> QED
    BY <2>1, <2>5, BudgetAssumption DEF Init, RemoteTyped
<1>2. ThreadTyped
  <2>1. queue \in Seq(PR)
    BY QueuesTyped DEF Init
  <2>2. fold \in Folding
    BY NoCommitTyped, EmptySeq DEF Init, Folding
  <2>3. rows \in [PR -> Commit]
    BY NoCommitTyped DEF Init
  <2>4. /\ stack \in Seq(Seq(PR)) /\ requeue \in Seq(PR) /\ later \in Seq(PR) /\ batch \in Seq(Nat)
    BY EmptySeq DEF Init
  <2>5. mode \in Modes /\ pc = "snapshot"
    BY DEF Init
  <2>6. cur \in Nat /\ at \in Nat /\ expected \in Nat /\ rounds \in Nat /\ tries \in 0..1
    BY DEF Init
  <2>7. settling \in BOOLEAN /\ stopped \in BOOLEAN
    BY DEF Init
  <2> QED
    BY <2>1, <2>2, <2>3, <2>4, <2>5, <2>6, <2>7 DEF ThreadTyped
<1>3. ListsTyped
  BY DEF Init, ListsTyped
<1>5. GatesTyped
  BY DEF Init, GatesTyped
<1>4. Pointers
  BY DEF Init, Pointers, Landing
<1> QED
  BY <1>1, <1>2, <1>3, <1>4, <1>5 DEF TypeOK

---------------------------------------------------------------------------
(* What the operators of the model return.                                 *)

\* The merge step of two commits gives a commit (union_step).
LEMMA JoinedTyped == ASSUME NEW a \in Commit, NEW b \in Commit PROVE Joined(a, b) \in Commit
BY DEF Joined, Larger, Commit, Tree

\* A commit of the base branch is found by its position.
LEMMA MainIndex ==
  ASSUME RemoteTyped, NEW i \in DOMAIN main
  PROVE  i \in Nat \ {0} /\ main[i] \in BaseRow
BY LenProperties DEF RemoteTyped

\* A position of the base branch as a commit (main_sha).
LEMMA BaseCommitTyped ==
  ASSUME RemoteTyped, NEW i \in DOMAIN main PROVE BaseCommit(i) \in Commit
BY MainIndex DEF BaseCommit, Commit, BaseRow

\* The base branch always has a tip.
LEMMA TipTyped == ASSUME RemoteTyped, Pointers PROVE Tip \in DOMAIN main /\ Tip \in Nat \ {0}
BY LenProperties DEF RemoteTyped, Pointers, Tip

\* A chunk taken off the front of a queue (chunk).
LEMMA UptoTyped == ASSUME NEW S, NEW q \in Seq(S), NEW i \in Nat PROVE Upto(q, i) \in Seq(S)
<1>1. \A j \in 1..Len(q) : q[j] \in S
  BY ElementOfSeq
<1>2. \A j \in Nat : j <= Len(q) => SubSeq(q, 1, j) \in Seq(S)
  BY <1>1, SubSeqProperties, LenProperties
<1> QED
  BY <1>2, LenProperties DEF Upto

\* What is left behind a position of a queue is a queue, and not empty at one of its
\* elements.
LEMMA FromTyped ==
  ASSUME NEW S, NEW q \in Seq(S), NEW i \in Nat \ {0}
  PROVE  /\ From(q, i) \in Seq(S)
         /\ i \in DOMAIN q => From(q, i) # <<>>
<1>1. Len(q) \in Nat /\ DOMAIN q = 1..Len(q) /\ \A j \in 1..Len(q) : q[j] \in S
  BY ElementOfSeq, LenProperties
<1>2. \A j \in i..Len(q) : q[j] \in S
  BY <1>1
<1>3. /\ SubSeq(q, i, Len(q)) \in Seq(S)
      /\ Len(SubSeq(q, i, Len(q))) = IF i <= Len(q) THEN Len(q) - i + 1 ELSE 0
  BY <1>1, <1>2, SubSeqProperties
<1>4. i \in DOMAIN q => SubSeq(q, i, Len(q)) # <<>>
  <2>1. i \in DOMAIN q => Len(SubSeq(q, i, Len(q))) # 0
    BY <1>1, <1>3
  <2>2. Len(<<>>) = 0
    BY EmptySeq
  <2> QED
    BY <2>1, <2>2
<1> QED
  BY <1>3, <1>4 DEF From

\* The members of a queue.
LEMMA ToSetTyped == ASSUME NEW S, NEW q \in Seq(S) PROVE ToSet(q) \subseteq S
BY LenProperties DEF ToSet

\* The pull requests of the planned steps.
LEMMA NumbersTyped == ASSUME NEW steps \in Seq(Step) PROVE Numbers(steps) \in Seq(PR)
<1>2. DOMAIN steps = 1..Len(steps) /\ Len(steps) \in Nat
  BY LenProperties
<1>4. \A i \in 1..Len(steps) : steps[i] \in Step
  BY ElementOfSeq
<1>1. \A i \in 1..Len(steps) : steps[i].pr \in PR
  BY <1>4 DEF Step
<1>3. Numbers(steps) \in [1..Len(steps) -> PR]
  BY <1>1, <1>2 DEF Numbers
<1> QED
  BY <1>3, <1>2, SeqDef

\* A family of the receipt is found by its position.
LEMMA FamilyTyped ==
  ASSUME GatesTyped, NEW f \in DOMAIN families
  PROVE  families[f] \in Family /\ f \in Nat \ {0} /\ f \in 1..Len(families)
BY LenProperties DEF GatesTyped

\* The members of a family, and its planned steps.
LEMMA MembersTyped ==
  ASSUME GatesTyped, NEW f \in DOMAIN families
  PROVE  Members(f) \in Seq(PR) /\ families[f].steps \in Seq(Step)
BY NumbersTyped, FamilyTyped DEF Members, Family

\* The tree a family is gated on: that of its last step.
LEMMA FamilyTreeTyped ==
  ASSUME GatesTyped, NEW f \in DOMAIN families, families[f].steps # <<>>
  PROVE  FamilyTree(f) \in Tree
<1>1. families[f].steps \in Seq(Step)
  BY MembersTyped
<1>2. Len(families[f].steps) \in 1..Len(families[f].steps)
  BY <1>1, EmptySeq
<1>3. families[f].steps[Len(families[f].steps)] \in Step
  BY <1>1, <1>2, ElementOfSeq
<1> QED
  BY <1>3 DEF FamilyTree, Step, Commit

\* Setting the status of a family keeps the list of families.
LEMMA SettingTyped ==
  ASSUME GatesTyped, NEW f \in DOMAIN families, NEW s \in Status
  PROVE  /\ Setting(f, s) \in Seq(Family)
         /\ DOMAIN Setting(f, s) = DOMAIN families
         /\ \A g \in DOMAIN families : Setting(f, s)[g].steps = families[g].steps
<1>1. families \in Seq(Family) /\ f \in 1..Len(families) /\ families[f] \in Family
  BY FamilyTyped DEF GatesTyped
<1> DEFINE e == [families[f] EXCEPT !.status = s]
<1>3. e \in Family /\ e.steps = families[f].steps
  BY <1>1 DEF Family
<1>4. Setting(f, s) = [families EXCEPT ![f] = e]
  BY DEF Setting
<1> HIDE DEF e
<1>5. Setting(f, s) \in Seq(Family)
  BY <1>1, <1>3, <1>4, ExceptSeq
<1> QED
  BY <1>1, <1>3, <1>4, <1>5

SameFamilies ==
  /\ DOMAIN families' = DOMAIN families
  /\ \A f \in DOMAIN families : families'[f].steps = families[f].steps

\* Replacing one family by another with the same steps keeps the list of families.
LEMMA FamilyRowSet ==
  ASSUME GatesTyped, NEW f \in DOMAIN families, NEW e \in Family, e.steps = families[f].steps,
         families' = [families EXCEPT ![f] = e]
  PROVE  families' \in Seq(Family) /\ SameFamilies
<1>1. families \in Seq(Family) /\ f \in 1..Len(families) /\ DOMAIN families = 1..Len(families)
  BY FamilyTyped, LenProperties DEF GatesTyped
<1>2. families' \in Seq(Family)
  BY <1>1, ExceptSeq
<1> QED
  BY <1>2 DEF SameFamilies

\* Replacing all of them, each with its own steps, does too.
LEMMA FamilyRowsSet ==
  ASSUME GatesTyped, families' \in [DOMAIN families -> Family],
         \A f \in DOMAIN families : families'[f].steps = families[f].steps
  PROVE  families' \in Seq(Family) /\ SameFamilies
<1>1. DOMAIN families = 1..Len(families) /\ Len(families) \in Nat
  BY LenProperties DEF GatesTyped
<1>2. families' \in Seq(Family)
  BY <1>1, SeqDef
<1> QED
  BY <1>2 DEF SameFamilies

\* A disturbance uses up its budget.
LEMMA SlipsTyped ==
  ASSUME RemoteTyped, NEW e \in Slip, Slips(e)
  PROVE  left' \in [Slip -> Nat]
BY DEF RemoteTyped, Slips

\* The head of a pull request, on the remote and in the snapshot.
LEMMA HeadsTyped ==
  ASSUME TypeOK, NEW n \in PR
  PROVE  pulls[n].head \in Commit /\ rows[n] \in Commit
BY DEF TypeOK, RemoteTyped, ThreadTyped

\* The pointers hold on when nothing they depend on changes.
LEMMA PointersKept ==
  ASSUME Pointers, SameFamilies,
         UNCHANGED <<main, expected, batch, pc, settling, cur, at, merges>>
  PROVE  Pointers'
BY DEF Pointers, SameFamilies, Landing

Resting == {"snapshot", "pairs", "round", "plan", "part", "drain", "join", "done"}

\* Between landings only the base, the families of the round and the merges are pointed at.
LEMMA PointersResting ==
  ASSUME Pointers, SameFamilies, pc' \in Resting,
         expected' \in DOMAIN main', UNCHANGED merges,
         \A m \in DOMAIN merges : merges[m].sha \in DOMAIN main',
         \A i \in DOMAIN batch' : batch'[i] \in DOMAIN families
  PROVE  Pointers'
<1>1. pc' \notin Landing \union {"collect", "submit", "gate", "confirm"}
  BY DEF Resting, Landing
<1> QED
  BY <1>1 DEF Pointers, SameFamilies

\* The next round, or the end of the run (run's while loop).
LEMMA ContinueTyped ==
  ASSUME TypeOK, NEW q \in Seq(PR), Continue(q)
  PROVE  queue' \in Seq(PR) /\ rounds' \in Nat /\ pc' \in {"round", "snapshot", "done"}
         /\ pending' \subseteq PR
BY ToSetTyped DEF Continue, TypeOK, ThreadTyped, ListsTyped

\* The remote stays typed when it stays the same.
LEMMA RemoteSame == ASSUME RemoteTyped, UNCHANGED world PROVE RemoteTyped'
BY DEF RemoteTyped, world

\* The families and the gate rows stay typed when they stay the same.
LEMMA GatesSame == ASSUME GatesTyped, UNCHANGED <<families, gates, red>> PROVE GatesTyped'
BY DEF GatesTyped

\* The lists of the receipt stay typed when they stay the same.
LEMMA ListsSame == ASSUME ListsTyped, UNCHANGED lists PROVE ListsTyped'
BY DEF ListsTyped, lists

\* RunUnread keeps every type.
LEMMA RunUnreadTypeOK == ASSUME TypeOK, RunUnread PROVE TypeOK'
<1>1. RemoteTyped'
  BY SlipsTyped DEF TypeOK, RemoteTyped, RunUnread, Slip
<1>2. ThreadTyped'
  BY DEF TypeOK, ThreadTyped, RunUnread, thread
<1>3. ListsTyped'
  BY DEF TypeOK, ListsTyped, RunUnread
<1>4. GatesTyped'
  BY GatesSame DEF TypeOK, RunUnread
<1>5. Pointers'
  BY PointersResting DEF TypeOK, Pointers, RunUnread, thread, SameFamilies, Resting
<1> QED
  BY <1>1, <1>2, <1>3, <1>4, <1>5 DEF TypeOK

\* StopEarly keeps every type.
LEMMA StopEarlyTypeOK == ASSUME TypeOK, StopEarly PROVE TypeOK'
<1>1. RemoteTyped'
  BY RemoteSame DEF TypeOK, StopEarly
<1>2. ThreadTyped'
  BY DEF TypeOK, ThreadTyped, StopEarly, thread
<1>3. ListsTyped'
  BY ToSetTyped DEF TypeOK, ListsTyped, StopEarly, ThreadTyped
<1>4. GatesTyped'
  BY GatesSame DEF TypeOK, StopEarly
<1>5. Pointers'
  BY PointersResting DEF TypeOK, Pointers, StopEarly, thread, world, SameFamilies, Resting
<1> QED
  BY <1>1, <1>2, <1>3, <1>4, <1>5 DEF TypeOK

\* Snapshot keeps every type.
LEMMA SnapshotTypeOK == ASSUME TypeOK, Snapshot PROVE TypeOK'
<1>1. CASE RunUnread
  BY <1>1, RunUnreadTypeOK
<1>2. CASE ~RunUnread
  <2>1. PICK present \in Listings(Len(queue)) :
             /\ queue' = present
             /\ rows' = [n \in PR |-> IF n \in ToSet(present) THEN pulls[n].head ELSE rows[n]]
             /\ retry' = retry \union (ToSet(queue) \ ToSet(present))
    BY <1>2 DEF Snapshot
  <2>2. /\ pc' \in {"pairs", "round"}
        /\ UNCHANGED <<world, rounds, fold, stack, requeue, later, batch, cur, at, expected,
                       settling, tries, merges, held, pending, out, alerts, mode, stopped,
                       families, gates, red>>
    BY <1>2 DEF Snapshot
  <2>3. rows' \in [PR -> Commit]
    BY <2>1, HeadsTyped
  <2>4. retry' \subseteq PR
    BY <2>1, ToSetTyped DEF TypeOK, ThreadTyped, ListsTyped
  <2>5. queue' \in Seq(PR)
    <3>1. Len(queue) \in Nat
      BY LenProperties DEF TypeOK, ThreadTyped
    <3> QED
      BY <2>1, <3>1, ListingsTyped
  <2>6. RemoteTyped'
    BY <2>2, RemoteSame DEF TypeOK
  <2>7. ThreadTyped'
    BY <2>2, <2>3, <2>5 DEF TypeOK, ThreadTyped
  <2>8. ListsTyped' /\ GatesTyped'
    BY <2>2, <2>4, GatesSame DEF TypeOK, ListsTyped
  <2>9. Pointers'
    BY <2>2, PointersResting DEF TypeOK, Pointers, SameFamilies, Resting, world
  <2> QED
    BY <2>6, <2>7, <2>8, <2>9 DEF TypeOK
<1> QED
  BY <1>1, <1>2

\* The kept heads are a queue of the run (choose_families).
LEMMA ChooseTyped ==
  ASSUME TypeOK, NEW edges, Choose(edges)
  PROVE  queue' \in Seq(PR) /\ rounds' \in Nat /\ pc' \in {"round", "snapshot", "done"}
         /\ pending' \subseteq PR /\ out' \subseteq PR
<1>1. PICK chosen \in SUBSET PR, line \in Queues : out' = ToSet(queue) \ chosen /\ Continue(line)
  BY DEF Choose
<1> QED
  BY <1>1, ContinueTyped, QueuesTyped, ToSetTyped DEF TypeOK, ThreadTyped

\* Pairs keeps every type.
LEMMA PairsTypeOK == ASSUME TypeOK, Pairs PROVE TypeOK'
<1>1. /\ UNCHANGED <<main, pulls, stop, fold, stack, requeue, later, batch, cur, at, expected,
                    settling, tries, merges, held, retry, mode, rows, stopped, families,
                    gates, red>>
      /\ \E edges : Choose(edges)
      /\ alerts' \in {alerts, alerts \union {"PAIRS_UNREAD"}}
      /\ UNCHANGED left \/ Slips("fail")
  BY DEF Pairs
<1>2. /\ queue' \in Seq(PR) /\ rounds' \in Nat /\ pc' \in {"round", "snapshot", "done"}
      /\ pending' \subseteq PR /\ out' \subseteq PR
  BY <1>1, ChooseTyped
<1>3. RemoteTyped'
  BY <1>1, SlipsTyped DEF TypeOK, RemoteTyped, Slip
<1>4. ThreadTyped'
  BY <1>1, <1>2 DEF TypeOK, ThreadTyped
<1>5. ListsTyped' /\ GatesTyped'
  BY <1>1, <1>2, GatesSame DEF TypeOK, ListsTyped
<1>6. Pointers'
  BY <1>1, <1>2, PointersResting DEF TypeOK, Pointers, SameFamilies, Resting
<1> QED
  BY <1>3, <1>4, <1>5, <1>6 DEF TypeOK

\* A fold starts at the tip of the base (plan).
LEMMA FoldStarted ==
  ASSUME TypeOK, NEW todo \in Seq(PR), NEW rest \in Seq(PR), NEW size \in Nat
  PROVE  [base |-> Tip, acc |-> BaseCommit(Tip), steps |-> <<>>, todo |-> todo, rest |-> rest,
          size |-> size] \in Folding
BY TipTyped, BaseCommitTyped, EmptySeq DEF TypeOK, Folding

\* Round keeps every type.
LEMMA RoundTypeOK == ASSUME TypeOK, Round PROVE TypeOK'
<1>1. CASE RunUnread
  BY <1>1, RunUnreadTypeOK
<1>2. CASE /\ stop
           /\ pending' = pending \union ToSet(queue) /\ pc' = "done"
           /\ UNCHANGED <<world, thread, merges, held, retry, out, alerts, mode, rows, stopped,
                          families, gates, red>>
  <2>1. RemoteTyped' /\ GatesTyped'
    BY <1>2, RemoteSame, GatesSame DEF TypeOK
  <2>2. ThreadTyped'
    BY <1>2 DEF TypeOK, ThreadTyped, thread
  <2>3. ListsTyped'
    BY <1>2, ToSetTyped DEF TypeOK, ListsTyped, ThreadTyped
  <2>4. Pointers'
    BY <1>2, PointersResting DEF TypeOK, Pointers, thread, world, SameFamilies, Resting
  <2> QED
    BY <2>1, <2>2, <2>3, <2>4 DEF TypeOK
<1>3. CASE \E size \in FamilySizes :
             /\ fold' = [base |-> Tip, acc |-> BaseCommit(Tip), steps |-> <<>>,
                         todo |-> Upto(queue, size), rest |-> From(queue, size + 1), size |-> size]
             /\ requeue' = <<>> /\ later' = <<>> /\ batch' = <<>> /\ stack' = <<>>
             /\ expected' = Tip /\ settling' = FALSE /\ pc' = "plan"
             /\ UNCHANGED <<world, queue, rounds, cur, at, tries, lists, mode, rows, stopped,
                            families, gates, red>>
  <2>1. PICK size \in FamilySizes :
          fold' = [base |-> Tip, acc |-> BaseCommit(Tip), steps |-> <<>>,
                   todo |-> Upto(queue, size), rest |-> From(queue, size + 1), size |-> size]
    BY <1>3
  <2>2. size \in Nat /\ size + 1 \in Nat \ {0} /\ queue \in Seq(PR)
    BY SizesAssumption DEF TypeOK, ThreadTyped
  <2>3. fold' \in Folding
    BY <2>1, <2>2, FoldStarted, UptoTyped, FromTyped
  <2>4. /\ requeue' = <<>> /\ later' = <<>> /\ batch' = <<>> /\ stack' = <<>>
        /\ expected' = Tip /\ settling' = FALSE /\ pc' = "plan"
        /\ UNCHANGED <<world, queue, rounds, cur, at, tries, lists, mode, rows, stopped,
                       families, gates, red>>
    BY <1>3
  <2>5. Tip \in DOMAIN main /\ Tip \in Nat
    BY TipTyped DEF TypeOK
  <2>6. /\ stack' \in Seq(Seq(PR)) /\ requeue' \in Seq(PR) /\ later' \in Seq(PR)
        /\ batch' \in Seq(Nat) /\ expected' \in Nat
    BY <2>4, <2>5, EmptySeq
  <2>7. ThreadTyped'
    BY <2>3, <2>4, <2>6 DEF TypeOK, ThreadTyped
  <2>8. RemoteTyped' /\ GatesTyped' /\ ListsTyped'
    BY <2>4, RemoteSame, GatesSame, ListsSame DEF TypeOK
  <2>9. Pointers'
    <3>1. SameFamilies /\ pc' \in Resting /\ expected' \in DOMAIN main' /\ UNCHANGED <<main, merges>>
      BY <2>4, <2>5 DEF SameFamilies, Resting, world, lists
    <3>2. \A i \in DOMAIN batch' : batch'[i] \in DOMAIN families
      BY <2>4
    <3> QED
      BY <3>1, <3>2, PointersResting DEF TypeOK, Pointers
  <2> QED
    BY <2>7, <2>8, <2>9 DEF TypeOK
<1> QED
  BY <1>1, <1>2, <1>3 DEF Round

\* The parts of the fold at hand.
LEMMA FoldTyped ==
  ASSUME TypeOK
  PROVE  /\ fold \in Folding /\ fold.base \in Nat /\ fold.acc \in Commit /\ fold.size \in Nat
         /\ fold.steps \in Seq(Step) /\ fold.todo \in Seq(PR) /\ fold.rest \in Seq(PR)
BY DEF TypeOK, ThreadTyped, Folding

\* The fold with its next pull request taken off.
LEMMA SkippedTyped ==
  ASSUME TypeOK, fold.todo # <<>>
  PROVE  [fold EXCEPT !.todo = Tail(@)] \in Folding
<1>1. Tail(fold.todo) \in Seq(PR)
  BY FoldTyped, HeadTailProperties
<1> QED
  BY <1>1, FoldTyped DEF Folding

\* PlanStep keeps every type.
LEMMA PlanStepTypeOK == ASSUME TypeOK, PlanStep PROVE TypeOK'
<1> DEFINE n == Head(fold.todo)
           joined == Joined(fold.acc, rows[n])
           conflict == MergeConflicts(fold.acc, rows[n])
           skipped == [fold EXCEPT !.todo = Tail(@)]
           heldNow == [pr |-> n, reason |-> "CONFLICT", head |-> rows[n].lanes,
                       tree |-> fold.acc.lanes]
           folded == [skipped EXCEPT !.acc = joined,
                                     !.steps = Append(@, [pr |-> n, commit |-> joined])]
<1>1. n \in PR /\ skipped \in Folding
  BY SkippedTyped, FoldTyped, HeadTailProperties DEF PlanStep
<1>2. joined \in Commit /\ rows[n] \in Commit
  BY <1>1, HeadsTyped, FoldTyped, JoinedTyped
<1>3. heldNow \in [pr : PR, reason : {"CONFLICT", "GATE_RED"}, head : Tree, tree : Tree]
  BY <1>1, <1>2, FoldTyped DEF Commit
<1>4. folded \in Folding
  <2>1. [pr |-> n, commit |-> joined] \in Step
    BY <1>1, <1>2 DEF Step
  <2>2. Append(fold.steps, [pr |-> n, commit |-> joined]) \in Seq(Step)
    BY <2>1, FoldTyped, AppendProperties
  <2>3. skipped.steps = fold.steps
    BY FoldTyped DEF Folding
  <2> HIDE DEF joined
  <2> QED
    BY <1>1, <1>2, <2>2, <2>3 DEF Folding
<1>5. /\ fold' \in {skipped, folded}
      /\ held' \in {held, held \union {heldNow}}
      /\ retry' \in {retry, retry \union {n}}
      /\ UNCHANGED left \/ Slips("fail")
      /\ UNCHANGED <<Untouched, pc, families, batch, later>>
  BY DEF PlanStep
<1> HIDE DEF n, joined, conflict, skipped, heldNow, folded
<1>6. RemoteTyped' /\ GatesTyped'
  BY <1>5, SlipsTyped, GatesSame DEF TypeOK, RemoteTyped, Slip, Untouched
<1>7. ThreadTyped'
  BY <1>1, <1>4, <1>5 DEF TypeOK, ThreadTyped, Untouched
<1>8. ListsTyped'
  BY <1>1, <1>3, <1>5 DEF TypeOK, ListsTyped, Untouched
<1>9. Pointers'
  BY <1>5, PointersKept DEF TypeOK, SameFamilies, Untouched
<1> QED
  BY <1>6, <1>7, <1>8, <1>9 DEF TypeOK

\* A planned family is typed (plan).
LEMMA NewFamilyTyped ==
  ASSUME NEW steps \in Seq(Step), NEW base \in Nat, NEW after \in Nat, NEW settled \in BOOLEAN
  PROVE  NewFamily(steps, base, after, settled) \in Family
<1>1. NoResult \in [verdict : Verdicts, tree : Tree, reused : Nat]
  BY DEF NoResult, Verdicts, Tree
<1>2. "PLANNED" \in Status
  BY DEF Status
<1> QED
  BY <1>1, <1>2 DEF NewFamily, Family

\* PlanClose keeps every type.
LEMMA PlanCloseTypeOK == ASSUME TypeOK, PlanClose PROVE TypeOK'
<1> DEFINE none == fold.steps = <<>>
           next == Len(families) + 1
           after == IF settling \/ batch = <<>> THEN 0 ELSE batch[Len(batch)]
           new == NewFamily(fold.steps, fold.base, after, settling)
           closed == [fold EXCEPT !.steps = <<>>, !.todo = Upto(fold.rest, fold.size),
                                  !.rest = From(@, fold.size + 1)]
<1>1. /\ families \in Seq(Family) /\ Len(families) \in Nat /\ DOMAIN families = 1..Len(families)
      /\ next \in Nat
  BY LenProperties DEF TypeOK, GatesTyped
<1>2. after \in Nat /\ settling \in BOOLEAN
  <2>1. batch # <<>> => batch[Len(batch)] \in Nat
    BY ElementOfSeq, EmptySeq DEF TypeOK, ThreadTyped
  <2> QED
    BY <2>1 DEF TypeOK, ThreadTyped
<1>3. new \in Family /\ new.steps = fold.steps
  BY <1>2, NewFamilyTyped, FoldTyped DEF NewFamily
<1>4. closed \in Folding
  <2>1. Upto(fold.rest, fold.size) \in Seq(PR) /\ From(fold.rest, fold.size + 1) \in Seq(PR)
    <3>1. fold.rest \in Seq(PR) /\ fold.size \in Nat /\ fold.size + 1 \in Nat \ {0}
      BY FoldTyped
    <3> QED
      BY <3>1, UptoTyped, FromTyped
  <2> QED
    BY <2>1, FoldTyped, EmptySeq DEF Folding
<1>5. Numbers(fold.steps) \in Seq(PR)
  BY NumbersTyped, FoldTyped
<1>6. /\ families' = IF none THEN families ELSE Append(families, new)
      /\ batch' = IF none \/ settling THEN batch ELSE Append(batch, next)
      /\ later' = IF none \/ settling THEN later ELSE later \o Numbers(fold.steps)
      /\ cur' = IF settling /\ ~none THEN next ELSE cur
      /\ fold' = closed
      /\ pc' = IF settling THEN (IF none THEN "part" ELSE "submit")
               ELSE IF fold.rest # <<>> THEN "plan"
               ELSE IF batch' = <<>> THEN "drain" ELSE "submit"
      /\ UNCHANGED <<main, pulls, left, stop, queue, rounds, requeue, stack, at, expected,
                     settling, tries, lists, mode, rows, stopped, gates, red>>
  BY DEF PlanClose, AfterFold
<1> HIDE DEF new, closed, after
<1>7. /\ families' \in Seq(Family) /\ DOMAIN families \subseteq DOMAIN families'
      /\ \A f \in DOMAIN families' : families'[f].steps # <<>>
      /\ ~none => next \in DOMAIN families'
  <2>1. CASE none
    BY <1>1, <1>6, <2>1 DEF TypeOK, Pointers
  <2>2. CASE ~none
    <3>1. /\ families' \in Seq(Family) /\ Len(families') = next
          /\ \A f \in DOMAIN families : families'[f] = families[f]
          /\ families'[next] = new
      BY <1>1, <1>3, <1>6, <2>2, AppendProperties
    <3>2. DOMAIN families' = 1..next
      BY <3>1, LenProperties
    <3>3. \A f \in 1..next : f \in DOMAIN families \/ f = next
      BY <1>1
    <3> QED
      BY <1>1, <1>3, <2>2, <3>1, <3>2, <3>3 DEF TypeOK, Pointers
  <2> QED
    BY <2>1, <2>2
<1>8. batch' \in Seq(Nat) /\ \A i \in DOMAIN batch' : batch'[i] \in DOMAIN families'
  <2>1. CASE none \/ settling
    BY <1>6, <1>7, <2>1 DEF TypeOK, ThreadTyped, Pointers
  <2>2. CASE ~none /\ ~settling
    <3>1. batch \in Seq(Nat) /\ Len(batch) \in Nat /\ DOMAIN batch = 1..Len(batch)
      BY LenProperties DEF TypeOK, ThreadTyped
    <3>2. /\ batch' \in Seq(Nat) /\ Len(batch') = Len(batch) + 1
          /\ \A i \in 1..Len(batch) : batch'[i] = batch[i]
          /\ batch'[Len(batch) + 1] = next
      BY <1>1, <1>6, <2>2, <3>1, AppendProperties
    <3>3. DOMAIN batch' = 1..(Len(batch) + 1)
      BY <3>2, LenProperties
    <3>4. \A i \in DOMAIN batch' : i \in DOMAIN batch \/ i = Len(batch) + 1
      BY <3>1, <3>3
    <3> QED
      BY <1>7, <2>2, <3>1, <3>2, <3>4 DEF TypeOK, Pointers
  <2> QED
    BY <2>1, <2>2
<1>9. later' \in Seq(PR) /\ cur' \in Nat
  BY <1>1, <1>5, <1>6, ConcatProperties DEF TypeOK, ThreadTyped
<1>10. pc' \in {"part", "submit", "plan", "drain"}
  BY <1>6
<1>11. RemoteTyped'
  BY <1>6 DEF TypeOK, RemoteTyped
<1>12. ThreadTyped'
  BY <1>4, <1>6, <1>8, <1>9, <1>10 DEF TypeOK, ThreadTyped
<1>13. ListsTyped' /\ GatesTyped'
  BY <1>6, <1>7, ListsSame DEF TypeOK, GatesTyped
<1>14. Pointers'
  <2>1. pc' = "submit" => IF settling' THEN cur' \in DOMAIN families' ELSE batch' # <<>>
    BY <1>6, <1>7
  <2>2. pc' \notin Landing \union {"gate", "collect", "confirm"}
    BY <1>10 DEF Landing
  <2> QED
    BY <1>6, <1>7, <1>8, <2>1, <2>2 DEF TypeOK, Pointers, lists
<1> QED
  BY <1>11, <1>12, <1>13, <1>14 DEF TypeOK

\* Submit keeps every type.
LEMMA SubmitTypeOK == ASSUME TypeOK, Submit PROVE TypeOK'
<1> DEFINE planned == IF settling THEN {cur} ELSE ToSet(batch)
<1>1. UNCHANGED <<world, queue, rounds, fold, stack, cur, at, expected, settling, tries,
                  lists, mode, rows, stopped, gates, red>>
  BY DEF Submit
<1>2. RemoteTyped' /\ ListsTyped'
  BY <1>1, RemoteSame, ListsSame DEF TypeOK
<1>3. CASE stop
  <2>1. /\ requeue' = requeue \o (IF settling THEN Members(cur) ELSE later)
        /\ batch' = IF settling THEN batch ELSE <<>>
        /\ later' = IF settling THEN later ELSE <<>>
        /\ pc' = IF settling THEN "part" ELSE "drain"
        /\ UNCHANGED families
    BY <1>3 DEF Submit
  <2>2. settling => cur \in DOMAIN families
    BY DEF TypeOK, Pointers, Submit
  <2>3. requeue' \in Seq(PR) /\ later' \in Seq(PR) /\ batch' \in Seq(Nat)
    BY <2>1, <2>2, MembersTyped, ConcatProperties, EmptySeq DEF TypeOK, ThreadTyped
  <2>4. ThreadTyped'
    BY <1>1, <2>1, <2>3 DEF TypeOK, ThreadTyped
  <2>5. GatesTyped'
    BY <1>1, <2>1, GatesSame DEF TypeOK
  <2>6. Pointers'
    <3>1. SameFamilies /\ pc' \in Resting /\ expected' \in DOMAIN main' /\ UNCHANGED <<main, merges>>
      BY <1>1, <2>1 DEF TypeOK, Pointers, SameFamilies, Resting, world, lists
    <3>2. \A i \in DOMAIN batch' : batch'[i] \in DOMAIN families
      BY <2>1 DEF TypeOK, Pointers
    <3> QED
      BY <3>1, <3>2, PointersResting DEF TypeOK, Pointers
  <2> QED
    BY <1>2, <2>4, <2>5, <2>6 DEF TypeOK
<1>4. CASE ~stop
  <2>1. /\ families' = [f \in DOMAIN families |->
                               IF f \in planned THEN [families[f] EXCEPT !.future = "queued"]
                               ELSE families[f]]
        /\ pc' = IF settling THEN "gate" ELSE "collect"
        /\ UNCHANGED <<requeue, batch, later>>
    BY <1>4 DEF Submit
  <2>2. \A f \in DOMAIN families :
          /\ [families[f] EXCEPT !.future = "queued"] \in Family
          /\ [families[f] EXCEPT !.future = "queued"].steps = families[f].steps
    BY FamilyTyped DEF TypeOK, Family
  <2>3. families' \in Seq(Family) /\ SameFamilies
    BY <2>1, <2>2, FamilyTyped, FamilyRowsSet DEF TypeOK
  <2>4. ThreadTyped'
    BY <1>1, <2>1 DEF TypeOK, ThreadTyped
  <2>5. GatesTyped'
    BY <1>1, <2>3 DEF TypeOK, GatesTyped
  <2>6. Pointers'
    BY <1>1, <2>1, <2>3 DEF TypeOK, Pointers, SameFamilies, Submit, Landing, world, lists
  <2> QED
    BY <1>2, <2>4, <2>5, <2>6 DEF TypeOK
<1> QED
  BY <1>3, <1>4

\* An update of one row of families by a gate.
GateUpdate(f, future, status, gate, result) ==
  families' = [families EXCEPT ![f].future = future, ![f].status = status,
                               ![f].gate = gate, ![f].result = result]

Futures == {"none", "queued", "running", "recording", "done", "cancelled"}
Result == [verdict : Verdicts, tree : Tree, reused : Nat]

\* An update of one family by a gate is typed.
LEMMA GateUpdateTyped ==
  ASSUME GatesTyped, NEW f \in DOMAIN families, NEW future \in Futures, NEW status \in Status,
         NEW gate \in Nat, NEW result \in Result, GateUpdate(f, future, status, gate, result)
  PROVE  families' \in Seq(Family) /\ SameFamilies
<1> DEFINE e == [families[f] EXCEPT !.future = future, !.status = status,
                                    !.gate = gate, !.result = result]
<1>1. e \in Family /\ e.steps = families[f].steps
  BY FamilyTyped DEF Family, Futures, Result
<1>2. families' = [families EXCEPT ![f] = e]
  BY DEF GateUpdate
<1> HIDE DEF e
<1> QED
  BY <1>1, <1>2, FamilyRowSet

\* What every step of a gate leaves typed.
LEMMA GateStepTypeOK ==
  ASSUME TypeOK, UNCHANGED ByGate, families' \in Seq(Family), SameFamilies,
         UNCHANGED left \/ Slips("fail"), gates' \in Seq(GateRow),
         red' \in SUBSET [tree : Tree, gate : Nat]
  PROVE  TypeOK'
<1>1. RemoteTyped'
  BY SlipsTyped DEF TypeOK, RemoteTyped, Slip, ByGate
<1>2. ThreadTyped'
  BY DEF TypeOK, ThreadTyped, ByGate, thread
<1>3. ListsTyped'
  BY ListsSame DEF TypeOK, ByGate
<1>4. GatesTyped'
  BY DEF GatesTyped
<1>5. Pointers'
  BY PointersKept DEF TypeOK, ByGate, thread, lists
<1> QED
  BY <1>1, <1>2, <1>3, <1>4, <1>5 DEF TypeOK

\* Gate keeps every type.
LEMMA GateTypeOK == ASSUME TypeOK, NEW f \in DOMAIN families, Gate(f) PROVE TypeOK'
<1>1. /\ families \in Seq(Family) /\ families[f] \in Family /\ f \in Nat
      /\ gates \in Seq(GateRow) /\ Len(gates) \in Nat /\ Len(gates) + 1 \in Nat
      /\ red \in SUBSET [tree : Tree, gate : Nat]
  BY FamilyTyped, LenProperties DEF TypeOK, GatesTyped
<1>2. /\ families[f].future \in Futures /\ families[f].status \in Status
      /\ families[f].gate \in Nat /\ families[f].result \in Result
  BY <1>1 DEF Family, Futures, Result
<1>3. FamilyTree(f) \in Tree
  BY FamilyTreeTyped DEF TypeOK, Pointers
<1>4. \A verdict \in {"green", "red", "unread"} :
        GateStatus(verdict) \in Status /\ verdict \in Verdicts
  BY DEF GateStatus, Status, Verdicts
<1>5. CASE GateCancelled(f)
  <2>1. /\ GateUpdate(f, "cancelled", "REQUEUED", families[f].gate, families[f].result)
        /\ UNCHANGED <<ByGate, left, gates, red>>
    BY <1>5, <1>1 DEF GateCancelled, GateUpdate, Family
  <2>2. "cancelled" \in Futures /\ "REQUEUED" \in Status
    BY DEF Futures, Status
  <2>3. families' \in Seq(Family) /\ SameFamilies
    BY <1>2, <2>1, <2>2, GateUpdateTyped DEF TypeOK
  <2> QED
    BY <1>1, <2>1, <2>3, GateStepTypeOK
<1>6. CASE GateReused(f)
  <2>1. PICK known \in KnownRed(FamilyTree(f)) :
          /\ known.gate \in DOMAIN gates
          /\ GateUpdate(f, "recording", "RED", Len(gates) + 1,
               [verdict |-> gates[known.gate].verdict, tree |-> gates[known.gate].tree,
                reused |-> known.gate])
    BY <1>6 DEF GateReused, GateUpdate, NextRow
  <2>2. known.gate \in Nat /\ gates[known.gate] \in GateRow
    BY <1>1, <2>1, LenProperties
  <2>3. [verdict |-> gates[known.gate].verdict, tree |-> gates[known.gate].tree,
         reused |-> known.gate] \in Result
    BY <2>2 DEF Result, GateRow
  <2>4. "recording" \in Futures /\ "RED" \in Status
    BY DEF Futures, Status
  <2>5. families' \in Seq(Family) /\ SameFamilies
    BY <1>1, <2>1, <2>3, <2>4, GateUpdateTyped DEF TypeOK
  <2> QED
    BY <1>1, <1>6, <2>5, GateStepTypeOK DEF GateReused
<1>7. CASE GateStart(f)
  <2>1. /\ GateUpdate(f, "running", families[f].status, families[f].gate, families[f].result)
        /\ UNCHANGED <<ByGate, left, gates, red>>
    BY <1>7, <1>1 DEF GateStart, GateUpdate, Family
  <2>2. "running" \in Futures
    BY DEF Futures
  <2>3. families' \in Seq(Family) /\ SameFamilies
    BY <1>2, <2>1, <2>2, GateUpdateTyped DEF TypeOK
  <2> QED
    BY <1>1, <2>1, <2>3, GateStepTypeOK
<1>8. CASE GatePostponed(f)
  <2>1. /\ GateUpdate(f, "recording", "GATE_RETRY", Len(gates) + 1,
             [verdict |-> "unread", tree |-> FamilyTree(f), reused |-> 0])
        /\ UNCHANGED <<ByGate, left, gates, red>>
    BY <1>8 DEF GatePostponed, GateUpdate, NextRow
  <2>2. "recording" \in Futures /\ "GATE_RETRY" \in Status /\ "unread" \in Verdicts
    BY DEF Futures, Status, Verdicts
  <2>3. [verdict |-> "unread", tree |-> FamilyTree(f), reused |-> 0] \in Result
    BY <1>3, <2>2 DEF Result
  <2>4. families' \in Seq(Family) /\ SameFamilies
    BY <1>1, <2>1, <2>2, <2>3, GateUpdateTyped DEF TypeOK
  <2> QED
    BY <1>1, <2>1, <2>4, GateStepTypeOK
<1>9. CASE GateFinish(f)
  <2>1. PICK verdict \in {"green", "red", "unread"} :
         /\ UNCHANGED left \/ Slips("fail")
         /\ GateUpdate(f, "recording", GateStatus(verdict), Len(gates) + 1,
              [verdict |-> verdict, tree |-> FamilyTree(f), reused |-> 0])
         /\ red' \in {red, red \union {[tree |-> FamilyTree(f), gate |-> Len(gates) + 1]}}
    BY <1>9 DEF GateFinish, GateUpdate, NextRow
  <2>2. "recording" \in Futures
    BY DEF Futures
  <2>3. [verdict |-> verdict, tree |-> FamilyTree(f), reused |-> 0] \in Result
    BY <1>3, <1>4, <2>1 DEF Result
  <2>4. families' \in Seq(Family) /\ SameFamilies
    BY <1>1, <1>4, <2>1, <2>2, <2>3, GateUpdateTyped DEF TypeOK
  <2>5. red' \in SUBSET [tree : Tree, gate : Nat]
    BY <1>1, <1>3, <2>1
  <2>6. UNCHANGED <<ByGate, gates>>
    BY <1>9 DEF GateFinish
  <2> QED
    BY <1>1, <2>1, <2>4, <2>5, <2>6, GateStepTypeOK
<1>10. CASE GateRecord(f)
  <2> DEFINE row == [family |-> f, tree |-> families[f].result.tree,
                     verdict |-> families[f].result.verdict, reused |-> families[f].result.reused]
  <2>1. /\ GateUpdate(f, "done", families[f].status, families[f].gate, families[f].result)
        /\ gates' = Append(gates, row)
        /\ UNCHANGED <<ByGate, left, red>>
    BY <1>10, <1>1 DEF GateRecord, GateUpdate, Family
  <2>2. "done" \in Futures /\ row \in GateRow
    BY <1>1, <1>2 DEF Futures, Result, GateRow
  <2>3. families' \in Seq(Family) /\ SameFamilies
    BY <1>2, <2>1, <2>2, GateUpdateTyped DEF TypeOK
  <2>4. gates' \in Seq(GateRow)
    BY <1>1, <2>1, <2>2, AppendProperties
  <2> QED
    BY <1>1, <2>1, <2>3, <2>4, GateStepTypeOK
<1> QED
  BY <1>5, <1>6, <1>7, <1>8, <1>9, <1>10 DEF Gate

\* The family a round is at, and the families behind it.
LEMMA BatchHead ==
  ASSUME TypeOK, batch # <<>>
  PROVE  /\ batch[1] \in DOMAIN families
         /\ Tail(batch) \in Seq(Nat)
         /\ \A i \in DOMAIN Tail(batch) : Tail(batch)[i] \in DOMAIN families
<1>1. batch \in Seq(Nat) /\ Len(batch) \in Nat \ {0} /\ DOMAIN batch = 1..Len(batch)
  BY LenProperties, EmptySeq DEF TypeOK, ThreadTyped
<1>2. /\ Tail(batch) \in Seq(Nat) /\ Len(Tail(batch)) = Len(batch) - 1
      /\ \A i \in 1..Len(Tail(batch)) : Tail(batch)[i] = batch[i + 1]
  BY <1>1, HeadTailProperties
<1>3. DOMAIN Tail(batch) = 1..Len(Tail(batch))
  BY <1>2, LenProperties
<1>4. \A i \in DOMAIN Tail(batch) : i + 1 \in DOMAIN batch
  BY <1>1, <1>2, <1>3
<1> QED
  BY <1>1, <1>2, <1>3, <1>4 DEF TypeOK, Pointers

\* What is planned behind the family a round is at.
LEMMA BehindTyped == ASSUME TypeOK, batch # <<>> PROVE Behind \in Seq(PR)
<1>1. Len(families[batch[1]].steps) + 1 \in Nat \ {0}
  BY BatchHead, MembersTyped, LenProperties DEF TypeOK
<1> QED
  BY <1>1, FromTyped DEF Behind, TypeOK, ThreadTyped

\* A step that sets the status of a family.
LEMMA StatusSetTyped ==
  ASSUME TypeOK, NEW f \in DOMAIN families, NEW s \in Status, families' = Setting(f, s)
  PROVE  families' \in Seq(Family) /\ SameFamilies
BY SettingTyped DEF TypeOK, SameFamilies

\* A step that sets the status of a family and voids those stacked on it.
LEMMA VoidTyped ==
  ASSUME TypeOK, NEW f \in DOMAIN families, NEW s \in Status, families' = Void(f, s)
  PROVE  families' \in Seq(Family) /\ SameFamilies
<1>1. \A g \in DOMAIN families, t \in Status :
        /\ [families[g] EXCEPT !.status = t] \in Family
        /\ [families[g] EXCEPT !.status = t].steps = families[g].steps
  BY FamilyTyped DEF TypeOK, Family
<1>2. "SPECULATION_VOID" \in Status
  BY DEF Status
<1>3. families' \in [DOMAIN families -> Family]
  BY <1>1, <1>2, FamilyTyped DEF Void, TypeOK
<1>4. \A g \in DOMAIN families : families'[g].steps = families[g].steps
  BY <1>1, <1>2 DEF Void
<1> QED
  BY <1>3, <1>4, FamilyRowsSet DEF TypeOK

\* Both ways to split a red family give parts of pull requests (settle_red).
LEMMA SplitsTyped ==
  ASSUME NEW q \in Seq(PR), NEW halves \in Splits(q)
  PROVE  halves \in Seq(Seq(PR))
<1>1. Len(q) \in Nat /\ DOMAIN q = 1..Len(q) /\ \A i \in 1..Len(q) : q[i] \in PR
  BY LenProperties, ElementOfSeq
<1>2. \A i \in Nat : i <= Len(q) => SubSeq(q, 1, i) \in Seq(PR) /\ From(q, i + 1) \in Seq(PR)
  <2> TAKE i \in Nat
  <2> HAVE i <= Len(q)
  <2>1. \A j \in 1..i : q[j] \in PR
    BY <1>1
  <2>2. SubSeq(q, 1, i) \in Seq(PR)
    BY <2>1, SubSeqProperties
  <2>3. i + 1 \in Nat \ {0}
    OBVIOUS
  <2> QED
    BY <2>2, <2>3, FromTyped
<1>3. CASE halves = <<SubSeq(q, 1, Len(q) \div 2), From(q, Len(q) \div 2 + 1)>>
  <2>1. Len(q) \div 2 \in Nat /\ Len(q) \div 2 <= Len(q)
    BY <1>1
  <2> QED
    BY <1>2, <1>3, <2>1
<1>4. CASE \E i \in DOMAIN q : halves = <<SubSeq(q, 1, i - 1) \o From(q, i + 1), <<q[i]>> >>
  <2>1. PICK i \in 1..Len(q) : halves = <<SubSeq(q, 1, i - 1) \o From(q, i + 1), <<q[i]>> >>
    BY <1>1, <1>4
  <2>2. i - 1 \in Nat /\ i - 1 <= Len(q) /\ i \in Nat /\ i <= Len(q)
    BY <1>1
  <2>3. SubSeq(q, 1, i - 1) \in Seq(PR) /\ From(q, i + 1) \in Seq(PR)
    BY <1>2, <2>2
  <2>4. SubSeq(q, 1, i - 1) \o From(q, i + 1) \in Seq(PR)
    BY <2>3, ConcatProperties
  <2>5. <<q[i]>> \in Seq(PR)
    BY <1>1
  <2> QED
    BY <2>1, <2>4, <2>5
<1> QED
  BY <1>3, <1>4 DEF Splits

\* A settled family is held, requeued or split (settle_red).
LEMMA SettleRedTyped ==
  ASSUME TypeOK, NEW f \in DOMAIN families, SettleRed(f)
  PROVE  /\ stack' \in Seq(Seq(PR)) /\ requeue' \in Seq(PR)
         /\ held' \in SUBSET [pr : PR, reason : {"CONFLICT", "GATE_RED"}, head : Tree, tree : Tree]
<1>1. Members(f) \in Seq(PR)
  BY MembersTyped DEF TypeOK
<1>2. /\ stack \in Seq(Seq(PR)) /\ requeue \in Seq(PR)
      /\ held \in SUBSET [pr : PR, reason : {"CONFLICT", "GATE_RED"}, head : Tree, tree : Tree]
  BY DEF TypeOK, ThreadTyped, ListsTyped
<1>3. CASE Len(Members(f)) = 1
  <2> DEFINE n == Members(f)[1]
             row == [pr |-> n, reason |-> "GATE_RED", head |-> rows[n].lanes, tree |-> FamilyTree(f)]
  <2>1. n \in PR
    <3>1. 1 \in 1..Len(Members(f))
      BY <1>3
    <3> QED
      BY <1>1, <3>1, ElementOfSeq
  <2>2. rows[n].lanes \in Tree /\ FamilyTree(f) \in Tree
    BY <2>1, HeadsTyped, FamilyTreeTyped DEF Commit, TypeOK, Pointers
  <2>3. row \in [pr : PR, reason : {"CONFLICT", "GATE_RED"}, head : Tree, tree : Tree]
    BY <2>1, <2>2
  <2> QED
    BY <1>2, <1>3, <2>3 DEF SettleRed, Alone
<1>4. CASE Len(Members(f)) # 1 /\ stop
  BY <1>1, <1>2, <1>4, ConcatProperties DEF SettleRed, Alone
<1>5. CASE Len(Members(f)) # 1 /\ ~stop
  <2>1. PICK halves \in Splits(Members(f)) : stack' = halves \o stack
    BY <1>5 DEF SettleRed, Alone
  <2>2. halves \in Seq(Seq(PR))
    BY <1>1, SplitsTyped
  <2> QED
    BY <1>2, <1>5, <2>1, <2>2, ConcatProperties DEF SettleRed, Alone
<1> QED
  BY <1>3, <1>4, <1>5

\* Collect keeps every type.
LEMMA CollectTypeOK == ASSUME TypeOK, Collect PROVE TypeOK'
<1> DEFINE f == batch[1]
<1>1. /\ pc = "collect"
      /\ CollectStopped(f) \/ CollectDry(f) \/ CollectGreen(f) \/ CollectUnread(f) \/ CollectRed(f)
  BY DEF Collect
<1>2. batch # <<>> /\ f \in DOMAIN families /\ f \in Nat
  BY <1>1, BatchHead, FamilyTyped DEF TypeOK, Pointers
<1>3. /\ Behind \in Seq(PR) /\ Members(f) \in Seq(PR) /\ ToSet(Members(f)) \subseteq PR
      /\ families[f] \in Family
  BY <1>2, BehindTyped, MembersTyped, ToSetTyped, FamilyTyped DEF TypeOK
<1>4. /\ requeue \in Seq(PR) /\ later \in Seq(PR) /\ expected \in DOMAIN main
      /\ batch \in Seq(Nat) /\ GatesTyped /\ Pointers
  BY DEF TypeOK, ThreadTyped, Pointers
<1>5. ASSUME UNCHANGED ByCollect
      PROVE  /\ RemoteTyped' /\ UNCHANGED <<main, expected, merges, gates, red>>
             /\ fold' \in Folding /\ queue' \in Seq(PR) /\ rounds' \in Nat /\ expected' \in Nat
             /\ tries' \in 0..1 /\ mode' \in Modes /\ rows' \in [PR -> Commit]
             /\ stopped' \in BOOLEAN
             /\ merges' \in Seq(MergeRow) /\ out' \subseteq PR
             /\ alerts' \in SUBSET {"RUN_UNREAD", "PAIRS_UNREAD", "TREE_MISMATCH"}
  BY <1>5 DEF ByCollect, TypeOK, RemoteTyped, ThreadTyped, ListsTyped
<1> HIDE DEF f
<1>6. CASE CollectStopped(f)
  <2>1. "REQUEUED" \in Status
    BY DEF Status
  <2>2. families' \in Seq(Family) /\ SameFamilies
    BY <1>2, <1>6, <2>1, StatusSetTyped DEF CollectStopped
  <2>3. /\ UNCHANGED ByCollect /\ requeue' = requeue \o later /\ batch' = <<>> /\ later' = <<>>
        /\ pc' = "drain" /\ UNCHANGED <<stack, cur, at, settling, held, retry, pending>>
    BY <1>6 DEF CollectStopped
  <2>4. requeue' \in Seq(PR) /\ batch' \in Seq(Nat) /\ later' \in Seq(PR)
    BY <1>4, <2>3, ConcatProperties, EmptySeq
  <2>5. ThreadTyped' /\ ListsTyped' /\ GatesTyped'
    BY <1>5, <2>2, <2>3, <2>4 DEF TypeOK, ThreadTyped, ListsTyped, GatesTyped
  <2>6. Pointers'
    BY <1>4, <1>5, <2>2, <2>3, PointersResting DEF Pointers, Resting
  <2> QED
    BY <1>5, <2>3, <2>5, <2>6 DEF TypeOK
<1>7. CASE CollectDry(f)
  <2>1. "GATED_DRY" \in Status /\ "RED_DRY" \in Status
    BY DEF Status
  <2>2. families' \in Seq(Family) /\ SameFamilies
    BY <1>2, <1>7, <2>1, StatusSetTyped DEF CollectDry
  <2>3. /\ UNCHANGED ByCollect /\ batch' = Tail(batch) /\ later' = Behind
        /\ pc' = IF Tail(batch) = <<>> THEN "drain" ELSE "collect"
        /\ UNCHANGED <<stack, requeue, cur, at, settling, held, retry, pending>>
    BY <1>7 DEF CollectDry
  <2>4. /\ batch' \in Seq(Nat) /\ pc' \in {"drain", "collect"} /\ later' \in Seq(PR)
        /\ \A i \in DOMAIN batch' : batch'[i] \in DOMAIN families
        /\ pc' = "collect" => batch' # <<>>
    BY <1>2, <1>3, <2>3, BatchHead
  <2>5. ThreadTyped' /\ ListsTyped' /\ GatesTyped'
    BY <1>5, <2>2, <2>3, <2>4 DEF TypeOK, ThreadTyped, ListsTyped, GatesTyped
  <2>6. Pointers'
    <3>1. pc' \notin Landing \union {"submit", "gate", "confirm"}
      BY <2>4 DEF Landing
    <3> QED
      BY <1>4, <1>5, <2>2, <2>3, <2>4, <3>1 DEF Pointers, SameFamilies
  <2> QED
    BY <1>5, <2>3, <2>5, <2>6 DEF TypeOK
<1>8. CASE CollectGreen(f)
  <2>1. /\ UNCHANGED ByCollect /\ cur' = f /\ at' = 1 /\ pc' = "land"
        /\ UNCHANGED <<families, batch, later, stack, requeue, settling, held, retry, pending>>
    BY <1>8 DEF CollectGreen
  <2>2. 1 \in DOMAIN families[f].steps
    <3>1. families[f].steps \in Seq(Step) /\ families[f].steps # <<>>
      BY <1>2, <1>4, MembersTyped DEF Pointers
    <3> QED
      BY <3>1, LenProperties, EmptySeq
  <2>3. ThreadTyped' /\ ListsTyped' /\ GatesTyped'
    BY <1>2, <1>5, <2>1 DEF TypeOK, ThreadTyped, ListsTyped, GatesTyped, Landing
  <2>4. Pointers'
    BY <1>2, <1>4, <1>5, <2>1, <2>2 DEF Pointers, f
  <2> QED
    BY <1>5, <2>1, <2>3, <2>4 DEF TypeOK
<1>9. CASE CollectUnread(f)
  <2>1. families[f].status \in Status
    BY <1>3 DEF Family
  <2>2. families' \in Seq(Family) /\ SameFamilies
    BY <1>2, <1>9, <2>1, VoidTyped DEF CollectUnread
  <2>3. /\ UNCHANGED ByCollect /\ requeue' = requeue \o Behind /\ batch' = <<>> /\ later' = <<>>
        /\ pc' = "drain" /\ UNCHANGED <<stack, cur, at, settling, held>>
        /\ retry' = retry \union ToSet(Members(f)) /\ pending' = pending \union ToSet(Members(f))
    BY <1>9 DEF CollectUnread
  <2>4. requeue' \in Seq(PR) /\ batch' \in Seq(Nat) /\ later' \in Seq(PR)
    BY <1>3, <1>4, <2>3, ConcatProperties, EmptySeq
  <2>5. ThreadTyped' /\ ListsTyped' /\ GatesTyped'
    BY <1>3, <1>5, <2>2, <2>3, <2>4 DEF TypeOK, ThreadTyped, ListsTyped, GatesTyped
  <2>6. Pointers'
    BY <1>4, <1>5, <2>2, <2>3, PointersResting DEF Pointers, Resting
  <2> QED
    BY <1>5, <2>3, <2>5, <2>6 DEF TypeOK
<1>10. CASE CollectRed(f)
  <2>1. RedStatus(f) \in Status
    BY DEF RedStatus, Status
  <2>2. families' \in Seq(Family) /\ SameFamilies
    BY <1>2, <1>10, <2>1, VoidTyped DEF CollectRed
  <2>3. /\ UNCHANGED ByCollect /\ batch' = <<>> /\ later' = Behind
        /\ pc' = "part" /\ UNCHANGED <<cur, at, settling, retry, pending>>
    BY <1>10 DEF CollectRed
  <2>4. /\ stack' \in Seq(Seq(PR)) /\ requeue' \in Seq(PR) /\ batch' \in Seq(Nat)
        /\ held' \in SUBSET [pr : PR, reason : {"CONFLICT", "GATE_RED"}, head : Tree, tree : Tree]
    BY <1>2, <1>10, <2>3, SettleRedTyped, EmptySeq DEF CollectRed
  <2>5. ThreadTyped' /\ ListsTyped' /\ GatesTyped'
    BY <1>3, <1>5, <2>2, <2>3, <2>4 DEF TypeOK, ThreadTyped, ListsTyped, GatesTyped
  <2>6. Pointers'
    BY <1>4, <1>5, <2>2, <2>3, PointersResting DEF Pointers, Resting
  <2> QED
    BY <1>5, <2>3, <2>5, <2>6 DEF TypeOK
<1> QED
  BY <1>1, <1>6, <1>7, <1>8, <1>9, <1>10 DEF f

\* PartsDone keeps every type.
LEMMA PartsDoneTypeOK == ASSUME TypeOK, PartsDone PROVE TypeOK'
<1>1. /\ requeue' = requeue \o later /\ later' = <<>> /\ settling' = FALSE /\ pc' = "drain"
      /\ UNCHANGED <<world, queue, rounds, fold, stack, batch, cur, at, expected, tries, lists,
                     mode, rows, stopped, families, gates, red>>
  BY DEF PartsDone
<1>2. requeue' \in Seq(PR) /\ later' \in Seq(PR)
  BY <1>1, ConcatProperties, EmptySeq DEF TypeOK, ThreadTyped
<1>3. RemoteTyped' /\ ListsTyped' /\ GatesTyped'
  BY <1>1, RemoteSame, ListsSame, GatesSame DEF TypeOK
<1>4. ThreadTyped'
  BY <1>1, <1>2 DEF TypeOK, ThreadTyped
<1>5. Pointers'
  BY <1>1, PointersResting DEF TypeOK, Pointers, SameFamilies, Resting, world, lists
<1> QED
  BY <1>3, <1>4, <1>5 DEF TypeOK

\* Part keeps every type.
LEMMA PartTypeOK == ASSUME TypeOK, Part PROVE TypeOK'
<1>1. stack # <<>> /\ stack \in Seq(Seq(PR)) /\ requeue \in Seq(PR)
  BY DEF Part, TypeOK, ThreadTyped
<1>2. Head(stack) \in Seq(PR) /\ Tail(stack) \in Seq(Seq(PR))
  BY <1>1, HeadTailProperties
<1> DEFINE started == [base |-> Tip, acc |-> BaseCommit(Tip), steps |-> <<>>,
                       todo |-> Head(stack), rest |-> <<>>, size |-> 1]
<1>3. started \in Folding
  BY <1>2, FoldStarted, EmptySeq
<1>4. Tip \in DOMAIN main /\ Tip \in Nat
  BY TipTyped DEF TypeOK
<1>5. /\ stack' = Tail(stack)
      /\ UNCHANGED left \/ Slips("fail")
      /\ requeue' \in {requeue, requeue \o Head(stack)}
      /\ fold' \in {fold, started} /\ expected' \in {expected, Tip} /\ settling' \in {settling, TRUE}
      /\ pc' \in {"part", "plan"}
      /\ UNCHANGED <<main, pulls, stop, queue, rounds, later, batch, cur, at, tries, lists, mode,
                     rows, stopped, families, gates, red>>
  BY DEF Part
<1> HIDE DEF started
<1>6. requeue' \in Seq(PR)
  BY <1>1, <1>2, <1>5, ConcatProperties
<1>7. RemoteTyped'
  BY <1>5, SlipsTyped DEF TypeOK, RemoteTyped, Slip
<1>8. ListsTyped' /\ GatesTyped'
  BY <1>5, ListsSame, GatesSame DEF TypeOK
<1>9. ThreadTyped'
  BY <1>2, <1>3, <1>4, <1>5, <1>6 DEF TypeOK, ThreadTyped
<1>10. Pointers'
  BY <1>4, <1>5, PointersResting DEF TypeOK, Pointers, SameFamilies, Resting, lists
<1> QED
  BY <1>7, <1>8, <1>9, <1>10 DEF TypeOK

\* PartGated keeps every type.
LEMMA PartGatedTypeOK == ASSUME TypeOK, PartGated PROVE TypeOK'
<1>1. /\ cur \in DOMAIN families /\ cur \in Nat
      /\ requeue \in Seq(PR) /\ later \in Seq(PR) /\ stack \in Seq(Seq(PR))
      /\ held \in SUBSET [pr : PR, reason : {"CONFLICT", "GATE_RED"}, head : Tree, tree : Tree]
      /\ GatesTyped /\ Pointers /\ families \in Seq(Family)
  BY DEF TypeOK, Pointers, PartGated, ThreadTyped, ListsTyped, GatesTyped
<1>2. ToSet(Members(cur)) \subseteq PR
  BY <1>1, MembersTyped, ToSetTyped
<1>3. UNCHANGED <<ByCollect, settling, later, batch, cur, pending>>
  BY DEF PartGated
<1>4. /\ RemoteTyped'
      /\ fold' \in Folding /\ queue' \in Seq(PR) /\ rounds' \in Nat /\ expected' \in Nat
      /\ tries' \in 0..1 /\ mode' \in Modes /\ rows' \in [PR -> Commit] /\ stopped' \in BOOLEAN
      /\ merges' \in Seq(MergeRow) /\ out' \subseteq PR /\ pending' \subseteq PR
      /\ alerts' \in SUBSET {"RUN_UNREAD", "PAIRS_UNREAD", "TREE_MISMATCH"}
      /\ settling' \in BOOLEAN /\ later' \in Seq(PR) /\ batch' \in Seq(Nat) /\ cur' \in Nat
  BY <1>3 DEF ByCollect, TypeOK, RemoteTyped, ThreadTyped, ListsTyped
<1>5. \/ /\ retry' = retry \union ToSet(Members(cur)) /\ pc' = "part"
         /\ UNCHANGED <<families, at, held, stack, requeue>>
      \/ /\ at' = 1 /\ pc' = "land" /\ UNCHANGED <<families, retry, held, stack, requeue>>
      \/ /\ families' = Setting(cur, RedStatus(cur)) /\ SettleRed(cur) /\ pc' = "part"
         /\ UNCHANGED <<retry, at>>
  BY DEF PartGated
<1>6. families' \in Seq(Family) /\ SameFamilies
  <2>1. RedStatus(cur) \in Status
    BY DEF RedStatus, Status
  <2> QED
    BY <1>1, <1>5, <2>1, StatusSetTyped DEF SameFamilies
<1>7. /\ stack' \in Seq(Seq(PR)) /\ requeue' \in Seq(PR)
      /\ held' \in SUBSET [pr : PR, reason : {"CONFLICT", "GATE_RED"}, head : Tree, tree : Tree]
  BY <1>1, <1>5, SettleRedTyped
<1>8. at' \in Nat /\ retry' \subseteq PR /\ pc' \in {"part", "land"}
  BY <1>2, <1>5 DEF TypeOK, ThreadTyped, ListsTyped
<1>9. ThreadTyped' /\ ListsTyped' /\ GatesTyped'
  BY <1>3, <1>4, <1>6, <1>7, <1>8 DEF ThreadTyped, ListsTyped, GatesTyped, TypeOK, ByCollect, Landing
<1>10. Pointers'
  <2>1. CASE pc' = "part"
    BY <1>1, <1>3, <1>6, <2>1, PointersResting DEF Pointers, Resting, ByCollect
  <2>2. CASE pc' = "land"
    <3>1. settling
      BY DEF PartGated, TypeOK, Pointers
    <3>2. 1 \in DOMAIN families[cur].steps
      <4>1. families[cur].steps \in Seq(Step) /\ families[cur].steps # <<>>
        BY <1>1, MembersTyped DEF Pointers
      <4> QED
        BY <4>1, LenProperties, EmptySeq
    <3> QED
      BY <1>1, <1>3, <1>5, <2>2, <3>1, <3>2 DEF Pointers, ByCollect
  <2> QED
    BY <1>8, <2>1, <2>2
<1> QED
  BY <1>4, <1>9, <1>10 DEF TypeOK

\* What a landing points at.
LEMMA LandingPointers ==
  ASSUME TypeOK, pc \in Landing
  PROVE  /\ cur \in DOMAIN families /\ at \in DOMAIN families[cur].steps
         /\ at \in Nat \ {0} /\ Len(families[cur].steps) \in Nat
         /\ Planned \in Step /\ N \in PR
         /\ Members(cur) \in Seq(PR) /\ Rest \in Seq(PR) /\ Tail(Rest) \in Seq(PR)
         /\ Prepared \in Commit
         /\ ~settling => batch # <<>> /\ batch[1] = cur
<1>1. /\ cur \in DOMAIN families /\ at \in DOMAIN families[cur].steps
      /\ ~settling => batch # <<>> /\ batch[1] = cur
  BY DEF TypeOK, Pointers
<1>2. families[cur].steps \in Seq(Step) /\ Members(cur) \in Seq(PR)
  BY <1>1, MembersTyped DEF TypeOK
<1>3. at \in Nat \ {0} /\ Len(families[cur].steps) \in Nat /\ at \in 1..Len(families[cur].steps)
  BY <1>1, <1>2, LenProperties
<1>4. Planned \in Step
  BY <1>2, <1>3, ElementOfSeq DEF Planned
<1>5. N \in PR
  BY <1>4 DEF N, Step
<1>6. Rest \in Seq(PR) /\ Rest # <<>>
  <2>1. DOMAIN Members(cur) = DOMAIN families[cur].steps
    BY DEF Members, Numbers
  <2> QED
    BY <1>1, <1>2, <1>3, <2>1, FromTyped DEF Rest
<1>7. Tail(Rest) \in Seq(PR)
  BY <1>6, HeadTailProperties
<1>8. Prepared \in Commit
  <2>1. expected \in DOMAIN main
    BY DEF TypeOK, Pointers
  <2> QED
    BY <1>5, <2>1, HeadsTyped, BaseCommitTyped, JoinedTyped DEF Prepared, TypeOK
<1> QED
  BY <1>1, <1>2, <1>3, <1>4, <1>5, <1>6, <1>7, <1>8

\* What every step of a landing keeps, whether or not it goes on.
LandingKeeps ==
  /\ RemoteTyped' /\ UNCHANGED ByLanding
  /\ DOMAIN main \subseteq DOMAIN main' /\ expected' \in DOMAIN main' /\ expected' \in Nat
  /\ at' \in Nat /\ tries' \in 0..1 /\ rows' \in [PR -> Commit] /\ stopped' \in BOOLEAN
  /\ merges' \in Seq(MergeRow) /\ \A m \in DOMAIN merges' : merges'[m].sha \in DOMAIN main'
  /\ retry' \subseteq PR /\ pending' \subseteq PR
  /\ alerts' \in SUBSET {"RUN_UNREAD", "PAIRS_UNREAD", "TREE_MISMATCH"}

\* A landing that is left keeps every type (_stop_family and land_family's returns).
LEMMA LeaveTypeOK ==
  ASSUME TypeOK, pc \in Landing, LandingKeeps, NEW status \in Status, NEW back \in Seq(PR),
         Leave(status, back)
  PROVE  TypeOK'
<1>1. cur \in DOMAIN families /\ (~settling => batch # <<>>)
  BY LandingPointers
<1>2. families' \in Seq(Family) /\ SameFamilies
  BY <1>1, StatusSetTyped DEF Leave
<1>3. requeue \in Seq(PR) /\ later \in Seq(PR) /\ batch \in Seq(Nat)
  BY DEF TypeOK, ThreadTyped
<1>4. /\ requeue' \in Seq(PR) /\ later' \in Seq(PR) /\ batch' \in Seq(Nat)
      /\ pc' \in {"part", "drain"} /\ batch' \in {batch, <<>>}
  <2>1. CASE settling
    BY <1>3, <2>1, ConcatProperties DEF Leave, Returned
  <2>2. CASE ~settling
    <3>1. Behind \in Seq(PR) /\ requeue \o back \in Seq(PR)
      BY <1>1, <1>3, <2>2, BehindTyped, ConcatProperties
    <3> QED
      BY <1>3, <2>2, <3>1, ConcatProperties, EmptySeq DEF Leave, Returned
  <2> QED
    BY <2>1, <2>2
<1>5. ThreadTyped' /\ ListsTyped' /\ GatesTyped'
  BY <1>2, <1>4 DEF LandingKeeps, ByLanding, TypeOK, ThreadTyped, ListsTyped, GatesTyped
<1>6. Pointers'
  <2>1. pc' \notin Landing \union {"collect", "submit", "gate", "confirm"}
    BY <1>4 DEF Landing
  <2>2. \A i \in DOMAIN batch' : batch'[i] \in DOMAIN families
    BY <1>4 DEF TypeOK, Pointers
  <2> QED
    BY <1>2, <2>1, <2>2 DEF LandingKeeps, TypeOK, Pointers, SameFamilies
<1> QED
  BY <1>5, <1>6 DEF TypeOK, LandingKeeps

\* A landing that goes on keeps every type.
LEMMA OnwardTypeOK ==
  ASSUME TypeOK, pc \in Landing, LandingKeeps, pc' \in Landing,
         UNCHANGED <<families, requeue, batch, later>>,
         at' \in DOMAIN families[cur].steps, pc' = "confirm" => merges' # <<>>
  PROVE  TypeOK'
<1>1. ThreadTyped' /\ ListsTyped' /\ GatesTyped'
  BY DEF LandingKeeps, ByLanding, TypeOK, ThreadTyped, ListsTyped, GatesTyped
<1>2. Pointers'
  <2>1. pc' \notin {"collect", "submit", "gate"}
    BY DEF Landing
  <2> QED
    BY <2>1, LandingPointers DEF LandingKeeps, ByLanding, TypeOK, Pointers
<1> QED
  BY <1>1, <1>2 DEF TypeOK, LandingKeeps

\* The status of a family that is left (_stop_family).
LEMMA StopStatusTyped == ASSUME NEW s \in Status PROVE StopStatus(s) \in Status
BY DEF StopStatus, Status

\* A landing left after a failed read, or for the hold label, keeps every type.
LEMMA ReadFailsTypeOK ==
  ASSUME TypeOK, pc \in Landing, LandingKeeps, ReadFails \/ Withheld
  PROVE  TypeOK'
<1>1. StopStatus("RETRY") \in Status /\ StopStatus("WITHHELD") \in Status
  BY StopStatusTyped DEF Status
<1> QED
  BY <1>1, LandingPointers, LeaveTypeOK DEF ReadFails, Withheld

\* A step that reads, and at most fails once more, keeps what a landing keeps.
LEMMA ReadKeeps ==
  ASSUME TypeOK, UNCHANGED ByLanding, UNCHANGED left \/ Slips("fail"),
         UNCHANGED <<main, pulls, stop, at, expected, rows, merges, alerts, stopped>>,
         tries' \in 0..1, retry' \subseteq PR, pending' \subseteq PR
  PROVE  LandingKeeps
<1>1. RemoteTyped'
  BY SlipsTyped DEF TypeOK, RemoteTyped, Slip
<1> QED
  BY <1>1 DEF LandingKeeps, TypeOK, ThreadTyped, ListsTyped, Pointers

\* Naming the pull request at hand for a retry.
LEMMA RetryTyped ==
  ASSUME TypeOK, pc \in Landing
  PROVE  /\ retry \subseteq PR /\ retry \union {N} \subseteq PR /\ pending \subseteq PR
         /\ tries \in 0..1
BY LandingPointers DEF TypeOK, ListsTyped, ThreadTyped

\* LandCheck keeps every type.
LEMMA LandCheckTypeOK == ASSUME TypeOK, LandCheck PROVE TypeOK'
<1>1. pc \in Landing
  BY DEF LandCheck, Landing
<1>2. /\ UNCHANGED <<ByLanding, main, pulls, stop, at, expected, rows, merges, pending, alerts,
                    stopped>>
      /\ UNCHANGED left \/ Slips("fail")
      /\ tries' \in {tries, 0} /\ retry' \in {retry, retry \union {N}}
  BY DEF LandCheck, ReadFails, Withheld
<1>3. LandingKeeps
  BY <1>1, <1>2, ReadKeeps, RetryTyped
<1>4. \/ Leave(StopStatus("REQUEUED"), Rest) \/ ReadFails \/ Withheld
      \/ pc' \in {"decide", "push"} /\ UNCHANGED <<families, requeue, batch, later>>
  BY DEF LandCheck
<1>5. CASE Leave(StopStatus("REQUEUED"), Rest)
  <2>1. StopStatus("REQUEUED") \in Status
    BY StopStatusTyped DEF Status
  <2> QED
    BY <1>1, <1>3, <1>5, <2>1, LandingPointers, LeaveTypeOK
<1>6. CASE pc' \in {"decide", "push"} /\ UNCHANGED <<families, requeue, batch, later>>
  <2>1. pc' \in Landing /\ pc' # "confirm" /\ at' \in DOMAIN families[cur].steps
    BY <1>1, <1>2, <1>6, LandingPointers DEF Landing
  <2> QED
    BY <1>1, <1>3, <1>6, <2>1, OnwardTypeOK
<1> QED
  BY <1>1, <1>3, <1>4, <1>5, <1>6, ReadFailsTypeOK

\* Decide keeps every type.
LEMMA DecideTypeOK == ASSUME TypeOK, Decide PROVE TypeOK'
<1>1. pc \in Landing
  BY DEF Decide, Landing
<1>2. /\ UNCHANGED <<ByLanding, world, at, expected, rows, merges, alerts, stopped>>
      /\ tries' \in {tries, 1} /\ retry' \in {retry, retry \union {N}}
      /\ pending' \in {pending, pending \union ToSet(Rest)}
  BY DEF Decide, ReadFails
<1>3. LandingKeeps
  <2>1. pending' \subseteq PR /\ retry' \subseteq PR /\ tries' \in 0..1
    BY <1>1, <1>2, LandingPointers, RetryTyped, ToSetTyped
  <2> QED
    BY <1>1, <1>2, <2>1, ReadKeeps DEF world
<1>4. \/ Leave(StopStatus("RETRY"), <<>>) \/ ReadFails
      \/ pc' \in {"recheck", "reread"} /\ UNCHANGED <<families, requeue, batch, later>>
  BY DEF Decide
<1>5. CASE Leave(StopStatus("RETRY"), <<>>)
  <2>1. StopStatus("RETRY") \in Status /\ <<>> \in Seq(PR)
    BY StopStatusTyped, EmptySeq DEF Status
  <2> QED
    BY <1>1, <1>3, <1>5, <2>1, LeaveTypeOK
<1>6. CASE pc' \in {"recheck", "reread"} /\ UNCHANGED <<families, requeue, batch, later>>
  <2>1. pc' \in Landing /\ pc' # "confirm" /\ at' \in DOMAIN families[cur].steps
    BY <1>1, <1>2, <1>6, LandingPointers DEF Landing
  <2> QED
    BY <1>1, <1>3, <1>6, <2>1, OnwardTypeOK
<1> QED
  BY <1>1, <1>3, <1>4, <1>5, <1>6, ReadFailsTypeOK

\* Reobserve keeps every type.
LEMMA ReobserveTypeOK == ASSUME TypeOK, Reobserve \/ Await PROVE TypeOK'
<1>1. pc \in Landing
  BY DEF Reobserve, Await, Landing
<1>2. /\ UNCHANGED <<ByLanding, main, pulls, stop, at, expected, tries, rows, merges, pending,
                    alerts, stopped>>
      /\ UNCHANGED left \/ Slips("fail")
      /\ retry' \in {retry, retry \union {N}}
  BY DEF Reobserve, Await, ReadFails, Withheld
<1>3. LandingKeeps
  BY <1>1, <1>2, ReadKeeps, RetryTyped
<1>4. \/ ReadFails \/ Withheld
      \/ pc' \in {"decide", "push", "merge"} /\ UNCHANGED <<families, requeue, batch, later>>
  BY DEF Reobserve, Await
<1>5. CASE pc' \in {"decide", "push", "merge"} /\ UNCHANGED <<families, requeue, batch, later>>
  <2>1. pc' \in Landing /\ pc' # "confirm" /\ at' \in DOMAIN families[cur].steps
    BY <1>1, <1>2, <1>5, LandingPointers DEF Landing
  <2> QED
    BY <1>1, <1>3, <1>5, <2>1, OnwardTypeOK
<1> QED
  BY <1>1, <1>3, <1>4, <1>5, ReadFailsTypeOK

\* Push keeps every type.
LEMMA PushTypeOK == ASSUME TypeOK, Push PROVE TypeOK'
<1>1. pc \in Landing
  BY DEF Push, Landing
<1>2. /\ UNCHANGED <<ByLanding, main, stop, at, expected, tries, rows, merges, pending, alerts,
                    stopped>>
      /\ UNCHANGED left \/ Slips("fail")
      /\ pulls' \in {pulls, [pulls EXCEPT ![N].head = Prepared]}
      /\ retry' \in {retry, retry \union {N}}
  BY DEF Push, ReadFails
<1>3. RemoteTyped'
  <2>1. pulls' \in [PR -> [open : BOOLEAN, label : BOOLEAN, head : Commit]]
    BY <1>1, <1>2, LandingPointers DEF TypeOK, RemoteTyped
  <2> QED
    BY <1>2, <2>1, SlipsTyped DEF TypeOK, RemoteTyped, Slip
<1>4. LandingKeeps
  BY <1>1, <1>2, <1>3, RetryTyped DEF LandingKeeps, TypeOK, ThreadTyped, ListsTyped, Pointers
<1>5. ReadFails \/ (pc' = "await" /\ UNCHANGED <<families, requeue, batch, later>>)
  BY DEF Push
<1>6. CASE pc' = "await" /\ UNCHANGED <<families, requeue, batch, later>>
  <2>1. pc' \in Landing /\ pc' # "confirm" /\ at' \in DOMAIN families[cur].steps
    BY <1>1, <1>2, <1>6, LandingPointers DEF Landing
  <2> QED
    BY <1>1, <1>4, <1>6, <2>1, OnwardTypeOK
<1> QED
  BY <1>1, <1>4, <1>5, <1>6, ReadFailsTypeOK

\* Merge keeps every type.
LEMMA MergeTypeOK == ASSUME TypeOK, Merge PROVE TypeOK'
<1> DEFINE row == [tree |-> main[Tip].tree \union pulls[N].head.lanes, by |-> N]
           merge == [pr |-> N, family |-> cur, sha |-> Tip + 1,
                     tree |-> Planned.commit.lanes, identity |-> "unread"]
<1>1. pc \in Landing
  BY DEF Merge, Landing
<1>2. /\ UNCHANGED <<ByLanding, stop, at, expected, tries, pending, alerts, stopped>>
      /\ UNCHANGED left \/ Slips("fail") \/ Slips("ack")
      /\ \/ UNCHANGED <<main, pulls>>
         \/ main' = Append(main, row) /\ pulls' = [pulls EXCEPT ![N].open = FALSE]
      /\ \/ UNCHANGED <<rows, merges>> /\ ReadFails
         \/ /\ main' = Append(main, row) /\ rows' = [rows EXCEPT ![N] = Prepared]
            /\ merges' = Append(merges, merge)
            /\ pc' = "confirm" /\ UNCHANGED <<families, requeue, batch, later, retry>>
      /\ retry' \in {retry, retry \union {N}}
  BY DEF Merge, ReadFails
<1>3. main \in Seq(BaseRow) /\ merges \in Seq(MergeRow) /\ Tip \in Nat \ {0} /\ Tip \in DOMAIN main
      /\ Tip = Len(main) /\ DOMAIN main = 1..Tip
  BY TipTyped, LenProperties DEF TypeOK, RemoteTyped, ListsTyped, Tip
<1>4. row \in BaseRow
  <2>1. main[Tip] \in BaseRow /\ N \in PR /\ pulls[N].head \in Commit
    BY <1>1, <1>3, LandingPointers, MainIndex, HeadsTyped DEF TypeOK
  <2> QED
    BY <2>1 DEF BaseRow, Commit, Tree
<1>5. merge \in MergeRow /\ merge.sha = Tip + 1
  BY <1>1, <1>3, LandingPointers, FamilyTyped DEF MergeRow, Step, Commit, TypeOK
<1> HIDE DEF row, merge
<1>6. /\ main' \in Seq(BaseRow) /\ DOMAIN main \subseteq DOMAIN main'
      /\ main' = Append(main, row) => Tip + 1 \in DOMAIN main'
  <2>1. CASE main' = main
    <3>1. main' # Append(main, row)
      BY <1>3, <1>4, <2>1, AppendProperties
    <3> QED
      BY <1>3, <2>1, <3>1
  <2>2. CASE main' = Append(main, row)
    <3>1. main' \in Seq(BaseRow) /\ Len(main') = Tip + 1
      BY <1>3, <1>4, <2>2, AppendProperties
    <3>2. DOMAIN main' = 1..(Tip + 1)
      BY <3>1, LenProperties
    <3> QED
      BY <1>3, <3>1, <3>2
  <2> QED
    BY <1>2, <2>1, <2>2
<1>7. RemoteTyped'
  <2>1. pulls' \in [PR -> [open : BOOLEAN, label : BOOLEAN, head : Commit]]
    BY <1>1, <1>2, LandingPointers DEF TypeOK, RemoteTyped
  <2>2. left' \in [Slip -> Nat]
    BY <1>2, SlipsTyped DEF TypeOK, RemoteTyped, Slip
  <2> QED
    BY <1>2, <1>6, <2>1, <2>2 DEF TypeOK, RemoteTyped
<1>8. rows' \in [PR -> Commit]
  BY <1>1, <1>2, LandingPointers DEF TypeOK, ThreadTyped
<1>9. merges' \in Seq(MergeRow) /\ \A m \in DOMAIN merges' : merges'[m].sha \in DOMAIN main'
  <2>1. CASE merges' = merges
    BY <1>3, <1>6, <2>1 DEF TypeOK, Pointers
  <2>2. CASE main' = Append(main, row) /\ merges' = Append(merges, merge)
    <3>1. /\ merges' \in Seq(MergeRow) /\ Len(merges') = Len(merges) + 1
          /\ \A m \in 1..Len(merges) : merges'[m] = merges[m]
          /\ merges'[Len(merges) + 1] = merge
      BY <1>3, <1>5, <2>2, AppendProperties
    <3>2. /\ DOMAIN merges' = 1..(Len(merges) + 1) /\ DOMAIN merges = 1..Len(merges)
          /\ Len(merges) \in Nat
      BY <1>3, <3>1, LenProperties
    <3>3. \A m \in DOMAIN merges' : m \in DOMAIN merges \/ m = Len(merges) + 1
      BY <3>2
    <3> QED
      BY <1>5, <1>6, <2>2, <3>1, <3>2, <3>3 DEF TypeOK, Pointers
  <2> QED
    BY <1>2, <2>1, <2>2
<1>10. LandingKeeps
  BY <1>1, <1>2, <1>6, <1>7, <1>8, <1>9, RetryTyped
     DEF LandingKeeps, TypeOK, ThreadTyped, ListsTyped, Pointers
<1>11. CASE ReadFails
  BY <1>1, <1>10, <1>11, ReadFailsTypeOK
<1>12. CASE /\ merges' = Append(merges, merge) /\ pc' = "confirm"
            /\ UNCHANGED <<families, requeue, batch, later, retry>>
  <2>1. merges' # <<>>
    BY <1>3, <1>5, <1>12, AppendProperties
  <2>2. pc' \in Landing /\ at' \in DOMAIN families[cur].steps
    BY <1>1, <1>2, <1>12, LandingPointers DEF Landing
  <2> QED
    BY <1>1, <1>10, <1>12, <2>1, <2>2, OnwardTypeOK
<1> QED
  BY <1>2, <1>11, <1>12

\* Cancel keeps every type.
LEMMA CancelTypeOK == ASSUME TypeOK, Cancel PROVE TypeOK'
<1>1. /\ pc' = "join"
      /\ UNCHANGED <<world, thread, lists, mode, rows, stopped, gates, red>>
  BY DEF Cancel
<1>2. families' \in Seq(Family) /\ SameFamilies
  <2> DEFINE cancelled(f) == [families[f] EXCEPT !.future = "cancelled",
                                                 !.status = IF stop THEN "REQUEUED" ELSE @]
  <2>1. \A f \in DOMAIN families :
          cancelled(f) \in Family /\ cancelled(f).steps = families[f].steps
    BY FamilyTyped DEF TypeOK, Family, Status
  <2>2. families' = [f \in DOMAIN families |->
          IF families[f].future # "queued" THEN families[f] ELSE cancelled(f)]
    BY DEF Cancel
  <2> HIDE DEF cancelled
  <2> QED
    BY <2>1, <2>2, FamilyTyped, FamilyRowsSet DEF TypeOK
<1>3. RemoteTyped' /\ ListsTyped'
  BY <1>1, RemoteSame, ListsSame DEF TypeOK
<1>4. ThreadTyped' /\ GatesTyped'
  BY <1>1, <1>2 DEF TypeOK, ThreadTyped, GatesTyped, thread
<1>5. Pointers'
  BY <1>1, <1>2, PointersResting DEF TypeOK, Pointers, Resting, world, thread, lists
<1> QED
  BY <1>3, <1>4, <1>5 DEF TypeOK

\* Join keeps every type.
LEMMA JoinTypeOK == ASSUME TypeOK, Join PROVE TypeOK'
<1>1. /\ UNCHANGED <<world, fold, stack, requeue, later, batch, cur, at, expected, settling, tries,
                     merges, held, retry, out, alerts, mode, rows, stopped, families, gates, red>>
      /\ Continue(requeue)
  BY DEF Join
<1>2. /\ queue' \in Seq(PR) /\ rounds' \in Nat /\ pc' \in {"round", "snapshot", "done"}
      /\ pending' \subseteq PR
  BY <1>1, ContinueTyped DEF TypeOK, ThreadTyped
<1>3. RemoteTyped' /\ GatesTyped'
  BY <1>1, RemoteSame, GatesSame DEF TypeOK
<1>4. ThreadTyped' /\ ListsTyped'
  BY <1>1, <1>2 DEF TypeOK, ThreadTyped, ListsTyped
<1>5. Pointers'
  BY <1>1, <1>2, PointersResting DEF TypeOK, Pointers, SameFamilies, Resting, world
<1> QED
  BY <1>3, <1>4, <1>5 DEF TypeOK

\* Confirm keeps every type.
LEMMA ConfirmTypeOK == ASSUME TypeOK, Confirm PROVE TypeOK'
<1> DEFINE m == Len(merges)
           last == merges[m]
           steps == families[cur].steps
<1>1. pc \in Landing /\ pc = "confirm"
  BY DEF Confirm, Landing
<1>2. /\ m \in DOMAIN merges /\ last \in MergeRow /\ last.sha \in DOMAIN main
      /\ merges \in Seq(MergeRow) /\ m \in 1..Len(merges) /\ DOMAIN merges = 1..Len(merges)
  <2>1. merges \in Seq(MergeRow) /\ merges # <<>>
    BY <1>1 DEF TypeOK, ListsTyped, Pointers
  <2>2. m \in 1..Len(merges) /\ DOMAIN merges = 1..Len(merges)
    BY <2>1, LenProperties, EmptySeq
  <2> QED
    BY <2>1, <2>2, ElementOfSeq DEF TypeOK, Pointers
<1>3. /\ UNCHANGED <<ByLanding, main, pulls, stop, rows, tries, pending>>
      /\ UNCHANGED left \/ Slips("fail")
      /\ retry' \in {retry, retry \union {N}}
      /\ stopped' \in {stopped, TRUE} /\ alerts' \in {alerts, alerts \union {"TREE_MISMATCH"}}
      /\ \/ UNCHANGED merges
         \/ merges' = [merges EXCEPT ![m].identity = "differs"]
         \/ merges' = [merges EXCEPT ![m].identity = "same"]
      /\ expected' \in {expected, last.sha}
      /\ \/ Leave("LANDED_TREE_UNREAD", Tail(Rest)) /\ UNCHANGED at
         \/ Leave("TREE_MISMATCH", <<>>) /\ UNCHANGED at
         \/ /\ at < Len(steps) /\ at' = at + 1 /\ pc' = "land"
            /\ UNCHANGED <<families, batch, later, requeue>>
         \/ /\ families' = [families EXCEPT ![cur].status = "LANDED", ![cur].landed = last.sha]
            /\ batch' = (IF settling THEN batch ELSE Tail(batch))
            /\ later' = (IF settling THEN later ELSE Behind)
            /\ pc' = (IF settling THEN "part"
                      ELSE IF Tail(batch) = <<>> THEN "drain" ELSE "collect")
            /\ UNCHANGED <<at, requeue>>
  BY DEF Confirm
<1>4. /\ cur \in DOMAIN families /\ at \in Nat /\ at \in DOMAIN steps /\ Len(steps) \in Nat
      /\ DOMAIN steps = 1..Len(steps)
      /\ N \in PR /\ Tail(Rest) \in Seq(PR)
      /\ ~settling => batch # <<>> /\ batch[1] = cur
  <2>1. steps \in Seq(Step)
    BY <1>1, LandingPointers, MembersTyped DEF TypeOK
  <2> QED
    BY <1>1, <2>1, LandingPointers, LenProperties
<1>5. merges' \in Seq(MergeRow) /\ \A k \in DOMAIN merges' : merges'[k].sha \in DOMAIN main'
  <2>1. ASSUME NEW x \in {"unread", "same", "differs"},
               merges' = [merges EXCEPT ![m].identity = x]
        PROVE  merges' \in Seq(MergeRow) /\ \A k \in DOMAIN merges' : merges'[k].sha \in DOMAIN main'
    <3> DEFINE noted == [last EXCEPT !.identity = x]
    <3>1. noted \in MergeRow /\ noted.sha = last.sha
      BY <1>2 DEF MergeRow
    <3>2. merges' = [merges EXCEPT ![m] = noted]
      BY <2>1
    <3> HIDE DEF noted, m, last
    <3>3. merges' \in Seq(MergeRow)
      BY <1>2, <3>1, <3>2, ExceptSeq
    <3>4. /\ DOMAIN merges' = DOMAIN merges
          /\ \A k \in DOMAIN merges : merges'[k] = IF k = m THEN noted ELSE merges[k]
      BY <3>2
    <3> QED
      BY <1>2, <1>3, <3>1, <3>3, <3>4 DEF TypeOK, Pointers
  <2>2. CASE UNCHANGED merges
    BY <1>3, <2>2 DEF TypeOK, ListsTyped, Pointers
  <2> QED
    BY <1>3, <2>1, <2>2
<1> HIDE DEF m, last
<1>6. LandingKeeps
  <2>1. RemoteTyped'
    BY <1>3, SlipsTyped DEF TypeOK, RemoteTyped, Slip
  <2>2. expected' \in DOMAIN main' /\ expected' \in Nat
    BY <1>2, <1>3, MainIndex DEF TypeOK, Pointers
  <2>3. at' \in Nat
    BY <1>3, <1>4 DEF Leave
  <2> QED
    BY <1>1, <1>3, <1>5, <2>1, <2>2, <2>3, RetryTyped
       DEF LandingKeeps, TypeOK, ThreadTyped, ListsTyped
<1>7. CASE Leave("LANDED_TREE_UNREAD", Tail(Rest)) \/ Leave("TREE_MISMATCH", <<>>)
  <2>1. "LANDED_TREE_UNREAD" \in Status /\ "TREE_MISMATCH" \in Status /\ <<>> \in Seq(PR)
    BY EmptySeq DEF Status
  <2> QED
    BY <1>1, <1>4, <1>6, <1>7, <2>1, LeaveTypeOK
<1>8. CASE /\ at < Len(steps) /\ at' = at + 1 /\ pc' = "land"
           /\ UNCHANGED <<families, batch, later, requeue>>
  <2>1. at' \in DOMAIN steps
    BY <1>4, <1>8
  <2>2. pc' \in Landing /\ pc' # "confirm"
    BY <1>8 DEF Landing
  <2> QED
    BY <1>1, <1>6, <1>8, <2>1, <2>2, OnwardTypeOK
<1>9. CASE /\ families' = [families EXCEPT ![cur].status = "LANDED", ![cur].landed = last.sha]
           /\ batch' = (IF settling THEN batch ELSE Tail(batch))
           /\ later' = (IF settling THEN later ELSE Behind)
           /\ pc' = (IF settling THEN "part"
                     ELSE IF Tail(batch) = <<>> THEN "drain" ELSE "collect")
           /\ UNCHANGED <<at, requeue>>
  <2> DEFINE e == [families[cur] EXCEPT !.status = "LANDED", !.landed = last.sha]
  <2>1. e \in Family /\ e.steps = steps
    BY <1>2, <1>4, FamilyTyped, MainIndex DEF TypeOK, Family, Status
  <2>2. families' = [families EXCEPT ![cur] = e]
    BY <1>9
  <2> HIDE DEF e
  <2>3. families' \in Seq(Family) /\ SameFamilies
    BY <1>4, <2>1, <2>2, FamilyRowSet DEF TypeOK
  <2>4. /\ batch' \in Seq(Nat) /\ later' \in Seq(PR) /\ pc' \in {"part", "drain", "collect"}
        /\ \A i \in DOMAIN batch' : batch'[i] \in DOMAIN families
        /\ pc' = "collect" => batch' # <<>>
    <3>1. CASE settling
      BY <1>9, <3>1 DEF TypeOK, ThreadTyped, Pointers
    <3>2. CASE ~settling
      BY <1>4, <1>9, <3>2, BatchHead, BehindTyped
    <3> QED
      BY <3>1, <3>2
  <2>5. ThreadTyped' /\ ListsTyped' /\ GatesTyped'
    BY <1>6, <1>9, <2>3, <2>4
       DEF LandingKeeps, ByLanding, TypeOK, ThreadTyped, ListsTyped, GatesTyped
  <2>6. Pointers'
    <3>1. pc' \notin Landing \union {"submit", "gate", "confirm"}
      BY <2>4 DEF Landing
    <3> QED
      BY <1>6, <2>3, <2>4, <3>1 DEF LandingKeeps, TypeOK, Pointers, SameFamilies
  <2> QED
    BY <1>6, <2>5, <2>6 DEF TypeOK, LandingKeeps
<1> QED
  BY <1>3, <1>7, <1>8, <1>9

\* Disturb keeps every type.
LEMMA DisturbTypeOK == ASSUME TypeOK, Disturb PROVE TypeOK'
<1>1. UNCHANGED Outside /\ (OutsideCommit \/ RequestStop \/ \E p \in PR : AuthorPush(p) \/ HoldLabel(p))
  BY DEF Disturb
<1>2. ThreadTyped'
  BY <1>1 DEF TypeOK, ThreadTyped, Outside, thread
<1>3. ListsTyped' /\ GatesTyped'
  BY <1>1, ListsSame, GatesSame DEF TypeOK, Outside
<1>4. CASE OutsideCommit
  <2>1. PICK added \in {{}, {<<0, Tip>>}} :
          main' = Append(main, [tree |-> main[Tip].tree \union added, by |-> 0])
    BY <1>4 DEF OutsideCommit
  <2> DEFINE row == [tree |-> main[Tip].tree \union added, by |-> 0]
  <2>2. Tip \in DOMAIN main /\ Tip \in Nat /\ main[Tip] \in BaseRow
    BY TipTyped, MainIndex DEF TypeOK
  <2>3. row \in BaseRow
    BY <2>1, <2>2 DEF BaseRow, Tree, Lane
  <2> HIDE DEF row
  <2>4. main \in Seq(BaseRow) /\ Len(main) \in Nat /\ DOMAIN main = 1..Len(main)
    BY LenProperties DEF TypeOK, RemoteTyped
  <2>5. main' \in Seq(BaseRow) /\ Len(main') = Len(main) + 1
    BY <2>1, <2>3, <2>4, AppendProperties DEF row
  <2>6. DOMAIN main \subseteq DOMAIN main'
    BY <2>4, <2>5, LenProperties
  <2>7. RemoteTyped'
    BY <1>4, <2>5, SlipsTyped DEF TypeOK, RemoteTyped, OutsideCommit, Slip
  <2>8. Pointers'
    BY <1>1, <2>6 DEF TypeOK, Pointers, Outside, thread, lists
  <2> QED
    BY <1>2, <1>3, <2>7, <2>8 DEF TypeOK
<1>5. CASE RequestStop \/ \E p \in PR : AuthorPush(p) \/ HoldLabel(p)
  <2>1. Pointers'
    BY <1>1, <1>5, PointersKept
       DEF TypeOK, Outside, thread, lists, SameFamilies, RequestStop, AuthorPush, HoldLabel
  <2>2. ASSUME RequestStop PROVE RemoteTyped'
    BY <2>2, SlipsTyped DEF TypeOK, RemoteTyped, RequestStop, Slip
  <2>3. ASSUME NEW p \in PR, AuthorPush(p) PROVE RemoteTyped'
    <3> DEFINE pushed == [pulls[p].head EXCEPT !.lanes = @ \union {<<p, left["push"]>>}]
    <3>1. left["push"] \in Nat
      BY DEF TypeOK, RemoteTyped, Slip
    <3>2. pushed \in Commit
      BY <3>1, HeadsTyped DEF Commit, Tree, Lane
    <3>3. pulls' = [pulls EXCEPT ![p] = [pulls[p] EXCEPT !.head = pushed]]
      BY <2>3 DEF AuthorPush
    <3> HIDE DEF pushed
    <3>4. pulls' \in [PR -> [open : BOOLEAN, label : BOOLEAN, head : Commit]]
      BY <3>2, <3>3 DEF TypeOK, RemoteTyped
    <3> QED
      BY <2>3, <3>4, SlipsTyped DEF TypeOK, RemoteTyped, AuthorPush, Slip
  <2>4. ASSUME NEW p \in PR, HoldLabel(p) PROVE RemoteTyped'
    <3>1. pulls' \in [PR -> [open : BOOLEAN, label : BOOLEAN, head : Commit]]
      BY <2>4 DEF TypeOK, RemoteTyped, HoldLabel
    <3> QED
      BY <2>4, <3>1, SlipsTyped DEF TypeOK, RemoteTyped, HoldLabel, Slip
  <2>5. RemoteTyped'
    BY <1>5, <2>2, <2>3, <2>4 DEF TypeOK
  <2> QED
    BY <1>2, <1>3, <2>1, <2>5 DEF TypeOK
<1> QED
  BY <1>1, <1>4, <1>5

\* A step that changes nothing keeps every type.
LEMMA StutterTypeOK == ASSUME TypeOK, UNCHANGED vars PROVE TypeOK'
<1>1. RemoteTyped' /\ ListsTyped' /\ GatesTyped'
  BY RemoteSame, ListsSame, GatesSame DEF TypeOK, vars
<1>2. ThreadTyped'
  BY DEF TypeOK, ThreadTyped, vars, thread
<1>3. Pointers'
  BY PointersKept DEF TypeOK, SameFamilies, vars, world, thread, lists
<1> QED
  BY <1>1, <1>2, <1>3 DEF TypeOK

\* The run's state is typed in every reachable state, and every pointer of its
\* thread (train.py, round, settle_red, land_family) points at something: the base
\* commit it expects, the families of the round, the member it is landing.
THEOREM TrainTypeOK == Spec => []TypeOK
<1>1. Init => TypeOK
  BY InitTypeOK
<1>2. TypeOK /\ [Next]_vars => TypeOK'
  <2> SUFFICES ASSUME TypeOK, [Next]_vars PROVE TypeOK'
    OBVIOUS
  <2>1. CASE StopEarly \/ Snapshot \/ Pairs \/ Round \/ PlanStep \/ PlanClose \/ Submit
    BY <2>1, StopEarlyTypeOK, SnapshotTypeOK, PairsTypeOK, RoundTypeOK, PlanStepTypeOK,
       PlanCloseTypeOK, SubmitTypeOK
  <2>2. CASE Collect \/ PartsDone \/ Part \/ PartGated \/ Cancel \/ Join
    BY <2>2, CollectTypeOK, PartsDoneTypeOK, PartTypeOK, PartGatedTypeOK, CancelTypeOK, JoinTypeOK
  <2>3. CASE Land
    BY <2>3, LandCheckTypeOK, DecideTypeOK, ReobserveTypeOK, PushTypeOK, MergeTypeOK,
       ConfirmTypeOK DEF Land
  <2>4. ASSUME NEW f \in DOMAIN families, Gate(f) PROVE TypeOK'
    BY <2>4, GateTypeOK
  <2>5. CASE Disturb
    BY <2>5, DisturbTypeOK
  <2>6. CASE Finished \/ UNCHANGED vars
    BY <2>6, StutterTypeOK DEF Finished
  <2> QED
    BY <2>1, <2>2, <2>3, <2>4, <2>5, <2>6 DEF Next, Train
<1> QED
  BY <1>1, <1>2, PTL DEF Spec

---------------------------------------------------------------------------
(* What a landing leaves on the base.                                      *)

\* Member i of family f is on the base, alone in its commit and as planned.
OnBase(f, i) ==
  \E m \in DOMAIN merges :
    /\ merges[m].family = f
    /\ merges[m].sha \in DOMAIN main
    /\ main[merges[m].sha] = [tree |-> families[f].steps[i].commit.lanes,
                              by |-> families[f].steps[i].pr]

\* What the landing at hand has done so far: the members before the current one
\* are on the base, and the merge it reads back is the current one's.
Progress ==
  /\ pc \in Landing => \A i \in 1..(at - 1) : OnBase(cur, i)
  /\ pc = "confirm" =>
       LET last == merges[Len(merges)]
       IN /\ last.family = cur /\ last.tree = Planned.commit.lanes
          /\ main[last.sha].by = N
          /\ \A i \in DOMAIN main : i > last.sha => main[i].by = 0

\* A landed family has all its members on the base, and its tree at its landed commit.
Finishes ==
  \A f \in DOMAIN families : Landed(f) =>
    /\ \A i \in DOMAIN families[f].steps : OnBase(f, i)
    /\ families[f].landed \in DOMAIN main
    /\ main[families[f].landed].tree = FamilyTree(f)

\* Once the run is stopped it neither plans nor lands again.
StoppedRests == stopped => pc \in {"part", "drain", "join", "done"}

\* A merge found the same is the same.
Compared ==
  \A m \in DOMAIN merges : merges[m].identity = "same" => main[merges[m].sha].tree = merges[m].tree

\* A merge found different stopped the run, and no commit of the run is above it.
Mismatched ==
  \A m \in DOMAIN merges : merges[m].identity = "differs" =>
    stopped /\ \A i \in DOMAIN main : i > merges[m].sha => main[i].by = 0

\* The strengthening of LandedAsPlanned and MismatchStops that every step preserves.
LandingInv == Progress /\ Finishes /\ StoppedRests /\ Compared /\ Mismatched

---------------------------------------------------------------------------
(* Steps that neither land a member nor finish a family.                   *)

\* The base keeps its commits.
Grown == \A i \in DOMAIN main : i \in DOMAIN main' /\ main'[i] = main[i]

\* No family becomes LANDED, and the landed ones stay as they are.
NoneLands ==
  /\ \A f \in DOMAIN families : f \in DOMAIN families' /\ families'[f].steps = families[f].steps
  /\ \A f \in DOMAIN families' : families'[f].status = "LANDED" =>
       /\ f \in DOMAIN families /\ families[f].status = "LANDED"
       /\ families'[f].landed = families[f].landed

\* A step that acknowledges no merge, stops no run and lands nothing.
Quiet ==
  /\ UNCHANGED <<merges, stopped>>
  /\ Grown /\ NoneLands
  /\ stopped \/ pc = "confirm" => \A i \in DOMAIN main' \ DOMAIN main : main'[i].by = 0
  /\ stopped => pc' \in {"part", "drain", "join", "done"}
  /\ \/ pc' \notin Landing
     \/ pc \in Landing /\ UNCHANGED <<cur, at>> /\ (pc' = "confirm" => pc = "confirm")
     \/ pc' = "land" /\ at' = 1

\* A step that neither lands nor merges keeps the invariant.
LEMMA QuietKeeps == ASSUME TypeOK, TypeOK', LandingInv, Quiet PROVE LandingInv'
<1>1. \A m \in DOMAIN merges : merges[m].sha \in DOMAIN main
  BY DEF TypeOK, Pointers
<1>2. /\ UNCHANGED <<merges, stopped>>
      /\ \A i \in DOMAIN main : i \in DOMAIN main' /\ main'[i] = main[i]
      /\ \A f \in DOMAIN families : f \in DOMAIN families' /\ families'[f].steps = families[f].steps
  BY DEF Quiet, Grown, NoneLands
<1>3. ASSUME NEW f \in DOMAIN families, NEW i, OnBase(f, i) PROVE OnBase(f, i)'
  BY <1>2, <1>3 DEF OnBase
<1>4. Progress'
  <2>1. CASE pc' \notin Landing
    BY <2>1 DEF Progress, Landing
  <2>2. CASE pc \in Landing /\ UNCHANGED <<cur, at>> /\ (pc' = "confirm" => pc = "confirm")
    <3>1. cur \in DOMAIN families
      BY <2>2, LandingPointers
    <3>2. \A i \in 1..(at - 1) : OnBase(cur, i)'
      BY <1>3, <2>2, <3>1 DEF LandingInv, Progress
    <3>3. pc' = "confirm" => merges[Len(merges)].sha \in DOMAIN main
      <4>1. ASSUME pc = "confirm" PROVE Len(merges) \in DOMAIN merges
        BY <4>1, LenProperties, EmptySeq DEF TypeOK, ListsTyped, Pointers
      <4> QED
        BY <1>1, <2>2, <4>1
    <3>4. N' = N /\ Planned' = Planned
      BY <1>2, <2>2, <3>1 DEF N, Planned
    <3>5. \A i \in 1..(at' - 1) : OnBase(cur, i)'
      BY <2>2, <3>2
    <3>6. ASSUME pc' = "confirm", NEW i \in DOMAIN main', i > merges[Len(merges)].sha
          PROVE  main'[i].by = 0
      <4>1. pc = "confirm"
        BY <2>2, <3>6
      <4>2. CASE i \in DOMAIN main
        BY <1>2, <3>6, <4>1, <4>2 DEF LandingInv, Progress
      <4>3. CASE i \notin DOMAIN main
        BY <4>1, <4>3 DEF Quiet
      <4> QED
        BY <4>2, <4>3
    <3> QED
      BY <1>2, <2>2, <3>3, <3>4, <3>5, <3>6 DEF LandingInv, Progress
  <2>3. CASE pc' = "land" /\ at' = 1
    BY <2>3 DEF Progress
  <2> QED
    BY <2>1, <2>2, <2>3 DEF Quiet
<1>5. Finishes'
  <2> SUFFICES ASSUME NEW f \in DOMAIN families', families'[f].status = "LANDED"
               PROVE  /\ \A i \in DOMAIN families'[f].steps : OnBase(f, i)'
                      /\ families'[f].landed \in DOMAIN main'
                      /\ main'[families'[f].landed].tree = FamilyTree(f)'
    BY DEF Finishes, Landed
  <2>1. /\ f \in DOMAIN families /\ Landed(f) /\ families'[f].landed = families[f].landed
        /\ families'[f].steps = families[f].steps
    BY <1>2 DEF Quiet, NoneLands, Landed
  <2>2. FamilyTree(f)' = FamilyTree(f)
    BY <2>1 DEF FamilyTree
  <2> QED
    BY <1>2, <1>3, <2>1, <2>2 DEF LandingInv, Finishes
<1>6. StoppedRests' /\ Compared'
  BY <1>1, <1>2 DEF Quiet, LandingInv, StoppedRests, Compared
<1>7. Mismatched'
  <2> SUFFICES ASSUME NEW m \in DOMAIN merges, merges[m].identity = "differs",
                      NEW i \in DOMAIN main', i > merges[m].sha
               PROVE  stopped /\ main'[i].by = 0
    BY <1>2 DEF LandingInv, Mismatched
  <2>1. stopped
    BY DEF LandingInv, Mismatched
  <2>2. CASE i \in DOMAIN main
    BY <1>2, <2>1, <2>2 DEF LandingInv, Mismatched
  <2>3. CASE i \notin DOMAIN main
    BY <2>1, <2>3 DEF Quiet
  <2> QED
    BY <2>1, <2>2, <2>3
<1> QED
  BY <1>4, <1>5, <1>6, <1>7 DEF LandingInv

\* Setting another status than LANDED lands no family.
LEMMA SettingLandsNone ==
  ASSUME NEW f, NEW s, s # "LANDED", families' = Setting(f, s)
  PROVE  NoneLands
BY DEF NoneLands, Setting

\* Nor does leaving the families alone.
LEMMA SameLandsNone == ASSUME UNCHANGED families PROVE NoneLands
BY DEF NoneLands

\* The base that stays the same keeps its commits.
LEMMA SameGrown == ASSUME UNCHANGED main PROVE Grown
BY DEF Grown

\* A commit put on the base leaves those below it alone.
LEMMA Appended ==
  ASSUME TypeOK, NEW r \in BaseRow, main' = Append(main, r)
  PROVE  /\ Grown /\ DOMAIN main' = DOMAIN main \union {Tip + 1} /\ main'[Tip + 1] = r
         /\ Tip + 1 \notin DOMAIN main
<1>1. main \in Seq(BaseRow) /\ Len(main) \in Nat /\ DOMAIN main = 1..Len(main)
  BY LenProperties DEF TypeOK, RemoteTyped
<1>2. /\ main' \in Seq(BaseRow) /\ Len(main') = Len(main) + 1
      /\ \A i \in 1..Len(main) : main'[i] = main[i]
      /\ main'[Len(main) + 1] = r
  BY <1>1, AppendProperties
<1>3. DOMAIN main' = 1..(Len(main) + 1)
  BY <1>2, LenProperties
<1> QED
  BY <1>1, <1>2, <1>3 DEF Grown, Tip

\* A run that ends on a failed read neither lands nor merges.
LEMMA RunUnreadQuiet == ASSUME LandingInv, RunUnread PROVE Quiet
BY SameLandsNone, SameGrown DEF Quiet, RunUnread, thread, Landing

\* The run before and between the landings.
LEMMA PlanningQuiet ==
  ASSUME TypeOK, LandingInv, StopEarly \/ Snapshot \/ Pairs \/ Round \/ PlanStep
  PROVE  Quiet
<1>1. ~stopped \/ pc = "plan"
  BY DEF LandingInv, StoppedRests, StopEarly, Snapshot, Pairs, Round, PlanStep
<1>2. ~stopped
  BY DEF LandingInv, StoppedRests, StopEarly, Snapshot, Pairs, Round, PlanStep
<1>3. CASE StopEarly
  BY <1>2, <1>3, SameLandsNone, SameGrown DEF Quiet, StopEarly, Landing, world, thread
<1>4. CASE RunUnread
  BY <1>4, RunUnreadQuiet
<1>5. CASE Snapshot /\ ~RunUnread
  <2>1. UNCHANGED <<world, merges, stopped, families>> /\ pc' \in {"pairs", "round"}
    BY <1>5 DEF Snapshot
  <2> QED
    BY <1>2, <2>1, SameLandsNone, SameGrown DEF Quiet, Landing, world
<1>6. CASE Pairs
  <2>1. UNCHANGED <<main, merges, stopped, families>>
    BY <1>6 DEF Pairs
  <2>2. pc' \in {"round", "snapshot", "done"}
    BY <1>6, ChooseTyped DEF Pairs
  <2> QED
    BY <1>2, <2>1, <2>2, SameLandsNone, SameGrown DEF Quiet, Landing
<1>7. CASE Round /\ ~RunUnread
  <2>1. UNCHANGED <<main, merges, stopped, families>> /\ pc' \in {"done", "plan"}
    BY <1>7 DEF Round, world, lists
  <2> QED
    BY <1>2, <2>1, SameLandsNone, SameGrown DEF Quiet, Landing
<1>8. CASE PlanStep
  <2>1. UNCHANGED <<main, merges, stopped, families>> /\ pc' = "plan"
    BY <1>8 DEF PlanStep, Untouched
  <2> QED
    BY <1>2, <2>1, SameLandsNone, SameGrown DEF Quiet, Landing
<1> QED
  BY <1>3, <1>4, <1>5, <1>6, <1>7, <1>8

\* Closing a part adds at most a planned family.
LEMMA PlanCloseQuiet == ASSUME TypeOK, LandingInv, PlanClose PROVE Quiet
<1> DEFINE new == NewFamily(fold.steps, fold.base,
                            IF settling \/ batch = <<>> THEN 0 ELSE batch[Len(batch)], settling)
<1>1. /\ families' \in {families, Append(families, new)}
      /\ pc' \in {"part", "submit", "plan", "drain"}
      /\ UNCHANGED <<main, merges, stopped>> /\ ~stopped
  BY DEF PlanClose, LandingInv, StoppedRests, lists, AfterFold
<1>2. new.status # "LANDED"
  BY DEF NewFamily
<1>3. new \in Family
  <2>1. (IF settling \/ batch = <<>> THEN 0 ELSE batch[Len(batch)]) \in Nat /\ settling \in BOOLEAN
    BY ElementOfSeq, EmptySeq DEF TypeOK, ThreadTyped
  <2> QED
    BY <2>1, NewFamilyTyped, FoldTyped
<1> HIDE DEF new
<1>4. NoneLands
  <2>1. CASE families' = Append(families, new)
    <3>1. families \in Seq(Family) /\ Len(families) \in Nat /\ DOMAIN families = 1..Len(families)
      BY LenProperties DEF TypeOK, GatesTyped
    <3>2. /\ families' \in Seq(Family) /\ Len(families') = Len(families) + 1
          /\ \A f \in 1..Len(families) : families'[f] = families[f]
          /\ families'[Len(families) + 1] = new
      BY <1>3, <2>1, <3>1, AppendProperties
    <3>3. DOMAIN families' = 1..(Len(families) + 1)
      BY <3>2, LenProperties
    <3>4. \A f \in DOMAIN families' : f \in DOMAIN families \/ f = Len(families) + 1
      BY <3>1, <3>3
    <3> QED
      BY <1>2, <3>1, <3>2, <3>3, <3>4 DEF NoneLands
  <2> QED
    BY <1>1, <2>1, SameLandsNone
<1> QED
  BY <1>1, <1>4, SameGrown DEF Quiet, Landing

\* Handing the families to the gates is quiet.
LEMMA SubmitQuiet == ASSUME TypeOK, LandingInv, Submit PROVE Quiet
<1>1. /\ UNCHANGED <<main, merges, stopped>> /\ ~stopped
      /\ pc' \in {"part", "drain", "gate", "collect"}
  BY DEF Submit, LandingInv, StoppedRests, world, lists
<1>2. NoneLands
  <2>1. \A f \in DOMAIN families : families[f] \in Family
    BY FamilyTyped DEF TypeOK
  <2>2. \A f \in DOMAIN families :
          /\ [families[f] EXCEPT !.future = "queued"].status = families[f].status
          /\ [families[f] EXCEPT !.future = "queued"].steps = families[f].steps
          /\ [families[f] EXCEPT !.future = "queued"].landed = families[f].landed
    BY <2>1 DEF Family
  <2>3. /\ DOMAIN families' = DOMAIN families
        /\ \A f \in DOMAIN families :
             families'[f] \in {families[f], [families[f] EXCEPT !.future = "queued"]}
    BY DEF Submit
  <2> QED
    BY <2>2, <2>3 DEF NoneLands
<1> QED
  BY <1>1, <1>2, SameGrown DEF Quiet, Landing

\* A gate neither lands a family nor merges.
LEMMA GateQuiet == ASSUME TypeOK, LandingInv, NEW f \in DOMAIN families, Gate(f) PROVE Quiet
<1>1. UNCHANGED ByGate
  BY DEF Gate, GateCancelled, GateReused, GateStart, GatePostponed, GateFinish, GateRecord
<1>2. NoneLands
  <2>1. CASE GateCancelled(f)
    BY <2>1 DEF GateCancelled, NoneLands
  <2>2. CASE GateReused(f)
    BY <2>2 DEF GateReused, NoneLands
  <2>3. CASE GateStart(f)
    BY <2>3 DEF GateStart, NoneLands
  <2>4. CASE GatePostponed(f)
    BY <2>4 DEF GatePostponed, NoneLands
  <2>5. CASE GateFinish(f)
    <3>1. \A verdict : GateStatus(verdict) # "LANDED"
      BY DEF GateStatus
    <3> QED
      BY <2>5, <3>1 DEF GateFinish, NoneLands
  <2>6. CASE GateRecord(f)
    BY <2>6 DEF GateRecord, NoneLands
  <2> QED
    BY <2>1, <2>2, <2>3, <2>4, <2>5, <2>6 DEF Gate
<1> QED
  BY <1>1, <1>2, SameGrown DEF Quiet, ByGate, thread, lists, LandingInv, StoppedRests

\* Taking a gate's result is quiet: a landing starts at the first member.
LEMMA CollectQuiet == ASSUME TypeOK, LandingInv, Collect PROVE Quiet
<1> DEFINE f == batch[1]
<1>1. /\ UNCHANGED <<main, merges, stopped>> /\ ~stopped
      /\ pc' \in {"drain", "collect", "part"} \/ (pc' = "land" /\ at' = 1)
  BY DEF Collect, CollectStopped, CollectDry, CollectGreen, CollectUnread, CollectRed, ByCollect,
         LandingInv, StoppedRests
<1>2. NoneLands
  <2>1. CASE CollectStopped(f)
    BY <2>1, SettingLandsNone DEF CollectStopped
  <2>2. CASE CollectDry(f)
    <3>1. families' = Setting(f, "GATED_DRY") \/ families' = Setting(f, "RED_DRY")
      BY <2>2 DEF CollectDry
    <3> QED
      BY <3>1, SettingLandsNone
  <2>3. CASE CollectGreen(f)
    BY <2>3, SameLandsNone DEF CollectGreen
  <2>4. CASE CollectUnread(f)
    BY <2>4 DEF CollectUnread, Void, NoneLands
  <2>5. CASE CollectRed(f)
    BY <2>5 DEF CollectRed, Void, RedStatus, NoneLands
  <2> QED
    BY <2>1, <2>2, <2>3, <2>4, <2>5 DEF Collect
<1> QED
  BY <1>1, <1>2, SameGrown DEF Quiet, Landing

\* So are the steps of the bisection between its landings, and the end of a round.
LEMMA PartsQuiet ==
  ASSUME TypeOK, LandingInv, PartsDone \/ Part \/ PartGated \/ Cancel \/ Join
  PROVE  Quiet
<1>1. CASE PartsDone
  BY <1>1, SameGrown, SameLandsNone DEF PartsDone, Quiet, Landing, world, lists
<1>2. CASE Part
  <2>1. /\ UNCHANGED <<main, merges, stopped, families>> /\ pc' \in {"part", "plan"}
        /\ stopped => pc' = "part"
    BY <1>2 DEF Part, lists, MayGoOn
  <2> QED
    BY <2>1, SameGrown, SameLandsNone DEF Quiet, Landing
<1>3. CASE PartGated
  <2>1. /\ UNCHANGED <<main, merges, stopped>> /\ ~stopped
        /\ pc' = "part" \/ (pc' = "land" /\ at' = 1)
    BY <1>3 DEF PartGated, ByCollect, LandingInv, StoppedRests
  <2>2. NoneLands
    <3>1. RedStatus(cur) # "LANDED"
      BY DEF RedStatus
    <3> QED
      BY <1>3, <3>1, SameLandsNone, SettingLandsNone DEF PartGated
  <2> QED
    BY <2>1, <2>2, SameGrown DEF Quiet, Landing
<1>4. CASE Cancel
  <2>1. NoneLands
    <3> DEFINE cancelled(f) == [families[f] EXCEPT !.future = "cancelled",
                                                   !.status = IF stop THEN "REQUEUED" ELSE @]
    <3>1. \A f \in DOMAIN families :
            /\ cancelled(f).status \in {"REQUEUED", families[f].status}
            /\ cancelled(f).steps = families[f].steps
            /\ cancelled(f).landed = families[f].landed
      BY FamilyTyped DEF TypeOK, Family
    <3>2. /\ DOMAIN families' = DOMAIN families
          /\ \A f \in DOMAIN families : families'[f] \in {families[f], cancelled(f)}
      BY <1>4 DEF Cancel
    <3> HIDE DEF cancelled
    <3> QED
      BY <3>1, <3>2 DEF NoneLands
  <2> QED
    BY <1>4, <2>1, SameGrown DEF Cancel, Quiet, Landing, world, lists
<1>5. CASE Join
  <2>1. UNCHANGED <<main, merges, stopped, families>>
    BY <1>5 DEF Join, world
  <2>2. pc' \in {"round", "snapshot", "done"} /\ (stopped => pc' = "done")
    BY <1>5 DEF Join, Continue
  <2> QED
    BY <2>1, <2>2, SameGrown, SameLandsNone DEF Quiet, Landing
<1> QED
  BY <1>1, <1>2, <1>3, <1>4, <1>5

\* A landing that is left lands no family.
LEMMA LeaveLandsNone ==
  ASSUME NEW status, status # "LANDED", NEW back, Leave(status, back)
  PROVE  NoneLands /\ pc' \in {"part", "drain"}
BY SettingLandsNone DEF Leave

\* Neither does one that is left before its merge.
LEMMA ReadFailsLandsNone ==
  ASSUME ReadFails \/ Withheld \/ Leave(StopStatus("REQUEUED"), Rest)
         \/ Leave(StopStatus("RETRY"), <<>>)
  PROVE  NoneLands /\ pc' \in {"part", "drain"}
BY LeaveLandsNone DEF ReadFails, Withheld, StopStatus

\* A landing before its merge.
LEMMA LandingQuiet ==
  ASSUME TypeOK, LandingInv, LandCheck \/ Decide \/ Reobserve \/ Push \/ Await
  PROVE  Quiet
<1>1. /\ UNCHANGED <<main, merges, stopped, cur, at>> /\ ~stopped /\ pc \in Landing
      /\ \/ ReadFails \/ Withheld \/ Leave(StopStatus("REQUEUED"), Rest)
            \/ Leave(StopStatus("RETRY"), <<>>)
         \/ /\ pc' \in {"decide", "push", "recheck", "reread", "await", "merge"}
            /\ UNCHANGED families
  BY DEF LandCheck, Decide, Reobserve, Push, Await, ByLanding, LandingInv, StoppedRests, world,
         Landing
<1>2. CASE ReadFails \/ Withheld \/ Leave(StopStatus("REQUEUED"), Rest)
           \/ Leave(StopStatus("RETRY"), <<>>)
  BY <1>1, <1>2, ReadFailsLandsNone, SameGrown DEF Quiet, Landing
<1>3. CASE /\ pc' \in {"decide", "push", "recheck", "reread", "await", "merge"}
           /\ UNCHANGED families
  BY <1>1, <1>3, SameLandsNone, SameGrown DEF Quiet
<1> QED
  BY <1>1, <1>2, <1>3

\* The merge leaves every earlier landing as it was, and its own tree to be compared.
LEMMA MergeLanding == ASSUME TypeOK, TypeOK', LandingInv, Merge PROVE LandingInv'
<1> DEFINE row == [tree |-> main[Tip].tree \union pulls[N].head.lanes, by |-> N]
           merge == [pr |-> N, family |-> cur, sha |-> Tip + 1,
                     tree |-> Planned.commit.lanes, identity |-> "unread"]
<1>1. pc \in Landing /\ pc = "merge" /\ ~stopped /\ UNCHANGED <<ByLanding, stopped, at>>
  BY DEF Merge, Landing, LandingInv, StoppedRests
<1>2. row \in BaseRow
  <2>1. main[Tip] \in BaseRow /\ N \in PR /\ pulls[N].head \in Commit
    BY <1>1, TipTyped, LandingPointers, MainIndex, HeadsTyped DEF TypeOK
  <2> QED
    BY <2>1 DEF BaseRow, Commit, Tree
<1>3. merge \in MergeRow
  BY <1>1, LandingPointers, TipTyped, FamilyTyped DEF MergeRow, Step, Commit, TypeOK
<1>4. \/ ReadFails /\ UNCHANGED merges /\ (UNCHANGED main \/ main' = Append(main, row))
      \/ /\ main' = Append(main, row) /\ merges' = Append(merges, merge) /\ pc' = "confirm"
         /\ UNCHANGED families
  BY DEF Merge
<1>7. DOMAIN main = 1..Tip /\ Tip \in Nat
  BY LenProperties DEF TypeOK, RemoteTyped, Tip
<1> HIDE DEF row
<1>5. CASE ReadFails /\ UNCHANGED merges /\ (UNCHANGED main \/ main' = Append(main, row))
  <2>1. Grown
    BY <1>2, <1>5, SameGrown, Appended
  <2>2. Quiet
    BY <1>1, <1>5, <2>1, ReadFailsLandsNone DEF Quiet, Landing
  <2> QED
    BY <2>2, QuietKeeps
<1>6. CASE /\ main' = Append(main, row) /\ merges' = Append(merges, merge) /\ pc' = "confirm"
           /\ UNCHANGED families
  <2>1. /\ Grown /\ DOMAIN main' = DOMAIN main \union {Tip + 1} /\ main'[Tip + 1] = row
    BY <1>2, <1>6, Appended
  <2>2. merges \in Seq(MergeRow) /\ Len(merges) \in Nat /\ DOMAIN merges = 1..Len(merges)
    BY LenProperties DEF TypeOK, ListsTyped
  <2>3. /\ merges' \in Seq(MergeRow) /\ Len(merges') = Len(merges) + 1
        /\ \A m \in DOMAIN merges : merges'[m] = merges[m]
        /\ merges'[Len(merges) + 1] = merge
    BY <1>3, <1>6, <2>2, AppendProperties
  <2>4. DOMAIN merges' = 1..(Len(merges) + 1)
    BY <2>3, LenProperties
  <2>5. \A m \in DOMAIN merges' : m \in DOMAIN merges \/ m = Len(merges) + 1
    BY <2>2, <2>4
  <2>6. /\ \A m \in DOMAIN merges : m \in DOMAIN merges' /\ merges[m].sha \in DOMAIN main
                                    /\ main'[merges[m].sha] = main[merges[m].sha]
                                    /\ merges[m].sha \in DOMAIN main'
    BY <2>1, <2>2, <2>4 DEF TypeOK, Pointers, Grown
  <2>7. ASSUME NEW f, NEW i, OnBase(f, i) PROVE OnBase(f, i)'
    BY <1>6, <2>3, <2>6, <2>7 DEF OnBase
  <2>8. UNCHANGED <<cur, at>> /\ N' = N /\ Planned' = Planned
    BY <1>1, <1>6 DEF ByLanding, N, Planned
  <2>9. Progress'
    <3>1. \A i \in 1..(at' - 1) : OnBase(cur, i)'
      BY <1>1, <2>7, <2>8 DEF LandingInv, Progress
    <3>2. merges'[Len(merges')] = merge
      BY <2>3
    <3>3. main'[merge.sha].by = N /\ merge.family = cur /\ merge.tree = Planned.commit.lanes
      BY <2>1 DEF row
    <3>4. \A i \in DOMAIN main' : ~(i > merge.sha)
      BY <1>7, <2>1
    <3> HIDE DEF merge
    <3> QED
      BY <2>8, <3>1, <3>2, <3>3, <3>4 DEF Progress
  <2>10. Finishes'
    BY <1>6, <2>1, <2>7 DEF LandingInv, Finishes, Landed, FamilyTree, Grown
  <2>11. merge.identity = "unread"
    OBVIOUS
  <2> HIDE DEF merge
  <2>12. Compared'
    BY <2>3, <2>5, <2>6, <2>11 DEF LandingInv, Compared
  <2>13. Mismatched'
    BY <1>1, <2>3, <2>5, <2>11 DEF LandingInv, Mismatched
  <2>14. StoppedRests'
    BY <1>1 DEF StoppedRests
  <2> QED
    BY <2>9, <2>10, <2>12, <2>13, <2>14 DEF LandingInv
<1> QED
  BY <1>4, <1>5, <1>6

\* A family lands only after its last member was read back as planned.
LEMMA ConfirmLanding == ASSUME TypeOK, TypeOK', LandingInv, Confirm PROVE LandingInv'
<1> DEFINE k == Len(merges)
           last == merges[k]
           steps == families[cur].steps
<1>1. pc \in Landing /\ pc = "confirm" /\ ~stopped /\ UNCHANGED <<main, ByLanding>>
  BY DEF Confirm, Landing, LandingInv, StoppedRests
<1>2. /\ merges \in Seq(MergeRow) /\ k \in DOMAIN merges /\ last \in MergeRow
      /\ last.sha \in DOMAIN main /\ main[last.sha] \in BaseRow
  <2>1. merges \in Seq(MergeRow) /\ merges # <<>>
    BY <1>1 DEF TypeOK, ListsTyped, Pointers
  <2>2. k \in 1..Len(merges) /\ DOMAIN merges = 1..Len(merges)
    BY <2>1, LenProperties, EmptySeq
  <2> QED
    BY <2>1, <2>2, ElementOfSeq, MainIndex DEF TypeOK, Pointers
<1>3. last.family = cur /\ last.tree = steps[at].commit.lanes /\ main[last.sha].by = steps[at].pr
  BY <1>1 DEF LandingInv, Progress, Planned, N
<1>4. /\ cur \in DOMAIN families /\ at \in 1..Len(steps) /\ Len(steps) \in Nat
      /\ DOMAIN steps = 1..Len(steps)
  <2>1. steps \in Seq(Step)
    BY <1>1, LandingPointers, MembersTyped DEF TypeOK
  <2> QED
    BY <1>1, <2>1, LandingPointers, LenProperties
\* The family and the member at hand, named by values a step does not change.
<1>12. PICK c, a : c = cur /\ a = at
  OBVIOUS
<1>13. UNCHANGED cur
  BY <1>1 DEF ByLanding
<1>14. main[last.sha] = [tree |-> main[last.sha].tree, by |-> main[last.sha].by]
  BY <1>2 DEF BaseRow
<1>5. \/ Leave("LANDED_TREE_UNREAD", Tail(Rest)) /\ UNCHANGED <<merges, stopped>>
      \/ /\ main[last.sha].tree # last.tree
         /\ merges' = [merges EXCEPT ![k].identity = "differs"] /\ stopped' = TRUE
         /\ Leave("TREE_MISMATCH", <<>>)
      \/ /\ main[last.sha].tree = last.tree
         /\ merges' = [merges EXCEPT ![k].identity = "same"] /\ UNCHANGED stopped
         /\ \/ /\ at < Len(steps) /\ at' = at + 1 /\ pc' = "land" /\ UNCHANGED families
            \/ /\ at = Len(steps) /\ pc' \in {"part", "drain", "collect"}
               /\ families' = [families EXCEPT ![cur].status = "LANDED", ![cur].landed = last.sha]
  BY <1>4 DEF Confirm, Identical
<1>6. CASE Leave("LANDED_TREE_UNREAD", Tail(Rest)) /\ UNCHANGED <<merges, stopped>>
  <2>1. Quiet
    BY <1>1, <1>6, LeaveLandsNone, SameGrown DEF Quiet, Landing
  <2> QED
    BY <2>1, QuietKeeps
\* Only the verdict on the last merge changes.
<1>7. ASSUME NEW x \in {"unread", "same", "differs"}, merges' = [merges EXCEPT ![k].identity = x]
      PROVE  /\ DOMAIN merges' = DOMAIN merges
             /\ \A m \in DOMAIN merges :
                  /\ merges'[m].family = merges[m].family /\ merges'[m].sha = merges[m].sha
                  /\ merges'[m].tree = merges[m].tree
                  /\ merges'[m].identity = IF m = k THEN x ELSE merges[m].identity
  <2>1. \A m \in DOMAIN merges : merges[m] \in MergeRow
    BY <1>2, LenProperties
  <2>2. /\ DOMAIN merges' = DOMAIN merges
        /\ \A m \in DOMAIN merges :
             merges'[m] = IF m = k THEN [merges[m] EXCEPT !.identity = x] ELSE merges[m]
    BY <1>2, <1>7
  <2> QED
    BY <2>1, <2>2 DEF MergeRow
<1>8. ASSUME NEW x \in {"same", "differs"}, merges' = [merges EXCEPT ![k].identity = x],
             NoneLands \/ UNCHANGED families, pc' \notin Landing
      PROVE  Progress' /\ Finishes'
  <2>1. ASSUME NEW f \in DOMAIN families, NEW i, OnBase(f, i), families'[f].steps = families[f].steps
        PROVE  OnBase(f, i)'
    BY <1>1, <1>7, <1>8, <2>1 DEF OnBase
  <2>2. Progress'
    BY <1>8 DEF Progress, Landing
  <2>3. NoneLands
    BY <1>8, SameLandsNone
  <2>4. Finishes'
    <3> SUFFICES ASSUME NEW f \in DOMAIN families', families'[f].status = "LANDED"
                 PROVE  /\ \A i \in DOMAIN families'[f].steps : OnBase(f, i)'
                        /\ families'[f].landed \in DOMAIN main'
                        /\ main'[families'[f].landed].tree = FamilyTree(f)'
      BY DEF Finishes, Landed
    <3>1. /\ f \in DOMAIN families /\ Landed(f) /\ families'[f].landed = families[f].landed
          /\ families'[f].steps = families[f].steps
      BY <2>3 DEF NoneLands, Landed
    <3>2. FamilyTree(f)' = FamilyTree(f)
      BY <3>1 DEF FamilyTree
    <3> QED
      BY <1>1, <2>1, <3>1, <3>2 DEF LandingInv, Finishes
  <2> QED
    BY <2>2, <2>4
<1>9. CASE /\ main[last.sha].tree # last.tree
           /\ merges' = [merges EXCEPT ![k].identity = "differs"] /\ stopped' = TRUE
           /\ Leave("TREE_MISMATCH", <<>>)
  <2>1. NoneLands /\ pc' \in {"part", "drain"}
    BY <1>9, LeaveLandsNone
  <2>2. Progress' /\ Finishes'
    BY <1>8, <1>9, <2>1 DEF Landing
  <2>3. StoppedRests'
    BY <2>1 DEF StoppedRests
  <2>4. Compared'
    BY <1>1, <1>7, <1>9 DEF LandingInv, Compared
  <2>5. Mismatched'
    <3>1. \A m \in DOMAIN merges : merges[m].identity # "differs"
      BY <1>1 DEF LandingInv, Mismatched
    <3>2. \A i \in DOMAIN main : i > last.sha => main[i].by = 0
      BY <1>1 DEF LandingInv, Progress
    <3> QED
      BY <1>1, <1>7, <1>9, <3>1, <3>2 DEF Mismatched
  <2> QED
    BY <2>2, <2>3, <2>4, <2>5 DEF LandingInv
<1>10. CASE /\ main[last.sha].tree = last.tree
            /\ merges' = [merges EXCEPT ![k].identity = "same"] /\ UNCHANGED stopped
            /\ at < Len(steps) /\ at' = at + 1 /\ pc' = "land" /\ UNCHANGED families
  <2>1. ASSUME NEW f, NEW i, OnBase(f, i) PROVE OnBase(f, i)'
    BY <1>1, <1>7, <1>10, <2>1 DEF OnBase
  <2>2. OnBase(c, a)'
    BY <1>1, <1>2, <1>3, <1>7, <1>10, <1>12, <1>14 DEF OnBase
  <2>3. \A i \in 1..(at' - 1) : i \in 1..(at - 1) \/ i = at
    BY <1>4, <1>10
  <2>4. Progress'
    <3>1. \A i \in 1..(a - 1) : OnBase(c, i)'
      BY <1>1, <1>12, <2>1 DEF LandingInv, Progress
    <3>2. \A i \in 1..(at' - 1) : OnBase(c, i)'
      BY <1>12, <2>2, <2>3, <3>1
    <3> QED
      BY <1>10, <1>12, <1>13, <3>2 DEF Progress
  <2>5. Finishes'
    BY <1>1, <1>10, <2>1 DEF LandingInv, Finishes, Landed, FamilyTree
  <2>6. StoppedRests'
    BY <1>1, <1>10 DEF StoppedRests
  <2>7. Compared'
    BY <1>1, <1>7, <1>10 DEF LandingInv, Compared
  <2>8. Mismatched'
    BY <1>1, <1>7, <1>10 DEF LandingInv, Mismatched
  <2> QED
    BY <2>4, <2>5, <2>6, <2>7, <2>8 DEF LandingInv
<1>11. CASE /\ main[last.sha].tree = last.tree
            /\ merges' = [merges EXCEPT ![k].identity = "same"] /\ UNCHANGED stopped
            /\ at = Len(steps) /\ pc' \in {"part", "drain", "collect"}
            /\ families' = [families EXCEPT ![cur].status = "LANDED", ![cur].landed = last.sha]
  <2>1. /\ DOMAIN families' = DOMAIN families
        /\ \A f \in DOMAIN families : families'[f].steps = families[f].steps
        /\ \A f \in DOMAIN families : f # cur =>
             /\ families'[f].status = families[f].status /\ families'[f].landed = families[f].landed
        /\ families'[cur].landed = last.sha
    <3>1. families[cur] \in Family
      BY <1>4, FamilyTyped DEF TypeOK
    <3> QED
      BY <1>4, <1>11, <3>1 DEF Family
  <2>2. ASSUME NEW f \in DOMAIN families, NEW i, OnBase(f, i) PROVE OnBase(f, i)'
    BY <1>1, <1>7, <1>11, <2>1, <2>2 DEF OnBase
  <2>3. OnBase(c, a)'
    <3>1. /\ k \in DOMAIN merges' /\ merges'[k].family = c /\ merges'[k].sha = last.sha
          /\ last.sha \in DOMAIN main'
      BY <1>1, <1>2, <1>3, <1>7, <1>11, <1>12
    <3>2. families'[c].steps[a] = steps[at]
      BY <1>4, <1>12, <2>1
    <3>3. main'[last.sha] = [tree |-> steps[at].commit.lanes, by |-> steps[at].pr]
      BY <1>1, <1>3, <1>11, <1>14
    <3> QED
      BY <3>1, <3>2, <3>3 DEF OnBase
  <2>4. \A i \in DOMAIN steps : OnBase(c, i)'
    <3>1. \A i \in 1..(a - 1) : OnBase(c, i)'
      BY <1>1, <1>4, <1>12, <2>2 DEF LandingInv, Progress
    <3>2. \A i \in DOMAIN steps : i \in 1..(a - 1) \/ i = a
      BY <1>4, <1>11, <1>12
    <3> QED
      BY <2>3, <3>1, <3>2
  <2>5. Finishes'
    <3> SUFFICES ASSUME NEW f \in DOMAIN families', families'[f].status = "LANDED"
                 PROVE  /\ \A i \in DOMAIN families'[f].steps : OnBase(f, i)'
                        /\ families'[f].landed \in DOMAIN main'
                        /\ main'[families'[f].landed].tree = FamilyTree(f)'
      BY DEF Finishes, Landed
    <3>1. f \in DOMAIN families /\ FamilyTree(f)' = FamilyTree(f)
      BY <2>1 DEF FamilyTree
    <3>2. CASE f = cur
      <4>1. FamilyTree(cur) = last.tree
        BY <1>3, <1>11 DEF FamilyTree
      <4> QED
        BY <1>1, <1>2, <1>4, <1>11, <1>12, <2>1, <2>4, <3>1, <3>2, <4>1
    <3>3. CASE f # cur
      <4>1. Landed(f)
        BY <2>1, <3>1, <3>3 DEF Landed
      <4> QED
        BY <1>1, <2>1, <2>2, <3>1, <3>3, <4>1 DEF LandingInv, Finishes
    <3> QED
      BY <3>2, <3>3
  <2>6. Progress' /\ StoppedRests'
    BY <1>1, <1>11 DEF Progress, StoppedRests, Landing
  <2>7. Compared'
    BY <1>1, <1>7, <1>11 DEF LandingInv, Compared
  <2>8. Mismatched'
    BY <1>1, <1>7, <1>11 DEF LandingInv, Mismatched
  <2> QED
    BY <2>5, <2>6, <2>7, <2>8 DEF LandingInv
<1> QED
  BY <1>5, <1>6, <1>9, <1>10, <1>11

\* What happens outside neither lands a family nor merges for the run.
LEMMA DisturbQuiet == ASSUME TypeOK, LandingInv, Disturb PROVE Quiet
<1>1. UNCHANGED <<merges, stopped, families, pc, cur, at>>
  BY DEF Disturb, Outside, thread, lists
<1>2. Grown /\ \A i \in DOMAIN main' \ DOMAIN main : main'[i].by = 0
  <2>1. CASE UNCHANGED main
    BY <2>1, SameGrown
  <2>2. CASE OutsideCommit
    <3>1. PICK added \in {{}, {<<0, Tip>>}} :
            main' = Append(main, [tree |-> main[Tip].tree \union added, by |-> 0])
      BY <2>2 DEF OutsideCommit
    <3> DEFINE row == [tree |-> main[Tip].tree \union added, by |-> 0]
    <3>2. Tip \in DOMAIN main /\ Tip \in Nat /\ main[Tip] \in BaseRow
      BY TipTyped, MainIndex DEF TypeOK
    <3>3. row \in BaseRow /\ row.by = 0
      BY <3>1, <3>2 DEF BaseRow, Tree, Lane
    <3> HIDE DEF row
    <3> QED
      BY <3>1, <3>3, Appended DEF row
  <2> QED
    BY <2>1, <2>2 DEF Disturb, RequestStop, AuthorPush, HoldLabel
<1> QED
  BY <1>1, <1>2, SameLandsNone DEF Quiet, LandingInv, StoppedRests, Landing

\* A step that changes nothing is quiet.
LEMMA StutterQuiet == ASSUME LandingInv, UNCHANGED vars PROVE Quiet
BY SameLandsNone, SameGrown DEF Quiet, vars, world, thread, lists, LandingInv, StoppedRests

\* The run starts with nothing landed.
LEMMA InitLanding == Init => LandingInv
<1> SUFFICES ASSUME Init PROVE LandingInv
  OBVIOUS
<1>1. merges = <<>> /\ families = <<>> /\ pc = "snapshot" /\ stopped = FALSE
  BY DEF Init
<1> QED
  BY <1>1 DEF LandingInv, Progress, Finishes, StoppedRests, Compared, Mismatched, Landing

\* The invariant of the landings, the strengthening both theorems below rest on.
THEOREM TrainLandingInv == Spec => []LandingInv
<1>1. Init => LandingInv
  BY InitLanding
<1>2. TypeOK /\ TypeOK' /\ LandingInv /\ [Next]_vars => LandingInv'
  <2> SUFFICES ASSUME TypeOK, TypeOK', LandingInv, [Next]_vars PROVE LandingInv'
    OBVIOUS
  <2>1. CASE StopEarly \/ Snapshot \/ Pairs \/ Round \/ PlanStep \/ PlanClose \/ Submit
    BY <2>1, PlanningQuiet, PlanCloseQuiet, SubmitQuiet, QuietKeeps
  <2>2. CASE Collect \/ PartsDone \/ Part \/ PartGated \/ Cancel \/ Join
    BY <2>2, CollectQuiet, PartsQuiet, QuietKeeps
  <2>3. CASE Land
    BY <2>3, LandingQuiet, QuietKeeps, MergeLanding, ConfirmLanding DEF Land
  <2>4. ASSUME NEW f \in DOMAIN families, Gate(f) PROVE LandingInv'
    BY <2>4, GateQuiet, QuietKeeps
  <2>5. CASE Disturb
    BY <2>5, DisturbQuiet, QuietKeeps
  <2>6. CASE Finished \/ UNCHANGED vars
    BY <2>6, StutterQuiet, QuietKeeps DEF Finished
  <2> QED
    BY <2>1, <2>2, <2>3, <2>4, <2>5, <2>6 DEF Next, Train
<1> QED
  BY <1>1, <1>2, TrainTypeOK, PTL DEF Spec

\* A family that landed whole left exactly its planned trees on the base, each in an
\* acknowledged merge, and the last one is the tree it was gated on
\* (train.py, land_family).
THEOREM LandsAsPlanned == Spec => []LandedAsPlanned
<1>1. LandingInv => LandedAsPlanned
  BY DEF LandingInv, Finishes, LandedAsPlanned, OnBase
<1> QED
  BY <1>1, TrainLandingInv, PTL

\* A merged tree that differs from the plan is never taken for the planned one, it
\* stops the run, and the run puts nothing on the base after it (TREE_MISMATCH).
THEOREM StopsAtMismatch == Spec => []MismatchStops
<1>1. TypeOK /\ LandingInv => MismatchStops
  BY DEF LandingInv, Compared, Mismatched, MismatchStops
<1> QED
  BY <1>1, TrainLandingInv, TrainTypeOK, PTL

---------------------------------------------------------------------------
(* Gates end with their round.                                             *)

Over == {"none", "done", "cancelled"}

\* Between rounds, and until the families of a round are submitted, no gate is left.
BetweenRounds == pc \in {"snapshot", "pairs", "round", "done"} \/ (~settling /\ pc \in {"plan", "submit"})

Recorded(f) == \E i \in DOMAIN gates : gates[i].family = f

Drained ==
  /\ BetweenRounds => \A f \in DOMAIN families : families[f].future \in Over
  /\ pc = "join" => \A f \in DOMAIN families : families[f].future # "queued"
  /\ \A f \in DOMAIN families : families[f].future = "done" => Recorded(f)

\* A step that hands nothing to the gates.
FuturesKept ==
  /\ gates' = gates
  /\ \A f \in DOMAIN families' :
       \/ f \in DOMAIN families /\ families'[f].future = families[f].future
       \/ f \notin DOMAIN families /\ families'[f].future = "none"

\* Families that stay the same keep their gates.
LEMMA SameFutures == ASSUME UNCHANGED <<families, gates>> PROVE FuturesKept
BY DEF FuturesKept

\* Another status leaves the gate of a family alone.
LEMMA SettingFutures == ASSUME GatesTyped, NEW f, NEW s, families' = Setting(f, s), gates' = gates PROVE FuturesKept
<1>1. \A g \in DOMAIN families : families[g] \in Family
  BY FamilyTyped
<1> QED BY <1>1 DEF Setting, FuturesKept, Family

\* So does a family voided with the one below it.
LEMMA VoidFutures == ASSUME GatesTyped, NEW f, NEW s, families' = Void(f, s), gates' = gates PROVE FuturesKept
<1>1. \A g \in DOMAIN families : families[g] \in Family
  BY FamilyTyped
<1> QED BY <1>1 DEF Void, FuturesKept, Family

\* A family is planned without a gate.
LEMMA PlanCloseFutures == ASSUME TypeOK, PlanClose PROVE FuturesKept
<1> DEFINE new == NewFamily(fold.steps, fold.base,
                            IF settling \/ batch = <<>> THEN 0 ELSE batch[Len(batch)], settling)
<1>1. families' \in {families, Append(families, new)} /\ gates' = gates
  BY DEF PlanClose
<1>2. new.future = "none"
  BY DEF NewFamily
<1>3. families \in Seq(Family) /\ Len(families) \in Nat /\ DOMAIN families = 1..Len(families)
  BY LenProperties DEF TypeOK, GatesTyped
<1> HIDE DEF new
<1>4. CASE families' = Append(families, new)
  <2>1. /\ DOMAIN families' = 1..(Len(families) + 1) /\ families'[Len(families) + 1] = new
        /\ \A f \in 1..Len(families) : families'[f] = families[f]
    BY <1>3, <1>4
  <2> QED BY <1>1, <1>2, <1>3, <2>1 DEF FuturesKept
<1> QED BY <1>1, <1>4, SameFutures

\* Collecting a result, a bisection and a landing hand nothing to the gates.
LEMMA ServingFutures ==
  ASSUME TypeOK, Collect \/ PartsDone \/ Part \/ PartGated \/ Land
  PROVE  FuturesKept
<1>1. GatesTyped
  BY DEF TypeOK
<1>2. gates' = gates
  BY DEF Collect, CollectStopped, CollectDry, CollectGreen, CollectUnread, CollectRed, ByCollect, PartsDone,
         Part, PartGated, Land, LandCheck, Decide, Reobserve, Push, Await, Merge, Confirm, ByLanding
<1>3. \/ families' = families
      \/ \E f, s : families' = Setting(f, s) \/ families' = Void(f, s)
      \/ families' = [families EXCEPT ![cur].status = "LANDED", ![cur].landed = merges[Len(merges)].sha]
  <2>1. CASE Collect
    BY <2>1 DEF Collect, CollectStopped, CollectDry, CollectGreen, CollectUnread, CollectRed
  <2>2. CASE PartsDone \/ Part \/ PartGated
    BY <2>2 DEF PartsDone, Part, PartGated
  <2>3. CASE Land
    BY <2>3 DEF Land, LandCheck, Decide, Reobserve, Push, Await, Merge, Confirm, ReadFails, Withheld, Leave
  <2> QED BY <2>1, <2>2, <2>3
<1>4. CASE families' = [families EXCEPT ![cur].status = "LANDED", ![cur].landed = merges[Len(merges)].sha]
  <2>1. \A g \in DOMAIN families : families[g] \in Family
    BY <1>1, FamilyTyped
  <2> QED BY <1>2, <1>4, <2>1 DEF FuturesKept, Family
<1> QED BY <1>1, <1>2, <1>3, <1>4, SameFutures, SettingFutures, VoidFutures

\* A step that hands nothing to the gates, and enters the end of a round only when
\* they are idle, keeps the rounds apart.
LEMMA FuturesKeepDrained ==
  ASSUME Drained, FuturesKept, BetweenRounds' => BetweenRounds \/ (pc = "join" /\ GatesIdle),
         pc' = "join" => pc = "join",
         \A f \in DOMAIN families : families[f].future \in Over \union {"queued", "running", "recording"}
  PROVE  Drained'
<1>1. BetweenRounds' => \A f \in DOMAIN families : families[f].future \in Over
  BY DEF Drained, GatesIdle, Busy
<1>2. BetweenRounds' => \A f \in DOMAIN families' : families'[f].future \in Over
  BY <1>1 DEF FuturesKept, Over
<1>3. pc' = "join" => \A f \in DOMAIN families' : families'[f].future # "queued"
  BY DEF Drained, FuturesKept
<1>4. \A f \in DOMAIN families' : families'[f].future = "done" => Recorded(f)'
  BY DEF Drained, FuturesKept, Recorded
<1> QED BY <1>2, <1>3, <1>4 DEF Drained

\* A gate runs only for a family that was handed to it, and ends with a row.
LEMMA GateDrained == ASSUME TypeOK, Drained, NEW f \in DOMAIN families, Gate(f) PROVE Drained'
<1>1. UNCHANGED <<pc, settling>> /\ families[f].future \in {"queued", "running", "recording"}
  BY DEF Gate, GateCancelled, GateReused, GateStart, GatePostponed, GateFinish, GateRecord, Startable, ByGate, thread
<1>2. ~BetweenRounds' /\ ~BetweenRounds
  BY <1>1 DEF Drained, BetweenRounds, Over
<1>3. families \in [DOMAIN families -> Family]
  BY LenProperties DEF TypeOK, GatesTyped
<1>4. /\ DOMAIN families' = DOMAIN families
      /\ \A g \in DOMAIN families \ {f} : families'[g] = families[g]
  BY DEF Gate, GateCancelled, GateReused, GateStart, GatePostponed, GateFinish, GateRecord
<1>5. CASE GateRecord(f)
  <2>1. /\ families'[f].future = "done"
        /\ gates' = Append(gates, [family |-> f, tree |-> families[f].result.tree,
                                   verdict |-> families[f].result.verdict,
                                   reused |-> families[f].result.reused])
    BY <1>3, <1>5 DEF GateRecord, Family
  <2>2. gates \in Seq(GateRow) /\ Len(gates) \in Nat /\ DOMAIN gates = 1..Len(gates)
    BY LenProperties DEF TypeOK, GatesTyped
  <2>3. /\ DOMAIN gates' = 1..(Len(gates) + 1) /\ gates'[Len(gates) + 1].family = f
        /\ \A i \in DOMAIN gates : gates'[i] = gates[i]
    BY <2>1, <2>2
  <2>4. \A g \in DOMAIN families' : families'[g].future = "done" => Recorded(g)'
    BY <1>4, <2>2, <2>3 DEF Drained, Recorded
  <2> QED BY <1>1, <1>2, <1>4, <2>1, <2>4 DEF Drained
<1>6. CASE ~GateRecord(f)
  <2>1. gates' = gates /\ families'[f].future \in {"cancelled", "recording", "running"}
    <3>1. families[f] \in Family
      BY <1>3
    <3>2. gates' = gates
      BY <1>6 DEF Gate, GateCancelled, GateReused, GateStart, GatePostponed, GateFinish
    <3>3. families'[f].future \in {"cancelled", "recording", "running"}
      <4>1. CASE GateCancelled(f) \/ GateStart(f)
        BY <3>1, <4>1 DEF GateCancelled, GateStart, Family
      <4>2. CASE GateReused(f) \/ GatePostponed(f)
        <5>1. PICK s, n, r : families' = [families EXCEPT ![f].future = "recording", ![f].status = s,
                                                         ![f].gate = n, ![f].result = r]
          <6>1. CASE GateReused(f)
            <7>1. PICK known \in KnownRed(FamilyTree(f)) :
                    families' = [families EXCEPT
                      ![f].future = "recording", ![f].status = "RED", ![f].gate = NextRow,
                      ![f].result = [verdict |-> gates[known.gate].verdict,
                                     tree |-> gates[known.gate].tree, reused |-> known.gate]]
              BY <6>1 DEF GateReused
            <7> QED BY <7>1, Zenon
          <6>2. CASE GatePostponed(f)
            BY <6>2, Zenon DEF GatePostponed
          <6> QED BY <4>2, <6>1, <6>2
        <5> QED BY <3>1, <5>1 DEF Family
      <4>3. CASE GateFinish(f)
        BY <3>1, <4>3 DEF GateFinish, Family
      <4> QED BY <1>6, <4>1, <4>2, <4>3 DEF Gate
    <3> QED BY <3>2, <3>3
  <2> QED BY <1>1, <1>2, <1>4, <2>1 DEF Drained, Recorded
<1> QED BY <1>5, <1>6

\* Every step leaves no gate behind.
LEMMA DrainedNext == ASSUME TypeOK, Drained, [Next]_vars PROVE Drained'
<1>1. \A f \in DOMAIN families : families[f] \in Family
  BY FamilyTyped DEF TypeOK
<1>2. \A f \in DOMAIN families : families[f].future \in Over \union {"queued", "running", "recording"}
  BY <1>1 DEF Family, Over
<1>3. CASE StopEarly \/ Snapshot \/ Pairs \/ Round \/ PlanStep
  <2>1. UNCHANGED <<families, gates>>
    BY <1>3 DEF StopEarly, Snapshot, Pairs, Round, PlanStep, RunUnread, Untouched
  <2>2. BetweenRounds \/ (pc = "plan" /\ pc' = "plan" /\ settling' = settling)
    BY <1>3 DEF BetweenRounds, StopEarly, Snapshot, Pairs, Round, PlanStep, Untouched
  <2>3. pc' # "join"
    <3>1. Pairs => pc' # "join"
      BY ChooseTyped DEF Pairs
    <3> QED BY <1>3, <3>1 DEF StopEarly, Snapshot, Round, PlanStep, RunUnread
  <2> QED BY <1>2, <2>1, <2>2, <2>3, SameFutures, FuturesKeepDrained DEF BetweenRounds
<1>4. CASE PlanClose
  <2>1. pc = "plan" /\ settling' = settling /\ pc' \in {"part", "submit", "plan", "drain"}
    BY <1>4 DEF PlanClose, AfterFold
  <2> QED BY <1>2, <1>4, <2>1, PlanCloseFutures, FuturesKeepDrained DEF BetweenRounds
<1>5. CASE Submit
  <2>1. gates' = gates /\ pc' \in {"part", "drain", "gate", "collect"}
    BY <1>5 DEF Submit
  <2>2. /\ DOMAIN families' = DOMAIN families
        /\ \A f \in DOMAIN families : families'[f].future \in {"queued", families[f].future}
    BY <1>1, <1>5 DEF Submit, Family
  <2> QED BY <2>1, <2>2 DEF Drained, BetweenRounds, Recorded
<1>6. CASE Collect \/ PartsDone \/ Part \/ PartGated \/ Land
  <2>1. FuturesKept
    BY <1>6, ServingFutures
  <2>2. pc' # "join" /\ ~BetweenRounds'
    <3>1. CASE Collect
      BY <3>1 DEF BetweenRounds, Collect, CollectStopped, CollectDry, CollectGreen, CollectUnread, CollectRed
    <3>2. CASE PartsDone \/ Part \/ PartGated
      BY <3>2 DEF BetweenRounds, PartsDone, Part, PartGated
    <3>3. CASE Land
      BY <3>3 DEF BetweenRounds, Land, LandCheck, Decide, Reobserve, Push, Await, Merge, Confirm, ReadFails,
           Withheld, Leave
    <3> QED BY <1>6, <3>1, <3>2, <3>3
  <2> QED BY <1>2, <2>1, <2>2, FuturesKeepDrained
<1>7. CASE Cancel
  <2>1. gates' = gates /\ pc' = "join"
    BY <1>7 DEF Cancel
  <2>2. /\ DOMAIN families' = DOMAIN families
        /\ \A f \in DOMAIN families : families'[f].future = IF families[f].future = "queued" THEN "cancelled"
                                                           ELSE families[f].future
    BY <1>1, <1>7 DEF Cancel, Family
  <2> QED BY <2>1, <2>2 DEF Drained, BetweenRounds, Recorded
<1>8. CASE Join
  <2>1. pc = "join" /\ GatesIdle /\ UNCHANGED <<families, gates>> /\ pc' # "join"
    BY <1>8 DEF Join, Continue
  <2> QED BY <1>2, <2>1, SameFutures, FuturesKeepDrained
<1>9. ASSUME NEW f \in DOMAIN families, Gate(f) PROVE Drained'
  BY <1>9, GateDrained
<1>10. CASE Disturb \/ Finished \/ UNCHANGED vars
  <2>1. UNCHANGED <<families, gates, pc, settling>>
    BY <1>10 DEF Disturb, Outside, Finished, vars, thread
  <2> QED BY <2>1 DEF Drained, BetweenRounds, Recorded
<1> QED BY <1>3, <1>4, <1>5, <1>6, <1>7, <1>8, <1>9, <1>10 DEF Next, Train

\* When a run is over, or another round begins, no gate of it is waiting, running or
\* about to be recorded, and every finished gate has its row (run's finally clause).
THEOREM GatesEndWithTheRun == Spec => []GatesOwned
<1>1. Init => Drained
  BY DEF Init, Drained, BetweenRounds
<1>2. TypeOK /\ Drained /\ [Next]_vars => Drained'
  BY DrainedNext
<1>3. Drained => GatesOwned
  BY DEF Drained, GatesOwned, BetweenRounds, Recorded, Over
<1> QED BY <1>1, <1>2, <1>3, TrainTypeOK, PTL DEF Spec

---------------------------------------------------------------------------
(* What reaches the base was planned.                                      *)

\* From the check of a member to its merge.
Readied == {"decide", "reread", "recheck", "push", "await", "merge"}
AsPrepared == pc \in Readied => Prepared.lanes = Planned.commit.lanes

UnseenInv == AsPrepared /\ NothingUnseenMerged

\* Only the check of a member gets it ready, for what the base and the snapshot hold then.
LEMMA ReadiedSteps ==
  ASSUME TypeOK, Next, pc' \in Readied, ~LandCheck
  PROVE  pc \in Readied /\ UNCHANGED <<cur, at, rows, expected>>
<1> USE DEF Readied
<1>1. ~(StopEarly \/ Snapshot \/ Pairs \/ Round \/ PlanStep \/ PlanClose \/ Submit)
  <2>1. Pairs => pc' \notin Readied
    BY ChooseTyped DEF Pairs
  <2> QED BY <2>1 DEF StopEarly, Snapshot, Round, PlanStep, PlanClose, Submit, RunUnread, AfterFold
<1>2. ~(Collect \/ PartsDone \/ Part \/ PartGated)
  <2>1. ~Collect
    BY DEF Collect, CollectStopped, CollectDry, CollectGreen, CollectUnread, CollectRed
  <2>2. ~Part
    <3>1. Part => pc' \in {"part", "plan"}
      BY DEF Part
    <3> QED BY <3>1
  <2> QED BY <2>1, <2>2 DEF PartsDone, PartGated
<1>3. ~(Cancel \/ Join)
  BY DEF Cancel, Join, Continue
<1>4. CASE Decide \/ Reobserve \/ Push \/ Await
  BY <1>4 DEF Decide, Reobserve, Push, Await, ByLanding
<1>5. ~(Merge \/ Confirm)
  BY DEF Merge, Confirm, ReadFails, Leave
<1>6. CASE \E f \in DOMAIN families : Gate(f)
  BY <1>6 DEF Gate, GateCancelled, GateReused, GateStart, GatePostponed, GateFinish, GateRecord, ByGate, thread
<1>7. CASE Disturb \/ Finished
  BY <1>7 DEF Disturb, Outside, Finished, thread, vars
<1> QED BY <1>1, <1>2, <1>3, <1>4, <1>5, <1>6, <1>7 DEF Next, Train, Land

\* Only the run's merges and the outside put commits on the base.
LEMMA BaseSteps == ASSUME Next, ~Merge, ~OutsideCommit PROVE main' = main
<1>1. CASE StopEarly \/ Snapshot \/ Pairs \/ Round \/ PlanStep \/ PlanClose \/ Submit
  BY <1>1 DEF StopEarly, Snapshot, Pairs, Round, RunUnread, PlanStep, Untouched, PlanClose, Submit, world
<1>2. CASE Collect \/ PartsDone \/ Part \/ PartGated \/ Cancel \/ Join
  BY <1>2 DEF Collect, CollectStopped, CollectDry, CollectGreen, CollectUnread, CollectRed, ByCollect,
     PartsDone, Part, PartGated, Cancel, Join, world
<1>3. CASE Land
  BY <1>3 DEF Land, LandCheck, Decide, Reobserve, Push, Await, Confirm, world
<1>4. CASE \E f \in DOMAIN families : Gate(f)
  BY <1>4 DEF Gate, GateCancelled, GateReused, GateStart, GatePostponed, GateFinish, GateRecord, ByGate
<1>5. CASE Disturb \/ Finished
  BY <1>5 DEF Disturb, RequestStop, AuthorPush, HoldLabel, Finished, vars, world
<1> QED BY <1>1, <1>2, <1>3, <1>4, <1>5 DEF Next, Train

\* Another status leaves the steps of a family alone.
LEMMA SettingSteps ==
  ASSUME NEW f, NEW s, families' = Setting(f, s)
  PROVE  \A g \in DOMAIN families : g \in DOMAIN families' /\ families'[g].steps = families[g].steps
BY DEF Setting

\* Every step keeps the commits of the base and the steps of the families.
LEMMA RunGrows ==
  ASSUME TypeOK, LandingInv, [Next]_vars
  PROVE  Grown /\ \A f \in DOMAIN families : f \in DOMAIN families' /\ families'[f].steps = families[f].steps
<1>1. CASE Merge
  <2> DEFINE row == [tree |-> main[Tip].tree \union pulls[N].head.lanes, by |-> N]
  <2>1. main' = main \/ main' = Append(main, row)
    BY <1>1 DEF Merge
  <2>2. row \in BaseRow
    <3>1. pc \in Landing
      BY <1>1 DEF Merge, Landing
    <3>2. main[Tip] \in BaseRow /\ N \in PR /\ pulls[N].head \in Commit
      BY <3>1, TipTyped, LandingPointers, MainIndex, HeadsTyped DEF TypeOK
    <3> QED BY <3>2 DEF BaseRow, Commit, Tree
  <2> HIDE DEF row
  <2>3. Grown
    BY <2>1, <2>2, SameGrown, Appended
  <2>4. families' = families \/ \E s : families' = Setting(cur, s)
    BY <1>1 DEF Merge, ReadFails, Leave
  <2> QED BY <2>3, <2>4, SettingSteps
<1>2. CASE Confirm
  <2>1. main' = main
    BY <1>2 DEF Confirm
  <2>2. \/ families' = families
        \/ \E s : families' = Setting(cur, s)
        \/ families' = [families EXCEPT ![cur].status = "LANDED", ![cur].landed = merges[Len(merges)].sha]
    BY <1>2 DEF Confirm, Leave
  <2>3. CASE families' = [families EXCEPT ![cur].status = "LANDED", ![cur].landed = merges[Len(merges)].sha]
    BY <2>1, <2>3, SameGrown
  <2> QED BY <2>1, <2>2, <2>3, SameGrown, SettingSteps
<1>3. CASE Quiet
  BY <1>3 DEF Quiet, NoneLands
<1>4. Quiet \/ Merge \/ Confirm
  BY PlanningQuiet, PlanCloseQuiet, SubmitQuiet, CollectQuiet, PartsQuiet, LandingQuiet, DisturbQuiet, GateQuiet,
     StutterQuiet DEF Next, Train, Land, Finished
<1> QED BY <1>1, <1>2, <1>3, <1>4

\* The merge puts nothing on the base that is not in the planned tree.
LEMMA MergeSeen == ASSUME TypeOK, LandingInv, UnseenInv, Merge PROVE NothingUnseenMerged'
<1> DEFINE row == [tree |-> main[Tip].tree \union pulls[N].head.lanes, by |-> N]
<1>1. pc \in Landing /\ pc = "merge"
  BY DEF Merge, Landing
<1>2. \A f \in DOMAIN families : f \in DOMAIN families' /\ families'[f].steps = families[f].steps
  BY RunGrows DEF Next, Train, Land
<1>3. main \in Seq(BaseRow) /\ Tip \in Nat \ {0} /\ DOMAIN main = 1..Tip
  BY TipTyped, LenProperties DEF TypeOK, RemoteTyped, Tip
<1>4. CASE main' = main
  BY <1>2, <1>4 DEF UnseenInv, NothingUnseenMerged
<1>5. CASE main' # main
  <2>1. main' = Append(main, row) /\ pulls[N].head = Prepared
    BY <1>5 DEF Merge, GitHubAccepts
  <2>2. row \in BaseRow
    <3>1. main[Tip] \in BaseRow /\ N \in PR /\ pulls[N].head \in Commit
      BY <1>1, TipTyped, LandingPointers, MainIndex, HeadsTyped DEF TypeOK
    <3> QED BY <3>1 DEF BaseRow, Commit, Tree
  <2>3. /\ Len(main') = Tip + 1 /\ main'[Tip + 1] = row
        /\ \A i \in 1..Tip : main'[i] = main[i]
    BY <1>3, <2>1, <2>2, AppendProperties DEF Tip
  <2>4. cur \in DOMAIN families /\ at \in DOMAIN families[cur].steps
    BY <1>1, LandingPointers
  <2>5. row.tree \ main[Tip].tree \subseteq Planned.commit.lanes /\ row.by = N
    BY <1>1, <2>1 DEF UnseenInv, AsPrepared, Readied
  <2> HIDE DEF row
  <2>6. ASSUME NEW i \in 2..Len(main'), main'[i].by # 0
        PROVE  \E f \in DOMAIN families' : \E k \in DOMAIN families'[f].steps :
                 /\ families'[f].steps[k].pr = main'[i].by
                 /\ main'[i].tree \ main'[i - 1].tree \subseteq families'[f].steps[k].commit.lanes
    <3>1. CASE i = Tip + 1
      <4>1. main'[i] = row /\ main'[i - 1] = main[Tip]
        BY <1>3, <2>3, <3>1
      <4> QED BY <1>2, <2>4, <2>5, <4>1 DEF Planned, N
    <3>2. CASE i # Tip + 1
      <4>1. i \in 2..Tip /\ main'[i] = main[i] /\ main'[i - 1] = main[i - 1]
        BY <1>3, <2>3, <2>6, <3>2
      <4> QED BY <1>2, <2>6, <4>1 DEF UnseenInv, NothingUnseenMerged, Tip
    <3> QED BY <3>1, <3>2
  <2> QED BY <2>6 DEF NothingUnseenMerged
<1> QED BY <1>4, <1>5

\* So does every step.
LEMMA UnseenNext == ASSUME TypeOK, LandingInv, UnseenInv, [Next]_vars PROVE UnseenInv'
<1>1. Grown /\ \A f \in DOMAIN families : f \in DOMAIN families' /\ families'[f].steps = families[f].steps
  BY RunGrows
<1>2. AsPrepared'
  <2> SUFFICES ASSUME pc' \in Readied PROVE Prepared'.lanes = Planned'.commit.lanes
    BY DEF AsPrepared
  <2>1. /\ UNCHANGED <<cur, at, rows, expected>> /\ Prepared.lanes = Planned.commit.lanes
        /\ pc \in Landing
    <3>1. CASE LandCheck
      <4>1. pc' \notin {"part", "drain"}
        BY DEF Readied
      <4>2. ~(\E s, b : Leave(s, b))
        BY <4>1 DEF Leave
      <4>3. ~Withheld /\ ~ReadFails
        BY <4>2 DEF Withheld, ReadFails
      <4> QED BY <3>1, <4>2, <4>3 DEF LandCheck, ByLanding, Landing
    <3>2. CASE UNCHANGED vars
      BY <3>2 DEF vars, thread, UnseenInv, AsPrepared, Readied, Landing
    <3>3. CASE Next /\ ~LandCheck
      BY <3>3, ReadiedSteps DEF UnseenInv, AsPrepared, Readied, Landing
    <3> QED BY <3>1, <3>2, <3>3
  <2>2. cur \in DOMAIN families /\ expected \in DOMAIN main
    BY <2>1, LandingPointers DEF TypeOK, Pointers
  <2>3. Planned' = Planned /\ N' = N
    BY <1>1, <2>1, <2>2 DEF Planned, N
  <2>4. BaseCommit(expected)' = BaseCommit(expected)
    BY <1>1, <2>1, <2>2 DEF BaseCommit, Grown
  <2> QED BY <2>1, <2>3, <2>4 DEF Prepared
<1>3. NothingUnseenMerged'
  <2>1. CASE Merge
    BY <2>1, MergeSeen
  <2>2. CASE OutsideCommit
    <3>1. PICK added \in {{}, {<<0, Tip>>}} :
            main' = Append(main, [tree |-> main[Tip].tree \union added, by |-> 0])
      BY <2>2 DEF OutsideCommit
    <3> DEFINE row == [tree |-> main[Tip].tree \union added, by |-> 0]
    <3>2. Tip \in DOMAIN main /\ Tip \in Nat \ {0} /\ main[Tip] \in BaseRow /\ main \in Seq(BaseRow)
      BY TipTyped, MainIndex DEF TypeOK, RemoteTyped
    <3>3. row \in BaseRow /\ row.by = 0
      BY <3>1, <3>2 DEF BaseRow, Tree, Lane
    <3> HIDE DEF row
    <3>4. /\ Len(main') = Tip + 1 /\ main'[Tip + 1] = row
          /\ \A i \in 1..Tip : main'[i] = main[i]
      BY <3>1, <3>2, <3>3, AppendProperties DEF Tip, row
    <3>5. ASSUME NEW i \in 2..Len(main'), main'[i].by # 0
          PROVE  i \in 2..Tip /\ main'[i] = main[i] /\ main'[i - 1] = main[i - 1]
      BY <3>2, <3>3, <3>4, <3>5
    <3> QED BY <1>1, <3>5 DEF UnseenInv, NothingUnseenMerged, Tip
  <2>3. CASE UNCHANGED main
    BY <1>1, <2>3 DEF UnseenInv, NothingUnseenMerged
  <2> QED BY <2>1, <2>2, <2>3, BaseSteps DEF vars, world
<1> QED BY <1>2, <1>3 DEF UnseenInv

\* What an author pushed after the snapshot never reaches the base through the run, and
\* what it merges is in the tree it planned (land_family: repeated step, pinned sha).
THEOREM MergesWhatItPlanned == Spec => []NothingUnseenMerged
<1>1. Init => UnseenInv
  BY DEF Init, UnseenInv, AsPrepared, Readied, NothingUnseenMerged
<1>2. TypeOK /\ LandingInv /\ UnseenInv /\ [Next]_vars => UnseenInv'
  BY UnseenNext
<1>3. UnseenInv => NothingUnseenMerged
  BY DEF UnseenInv
<1> QED BY <1>1, <1>2, <1>3, TrainTypeOK, TrainLandingInv, PTL DEF Spec

---------------------------------------------------------------------------
(* The families of a round, in the order they were folded.                 *)

\* The run's thread has a family in hand: it gates a part or lands a family.
AtHand == pc \in Landing \/ (settling /\ pc \in {"submit", "gate"})

\* A family the run's thread may still give another status to.
Serving(f) == f \in ToSet(batch) \/ (f = cur /\ AtHand)

\* The families of a round are served in the order they were planned, none is left while
\* a red one is bisected, and one lands only when its gate has ended.
InOrder ==
  /\ \A i, j \in DOMAIN batch : i < j => batch[i] < batch[j]
  /\ settling \/ pc = "part" => batch = <<>>
  /\ pc \in Landing => families[cur].future = "done"

\* A landed family is done with.
LandedRests == \A f \in DOMAIN families : Landed(f) => families[f].future = "done" /\ ~Serving(f)

EndStatus == {"LANDED", "PREFIX_LANDED_UNGATED", "TREE_MISMATCH", "LANDED_TREE_UNREAD"}

\* A family with a merged member was gated, and it either lands now or has ended so.
MergedEnd ==
  \A m \in DOMAIN merges :
    LET f == merges[m].family
    IN /\ f \in DOMAIN families /\ families[f].future = "done"
       /\ \/ pc \in Landing /\ f = cur /\ (pc = "confirm" \/ at > 1)
          \/ families[f].status \in EndStatus /\ ~Serving(f)

\* What a family was folded onto has landed, by the time it is its turn to land.
BaseLanded(f) == families[f].after = 0 \/ Landed(families[f].after)
Linked(i) ==
  IF i = 1 THEN mode = "dry" \/ BaseLanded(batch[1]) ELSE families[batch[i]].after = batch[i - 1]
Chained ==
  /\ \A f \in DOMAIN families : families[f].after # 0 => families[f].after \in DOMAIN families
  /\ \A i \in DOMAIN batch : Linked(i)
  /\ settling /\ AtHand => families[cur].after = 0
  /\ pc \in Landing => settling \/ mode # "dry"
  /\ \A f \in DOMAIN families : Landed(f) => BaseLanded(f)

RoundInv == InOrder /\ LandedRests /\ MergedEnd /\ Chained

\* Only the families at hand get another status, or are handed to a gate.
Respected ==
  /\ \A f \in DOMAIN families :
       /\ f \in DOMAIN families' /\ families'[f].after = families[f].after
       /\ families[f].future = "done" /\ ~Serving(f) =>
            families'[f].future = "done" /\ families'[f].status = families[f].status
  /\ DOMAIN families' = DOMAIN families

\* A step that merges nothing, takes no family up but one it has in hand, and leaves no
\* landing.
Onward ==
  /\ Respected /\ NoneLands /\ UNCHANGED <<merges, mode>>
  /\ \/ batch' \in {batch, <<>>}
     \/ batch # <<>> /\ batch' = Tail(batch) /\ mode = "dry"
  /\ settling' \/ pc' = "part" => batch' = <<>>
  /\ AtHand' => Serving(cur')
  /\ settling' /\ AtHand' => settling /\ AtHand /\ cur' = cur
  /\ pc' \in Landing => families'[cur'].future = "done" /\ (settling' \/ mode # "dry")
  /\ pc \in Landing => pc' \in Landing /\ UNCHANGED <<cur, at>> /\ (pc = "confirm" <=> pc' = "confirm")

\* The families of a round are positions of the receipt.
LEMMA BatchTyped ==
  ASSUME TypeOK
  PROVE  /\ batch \in Seq(Nat) /\ Len(batch) \in Nat /\ DOMAIN batch = 1..Len(batch)
         /\ \A i \in DOMAIN batch : batch[i] \in DOMAIN families
         /\ ToSet(batch) = {batch[i] : i \in DOMAIN batch}
         /\ DOMAIN families = 1..Len(families) /\ Len(families) \in Nat
         /\ \A f \in DOMAIN families : families[f] \in Family /\ f \in Nat \ {0}
BY LenProperties, FamilyTyped DEF TypeOK, ThreadTyped, GatesTyped, Pointers, ToSet

\* What is behind the first family of a round.
LEMMA BatchTail ==
  ASSUME TypeOK, batch # <<>>
  PROVE  /\ Tail(batch) \in Seq(Nat) /\ DOMAIN Tail(batch) = 1..(Len(batch) - 1)
         /\ \A i \in DOMAIN Tail(batch) : Tail(batch)[i] = batch[i + 1] /\ i + 1 \in DOMAIN batch
         /\ ToSet(Tail(batch)) \subseteq ToSet(batch)
         /\ 1 \in DOMAIN batch
<1>1. batch \in Seq(Nat) /\ Len(batch) \in Nat \ {0} /\ DOMAIN batch = 1..Len(batch)
  BY BatchTyped, EmptySeq
<1>2. /\ Tail(batch) \in Seq(Nat) /\ Len(Tail(batch)) = Len(batch) - 1
      /\ \A i \in 1..Len(Tail(batch)) : Tail(batch)[i] = batch[i + 1]
  BY <1>1, HeadTailProperties
<1>3. DOMAIN Tail(batch) = 1..(Len(batch) - 1)
  BY <1>2, LenProperties
<1> QED BY <1>1, <1>2, <1>3 DEF ToSet

\* The first family of a round is not one of those behind it.
LEMMA HeadApart ==
  ASSUME TypeOK, InOrder, batch # <<>>
  PROVE  batch[1] \notin ToSet(Tail(batch)) /\ batch[1] \in ToSet(batch)
<1>1. \A i \in DOMAIN Tail(batch) : batch[1] < Tail(batch)[i]
  BY BatchTail, BatchTyped DEF InOrder
<1>2. \A i \in DOMAIN Tail(batch) : Tail(batch)[i] \in Nat /\ batch[1] \in Nat
  BY BatchTail, BatchTyped
<1>3. \A i \in DOMAIN Tail(batch) : Tail(batch)[i] # batch[1]
  BY <1>1, <1>2
<1> QED BY <1>3, BatchTail, BatchTyped DEF ToSet

\* The families of a round stay in order when some of them are served.
LEMMA OrderKept ==
  ASSUME TypeOK, InOrder, batch' \in {batch, <<>>} \/ (batch # <<>> /\ batch' = Tail(batch))
  PROVE  /\ \A i, j \in DOMAIN batch' : i < j => batch'[i] < batch'[j]
         /\ ToSet(batch') \subseteq ToSet(batch)
<1>1. CASE batch' = batch
  BY <1>1 DEF InOrder
<1>2. CASE batch' = <<>>
  BY <1>2 DEF ToSet
<1>3. CASE batch # <<>> /\ batch' = Tail(batch)
  <2>1. ASSUME NEW i \in DOMAIN Tail(batch), NEW j \in DOMAIN Tail(batch), i < j
        PROVE  Tail(batch)[i] < Tail(batch)[j]
    <3>1. i \in Nat /\ j \in Nat
      <4>1. DOMAIN Tail(batch) = 1..(Len(batch) - 1) /\ Len(batch) \in Nat
        BY <1>3, BatchTail, BatchTyped
      <4> HIDE DEF InOrder
      <4> QED BY <4>1
    <3>2. /\ i + 1 \in DOMAIN batch /\ j + 1 \in DOMAIN batch /\ i + 1 < j + 1
          /\ Tail(batch)[i] = batch[i + 1] /\ Tail(batch)[j] = batch[j + 1]
      BY <1>3, <2>1, <3>1, BatchTail
    <3> QED BY <3>2 DEF InOrder
  <2> QED BY <1>3, <2>1, BatchTail
<1> QED BY <1>1, <1>2, <1>3

\* Such a step keeps the order, and what has landed.
LEMMA OnwardKeeps == ASSUME TypeOK, RoundInv, Onward PROVE RoundInv'
<1>1. InOrder /\ LandedRests /\ MergedEnd /\ Chained
  BY DEF RoundInv
<1>2. /\ \A i, j \in DOMAIN batch' : i < j => batch'[i] < batch'[j]
      /\ ToSet(batch') \subseteq ToSet(batch)
  BY <1>1, OrderKept DEF Onward
<1>3. InOrder'
  BY <1>2 DEF Onward, InOrder
<1>4. \A f : Serving(f)' => Serving(f)
  BY <1>2 DEF Onward, Serving
<1>5. LandedRests'
  BY <1>1, <1>4 DEF Onward, Respected, NoneLands, LandedRests, Landed
<1>6. MergedEnd'
  <2> SUFFICES ASSUME NEW m \in DOMAIN merges
               PROVE  LET f == merges[m].family
                      IN /\ f \in DOMAIN families' /\ families'[f].future = "done"
                         /\ \/ pc' \in Landing /\ f = cur' /\ (pc' = "confirm" \/ at' > 1)
                            \/ families'[f].status \in EndStatus /\ ~Serving(f)'
    BY DEF Onward, MergedEnd
  <2> QED BY <1>1, <1>4 DEF MergedEnd, Onward, Respected
<1>7. \A f \in DOMAIN families : Landed(f) => Landed(f)'
  BY <1>1 DEF LandedRests, Onward, Respected, Landed
<1>8. \A f \in DOMAIN families : BaseLanded(f) => BaseLanded(f)'
  BY <1>1, <1>7 DEF Onward, Respected, BaseLanded, Chained
<1>9. \A i \in DOMAIN batch' : Linked(i)'
  <2>1. CASE batch' = <<>>
    BY <2>1
  <2>2. CASE batch' = batch
    BY <1>1, <1>8, <2>2, BatchTyped DEF Chained, Linked, Onward, Respected, BaseLanded, Landed
  <2>3. CASE batch # <<>> /\ batch' = Tail(batch) /\ mode = "dry"
    <3>1. ASSUME NEW i \in DOMAIN batch', i # 1 PROVE families'[batch'[i]].after = batch'[i - 1]
      <4>1. i \in 2..(Len(batch) - 1) /\ i + 1 \in DOMAIN batch /\ Len(batch) \in Nat
        BY <2>3, <3>1, BatchTail, BatchTyped
      <4>2. batch'[i] = batch[i + 1] /\ batch'[i - 1] = batch[i]
        BY <2>3, <4>1, BatchTail
      <4>3. families[batch[i + 1]].after = batch[i]
        <5>1. Linked(i + 1) /\ i + 1 # 1 /\ (i + 1) - 1 = i
          BY <1>1, <4>1 DEF Chained
        <5> QED BY <5>1 DEF Linked
      <4> QED BY <4>1, <4>2, <4>3, BatchTyped DEF Onward, Respected
    <3> QED BY <2>3, <3>1 DEF Onward, Linked
  <2> QED BY <2>1, <2>2, <2>3 DEF Onward
<1>10. \A f \in DOMAIN families' : Landed(f)' => BaseLanded(f)'
  BY <1>1, <1>8 DEF Chained, Onward, NoneLands, Landed
<1>11. settling' /\ AtHand' => families'[cur'].after = 0
  <2> SUFFICES ASSUME settling', AtHand' PROVE families'[cur'].after = 0
    OBVIOUS
  <2>1. settling /\ AtHand /\ cur' = cur /\ families[cur].after = 0
    BY <1>1 DEF Onward, Chained
  <2>2. cur \in DOMAIN families
    BY <2>1, LandingPointers DEF AtHand, TypeOK, Pointers
  <2> QED BY <2>1, <2>2 DEF Onward, Respected
<1>12. Chained'
  BY <1>1, <1>9, <1>10, <1>11 DEF Onward, Respected, Chained
<1> QED BY <1>3, <1>5, <1>6, <1>12 DEF RoundInv

\* Leaving the families alone respects them.
LEMMA SameRespected == ASSUME UNCHANGED families PROVE Respected
BY DEF Respected

\* So does another status for a family at hand.
LEMMA SettingRespected == ASSUME NEW f, NEW s, Serving(f), families' = Setting(f, s) PROVE Respected
BY DEF Respected, Setting

\* And one for those behind it.
LEMMA VoidRespected ==
  ASSUME TypeOK, NEW s, batch # <<>>, families' = Void(batch[1], s)
  PROVE  Respected
<1>1. batch[1] \in ToSet(batch) /\ ToSet(Tail(batch)) \subseteq ToSet(batch)
  BY BatchTail, BatchTyped DEF ToSet
<1> QED BY <1>1 DEF Respected, Void, Serving

\* Planning takes no family up.
LEMMA PlanningOnward ==
  ASSUME TypeOK, LandingInv, RoundInv, StopEarly \/ Snapshot \/ Pairs \/ Round \/ PlanStep
  PROVE  Onward
<1>1. InOrder /\ NoneLands
  BY PlanningQuiet DEF RoundInv, Quiet
<1>2. UNCHANGED <<merges, mode, families>>
  BY DEF StopEarly, Snapshot, Pairs, Round, PlanStep, RunUnread, lists, Untouched
<1>3. /\ pc \notin Landing /\ pc' \notin Landing \union {"submit", "gate", "part"}
      /\ (batch' = batch /\ settling' = settling) \/ (batch' = <<>> /\ settling' = FALSE)
  <2>1. CASE StopEarly \/ PlanStep
    BY <2>1 DEF StopEarly, PlanStep, thread, Untouched, Landing
  <2>2. CASE Snapshot
    BY <2>2 DEF Snapshot, RunUnread, thread, Landing
  <2>3. CASE Pairs
    BY <2>3, ChooseTyped DEF Pairs, Landing
  <2>4. CASE Round
    BY <2>4 DEF Round, RunUnread, thread, Landing
  <2> QED BY <2>1, <2>2, <2>3, <2>4
<1> QED BY <1>1, <1>2, <1>3, SameRespected DEF Onward, AtHand, InOrder

\* A family is planned behind those of the round, on the last of them; a part of a
\* bisection on the base.
LEMMA PlanCloseRounds == ASSUME TypeOK, LandingInv, RoundInv, PlanClose PROVE RoundInv'
<1> DEFINE last == IF settling \/ batch = <<>> THEN 0 ELSE batch[Len(batch)]
           new == NewFamily(fold.steps, fold.base, last, settling)
           next == Len(families) + 1
<1>1. InOrder /\ LandedRests /\ MergedEnd /\ Chained
  BY DEF RoundInv
<1>2. /\ pc = "plan" /\ UNCHANGED <<merges, mode, settling>>
      /\ pc' \in {"part", "submit", "plan", "drain"} /\ (pc' = "part" => settling)
      /\ \/ families' = families /\ UNCHANGED <<batch, cur>> /\ (settling => pc' = "part")
         \/ /\ families' = Append(families, new)
            /\ batch' = IF settling THEN batch ELSE Append(batch, next)
            /\ cur' = IF settling THEN next ELSE cur
  BY DEF PlanClose, lists, AfterFold
<1>3. CASE families' = families /\ UNCHANGED <<batch, cur>> /\ (settling => pc' = "part")
  <2>1. Onward
    BY <1>1, <1>2, <1>3, SameRespected, SameLandsNone DEF Onward, AtHand, Landing, InOrder
  <2> QED BY <2>1, OnwardKeeps
<1>4. CASE /\ families' = Append(families, new)
           /\ batch' = IF settling THEN batch ELSE Append(batch, next)
           /\ cur' = IF settling THEN next ELSE cur
  <2>1. /\ families \in Seq(Family) /\ Len(families) \in Nat /\ DOMAIN families = 1..Len(families)
        /\ batch \in Seq(Nat) /\ Len(batch) \in Nat /\ DOMAIN batch = 1..Len(batch)
        /\ \A i \in DOMAIN batch : batch[i] \in DOMAIN families
    BY BatchTyped DEF TypeOK, GatesTyped
  <2>2. new.status = "PLANNED" /\ new.after = last
    BY DEF NewFamily
  <2>3. last # 0 => last \in DOMAIN families
    BY <2>1, EmptySeq
  <2> HIDE DEF new
  <2>4. /\ DOMAIN families' = 1..next /\ families'[next] = new
        /\ \A f \in DOMAIN families : families'[f] = families[f]
    BY <1>4, <2>1
  <2>5. next \notin DOMAIN families /\ next \in Nat /\ \A i \in DOMAIN batch : batch[i] < next
    BY <2>1
  <2>6. /\ ~settling => DOMAIN batch' = 1..(Len(batch) + 1) /\ batch'[Len(batch) + 1] = next
                        /\ \A i \in DOMAIN batch : batch'[i] = batch[i]
        /\ settling => batch' = <<>>
    BY <1>1, <1>4, <2>1, <2>5 DEF InOrder
  <2>7. InOrder'
    <3>1. \A i, j \in DOMAIN batch' : i < j => batch'[i] < batch'[j]
      <4>1. CASE settling
        BY <2>6, <4>1
      <4>2. CASE ~settling
        BY <1>1, <2>1, <2>5, <2>6, <4>2 DEF InOrder
      <4> QED BY <4>1, <4>2
    <3> QED BY <1>2, <2>6, <3>1 DEF InOrder, Landing
  <2>8. \A f \in DOMAIN families : Serving(f)' => Serving(f)
    <3>1. \A f \in DOMAIN families : f \in ToSet(batch') => f \in ToSet(batch)
      BY <2>1, <2>5, <2>6 DEF ToSet
    <3>2. AtHand' => cur' = next
      BY <1>2, <1>4 DEF AtHand, Landing
    <3> QED BY <2>5, <3>1, <3>2 DEF Serving
  <2>9. LandedRests'
    BY <1>1, <2>2, <2>4, <2>8, <2>1 DEF LandedRests, Landed
  <2>10. MergedEnd'
    BY <1>1, <1>2, <2>1, <2>4, <2>8 DEF MergedEnd, Landing
  <2>11. Chained'
    <3>1. \A f \in DOMAIN families : Landed(f)' <=> Landed(f)
      BY <2>4 DEF Landed
    <3>2. \A f \in DOMAIN families : BaseLanded(f) => BaseLanded(f)'
      BY <1>1, <2>4, <3>1 DEF BaseLanded, Chained
    <3>3. \A f \in DOMAIN families' : families'[f].after # 0 => families'[f].after \in DOMAIN families'
      BY <1>1, <2>1, <2>2, <2>3, <2>4 DEF Chained
    <3>4. \A i \in DOMAIN batch' : Linked(i)'
      <4>1. CASE settling
        BY <2>6, <4>1
      <4>2. ASSUME ~settling, NEW i \in DOMAIN batch
            PROVE  Linked(i)'
        <5>1. batch'[i] = batch[i] /\ batch[i] \in DOMAIN families /\ (i # 1 => i - 1 \in DOMAIN batch)
          BY <2>1, <2>6, <4>2
        <5>2. CASE i = 1
          BY <1>1, <1>2, <3>2, <5>1, <5>2 DEF Chained, Linked, BaseLanded, Landed
        <5>3. CASE i # 1
          BY <1>1, <2>4, <2>6, <4>2, <5>1, <5>3 DEF Chained, Linked
        <5> QED BY <5>2, <5>3
      <4>3. ASSUME ~settling, NEW i, i = Len(batch) + 1
            PROVE  Linked(i)'
        <5>1. batch'[i] = next /\ families'[next].after = last
          BY <2>2, <2>4, <2>6, <4>3
        <5>2. CASE i = 1
          <6>1. batch = <<>>
            BY <2>1, <4>3, <5>2, EmptySeq
          <6> QED BY <2>1, <2>6, <4>3, <5>1, <5>2, <6>1 DEF BaseLanded, Linked
        <5>3. CASE i # 1
          <6>1. Len(batch) \in DOMAIN batch /\ batch # <<>>
            BY <2>1, <4>3, <5>3, EmptySeq
          <6> QED BY <2>1, <2>6, <4>3, <5>1, <5>3, <6>1 DEF Linked
        <5> QED BY <5>2, <5>3
      <4> QED BY <2>1, <2>6, <4>1, <4>2, <4>3
    <3>5. settling' /\ AtHand' => families'[cur'].after = 0
      BY <1>2, <1>4, <2>2, <2>4 DEF AtHand, Landing
    <3>6. \A f \in DOMAIN families' : Landed(f)' => BaseLanded(f)'
      BY <1>1, <2>1, <2>2, <2>4, <3>1, <3>2 DEF Chained, Landed
    <3> QED BY <1>2, <3>3, <3>4, <3>5, <3>6 DEF Chained, Landing
  <2> QED BY <2>7, <2>9, <2>10, <2>11 DEF RoundInv
<1> QED BY <1>2, <1>3, <1>4

\* Families handed to the gates, or given back, stay as they are otherwise.
LEMMA SubmitOnward == ASSUME TypeOK, LandingInv, RoundInv, Submit PROVE Onward
<1>1. InOrder /\ NoneLands
  BY SubmitQuiet DEF RoundInv, Quiet
<1>2. /\ pc = "submit" /\ UNCHANGED <<merges, mode, cur, settling>>
      /\ batch' \in {batch, <<>>} /\ pc' \in {"part", "drain", "gate", "collect"}
      /\ pc' \in {"part", "gate"} => settling
  BY DEF Submit, lists
<1>3. Respected
  <2>1. \A f \in DOMAIN families : families[f] \in Family
    BY FamilyTyped DEF TypeOK
  <2>2. /\ DOMAIN families' = DOMAIN families
        /\ \A f \in DOMAIN families : families'[f] \in {families[f], [families[f] EXCEPT !.future = "queued"]}
        /\ \A f \in DOMAIN families : families'[f] # families[f] => Serving(f)
    BY <1>2 DEF Submit, Serving, AtHand
  <2>3. \A f \in DOMAIN families :
          /\ [families[f] EXCEPT !.future = "queued"].status = families[f].status
          /\ [families[f] EXCEPT !.future = "queued"].after = families[f].after
    BY <2>1 DEF Family
  <2> QED BY <2>2, <2>3 DEF Respected
<1> QED BY <1>1, <1>2, <1>3 DEF Onward, AtHand, Serving, Landing, InOrder

\* A gate leaves a family alone whose gate is done.
LEMMA GateOnward == ASSUME TypeOK, LandingInv, RoundInv, NEW f \in DOMAIN families, Gate(f) PROVE Onward
<1>1. InOrder /\ Chained /\ NoneLands
  BY GateQuiet DEF RoundInv, Quiet
<1>2. UNCHANGED <<merges, mode, batch, settling, pc, cur, at>>
  BY DEF Gate, GateCancelled, GateReused, GateStart, GatePostponed, GateFinish, GateRecord, ByGate, thread, lists
<1>3. families[f] \in Family /\ families[f].future # "done"
  BY FamilyTyped DEF TypeOK, Gate, GateCancelled, GateReused, GateStart, GatePostponed, GateFinish, GateRecord,
     Startable
<1>4. DOMAIN families' = DOMAIN families /\ \A g \in DOMAIN families \ {f} : families'[g] = families[g]
  BY DEF Gate, GateCancelled, GateReused, GateStart, GatePostponed, GateFinish, GateRecord
<1>5. families'[f].after = families[f].after
  <2>1. CASE GateCancelled(f) \/ GateStart(f) \/ GateRecord(f)
    BY <1>3, <2>1 DEF GateCancelled, GateStart, GateRecord, Family
  <2>2. CASE GateReused(f) \/ GatePostponed(f) \/ GateFinish(f)
    <3>1. PICK s, n, r : families' = [families EXCEPT ![f].future = "recording", ![f].status = s,
                                                     ![f].gate = n, ![f].result = r]
      <4>1. CASE GateReused(f)
        <5>1. PICK known \in KnownRed(FamilyTree(f)) :
                families' = [families EXCEPT
                  ![f].future = "recording", ![f].status = "RED", ![f].gate = NextRow,
                  ![f].result = [verdict |-> gates[known.gate].verdict,
                                 tree |-> gates[known.gate].tree, reused |-> known.gate]]
          BY <4>1 DEF GateReused
        <5> QED BY <5>1, Zenon
      <4>2. CASE GatePostponed(f)
        BY <4>2, Zenon DEF GatePostponed
      <4>3. CASE GateFinish(f)
        <5>1. PICK verdict \in {"green", "red", "unread"} :
                families' = [families EXCEPT
                  ![f].future = "recording", ![f].status = GateStatus(verdict), ![f].gate = NextRow,
                  ![f].result = [verdict |-> verdict, tree |-> FamilyTree(f), reused |-> 0]]
          BY <4>3 DEF GateFinish
        <5> QED BY <5>1, Zenon
      <4> QED BY <2>2, <4>1, <4>2, <4>3
    <3> QED BY <1>3, <3>1 DEF Family
  <2> QED BY <2>1, <2>2 DEF Gate
<1>6. Respected
  BY <1>3, <1>4, <1>5 DEF Respected
<1>7. pc \in Landing => cur \in DOMAIN families
  BY LandingPointers
<1> QED BY <1>1, <1>2, <1>3, <1>4, <1>6, <1>7 DEF Onward, AtHand, Serving, InOrder, Chained

\* Taking a gate's result serves the first family of the round.
LEMMA CollectOnward == ASSUME TypeOK, LandingInv, RoundInv, Collect PROVE Onward
<1> DEFINE f == batch[1]
<1>1. InOrder /\ Chained /\ NoneLands
  BY CollectQuiet DEF RoundInv, Quiet
<1>2. pc = "collect" /\ batch # <<>> /\ ~settling
  BY <1>1 DEF Collect, TypeOK, Pointers, InOrder
<1>3. Serving(f) /\ f \in DOMAIN families
  BY <1>2, BatchTail, BatchTyped DEF Serving, ToSet
<1>4. UNCHANGED <<merges, mode, settling>>
  BY DEF Collect, CollectStopped, CollectDry, CollectGreen, CollectUnread, CollectRed, ByCollect
<1>5. Respected
  <2>1. families' = families \/ (\E s : families' = Setting(f, s)) \/ \E s : families' = Void(f, s)
    BY DEF Collect, CollectStopped, CollectDry, CollectGreen, CollectUnread, CollectRed
  <2> QED BY <1>2, <1>3, <2>1, SameRespected, SettingRespected, VoidRespected
<1>6. \/ pc' \in {"drain", "collect", "part"} /\ (batch' = <<>> \/ (batch' = Tail(batch) /\ mode = "dry" /\ pc' # "part"))
      \/ pc' = "land" /\ cur' = f /\ families' = families /\ batch' = batch /\ families[f].future = "done"
         /\ mode # "dry"
  BY DEF Collect, CollectStopped, CollectDry, CollectGreen, CollectUnread, CollectRed, Collected, ByCollect
<1> QED BY <1>1, <1>2, <1>3, <1>4, <1>5, <1>6 DEF Onward, AtHand, Serving, Landing

\* A bisection serves the part at hand, one at a time; a round ends.
LEMMA PartsOnward ==
  ASSUME TypeOK, LandingInv, RoundInv, PartsDone \/ Part \/ PartGated \/ Cancel \/ Join
  PROVE  Onward
<1>1. InOrder /\ Chained /\ NoneLands
  BY PartsQuiet DEF RoundInv, Quiet
<1>2. CASE PartsDone \/ Part
  <2>1. /\ pc = "part" /\ UNCHANGED <<merges, mode, families, batch>> /\ batch = <<>>
        /\ pc' \in {"drain", "part", "plan"}
    BY <1>1, <1>2 DEF PartsDone, Part, lists, InOrder
  <2> QED BY <1>1, <2>1, SameRespected DEF Onward, AtHand, Landing
<1>3. CASE PartGated
  <2>1. /\ pc = "gate" /\ settling /\ batch = <<>> /\ cur \in DOMAIN families
    BY <1>1, <1>3 DEF PartGated, TypeOK, Pointers, InOrder
  <2>2. UNCHANGED <<merges, mode, batch, settling, cur>>
    BY <1>3 DEF PartGated, ByCollect
  <2>3. \/ pc' = "part" /\ (families' = families \/ \E s : families' = Setting(cur, s))
        \/ pc' = "land" /\ families' = families /\ families[cur].future = "done"
    BY <1>3 DEF PartGated
  <2>4. Serving(cur)
    BY <2>1 DEF Serving, AtHand
  <2>5. Respected
    BY <2>3, <2>4, SameRespected, SettingRespected
  <2> QED BY <1>1, <2>1, <2>2, <2>3, <2>4, <2>5 DEF Onward, AtHand, Serving, Landing
<1>4. CASE Cancel
  <2>1. \A f \in DOMAIN families : families[f] \in Family
    BY FamilyTyped DEF TypeOK
  <2> DEFINE cancelled(f) == [families[f] EXCEPT !.future = "cancelled",
                                                 !.status = IF stop THEN "REQUEUED" ELSE @]
  <2>2. /\ DOMAIN families' = DOMAIN families
        /\ \A f \in DOMAIN families : families'[f] = IF families[f].future # "queued" THEN families[f]
                                                     ELSE cancelled(f)
    BY <1>4 DEF Cancel
  <2>3. \A f \in DOMAIN families : cancelled(f).after = families[f].after
    BY <2>1 DEF Family
  <2> HIDE DEF cancelled
  <2>4. Respected
    BY <2>2, <2>3 DEF Respected
  <2> QED BY <1>1, <1>4, <2>4 DEF Cancel, thread, lists, Onward, AtHand, Landing, InOrder
<1>5. CASE Join
  <2>1. /\ pc = "join" /\ UNCHANGED <<merges, mode, families, batch, settling>>
        /\ pc' \in {"round", "snapshot", "done"}
    BY <1>5 DEF Join, Continue
  <2> QED BY <1>1, <2>1, SameRespected DEF Onward, AtHand, Landing, InOrder
<1> QED BY <1>2, <1>3, <1>4, <1>5

\* The outside and a step of nobody change nothing of it.
LEMMA DisturbOnward == ASSUME TypeOK, LandingInv, RoundInv, Disturb \/ Finished \/ UNCHANGED vars PROVE Onward
<1>1. UNCHANGED <<merges, mode, families, batch, settling, pc, cur, at>>
  BY DEF Disturb, Outside, Finished, vars, thread, lists
<1>2. InOrder /\ Chained
  BY DEF RoundInv
<1> QED BY <1>1, <1>2, SameRespected, SameLandsNone DEF Onward, AtHand, Serving, InOrder, Chained

---------------------------------------------------------------------------
(* Landings.                                                               *)

SameMerges ==
  /\ DOMAIN merges' = DOMAIN merges
  /\ \A m \in DOMAIN merges : merges'[m].family = merges[m].family

\* A landing that is left rests with the status it is left with: one that says that
\* members landed, if some did.
LEMMA LeaveRounds ==
  ASSUME TypeOK, RoundInv, pc \in Landing, NEW status, NEW back, Leave(status, back), SameMerges,
         UNCHANGED <<mode, settling>>, status # "LANDED",
         status \in EndStatus \/ (pc # "confirm" /\ at = 1)
  PROVE  RoundInv'
<1>1. InOrder /\ LandedRests /\ MergedEnd /\ Chained
  BY DEF RoundInv
<1>2. cur \in DOMAIN families /\ at \in Nat \ {0} /\ families[cur] \in Family
  BY LandingPointers, LenProperties, BatchTyped DEF TypeOK, ThreadTyped
<1>3. /\ batch' = <<>> /\ pc' \in {"part", "drain"} /\ families' = Setting(cur, status)
      /\ \A f : ~Serving(f)'
  <2>1. batch' = <<>> /\ pc' \in {"part", "drain"} /\ families' = Setting(cur, status)
    BY <1>1 DEF Leave, InOrder
  <2> QED BY <2>1 DEF Serving, AtHand, Landing, ToSet
<1>4. /\ DOMAIN families' = DOMAIN families
      /\ \A f \in DOMAIN families : /\ families'[f].after = families[f].after
                                    /\ families'[f].future = families[f].future
                                    /\ families'[f].status = IF f = cur THEN status ELSE families[f].status
  BY <1>2, <1>3 DEF Setting
<1>5. InOrder'
  BY <1>3 DEF InOrder, Landing
<1>6. LandedRests'
  BY <1>1, <1>3, <1>4 DEF LandedRests, Landed
<1>7. MergedEnd'
  <2> SUFFICES ASSUME NEW m \in DOMAIN merges
               PROVE  LET f == merges[m].family
                      IN /\ f \in DOMAIN families' /\ families'[f].future = "done"
                         /\ families'[f].status \in EndStatus
    BY <1>3 DEF SameMerges, MergedEnd
  <2>1. CASE merges[m].family = cur
    <3>1. Serving(cur)
      BY DEF Serving, AtHand
    <3>2. merges[m].family \in DOMAIN families /\ families[merges[m].family].future = "done"
          /\ (pc = "confirm" \/ at > 1)
      BY <1>1, <2>1, <3>1 DEF MergedEnd
    <3>3. status \in EndStatus
      BY <1>2, <3>2
    <3>4. families'[cur].status = status /\ families'[cur].future = families[cur].future
      BY <1>2, <1>4
    <3> QED BY <1>4, <2>1, <3>2, <3>3, <3>4
  <2>2. CASE merges[m].family # cur
    <3>1. LET f == merges[m].family
          IN /\ f \in DOMAIN families /\ families[f].future = "done"
             /\ families[f].status \in EndStatus
      BY <1>1, <2>2 DEF MergedEnd
    <3> QED BY <1>4, <2>2, <3>1
  <2> QED BY <2>1, <2>2
<1>8. ~Landed(cur)
  BY <1>1, <1>2 DEF LandedRests, Serving, AtHand
<1>9. \A f \in DOMAIN families : Landed(f)' <=> Landed(f)
  BY <1>4, <1>8 DEF Landed
<1>10. \A f \in DOMAIN families : BaseLanded(f)' <=> BaseLanded(f)
  BY <1>1, <1>4, <1>9 DEF BaseLanded, Chained
<1>11. Chained'
  BY <1>1, <1>3, <1>4, <1>9, <1>10 DEF Chained, AtHand, Landing
<1> QED BY <1>5, <1>6, <1>7, <1>11 DEF RoundInv

\* A landing that is left before its merge takes the member at hand along.
LEMMA StopRounds ==
  ASSUME TypeOK, RoundInv, pc \in Landing, pc # "confirm", UNCHANGED <<merges, mode, settling>>,
         ReadFails \/ Withheld \/ Leave(StopStatus("REQUEUED"), Rest) \/ Leave(StopStatus("RETRY"), <<>>)
  PROVE  RoundInv'
<1>1. PICK s, back : s \in {"REQUEUED", "RETRY", "WITHHELD"} /\ Leave(StopStatus(s), back)
  BY DEF ReadFails, Withheld
<1>2. at \in Nat \ {0}
  BY LandingPointers, LenProperties, BatchTyped DEF TypeOK, ThreadTyped
<1>3. StopStatus(s) # "LANDED" /\ (StopStatus(s) \in EndStatus \/ at = 1)
  BY <1>1, <1>2 DEF StopStatus, EndStatus
<1> QED BY <1>1, <1>3, LeaveRounds DEF SameMerges

\* A landing before its merge, whether it goes on or is left.
LEMMA LandingRounds ==
  ASSUME TypeOK, LandingInv, RoundInv, LandCheck \/ Decide \/ Reobserve \/ Push \/ Await
  PROVE  RoundInv'
<1>1. /\ UNCHANGED <<merges, mode, settling, cur, at>> /\ pc \in Landing \ {"confirm", "merge"}
      /\ \/ ReadFails \/ Withheld \/ Leave(StopStatus("REQUEUED"), Rest)
            \/ Leave(StopStatus("RETRY"), <<>>)
         \/ /\ pc' \in {"decide", "push", "recheck", "reread", "await", "merge"}
            /\ UNCHANGED <<families, batch>>
  BY DEF LandCheck, Decide, Reobserve, Push, Await, ByLanding, Landing
<1>2. CASE ReadFails \/ Withheld \/ Leave(StopStatus("REQUEUED"), Rest)
           \/ Leave(StopStatus("RETRY"), <<>>)
  BY <1>1, <1>2, StopRounds
<1>3. CASE pc' \in {"decide", "push", "recheck", "reread", "await", "merge"} /\ UNCHANGED <<families, batch>>
  <2>1. Onward
    BY <1>1, <1>3, SameRespected, SameLandsNone DEF Onward, AtHand, Serving, Landing, RoundInv, InOrder, Chained
  <2> QED BY <2>1, OnwardKeeps
<1> QED BY <1>1, <1>2, <1>3

\* The merge is one of the family at hand.
LEMMA MergeRounds == ASSUME TypeOK, LandingInv, RoundInv, Merge PROVE RoundInv'
<1> DEFINE merge == [pr |-> N, family |-> cur, sha |-> Tip + 1,
                     tree |-> Planned.commit.lanes, identity |-> "unread"]
<1>1. InOrder /\ LandedRests /\ MergedEnd /\ Chained
  BY DEF RoundInv
<1>2. /\ pc = "merge" /\ pc \in Landing /\ UNCHANGED <<mode, settling, cur, at>>
      /\ \/ ReadFails /\ UNCHANGED merges
         \/ merges' = Append(merges, merge) /\ pc' = "confirm" /\ UNCHANGED <<families, batch>>
  BY DEF Merge, ByLanding, Landing
<1>3. CASE ReadFails /\ UNCHANGED merges
  BY <1>2, <1>3, StopRounds
<1>4. CASE merges' = Append(merges, merge) /\ pc' = "confirm" /\ UNCHANGED <<families, batch>>
  <2>1. cur \in DOMAIN families
    BY <1>2, LandingPointers
  <2>2. merges \in Seq(MergeRow) /\ merge \in MergeRow
    BY <1>2, LandingPointers, TipTyped, FamilyTyped DEF MergeRow, Step, Commit, TypeOK, ListsTyped
  <2>3. merge.family = cur
    OBVIOUS
  <2> HIDE DEF merge
  <2>4. \A m \in DOMAIN merges' : merges'[m].family = cur \/ (m \in DOMAIN merges /\ merges'[m] = merges[m])
    BY <1>4, <2>2, <2>3, AppendProperties, LenProperties
  <2>5. \A f : Serving(f)' <=> Serving(f)
    BY <1>2, <1>4 DEF Serving, AtHand, Landing
  <2>6. MergedEnd'
    BY <1>1, <1>2, <1>4, <2>1, <2>4, <2>5 DEF MergedEnd, Landing, InOrder
  <2>7. InOrder' /\ LandedRests' /\ Chained'
    BY <1>1, <1>2, <1>4, <2>5 DEF InOrder, LandedRests, Landed, Chained, Linked, BaseLanded, AtHand, Landing
  <2> QED BY <2>6, <2>7 DEF RoundInv
<1> QED BY <1>2, <1>3, <1>4

\* A member is read back: the next one is at hand, the family has landed, or it is left.
LEMMA ConfirmRounds == ASSUME TypeOK, LandingInv, RoundInv, Confirm PROVE RoundInv'
<1> DEFINE k == Len(merges)
           sha == merges[k].sha
<1>1. InOrder /\ LandedRests /\ MergedEnd /\ Chained
  BY DEF RoundInv
<1>2. /\ pc = "confirm" /\ pc \in Landing /\ UNCHANGED <<mode, settling, cur>>
      /\ merges' = merges \/ \E x : merges' = [merges EXCEPT ![k].identity = x]
      /\ \/ Leave("LANDED_TREE_UNREAD", Tail(Rest)) \/ Leave("TREE_MISMATCH", <<>>)
         \/ at' = at + 1 /\ pc' = "land" /\ UNCHANGED <<families, batch>>
         \/ /\ families' = [families EXCEPT ![cur].status = "LANDED", ![cur].landed = sha]
            /\ batch' = IF settling THEN batch ELSE Tail(batch)
            /\ pc' = IF settling THEN "part" ELSE IF Tail(batch) = <<>> THEN "drain" ELSE "collect"
  BY DEF Confirm, ByLanding, Landing
<1>3. cur \in DOMAIN families /\ at \in Nat \ {0} /\ (~settling => batch # <<>> /\ batch[1] = cur)
  BY <1>2, LandingPointers, LenProperties, BatchTyped DEF TypeOK, ThreadTyped, Pointers
<1>4. SameMerges
  <2>1. k \in DOMAIN merges /\ \A m \in DOMAIN merges : merges[m] \in MergeRow
    BY <1>2, LenProperties, EmptySeq DEF TypeOK, ListsTyped, Pointers
  <2> QED BY <1>2, <2>1 DEF SameMerges, MergeRow
<1>5. CASE Leave("LANDED_TREE_UNREAD", Tail(Rest)) \/ Leave("TREE_MISMATCH", <<>>)
  BY <1>2, <1>4, <1>5, LeaveRounds DEF EndStatus
<1>6. CASE at' = at + 1 /\ pc' = "land" /\ UNCHANGED <<families, batch>>
  <2>1. \A f : Serving(f)' <=> Serving(f)
    BY <1>2, <1>6 DEF Serving, AtHand, Landing
  <2>2. at' > 1
    BY <1>3, <1>6
  <2>3. MergedEnd'
    BY <1>1, <1>2, <1>4, <1>6, <2>1, <2>2 DEF MergedEnd, SameMerges, Landing
  <2>4. InOrder' /\ LandedRests' /\ Chained'
    BY <1>1, <1>2, <1>6, <2>1 DEF InOrder, LandedRests, Landed, Chained, Linked, BaseLanded, AtHand, Landing
  <2> QED BY <2>3, <2>4 DEF RoundInv
<1>7. CASE /\ families' = [families EXCEPT ![cur].status = "LANDED", ![cur].landed = sha]
           /\ batch' = IF settling THEN batch ELSE Tail(batch)
           /\ pc' = IF settling THEN "part" ELSE IF Tail(batch) = <<>> THEN "drain" ELSE "collect"
  <2>1. /\ DOMAIN families' = DOMAIN families
        /\ \A f \in DOMAIN families :
             /\ families'[f].after = families[f].after /\ families'[f].future = families[f].future
             /\ families'[f].status = IF f = cur THEN "LANDED" ELSE families[f].status
    <3>1. families[cur] \in Family
      BY <1>3, BatchTyped
    <3> QED BY <1>3, <1>7, <3>1 DEF Family
  <2>2. /\ settling => batch' = <<>>
        /\ ~settling => batch' = Tail(batch)
        /\ pc' \notin Landing \union {"submit", "gate"} /\ (pc' = "part" => settling)
    BY <1>1, <1>7 DEF InOrder, Landing
  <2>3. /\ \A i, j \in DOMAIN batch' : i < j => batch'[i] < batch'[j]
        /\ ToSet(batch') \subseteq ToSet(batch)
    BY <1>1, <1>3, <2>2, OrderKept
  <2>4. InOrder'
    BY <1>2, <2>2, <2>3 DEF InOrder
  <2>5. \A f : Serving(f)' => Serving(f) /\ f # cur
    <3>1. cur \notin ToSet(batch')
      BY <1>1, <1>3, <2>2, HeadApart DEF ToSet
    <3> QED BY <2>2, <2>3, <3>1 DEF Serving, AtHand
  <2>6. LandedRests'
    BY <1>1, <1>2, <2>1, <2>5 DEF LandedRests, Landed, InOrder
  <2>7. MergedEnd'
    BY <1>1, <1>2, <1>4, <2>1, <2>5 DEF MergedEnd, SameMerges, EndStatus
  <2>8. BaseLanded(cur)
    <3>1. CASE settling
      BY <1>1, <1>2, <3>1 DEF Chained, AtHand, BaseLanded
    <3>2. CASE ~settling
      <4>1. Linked(1) /\ mode # "dry"
        BY <1>1, <1>2, <1>3, <3>2, BatchTail DEF Chained
      <4> QED BY <1>3, <3>2, <4>1 DEF Linked
    <3> QED BY <3>1, <3>2
  <2>9. \A f \in DOMAIN families : BaseLanded(f) => BaseLanded(f)'
    BY <1>1, <2>1 DEF BaseLanded, Landed, Chained
  <2>10. \A f \in DOMAIN families' : Landed(f)' => BaseLanded(f)'
    BY <1>1, <2>1, <2>8, <2>9 DEF Chained, Landed
  <2>11. \A i \in DOMAIN batch' : Linked(i)'
    <3>1. CASE settling
      BY <2>2, <3>1
    <3>2. ASSUME ~settling, NEW i \in DOMAIN batch' PROVE Linked(i)'
      <4>1. /\ i \in Nat \ {0} /\ i + 1 \in DOMAIN batch /\ batch'[i] = batch[i + 1]
            /\ (i # 1 => i - 1 \in DOMAIN batch')
        BY <1>3, <2>2, <3>2, BatchTail, BatchTyped
      <4>2. families[batch[i + 1]].after = batch[i]
        <5>1. Linked(i + 1) /\ i + 1 # 1 /\ (i + 1) - 1 = i
          BY <1>1, <4>1 DEF Chained
        <5> QED BY <5>1 DEF Linked
      <4>3. families'[batch'[i]].after = batch[i]
        BY <2>1, <4>1, <4>2, BatchTyped
      <4>4. CASE i = 1
        <5>1. batch[i] = cur /\ families'[batch'[1]].after = cur
          BY <1>3, <3>2, <4>3, <4>4
        <5>2. families'[cur].status = "LANDED"
          BY <1>3, <2>1
        <5>3. families'[families'[batch'[1]].after].status = "LANDED"
          BY <5>1, <5>2
        <5> QED BY <4>4, <5>3 DEF Linked, BaseLanded, Landed
      <4>5. CASE i # 1
        <5>1. batch'[i - 1] = batch[i]
          <6>1. Tail(batch)[i - 1] = batch[(i - 1) + 1] /\ (i - 1) + 1 = i
            BY <1>3, <2>2, <3>2, <4>1, <4>5, BatchTail
          <6> QED BY <2>2, <3>2, <6>1
        <5> QED BY <4>3, <4>5, <5>1 DEF Linked
      <4> QED BY <4>4, <4>5
    <3> QED BY <3>1, <3>2
  <2>12. Chained'
    BY <1>1, <2>1, <2>2, <2>10, <2>11 DEF Chained, AtHand
  <2> QED BY <2>4, <2>6, <2>7, <2>12 DEF RoundInv
<1> QED BY <1>2, <1>5, <1>6, <1>7

\* Every step of a run keeps its rounds in order.
LEMMA RoundNext == ASSUME TypeOK, LandingInv, RoundInv, [Next]_vars PROVE RoundInv'
<1>1. CASE Onward
  BY <1>1, OnwardKeeps
<1>2. CASE PlanClose \/ Land
  BY <1>2, PlanCloseRounds, LandingRounds, MergeRounds, ConfirmRounds DEF Land
<1>3. Onward \/ PlanClose \/ Land
  BY PlanningOnward, SubmitOnward, CollectOnward, PartsOnward, GateOnward, DisturbOnward DEF Next, Train
<1> QED BY <1>1, <1>2, <1>3

\* The invariant of the rounds.
LEMMA RoundAlways == Spec => []RoundInv
<1>1. Init => RoundInv
  BY DEF Init, RoundInv, InOrder, LandedRests, MergedEnd, Chained, AtHand, Landing
<1>2. TypeOK /\ LandingInv /\ RoundInv /\ [Next]_vars => RoundInv'
  BY RoundNext
<1> QED BY <1>1, <1>2, TrainTypeOK, TrainLandingInv, PTL DEF Spec

\* A family that was gated on top of another one lands only after all of that one has:
\* no speculative verdict is used for a base it was not made for (round).
THEOREM LandsInOrder == Spec => []LandsOnLanded
<1>1. RoundInv => LandsOnLanded
  BY DEF RoundInv, Chained, BaseLanded, LandsOnLanded
<1> QED BY <1>1, RoundAlways, PTL

\* When the run is over, a family it merged members of either landed whole or says that
\* it did not (land_family, _stop_family).
THEOREM MarksPartialLandings == Spec => []PartialLandingMarked
<1>1. RoundInv => PartialLandingMarked
  BY DEF RoundInv, MergedEnd, PartialLandingMarked, EndStatus, Landing
<1> QED BY <1>1, RoundAlways, PTL
=============================================================================
