------------------------------- MODULE Train -------------------------------
(***************************************************************************)
(* One run of the batched train (src/svrf/train.py, class Train): fold a   *)
(* family of pull requests onto the base branch, gate the folded tree once,*)
(* land the family one merge at a time, bisect what is red.                *)
(*                                                                         *)
(* Three kinds of actor share the state: the run's own thread (pc), the    *)
(* pool threads that gate families (the "future" of a family), and the     *)
(* outside world, which commits to the base, pushes to branches, sets hold *)
(* labels and asks the owner to stop.                                      *)
(*                                                                         *)
(* A tree is a set of lanes: <<p, v>> is what version v of the author of   *)
(* pull request p wrote, <<0, k>> is the k-th commit from outside.  The    *)
(* sha of a base-branch commit is its position in main.                    *)
(***************************************************************************)
EXTENDS Integers, Sequences, FiniteSets, SequencesExt, Families

CONSTANTS
  PR,           \* the numbers of the pull requests of the run
  Stackings,    \* how the branches may be stacked: stacking[p] is whose work p's branch holds
  Clash,        \* pairs {p, q} whose changes no union path can merge; 0 is the outside
  Jobs,         \* gate pool threads (jobs)
  FamilySizes,  \* {family_size}, or every size adaptive batching may choose
  MaxRounds,    \* max_rounds
  Modes,        \* the configurations of a run: "plain", "dry" (dry_run), "decided" (landing_decision)
  Budget        \* for each, how often the disturbances of Slip may happen in a run, one choice of several

Slip == {"fail",      \* a read or a write fails before its effect
         "ack",       \* a merge takes effect and its answer is lost
         "outside",   \* a commit reaches the base branch from outside
         "push",      \* an author pushes to an open pull request
         "label",     \* somebody sets the hold label
         "stop"}      \* the owner retires (stop_requested)

ASSUME PRAssumption == IsFiniteSet(PR) /\ PR \subseteq Nat \ {0}
ASSUME StackingsAssumption == Stackings \subseteq [PR -> SUBSET PR]
ASSUME SizesAssumption == Jobs \in Nat \ {0} /\ FamilySizes \subseteq Nat \ {0} /\ MaxRounds \in Nat
ASSUME BudgetAssumption == Budget \in [Modes -> SUBSET [Slip -> Nat]]
ASSUME ModesAssumption == Modes \subseteq {"plain", "dry", "decided"}

VARIABLES
  \* the remote: the base branch, the pull requests, the disturbances left
  main, pulls, left, stop,
  \* the run's thread
  mode, pc, rows, queue, rounds, fold, stack, requeue, later, batch, cur, at,
  expected, settling, tries, stopped,
  \* the receipt
  families, gates, red, merges, held, retry, pending, out, alerts

world   == <<main, pulls, left, stop>>
thread  == <<queue, rounds, fold, stack, requeue, later, batch, cur, at, expected,
             settling, tries>>
lists   == <<merges, held, retry, pending, out, alerts>>
vars    == <<world, thread, lists, mode, pc, rows, stopped, families, gates, red>>

---------------------------------------------------------------------------
(* Trees, commits and the merge step.                                      *)

Lane   == (PR \union {0}) \X Nat
Tree   == SUBSET Lane
\* A commit holds a tree and contains the base branch up to a position.
Commit == [lanes : Tree, base : Nat]
Listings(n) == UNION {[1..k -> PR] : k \in 0..n}
Queues == Listings(Cardinality(PR))

NoCommit == [lanes |-> {}, base |-> 0]
BaseCommit(sha) == [lanes |-> main[sha].tree, base |-> sha]
Tip == Len(main)

IsAncestor(a, b) == a.lanes \subseteq b.lanes /\ a.base <= b.base

\* git merge-tree finds a path both sides changed that no union merge resolves.
Conflicting(a, b) ==
  \E x \in a.lanes \ b.lanes, y \in b.lanes \ a.lanes : {x[1], y[1]} \in Clash

Larger(i, j) == IF i >= j THEN i ELSE j

\* union_step on a clean pair: the head when it holds acc, acc when it holds
\* the head, otherwise a merge commit of the two.
Joined(acc, head) ==
  IF IsAncestor(acc, head) THEN head
  ELSE IF IsAncestor(head, acc) THEN acc
  ELSE [lanes |-> acc.lanes \union head.lanes, base |-> Larger(acc.base, head.base)]

MergeConflicts(acc, head) ==
  ~IsAncestor(acc, head) /\ ~IsAncestor(head, acc) /\ Conflicting(acc, head)

---------------------------------------------------------------------------
(* Families and gate rows.                                                 *)

NoResult == [verdict |-> "none", tree |-> {}, reused |-> 0]

\* settled: gated by the bisection on the run's own thread, not by the pool.
\* after: the family of the same round it is stacked on, 0 for the first.
NewFamily(steps, base, after, settled) ==
  [steps |-> steps, base |-> base, after |-> after, settled |-> settled,
   status |-> "PLANNED", gate |-> 0, future |-> "none", result |-> NoResult,
   landed |-> 0]

FamilyTree(f) == families[f].steps[Len(families[f].steps)].commit.lanes
Numbers(steps) == [i \in DOMAIN steps |-> steps[i].pr]
Members(f) == Numbers(families[f].steps)

From(q, i) == SubSeq(q, i, Len(q))
Upto(q, i) == SubSeq(q, 1, IF i <= Len(q) THEN i ELSE Len(q))

\* red_trees: the first gate index recorded for a tree that was gated red.
ForgottenRed(tree) == {}                      \* mutant: nothing is remembered
KnownRed(tree) == {r \in red : r.tree = tree}

\* The index of the row about to be added, read before it is added.
NextRowLast == IF gates = <<>> THEN 1 ELSE Len(gates)   \* mutant: the last row, not the next one
NextRow == Len(gates) + 1

Setting(f, status) == [families EXCEPT ![f].status = status]
Slips(e) == left[e] > 0 /\ left' = [left EXCEPT ![e] = @ - 1]

---------------------------------------------------------------------------
(* The run: snapshot, pairs, rounds.                                       *)

Init ==
  /\ main = << [tree |-> {}, by |-> 0] >>
  /\ \E stacking \in Stackings :
       pulls = [p \in PR |-> [open |-> TRUE, label |-> FALSE,
                              head |-> [lanes |-> stacking[p] \X {0}, base |-> 1]]]
  /\ mode \in Modes /\ pc = "snapshot"
  /\ left \in Budget[mode] /\ stop = FALSE
  /\ rows = [p \in PR |-> NoCommit]
  /\ queue \in {q \in Queues : Len(q) = Cardinality(PR) /\ ToSet(q) = PR}
  /\ rounds = 0 /\ stopped = FALSE
  /\ fold = [base |-> 1, acc |-> NoCommit, steps |-> <<>>, todo |-> <<>>, rest |-> <<>>, size |-> 1]
  /\ stack = <<>> /\ requeue = <<>> /\ later = <<>> /\ batch = <<>>
  /\ cur = 0 /\ at = 1 /\ expected = 1 /\ settling = FALSE /\ tries = 0
  /\ families = <<>> /\ gates = <<>> /\ red = {} /\ merges = <<>>
  /\ held = {} /\ retry = {} /\ pending = {} /\ out = {} /\ alerts = {}

\* The head of run's while loop, with q to be served next: one more round, or
\* the end of the run, which leaves q pending.
Continue(q) ==
  IF q # <<>> /\ ~stopped /\ ~stop /\ rounds < MaxRounds /\ ~(mode = "dry" /\ rounds > 0)
  THEN /\ queue' = q
       /\ rounds' = rounds + 1
       /\ pc' = IF rounds = 0 THEN "round" ELSE "snapshot"
       /\ UNCHANGED pending
  ELSE /\ pending' = pending \union ToSet(q)
       /\ pc' = "done"
       /\ UNCHANGED <<queue, rounds>>

\* A ReadFailed that reaches run itself: the pending list is not updated.
RunUnread ==
  /\ Slips("fail")
  /\ alerts' = alerts \union {"RUN_UNREAD"}
  /\ pc' = "done"
  /\ UNCHANGED <<main, pulls, stop, thread, merges, held, retry, pending, out, mode, rows,
                 stopped, families, gates, red>>

\* The owner is asked to stop before the first read.
StopEarly ==
  /\ pc = "snapshot" /\ rounds = 0 /\ stop
  /\ pending' = ToSet(queue) /\ pc' = "done"
  /\ UNCHANGED <<world, thread, merges, held, retry, out, alerts, mode, rows, stopped,
                 families, gates, red>>

\* What is left of the queue when those that are closed by now are taken out of it.
StillOpen(present) ==
  \E kept \in [DOMAIN present -> DOMAIN queue] :
    /\ \A i, j \in DOMAIN present : i < j => kept[i] < kept[j]
    /\ {kept[i] : i \in DOMAIN present} = {k \in DOMAIN queue : pulls[queue[k]].open}
    /\ \A i \in DOMAIN present : present[i] = queue[kept[i]]

Snapshot ==
  /\ pc = "snapshot" /\ ~(rounds = 0 /\ stop)
  /\ \/ /\ \E present \in Listings(Len(queue)) :
             /\ StillOpen(present)
             /\ queue' = present
             /\ rows' = [n \in PR |-> IF n \in ToSet(present) THEN pulls[n].head ELSE rows[n]]
             /\ retry' = retry \union (ToSet(queue) \ ToSet(present))
        /\ pc' = IF rounds = 0 THEN "pairs" ELSE "round"
        /\ UNCHANGED <<world, rounds, fold, stack, requeue, later, batch, cur, at, expected,
                       settling, tries, merges, held, pending, out, alerts, mode, stopped,
                       families, gates, red>>
     \/ RunUnread

IsSortedListing(line, S) ==
  /\ ToSet(line) = S
  /\ \A i, j \in DOMAIN line : i < j => line[i] < line[j]

\* choose_families over these edges: the rest of the queue is out of this run.
Choose(edges) ==
  \E chosen \in SUBSET PR : \E line \in Queues :
    /\ IsMaximumFamily(chosen, ToSet(queue), edges)
    /\ IsSortedListing(line, chosen)
    /\ out' = ToSet(queue) \ chosen
    /\ Continue(line)

\* The pairs of heads whose work is not on the base yet, and those that clash.
LivePairs ==
  LET live == {n \in ToSet(queue) : ~IsAncestor(rows[n], BaseCommit(Tip))}
  IN {{a, b} : a, b \in live} \ {{a} : a \in live}

ClashingPairs == {e \in LivePairs : \E a, b \in e : MergeConflicts(rows[a], rows[b])}

\* The pairwise read.  A pair that cannot be read separates the two; when the
\* read fails as a whole (PAIRS_UNREAD) nothing separates anything.
Pairs ==
  /\ pc = "pairs"
  /\ \/ Choose(ClashingPairs) /\ UNCHANGED <<left, alerts>>
     \/ \E e \in LivePairs \ ClashingPairs :
          Slips("fail") /\ Choose(ClashingPairs \union {e}) /\ UNCHANGED alerts
     \/ Slips("fail") /\ Choose({}) /\ alerts' = alerts \union {"PAIRS_UNREAD"}
  /\ UNCHANGED <<main, pulls, stop, fold, stack, requeue, later, batch, cur, at, expected,
                 settling, tries, merges, held, retry, mode, rows, stopped, families, gates, red>>

\* Start of a round: read the base and plan the first chunk of the queue on it.
Round ==
  /\ pc = "round"
  /\ \/ /\ stop
        /\ pending' = pending \union ToSet(queue) /\ pc' = "done"
        /\ UNCHANGED <<world, thread, merges, held, retry, out, alerts, mode, rows, stopped,
                       families, gates, red>>
     \/ /\ ~stop
        /\ \E size \in FamilySizes :
             fold' = [base |-> Tip, acc |-> BaseCommit(Tip), steps |-> <<>>,
                      todo |-> Upto(queue, size), rest |-> From(queue, size + 1), size |-> size]
        /\ requeue' = <<>> /\ later' = <<>> /\ batch' = <<>> /\ stack' = <<>>
        /\ expected' = Tip /\ settling' = FALSE /\ pc' = "plan"
        /\ UNCHANGED <<world, queue, rounds, cur, at, tries, lists, mode, rows, stopped,
                       families, gates, red>>
     \/ ~stop /\ RunUnread

---------------------------------------------------------------------------
(* Planning: one merge step for each pull request of the part.             *)

Untouched == <<main, pulls, stop, queue, rounds, requeue, stack, cur, at, expected, settling,
               tries, merges, pending, out, alerts, mode, rows, stopped, gates, red>>

PlanStep ==
  /\ pc = "plan" /\ fold.todo # <<>>
  /\ LET n == Head(fold.todo)
         joined == Joined(fold.acc, rows[n])
         conflict == MergeConflicts(fold.acc, rows[n])
         skipped == [fold EXCEPT !.todo = Tail(@)]
     IN \/ /\ conflict
           /\ held' = held \union {[pr |-> n, reason |-> "CONFLICT", head |-> rows[n].lanes,
                                    tree |-> fold.acc.lanes]}
           /\ fold' = skipped /\ UNCHANGED <<left, retry>>
        \/ /\ Slips("fail")
           /\ retry' = retry \union {n}
           /\ fold' = skipped /\ UNCHANGED held
        \/ /\ ~conflict /\ joined = fold.acc          \* ALREADY_MERGED
           /\ retry' = retry \union {n}
           /\ fold' = skipped /\ UNCHANGED <<left, held>>
        \/ /\ ~conflict /\ joined # fold.acc
           /\ fold' = [skipped EXCEPT !.acc = joined, !.steps = Append(@, [pr |-> n, commit |-> joined])]
           /\ UNCHANGED <<left, retry, held>>
  /\ UNCHANGED <<Untouched, pc, families, batch, later>>

\* A bisection gates the part, a round plans its next chunk before it gates any.
AfterFold(none) ==
  IF settling THEN (IF none THEN "part" ELSE "submit")
  ELSE IF fold.rest # <<>> THEN "plan"
  ELSE IF batch' = <<>> THEN "drain" ELSE "submit"

\* The part is folded: what is left of it is a family.  A round goes on with
\* the next chunk, on top of this fold; a part of a bisection is gated next.
PlanClose ==
  /\ pc = "plan" /\ fold.todo = <<>>
  /\ LET none == fold.steps = <<>>
         next == Len(families) + 1
         after == IF settling \/ batch = <<>> THEN 0 ELSE batch[Len(batch)]
     IN /\ families' = IF none THEN families
                       ELSE Append(families, NewFamily(fold.steps, fold.base, after, settling))
        /\ batch' = IF none \/ settling THEN batch ELSE Append(batch, next)
        /\ later' = IF none \/ settling THEN later ELSE later \o Numbers(fold.steps)
        /\ cur' = IF settling /\ ~none THEN next ELSE cur
        /\ fold' = [fold EXCEPT !.steps = <<>>, !.todo = Upto(fold.rest, fold.size),
                                !.rest = From(@, fold.size + 1)]
        /\ pc' = AfterFold(none)
  /\ UNCHANGED <<main, pulls, left, stop, queue, rounds, requeue, stack, at, expected,
                 settling, tries, lists, mode, rows, stopped, gates, red>>

\* Hand the planned families to the gate, or give them back when asked to stop.
Submit ==
  LET planned == IF settling THEN {cur} ELSE ToSet(batch)
  IN /\ pc = "submit"
     /\ IF stop
        THEN /\ requeue' = requeue \o (IF settling THEN Members(cur) ELSE later)
             /\ batch' = IF settling THEN batch ELSE <<>>
             /\ later' = IF settling THEN later ELSE <<>>
             /\ pc' = IF settling THEN "part" ELSE "drain"
             /\ UNCHANGED families
        ELSE /\ families' = [f \in DOMAIN families |->
                               IF f \in planned THEN [families[f] EXCEPT !.future = "queued"]
                               ELSE families[f]]
             /\ pc' = IF settling THEN "gate" ELSE "collect"
             /\ UNCHANGED <<requeue, batch, later>>
     /\ UNCHANGED <<world, queue, rounds, fold, stack, cur, at, expected, settling, tries,
                    lists, mode, rows, stopped, gates, red>>

---------------------------------------------------------------------------
(* Gates: gate_family, on a pool thread or on the run's own.               *)

ByGate == <<main, pulls, stop, thread, lists, mode, pc, rows, stopped>>

InPool(f) == ~families[f].settled
Busy(f) == families[f].future \in {"running", "recording"}
\* The pool starts what was submitted first, while one of its threads is free.
Startable(f) ==
  /\ families[f].future = "queued"
  /\ InPool(f) => /\ \A g \in 1..(f - 1) : InPool(g) => families[g].future # "queued"
                  /\ Cardinality({g \in DOMAIN families : InPool(g) /\ Busy(g)}) < Jobs

\* read_family samples the stop request before it takes the family up.
GateCancelled(f) ==
  /\ Startable(f) /\ InPool(f) /\ stop
  /\ families' = [families EXCEPT ![f].future = "cancelled", ![f].status = "REQUEUED"]
  /\ UNCHANGED <<ByGate, left, gates, red>>

\* A tree known red is not gated again: the row of the first red gate is copied.
\* The copy's index is the length of the list of rows, read before it is added.
GateReused(f) ==
  /\ Startable(f) /\ ~(InPool(f) /\ stop)
  /\ \E known \in KnownRed(FamilyTree(f)) :
       /\ known.gate \in DOMAIN gates
       /\ families' = [families EXCEPT
            ![f].future = "recording", ![f].status = "RED", ![f].gate = NextRow,
            ![f].result = [verdict |-> gates[known.gate].verdict,
                           tree |-> gates[known.gate].tree, reused |-> known.gate]]
  /\ UNCHANGED <<ByGate, left, gates, red>>

GateStart(f) ==
  /\ Startable(f) /\ ~stop
  /\ KnownRed(FamilyTree(f)) = {}
  /\ families' = [families EXCEPT ![f].future = "running"]
  /\ UNCHANGED <<ByGate, left, gates, red>>

\* check_stop: a gate of a bisection that the stop request overtook is not run.
GatePostponed(f) ==
  /\ Startable(f) /\ ~InPool(f) /\ stop
  /\ KnownRed(FamilyTree(f)) = {}
  /\ families' = [families EXCEPT
       ![f].future = "recording", ![f].status = "GATE_RETRY", ![f].gate = NextRow,
       ![f].result = [verdict |-> "unread", tree |-> FamilyTree(f), reused |-> 0]]
  /\ UNCHANGED <<ByGate, left, gates, red>>

GateStatus(verdict) ==
  CASE verdict = "green" -> "GREEN" [] verdict = "red" -> "RED" [] OTHER -> "GATE_RETRY"

\* The verdict is known: under the lock the family takes the next row's index
\* and a red tree is remembered with it.  The lock is released before the row
\* is added (GateRecord).
GateFinish(f) ==
  /\ families[f].future = "running"
  /\ \E verdict \in {"green", "red", "unread"} :
       /\ IF verdict = "unread" /\ ~stop THEN Slips("fail") ELSE UNCHANGED left
       /\ families' = [families EXCEPT
            ![f].future = "recording", ![f].status = GateStatus(verdict),
            ![f].gate = NextRow,
            ![f].result = [verdict |-> verdict, tree |-> FamilyTree(f), reused |-> 0]]
       /\ red' = IF verdict = "red" /\ KnownRed(FamilyTree(f)) = {}
                 THEN red \union {[tree |-> FamilyTree(f), gate |-> NextRow]} ELSE red
  /\ UNCHANGED <<ByGate, gates>>

GateRecord(f) ==
  /\ families[f].future = "recording"
  /\ gates' = Append(gates, [family |-> f, tree |-> families[f].result.tree,
                             verdict |-> families[f].result.verdict,
                             reused |-> families[f].result.reused])
  /\ families' = [families EXCEPT ![f].future = "done"]
  /\ UNCHANGED <<ByGate, left, red>>

Gate(f) ==
  \/ GateCancelled(f) \/ GateReused(f) \/ GateStart(f) \/ GatePostponed(f)
  \/ GateFinish(f) \/ GateRecord(f)

---------------------------------------------------------------------------
(* Consuming the gate results of a round, in order.                        *)

ByCollect == <<main, pulls, left, stop, queue, rounds, fold, expected, tries, merges, out,
               alerts, mode, rows, stopped, gates, red>>

\* What is planned after the family the run is at.
Behind == From(later, Len(families[batch[1]].steps) + 1)

\* Families stacked above a family that is not green.
Void(f, status) ==
  [g \in DOMAIN families |->
     IF g = f THEN [families[g] EXCEPT !.status = status]
     ELSE IF g \in ToSet(Tail(batch)) THEN [families[g] EXCEPT !.status = "SPECULATION_VOID"]
     ELSE families[g]]

Collected(f) == pc = "collect" /\ f = batch[1] /\ families[f].future \in {"done", "cancelled"}

\* The family was never gated: it and all behind it go back to the queue.
CollectStopped(f) ==
  /\ Collected(f) /\ families[f].future = "cancelled"
  /\ families' = Setting(f, "REQUEUED")
  /\ requeue' = requeue \o later
  /\ batch' = <<>> /\ later' = <<>> /\ pc' = "drain"
  /\ UNCHANGED <<ByCollect, stack, cur, at, settling, held, retry, pending>>

\* A dry run only notes the verdict.
CollectDry(f) ==
  /\ Collected(f) /\ families[f].future = "done" /\ mode = "dry"
  /\ families' = Setting(f, IF families[f].result.verdict = "green" THEN "GATED_DRY" ELSE "RED_DRY")
  /\ batch' = Tail(batch) /\ later' = Behind
  /\ pc' = IF Tail(batch) = <<>> THEN "drain" ELSE "collect"
  /\ UNCHANGED <<ByCollect, stack, requeue, cur, at, settling, held, retry, pending>>

CollectGreen(f) ==
  /\ Collected(f) /\ families[f].future = "done" /\ mode # "dry"
  /\ families[f].result.verdict = "green"
  /\ cur' = f /\ at' = 1 /\ pc' = "land"
  /\ UNCHANGED <<ByCollect, families, batch, later, stack, requeue, settling, held, retry, pending>>

CollectUnread(f) ==
  /\ Collected(f) /\ families[f].future = "done" /\ mode # "dry"
  /\ families[f].result.verdict = "unread"
  /\ families' = Void(f, families[f].status)
  /\ retry' = retry \union ToSet(Members(f))
  /\ pending' = pending \union ToSet(Members(f))
  /\ requeue' = requeue \o Behind
  /\ batch' = <<>> /\ later' = <<>> /\ pc' = "drain"
  /\ UNCHANGED <<ByCollect, stack, cur, at, settling, held>>

\* settle_red: a single pull request is held with the red gate's evidence, a
\* larger family is split in halves or at the one member its failing lines name.
SplitsOverlapping(q) ==                       \* mutant: the halves share a member
  {<<SubSeq(q, 1, Len(q) \div 2), From(q, Len(q) \div 2)>>}
Splits(q) ==
  LET half == Len(q) \div 2
  IN {<<SubSeq(q, 1, half), From(q, half + 1)>>}
     \union {<<SubSeq(q, 1, i - 1) \o From(q, i + 1), <<q[i]>> >> : i \in DOMAIN q}

AloneOrPair(f) == Len(Members(f)) <= 2        \* mutant: a pair is blamed on its first
Alone(f) == Len(Members(f)) = 1

SettleRed(f) ==
  IF Alone(f)
  THEN /\ held' = held \union {[pr |-> Members(f)[1], reason |-> "GATE_RED",
                                head |-> rows[Members(f)[1]].lanes, tree |-> FamilyTree(f)]}
       /\ UNCHANGED <<stack, requeue>>
  ELSE IF stop
  THEN requeue' = requeue \o Members(f) /\ UNCHANGED <<stack, held>>
  ELSE /\ \E halves \in Splits(Members(f)) : stack' = halves \o stack
       /\ UNCHANGED <<requeue, held>>

RedStatus(f) == IF Alone(f) THEN "HELD" ELSE "BISECTED"

CollectRedGoesOn(f) ==                        \* mutant: the next family is landed all the same
  /\ Collected(f) /\ families[f].future = "done" /\ mode # "dry"
  /\ families[f].result.verdict = "red"
  /\ families' = Setting(f, RedStatus(f))
  /\ SettleRed(f)
  /\ batch' = Tail(batch) /\ later' = Behind
  /\ pc' = IF Tail(batch) = <<>> THEN "drain" ELSE "collect"
  /\ UNCHANGED <<ByCollect, cur, at, settling, retry, pending>>

CollectRed(f) ==
  /\ Collected(f) /\ families[f].future = "done" /\ mode # "dry"
  /\ families[f].result.verdict = "red"
  /\ families' = Void(f, RedStatus(f))
  /\ SettleRed(f)
  /\ batch' = <<>> /\ later' = Behind /\ pc' = "part"
  /\ UNCHANGED <<ByCollect, cur, at, settling, retry, pending>>

Collect ==
  pc = "collect" /\ \E f \in {batch[1]} :
    CollectStopped(f) \/ CollectDry(f) \/ CollectGreen(f) \/ CollectUnread(f) \/ CollectRed(f)

---------------------------------------------------------------------------
(* Bisection: the parts of a red family, one after the other.              *)

PartsDone ==
  /\ pc = "part" /\ stack = <<>>
  /\ requeue' = requeue \o later /\ later' = <<>>
  /\ settling' = FALSE /\ pc' = "drain"
  /\ UNCHANGED <<world, queue, rounds, fold, stack, batch, cur, at, expected, tries, lists,
                 mode, rows, stopped, families, gates, red>>

\* Asked before every part.
OnAfterMismatch == ~stop                      \* mutant: self.stopped is not asked
MayGoOn == ~stopped /\ ~stop

Part ==
  /\ pc = "part" /\ stack # <<>>
  /\ stack' = Tail(stack)
  /\ \/ /\ IF MayGoOn THEN Slips("fail") ELSE UNCHANGED left   \* BASE_UNREAD
        /\ requeue' = requeue \o Head(stack)
        /\ UNCHANGED <<fold, expected, settling, pc>>
     \/ /\ MayGoOn
        /\ fold' = [base |-> Tip, acc |-> BaseCommit(Tip), steps |-> <<>>, todo |-> Head(stack),
                    rest |-> <<>>, size |-> 1]
        /\ expected' = Tip /\ settling' = TRUE /\ pc' = "plan"
        /\ UNCHANGED <<requeue, left>>
  /\ UNCHANGED <<main, pulls, stop, queue, rounds, later, batch, cur, at, tries, lists, mode,
                 rows, stopped, families, gates, red>>

\* The verdict of a part.
PartGated ==
  /\ pc = "gate" /\ families[cur].future = "done"
  /\ \/ /\ families[cur].result.verdict = "unread"
        /\ retry' = retry \union ToSet(Members(cur)) /\ pc' = "part"
        /\ UNCHANGED <<families, at, held, stack, requeue>>
     \/ /\ families[cur].result.verdict = "green"
        /\ at' = 1 /\ pc' = "land"
        /\ UNCHANGED <<families, retry, held, stack, requeue>>
     \/ /\ families[cur].result.verdict = "red"
        /\ families' = Setting(cur, RedStatus(cur))
        /\ SettleRed(cur) /\ pc' = "part"
        /\ UNCHANGED <<retry, at>>
  /\ UNCHANGED <<ByCollect, settling, later, batch, cur, pending>>

---------------------------------------------------------------------------
(* Landing: land_family, one pull request after the other.                 *)

ByLanding == <<mode, queue, rounds, fold, stack, cur, settling, gates, red, held, out>>

Planned == families[cur].steps[at]
N == Planned.pr
Rest == From(Members(cur), at)
Prepared == Joined(BaseCommit(expected), rows[N])

\* _stop_family: once a member landed the family is an ungated prefix.
StopStatusPlain(status) == status             \* mutant: the landed prefix goes unsaid
StopStatus(status) == IF at > 1 THEN "PREFIX_LANDED_UNGATED" ELSE status

\* land_family returns (False, back): the caller requeues back and, in a round,
\* everything planned behind this family.
ReturnedBehind(back) == requeue \o (IF settling THEN <<>> ELSE Behind)   \* mutant: back is lost
Returned(back) == IF settling THEN requeue \o back ELSE requeue \o back \o Behind

Leave(status, back) ==
  /\ families' = Setting(cur, status)
  /\ requeue' = Returned(back)
  /\ IF settling THEN pc' = "part" /\ UNCHANGED <<batch, later>>
     ELSE pc' = "drain" /\ batch' = <<>> /\ later' = <<>>

\* A failed read or write: never a hold, the pull request is retried later.
ReadFails ==
  /\ retry' = retry \union {N}
  /\ Leave(StopStatus("RETRY"), Rest)

\* The hold label is read on the pull request: it alone is left behind.
Withheld ==
  /\ retry' = retry \union {N}
  /\ Leave(StopStatus("WITHHELD"), Tail(Rest))

\* Read the base and the pull request again and repeat the merge step on them.
LandCheck ==
  LET same == Tip = expected
      labelled == pulls[N].label
      headMoved == pulls[N].head # rows[N]
      diverged == \/ MergeConflicts(BaseCommit(expected), rows[N])
                  \/ Prepared.lanes # Planned.commit.lanes
  IN /\ pc = "land"
     /\ \/ /\ ~same \/ (~labelled /\ (headMoved \/ diverged))
           /\ Leave(StopStatus("REQUEUED"), Rest)
           /\ UNCHANGED <<retry, left, tries>>
        \/ /\ same /\ labelled /\ Withheld /\ UNCHANGED <<left, tries>>
        \/ /\ same /\ ~labelled /\ ~headMoved /\ Slips("fail")   \* the union step FAILED
           /\ Leave(StopStatus("REQUEUED"), Rest) /\ UNCHANGED <<retry, tries>>
        \/ Slips("fail") /\ ReadFails /\ UNCHANGED tries
        \/ /\ same /\ ~labelled /\ ~headMoved /\ ~diverged
           /\ pc' = IF mode = "decided" THEN "decide" ELSE "push"
           /\ tries' = 0
           /\ UNCHANGED <<families, requeue, batch, later, retry, left>>
     /\ UNCHANGED <<ByLanding, main, pulls, stop, at, expected, rows, merges, pending, alerts,
                    stopped>>

\* One refusal before effects is answered by one more decision.
EveryTry == TRUE                              \* mutant: refusals are not counted
FirstTry == tries = 0

\* The decision's source: the row at the family's gate index, which must be green.
GateRead == families[cur].gate \in DOMAIN gates /\ gates[families[cur].gate].verdict = "green"

\* The configured receiver decides on the family's recorded gate row.  A refusal
\* before effects allows one more decision, after another look at the remote.
Decide ==
  /\ pc = "decide"
  /\ \/ stop /\ ReadFails /\ UNCHANGED <<tries, pending>>
     \/ /\ ~stop
        /\ GateRead
        /\ \/ pc' = "recheck" /\ UNCHANGED tries
           \/ FirstTry /\ pc' = "reread" /\ tries' = 1
        /\ UNCHANGED <<families, requeue, batch, later, retry, pending>>
     \/ /\ ~stop                               \* deferred, unobserved or refused again
        /\ retry' = retry \union {N}
        /\ pending' = pending \union ToSet(Rest)
        /\ Leave(StopStatus("RETRY"), <<>>) /\ UNCHANGED tries
  /\ UNCHANGED <<ByLanding, world, at, expected, rows, merges, alerts, stopped>>

\* The same publication is observed again, before a second decision or before
\* the first effect.
Reobserve ==
  LET changed == stop \/ Tip # expected \/ ~pulls[N].open
  IN /\ pc \in {"reread", "recheck"}
     /\ \/ (changed \/ (~pulls[N].label /\ pulls[N].head # rows[N])) /\ ReadFails /\ UNCHANGED left
        \/ Slips("fail") /\ ReadFails
        \/ ~changed /\ pulls[N].label /\ Withheld /\ UNCHANGED left
        \/ /\ ~changed /\ ~pulls[N].label /\ pulls[N].head = rows[N]
           /\ pc' = IF pc = "reread" THEN "decide" ELSE "push"
           /\ UNCHANGED <<families, requeue, batch, later, retry, left>>
     /\ UNCHANGED <<ByLanding, main, pulls, stop, at, expected, tries, rows, merges, pending,
                    alerts, stopped>>

\* Push the prepared commit to the branch, never forced: the remote refuses it
\* when the branch holds what the prepared commit does not.
Push ==
  LET needless == Prepared = rows[N]
      refused == ~needless /\ ~IsAncestor(pulls[N].head, Prepared)
  IN /\ pc = "push"
     /\ \/ /\ ~refused
           /\ pulls' = IF needless THEN pulls ELSE [pulls EXCEPT ![N].head = Prepared]
           /\ pc' = "await"
           /\ UNCHANGED <<families, requeue, batch, later, retry, left>>
        \/ refused /\ ReadFails /\ UNCHANGED <<pulls, left>>
        \/ Slips("fail") /\ ~needless /\ ReadFails /\ UNCHANGED pulls
     /\ UNCHANGED <<ByLanding, main, stop, at, expected, tries, rows, merges, pending, alerts,
                    stopped>>

\* GitHub never reads the pushed head as mergeable: it conflicts with the base, or the
\* branch holds another head by now and the wait times out (MERGEABILITY_UNREAD).
Unmergeable == pulls[N].head # Prepared \/ MergeConflicts(BaseCommit(Tip), Prepared)

Await ==
  /\ pc = "await"
  /\ \/ Unmergeable /\ ReadFails /\ UNCHANGED left
     \/ Slips("fail") /\ ReadFails
     \/ ~Unmergeable /\ pulls[N].label /\ Withheld /\ UNCHANGED left
     \/ /\ ~Unmergeable /\ ~pulls[N].label /\ pc' = "merge"
        /\ UNCHANGED <<families, requeue, batch, later, retry, left>>
  /\ UNCHANGED <<ByLanding, main, pulls, stop, at, expected, tries, rows, merges, pending,
                 alerts, stopped>>

\* GitHub merges into whatever the base is now; it refuses a head that is not
\* the pinned sha.  An answer that is lost is a failed read like any other.
GitHubAcceptsAny(n, sha) ==                   \* mutant: the merge does not pin its sha
  pulls[n].open /\ ~MergeConflicts(BaseCommit(Tip), pulls[n].head)
GitHubAccepts(n, sha) ==
  pulls[n].open /\ pulls[n].head = sha /\ ~MergeConflicts(BaseCommit(Tip), sha)

Merge ==
  /\ pc = "merge"
  /\ \/ /\ GitHubAccepts(N, Prepared)
        /\ main' = Append(main, [tree |-> main[Tip].tree \union pulls[N].head.lanes, by |-> N])
        /\ pulls' = [pulls EXCEPT ![N].open = FALSE]
        /\ \/ /\ rows' = [rows EXCEPT ![N] = Prepared]
              /\ merges' = Append(merges, [pr |-> N, family |-> cur, sha |-> Tip + 1,
                                           tree |-> Planned.commit.lanes, identity |-> "unread"])
              /\ pc' = "confirm"
              /\ UNCHANGED <<families, requeue, batch, later, retry, left>>
           \/ Slips("ack") /\ ReadFails /\ UNCHANGED <<rows, merges>>
     \/ /\ IF GitHubAccepts(N, Prepared) THEN Slips("fail") ELSE UNCHANGED left
        /\ ReadFails /\ UNCHANGED <<main, pulls, rows, merges>>
  /\ UNCHANGED <<ByLanding, stop, at, expected, tries, pending, alerts, stopped>>

IdenticalUnread(merge) == TRUE                \* mutant: the trees are not compared
Identical(merge) == main[merge.sha].tree = merge.tree

\* Read the merged tree back.  Equal: the next member, or the family landed.
\* Different: alert and stop.  Unreadable: never a mismatch.
Confirm ==
  LET last == merges[Len(merges)]
      Note(identity) == merges' = [merges EXCEPT ![Len(merges)].identity = identity]
  IN /\ pc = "confirm"
     /\ \/ /\ Slips("fail")
           /\ retry' = retry \union {N}
           /\ Leave("LANDED_TREE_UNREAD", Tail(Rest))
           /\ UNCHANGED <<merges, stopped, alerts, at, expected>>
        \/ /\ ~Identical(last)
           /\ Note("differs") /\ stopped' = TRUE /\ alerts' = alerts \union {"TREE_MISMATCH"}
           /\ Leave("TREE_MISMATCH", <<>>)
           /\ UNCHANGED <<retry, left, at, expected>>
        \/ /\ Identical(last)
           /\ Note("same") /\ expected' = last.sha
           /\ \/ UNCHANGED <<retry, left>>
              \/ Slips("fail") /\ retry' = retry \union {N}        \* the comment was not posted
           /\ IF at < Len(families[cur].steps)
              THEN at' = at + 1 /\ pc' = "land" /\ UNCHANGED <<families, batch, later>>
              ELSE /\ families' = [families EXCEPT ![cur].status = "LANDED", ![cur].landed = last.sha]
                   /\ batch' = IF settling THEN batch ELSE Tail(batch)
                   /\ later' = IF settling THEN later ELSE Behind
                   /\ pc' = IF settling THEN "part"
                            ELSE IF Tail(batch) = <<>> THEN "drain" ELSE "collect"
                   /\ UNCHANGED at
           /\ UNCHANGED <<requeue, stopped, alerts>>
     /\ UNCHANGED <<ByLanding, main, pulls, stop, rows, tries, pending>>

Land == LandCheck \/ Decide \/ Reobserve \/ Push \/ Await \/ Merge \/ Confirm

---------------------------------------------------------------------------
(* The end of a round: cancel what has not started, wait for what has.     *)

Cancel ==
  /\ pc = "drain"
  /\ families' = [f \in DOMAIN families |->
       IF families[f].future # "queued" THEN families[f]
       ELSE [families[f] EXCEPT !.future = "cancelled",
                                !.status = IF stop THEN "REQUEUED" ELSE @]]
  /\ pc' = "join"
  /\ UNCHANGED <<world, thread, lists, mode, rows, stopped, gates, red>>

GatesLeft == TRUE                             \* mutant: nobody waits for a running gate
GatesIdle == \A f \in DOMAIN families : ~Busy(f)

Join ==
  /\ pc = "join" /\ GatesIdle
  /\ Continue(requeue)
  /\ UNCHANGED <<world, fold, stack, requeue, later, batch, cur, at, expected, settling, tries,
                 merges, held, retry, out, alerts, mode, rows, stopped, families, gates, red>>

Train ==
  \/ StopEarly \/ Snapshot \/ Pairs \/ Round \/ PlanStep \/ PlanClose \/ Submit
  \/ Collect \/ PartsDone \/ Part \/ PartGated \/ Land \/ Cancel \/ Join

---------------------------------------------------------------------------
(* The outside world, while the run lasts.                                 *)

Outside == <<thread, lists, mode, pc, rows, stopped, families, gates, red>>

OutsideCommit ==
  /\ Slips("outside")
  /\ \E added \in {{}, {<<0, Tip>>}} :
       main' = Append(main, [tree |-> main[Tip].tree \union added, by |-> 0])
  /\ UNCHANGED <<pulls, stop>>

AuthorPush(p) ==
  /\ pulls[p].open /\ Slips("push")
  /\ pulls' = [pulls EXCEPT ![p].head.lanes = @ \union {<<p, left["push"]>>}]
  /\ UNCHANGED <<main, stop>>

HoldLabel(p) ==
  /\ ~pulls[p].label /\ Slips("label")
  /\ pulls' = [pulls EXCEPT ![p].label = TRUE]
  /\ UNCHANGED <<main, stop>>

RequestStop ==
  /\ ~stop /\ Slips("stop")
  /\ stop' = TRUE
  /\ UNCHANGED <<main, pulls>>

Disturb ==
  /\ pc # "done"
  /\ OutsideCommit \/ RequestStop \/ \E p \in PR : AuthorPush(p) \/ HoldLabel(p)
  /\ UNCHANGED Outside

Finished == pc = "done" /\ UNCHANGED vars

Next == Train \/ (\E f \in DOMAIN families : Gate(f)) \/ Disturb \/ Finished

Spec == Init /\ [][Next]_vars

\* The run's thread and the gate threads are scheduled; the disturbances are not.
FairSpec == Spec /\ WF_vars(Train) /\ WF_vars(\E f \in DOMAIN families : Gate(f))

---------------------------------------------------------------------------
(* Properties.                                                             *)

Step == [pr : PR, commit : Commit]
Verdicts == {"none", "green", "red", "unread"}
Status ==
  {"PLANNED", "GREEN", "RED", "GATE_RETRY", "REQUEUED", "SPECULATION_VOID", "BISECTED", "HELD",
   "LANDED", "PREFIX_LANDED_UNGATED", "RETRY", "WITHHELD", "LANDED_TREE_UNREAD", "TREE_MISMATCH",
   "GATED_DRY", "RED_DRY"}
Family ==
  [steps : Seq(Step), base : Nat, after : Nat, settled : BOOLEAN, status : Status, gate : Nat,
   future : {"none", "queued", "running", "recording", "done", "cancelled"},
   result : [verdict : Verdicts, tree : Tree, reused : Nat], landed : Nat]

Folding == [base : Nat, acc : Commit, steps : Seq(Step), todo : Seq(PR), rest : Seq(PR), size : Nat]

Landing == {"land", "decide", "reread", "recheck", "push", "await", "merge", "confirm"}

BaseRow == [tree : Tree, by : PR \union {0}]
GateRow == [family : Nat, tree : Tree, verdict : Verdicts, reused : Nat]
MergeRow == [pr : PR, family : Nat, sha : Nat, tree : Tree, identity : {"unread", "same", "differs"}]

RemoteTyped ==
  /\ main \in Seq(BaseRow)
  /\ pulls \in [PR -> [open : BOOLEAN, label : BOOLEAN, head : Commit]]
  /\ left \in [Slip -> Nat] /\ stop \in BOOLEAN

ThreadTyped ==
  /\ mode \in Modes
  /\ pc \in {"snapshot", "pairs", "round", "plan", "submit", "collect", "part", "gate",
             "drain", "join", "done"} \union Landing
  /\ rows \in [PR -> Commit]
  /\ queue \in Seq(PR) /\ rounds \in Nat
  /\ fold \in Folding
  /\ stack \in Seq(Seq(PR)) /\ requeue \in Seq(PR) /\ later \in Seq(PR)
  /\ batch \in Seq(Nat) /\ cur \in Nat /\ at \in Nat /\ expected \in Nat
  /\ settling \in BOOLEAN /\ tries \in 0..1 /\ stopped \in BOOLEAN

ListsTyped ==
  /\ merges \in Seq(MergeRow)
  /\ held \in SUBSET [pr : PR, reason : {"CONFLICT", "GATE_RED"}, head : Tree, tree : Tree]
  /\ retry \in SUBSET PR /\ pending \in SUBSET PR /\ out \in SUBSET PR
  /\ alerts \in SUBSET {"RUN_UNREAD", "PAIRS_UNREAD", "TREE_MISMATCH"}

GatesTyped ==
  /\ families \in Seq(Family)
  /\ gates \in Seq(GateRow)
  /\ red \in SUBSET [tree : Tree, gate : Nat]

\* Every pointer of the run's thread points at something: the base it expects, the
\* families of the round, the family it gates or lands and the member it is at.
Pointers ==
  /\ expected \in DOMAIN main
  /\ \A f \in DOMAIN families : families[f].steps # <<>>
  /\ \A i \in DOMAIN batch : batch[i] \in DOMAIN families
  /\ pc = "collect" => batch # <<>>
  /\ pc = "submit" => IF settling THEN cur \in DOMAIN families ELSE batch # <<>>
  /\ pc = "gate" => settling /\ cur \in DOMAIN families
  /\ pc \in Landing =>
       /\ cur \in DOMAIN families /\ at \in DOMAIN families[cur].steps
       /\ ~settling => batch # <<>> /\ batch[1] = cur
  /\ \A m \in DOMAIN merges : merges[m].sha \in DOMAIN main
  /\ pc = "confirm" => merges # <<>>

\* The one type invariant: every value is of its type and every pointer holds.
TypeOK == RemoteTyped /\ ThreadTyped /\ ListsTyped /\ GatesTyped /\ Pointers

Landed(f) == families[f].status = "LANDED"

\* A family that landed whole left the base on exactly the trees it planned: one
\* commit of the run for each member, in an acknowledged merge, and the last of
\* them holds the tree the family was gated on (train.py, docstring 4), whatever
\* reached the base from outside in between.
LandedAsPlanned ==
  \A f \in DOMAIN families : Landed(f) =>
    /\ \A i \in DOMAIN families[f].steps : \E m \in DOMAIN merges :
         /\ merges[m].family = f
         /\ main[merges[m].sha] = [tree |-> families[f].steps[i].commit.lanes,
                                   by |-> families[f].steps[i].pr]
    /\ main[families[f].landed].tree = FamilyTree(f)

\* A family gated on top of others lands only when all of them landed whole: a
\* speculative verdict is never used for any other base (round).
LandsOnLanded ==
  \A f \in DOMAIN families : Landed(f) /\ families[f].after # 0 => Landed(families[f].after)

\* A merge whose tree read back differs from the plan is found, stops the run, and
\* is the last commit the run puts on the base (land_family, TREE_MISMATCH).
MismatchStops ==
  /\ \A m \in DOMAIN merges :
       main[merges[m].sha].tree # merges[m].tree => merges[m].identity # "same"
  /\ \A m \in DOMAIN merges : merges[m].identity = "differs" =>
       stopped /\ \A i \in DOMAIN main : i > merges[m].sha => main[i].by = 0

\* A pull request is held for a red gate only when exactly that tree was found red
\* and it is a tree of the base branch plus the pull request alone: nobody is held
\* for what another one, still in flight, brought into the gate (settle_red).
HeldForItself ==
  \A h \in held : h.reason = "GATE_RED" =>
    /\ \E i \in DOMAIN main : h.tree = main[i].tree \union h.head
    /\ \E r \in red : r.tree = h.tree

\* A pull request this run held is never merged by it, and never was.
HeldNeverMerged ==
  \A h \in held : \A i \in DOMAIN main : main[i].by # h.pr

\* Only what the run planned reaches the base through it: what an author pushed
\* after the snapshot is never merged unseen (sha pinned, push not forced).
NothingUnseenMerged ==
  \A i \in 2..Len(main) : main[i].by # 0 =>
    \E f \in DOMAIN families : \E k \in DOMAIN families[f].steps :
      /\ families[f].steps[k].pr = main[i].by
      /\ main[i].tree \ main[i - 1].tree \subseteq families[f].steps[k].commit.lanes

\* A family the run merged members of, and did not finish, says so at the end: its
\* ungated prefix is on the base (train.py, docstring, "What the gate covers").
PartialLandingMarked ==
  pc = "done" => \A m \in DOMAIN merges :
    families[merges[m].family].status \in
      {"LANDED", "PREFIX_LANDED_UNGATED", "TREE_MISMATCH", "LANDED_TREE_UNREAD"}

\* No gate outlives its run: when the run is over no gate is waiting, running or
\* about to be recorded, and every finished gate has its row.
GatesOwned ==
  pc = "done" => \A f \in DOMAIN families :
    /\ families[f].future \in {"none", "done", "cancelled"}
    /\ families[f].future = "done" => \E i \in DOMAIN gates : gates[i].family = f

\* A landing decision is taken, and its effects follow, on the green row of the very
\* family that lands (_receive_landing_decision's gate source).
DecidedOnOwnGate ==
  mode = "decided" /\ pc \in {"recheck", "push", "await", "merge", "confirm"} =>
    LET row == gates[families[cur].gate]
    IN row.family = cur /\ row.verdict = "green" /\ row.tree = FamilyTree(cur)

Merged == {main[i].by : i \in DOMAIN main} \ {0}

MembersWith(statuses) ==
  UNION {ToSet(Members(f)) : f \in {g \in DOMAIN families : families[g].status \in statuses}}

\* Nothing asked of the run is forgotten: at the end every pull request was merged,
\* held, left out, kept pending, named to be retried or (dry) gated.  Only a run
\* whose snapshot or base could not be read escapes this, and the members behind a
\* tree mismatch, which land_family returns to nobody.
Accounted ==
  pc = "done" /\ "RUN_UNREAD" \notin alerts =>
    PR \subseteq Merged \union {h.pr : h \in held} \union retry \union pending \union out
                 \union MembersWith({"GATED_DRY", "RED_DRY", "TREE_MISMATCH"})

\* A tree one gate run of this run found red is never landed as a gated family.
RedTreeNeverLanded ==
  \A f \in DOMAIN families : Landed(f) =>
    \A i \in DOMAIN gates : gates[i].verdict = "red" /\ gates[i].reused = 0 => gates[i].tree # FamilyTree(f)

---------------------------------------------------------------------------
(* What the base branch is promised of a train, GatedBase.                 *)

\* The trees a gate of this run judged green; a copied row is no gate's word.
PassedGate(f) ==
  /\ families[f].future \in {"recording", "done"}
  /\ families[f].result.verdict = "green" /\ families[f].result.reused = 0
Passed == {families[f].result.tree : f \in {g \in DOMAIN families : PassedGate(g)}}

\* What is left to land of the family that lands, and the commit to be read back.
Commits(f) == [i \in DOMAIN families[f].steps |->
                 [tree |-> families[f].steps[i].commit.lanes, by |-> families[f].steps[i].pr]]
ToLand == IF pc \in Landing THEN From(Commits(cur), at) ELSE <<>>
ToReadBack == IF pc = "confirm" THEN merges[Len(merges)].sha ELSE 0
LandedAt == {families[f].landed : f \in {g \in DOMAIN families : Landed(g)}}

Base == INSTANCE GatedBase WITH
  Nobody <- 0, passed <- Passed, landing <- ToLand, seen <- expected, unread <- ToReadBack,
  whole <- LandedAt, halted <- stopped

\* Step by step the run keeps that promise, as long as no two gates are at their rows at
\* once (finding 1): it plans on a base it has read, lands only what passed a gate as a
\* whole, commit by commit as planned, reads each back, and never goes on after a mismatch.
KeepsGatedBase == Base!Spec

\* Where a family has landed whole, the base has a tree that a gate of this run itself
\* found green (train.py, docstring: the base ends on exactly the tree that was gated):
\* what KeepsGatedBase comes to.
LandsGated == Base!EndsPassed

\* Every run ends: each round's parts shrink, refused decisions and rounds are
\* counted, and the gates it waits for end (run, round, settle_red, land_family).
Termination == <>(pc = "done")
=============================================================================
