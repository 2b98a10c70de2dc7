# SVRF in TLA+

A verification development of SVRF (`src/src/svrf`), a merge train for GitHub
repositories: it reads which open pull requests are admissible, folds
compatible ones onto the base branch as a *family*, runs the repository's gate
once on the folded tree, lands a green family one merge at a time while it
checks that the base branch holds exactly the planned trees, and bisects a red
one. The modules are translated from the source; `PROJECT.json` maps every
definition to the lines it stands for.

## The system

| Component | State it keeps | Operations | Talks to | What is hard, what makes it correct |
|---|---|---|---|---|
| **Train** (`train.py`) | the receipt (families, gates, merges, held, retry, pending, alerts), the rows read at the snapshot, the red trees, `stopped`, one lock | `run`, `snapshot`, `plan`, `gate_family`, `round`, `settle_red`, `land_family`, decisions | git, GitHub, gate pool threads, landing-decision receiver | the base, the branches and the labels change at any moment; reads fail; answers get lost; gates finish in any order. Only gated trees land, a mismatch stops the run, nobody is held for somebody else, nothing is forgotten, every run ends |
| **Union step, pair reads** (`git.py`) | a clone; a temporary index | `main_sha`, `pairs`, `union_step`, `push_branch`, `reland`, `restack` | git | a step is a fast-forward, a no-op or one merge commit, never forced |
| **GitHub adapter** (`github.py`) | nothing | `pull`, `merge`, `snapshot`, `comment` | `gh` | sha-pinned merge, lost answers |
| **Gate** (`gate.py`) | memory reserved by the gates running, one setup lock per repository | admit, prepare, setup commands, gate commands, stop | locks, processes | waits for memory, a slot and the setup lock while it holds others; nothing is leaked on any path |
| **Locks** (`locks.py`) | `held` descriptors, file locks shared by processes | `flocked`, `owner_lock`, `SlotPool.acquire/release` | kernel | exclusion within and between processes, death of the holder |
| **Decision rules** (`rules.py`) | none (pure) | `families`, `choose_families`, `admission`, `held_retry` | `merge_family.py` | bounds, ties, symmetry |
| **Maximum family** (`merge_family.py`) | none (pure) | `plan`, `evaluate`, `decode`, `compose` | – | the decision DAG returns the maximum independent set with the tie rule of the enumeration |
| **Daemon** (`daemon.py`) | held memory and its file, admissions in flight, stop request | tick, discovery, submission, receive, land, repair, restack, reland, drain, close | admission, train, GitHub | results in any order, cancellation, crash between a change and its save, a memory that cannot be read, a second owner |
| **Stacked requests and successors** (`daemon.py`: `stacked`, `restack`, `reland`) | `bases`, `relanded`, `held` in the state file | retarget, restack, re-land, supersede | git, GitHub | four calls per publication, each of which may fail or take effect unheard; a parent that is merged, superseded or closed in between. What a listed head brought outlives its request, no child is landed before its parent or stranded |
| **Admission** (`admission*.py`, `_admission_process.py`) | attempts in flight, back-off per source, supervised command | attempt, retry, cancel, reap | processes | a late answer against a cancellation, descendants that survive, PIDs given again. A slot is given back when the command's whole family is gone; a verdict is of an undisturbed command; delays are earned and kept |
| **Watch, stop signals** (`cli.py`, `app.py`) | the running daemon, the digest of the configuration | reload, signals | daemon | no round under a replaced configuration |
| **Adaptive batching** (`batching.py`) | none (pure, floating point) | `family_size` | train | any size in its range must be safe |
| **History check** (`history.py`, `globs.py`; `git.reland`) | none (pure) | classification of a head's commits, the ordered history it is re-landed with | git | the rebuilt history changes what the head changes, and is accepted where tests are there |
| **Receipts, events, surface** (`train_events.py`, `pr_surface.py`, `redact.py`) | files and comments | render, redact, project | GitHub | formatting |
| **Tree provider, local hub, replay** (`tree_provider.py`, `localhub.py`, `replay.py`) | caches; a stand-in for GitHub | – | – | – |
| **Agent and operator tools** (`mcp.py`, `doctor.py`, `dashboard.py`, `init.py`, `config.py`) | reports | – | – | – |

`PROJECT.json` lists the same components with what is modelled of each, and
the hazards of the code at the lines where they bite.

## Modules

| Module | What it is |
|---|---|
| `Families` | what `merge_family.maximum_family` and `rules.choose_families` promise: the maximum family and its tie rule, as predicates on a set and a graph |
| `MergeFamily` | how `merge_family.py` computes it: components, the decision graph, its scores |
| `Train` | one run of the batched train: the run's thread, the gate pool threads, the remote and the people who change it |
| `GatedBase` | what the base branch is promised of a train, abstractly; `Train` implements it |
| `Gates` | the gates of all trains of a host: memory guards, slots, setup lock, commands, stops, crashes |
| `GateService` | what the gates of a host promise, abstractly; `Gates` implements it |
| `Daemon` | the automatic train under `svrf watch`: ticks, reads in flight, held memory, effects on GitHub |
| `Stacked` | stacked pull requests and the successors of re-landed and restacked heads, call by call |
| `AdmissionProcess` | one admission command, its supervisor, its descendants, strangers with their PIDs, and the thread that waits |
| `AdmissionRetry` | what follows a failed read: attempts, their progress, the ledger of failures, the ticks that wait |
| `OrderedHistory` | the history check and the history `git.reland` builds, as operators on trees and histories |
| `MCTrain`, `MCGates`, `MCDaemon`, `MCStacked` | values of the constants for TLC |
| `TrainProofs` | `TypeOK` of Train is inductive, for every value of the constants; what a landed family left on the base and what follows a mismatch; how the rounds of a run end: its gates, its merges, the order of its families, its partial landings |
| `TrainPlaces` | where each pull request of a run is: never in two places, never both held and merged, never forgotten |
| `TrainTrees` | what the trees of a run are made of and what its gates say of them: nobody is held for another's work; without the race of finding 1 a family lands on its own row, no tree found red lands, and `GatedBase` is implemented |
| `GatesProofs` | the safety of Gates and its refinement of GateService, for every value of the constants |
| `DaemonProofs` | the custody of reads, what is remembered and why, what a stopped train may do, what is published and lands, for every value of the constants |
| `StackedProofs` | that a child lands after its parent and the work of a superseded head is not lost, for a stack of any depth |
| `AdmissionProcessProofs` | who is signalled, when the slot is given back and whose verdict it is, for any number of processes |
| `AdmissionProofs` | that delays after failed reads are earned and kept, for any sources, reports and failures; what a re-landed history keeps, and when the history check accepts it, for all trees and globs |

How they fit. `Daemon` hands a batch to the train and reads its receipt; in
`Daemon` a run of the train is a few actions (`Land`, `Train`, `TrainEnds`,
`Outcome`) that land or hand back each member in any way, which is what `Train`
details. In `Train` a gate is a call that ends with any verdict, or is put off
when it never worked, and two gates may work at once; that is `GateService`,
which `Gates` implements. `Train` takes its family from `IsMaximumFamily` of
`Families`, which `MergeFamily` computes; what all its actions together may do to
the base branch is `GatedBase`, which it implements. A read of `Daemon` (`Submit`,
`Finish`) is one run of `AdmissionProcess`, which shows that it ends; whether a
tick makes it or waits is `AdmissionRetry`. `Stacked` takes the publications of
`Daemon` apart (`Reland` to `Supersede` there) and adds the requests that are
stacked on others; the commits such a publication pushes are those of
`OrderedHistory`.

### Train

One action is one step of the code between two points where somebody else may
act: a read of the remote, a write to it, a lock acquisition, a handover to
another thread. `pc` names the point the run's thread is at.

| Code | Model |
|---|---|
| `Train.run` | `Snapshot`, `Pairs` (with `choose_families` as any result that satisfies `IsMaximumFamily`), the `while` head in `Continue`, `RunUnread` for a `ReadFailed` that reaches `run`, `StopEarly` |
| `Train.round` | `Round` (base read, chunk), `PlanStep`/`PlanClose` (one union step, one family), `Submit`, the `Collect...` actions in the order of the families, `Cancel` and `Join` for its `finally` |
| `Train.gate_family` | `GateReused`, `GateStart`, `GatePostponed`, `GateFinish` (verdict known, row index and red tree noted under the lock), `GateRecord` (row appended, in a later acquisition of the lock) |
| `Train.settle_red` | `SettleRed` (hold or split), `Part`, `PartGated`, `PartsDone`; the recursion is the explicit `stack` of parts |
| `Train.land_family` | `LandCheck`, `Decide`, `Reobserve`, `Push`, `Await`, `Merge`, `Confirm`; `_stop_family` is `StopStatus`/`Leave` |
| `git.union_step` | `Joined`, `MergeConflicts` on commits that hold a set of changes and contain the base up to a position |
| `github.merge` | `GitHubAccepts`: the head pinned by its sha, merged into whatever the base is then |

A tree is the set of changes in it (who wrote which version), which is all the
train compares: two trees are equal when they hold the same changes. A commit
from outside may or may not change the tree. The verdict of a gate is a free
choice, so a flaky gate is included; what a gate does inside is not part of this
module. The constant `Budget` says, for each mode of a run (plain, dry, with landing
decisions), how often the disturbances may happen, one choice of several: a failed read or write, a lost merge answer, an outside commit, a push by an
author, a hold label, a stop request.

Left out of `Train`, with the reason:
- receipts on disk, events, comments, statuses: they carry the lists the model
  keeps (`held`, `retry`, `pending`, `merges`, `alerts`) and are read by no
  branch of the run;
- waits for rate limits: a wait and another try, which is a stutter;
- drafts: `RealGitHub.ready` refuses, so a draft ends as a failed write;
- the tree provider: its tree is used only after it was compared with git's;
- the test of `self.stopped` inside the loop of `round` (line 882): the loop is
  left by `break` wherever `stopped` is set, so it cannot be reached;
- alerts other than RUN_UNREAD, PAIRS_UNREAD and TREE_MISMATCH, which repeat a
  state the model has.

### GatedBase

The base branch as a reader of the train's promise sees it: commits, some of them
from outside. A train looks at the base (`Look`), begins to land a sequence of
commits whose last tree passed a gate (`Begin`), and lands its head (`Land`), which
it reads back before the next one (`ReadBack`), and never continues when what it
read back is not what was planned (`Halt`). It may give a landing up at any point
(`GiveUp`), also because a merge that took effect was never heard of
(`LandUnheard`). Others commit whenever they like (`Outside`).

`Base` in `Train` is the mapping: what passed are the trees of the gates this run
itself found green, not of rows it copied; what is being landed is the rest of the
family's steps from `at` on; what was seen is `expected`; a commit is unread between
the merge and the read of the base after it; and a train has halted when `stopped` is
set. `gate_family` copies the row of a tree it remembers as red, so a copied row passes
nothing; in finding 1 it copies another gate's, which may be green.

### Gates and GateService

| Code | Model |
|---|---|
| `MemoryGuard.admit` | `Admit`, with `Fits`; `Leave` is its `finally` |
| `SlotPool.acquire`, `release` | `AcquireSlot` (`FreeSlots`: not in this process's table, and nobody has the file's lock); `Release` and `Unlock`, because the table entry goes before the file lock |
| `CommandGate.run` | `Prepare`, `Metadata`, `NextCommand`, `TakeSetupLock`, `StartSetup`, `CommandEnds`; `Postpone` at every point that checks the stop request, `WayOut` the way out from it |
| `flocked` | `setupLock`, polled while a stop request is heeded, awaited afterwards (a kernel wait that nothing interrupts) |
| a stop, the death of a train | `RequestStop`, `Crash` |
| a command killed by its timeout or by the death of its train | a `stray` that keeps its slot's directory and its memory in use |

Memory is counted in units of one gate's `memory_gb`. A gate that was admitted
comes to use its memory later (`Grow`), so a reading of the free memory says
nothing of what was already promised. The text of outputs is abstracted to the
verdict it leads to: red, or unread when it looks like an outage.

`GateService` has three actions: a gate begins to work in a place of its own,
ends with a verdict, or is asked for again after its process died.

### MergeFamily

`Init` is every graph; `Bind` takes the next component and looks its shape up,
`Plan` is one turn of the loop of `plan`, `Evaluate` one turn of `evaluate`;
`decode` is `Decode`. Scores are the numbers of the code, masks are sets.

### Daemon

| Code | Model |
|---|---|
| `cli._watch` | `StartTick`, `DrainTick`, `Reload`, `Exit`; a failed tick ends the loop (`Restart`) |
| `load_state` | the memory a tick starts with (`StartTick`), a drain, an error or a forget writes back: what is on disk, or nothing when that cannot be read |
| `_discover` | `List` (also `_cancel_obsolete_admissions`), `ReadBase`, `Observe`, `ObserveContained` |
| `watch_digest`, `held_retry` | `Due`, `Recovered`, `Following` |
| `_order_candidates`, `_stage`, `_submit` | `Choose` (any candidates, as many as slots are free), `Stage`, `Submit` |
| an admission on the executor | `Finish`: any answer the head may get |
| the loop of `_tick_body` | `Wait`, `Receive...`, `Ready`, `Land`, `Refill`, `Save`, `EndLoop`; `stages` is the order of the parts of one turn, which depends on `guard` |
| `land` | `Land`, `Train`, `TrainEnds`, `Outcome`, `Landed` |
| `repair`, `close_merged`, `reland` | `Repair`; `Forward`, `Close`; `Reland`, `Revalidate`, `Publish`, `Supersede` |
| `request_stop`, `forget`, the configuration file | `RequestStop`, `Forget`, `EditConfiguration` |

`held` is the memory a tick has loaded, `disk` the file. `approved` and
`refused` record what the admission answered; no action reads them, only the
properties do, and an answer is dropped when no read and no hold is left it
could matter to. What was accepted of a rebuilt history lapses when its source is
pushed over or closed before the train has looked at the source again (`Lapsed`).

Left out of `Daemon`, with the reason:
- stacked pull requests and the calls of a publication: `Stacked`;
- the back-off of failed reads (`_defer_reads`, `admission_retry.py`): it only
  delays a read, and the order of reads is any; `AdmissionRetry`;
- drafts, forks, labels, other base branches: such a row is never a candidate;
- priorities: they choose among candidates, any choice is allowed;
- dry runs, and the tick without an executor (no `tick_seconds`, no
  `admission_round_reads`): its one thread reads and lands in a fixed order, and
  publishes a rebuilt history without looking at its source again (Observations);
- a second owner: `owner_lock` excludes it for the length of a tick, so what is
  left of it is `Forget` between two ticks;
- receipts, comments, the surface of the daemon's status: no branch reads them.

A pull request a rebuilt head is published as is a new one; `successor` notes
that it was opened, and it is not itself a member of `Numbers`.

### Stacked

| Code | Model |
|---|---|
| `_discover`: list, pruning of the memory, one decision per row | `List` with `Pruned` (`Kept` is the exception for `relanded`), `Decide` |
| `stacked` | `Retarget`, `StackedUnknown` (parents open, or none), `HoldOrphan`, `Restack`, `StackedUnread` |
| `reland`, `_reland_source` | `Reland`, `Revalidate` |
| the publication of `restack` and of `_finish_reland` | `Push`, `OpenPull`, `ClosePull` (comment and close), the memory written after the last |
| `land` | `Land` (the memory is saved), `Train`, `EndTick` |

Branch k + 1 is written on branch k, and its request is opened against it, at
the start or later. A commit is named by its author's branch, its change and the
copy of that change it is: rebuilt commits carry a commit date, so two builds of
one history differ, and a push of the second onto the branch of the first is
refused. `rows`, `queue`, `cands`, `batch`, `at` are the tick's and die with it;
`disk` and `mem` are `state["held"]`, `["bases"]`, `["relanded"]`.

Left out: dry runs, the hints of a driver of the loop, a successor that is
itself re-landed, an author who uses a branch for a second pull request.

### AdmissionProcess

| Code | Model |
|---|---|
| the kernel: PIDs, zombies, subreaper, SIGCHLD | `Ended`, `Waited`, `Adopter`; `Fork`, `Exit`, `Reap` of the command's family, `Birth` and `Death` of strangers |
| `_admission_process.main` | `Handlers`, `Custody`, `CheckLaunch`, `Launch`; the loop's passes `Pass`, `PassCancelled`, `PassBreaks`; `Send` (one `os.kill`), `Wait` (one `waitpid`), `Sleep`, `Finish` |
| `Admission._execute_command`, `_stop_command` | `Begin`, `Receive`, `TimedOut`, `Terminate`, `Stopped` |
| cancellation, timeout, the grace of 5 seconds | `Ask`, `Expire`, `GraceOver` |

The table of processes is the kernel's: a child keeps its PID until its parent
waits for it, then the PID may go to a stranger (`Birth`) or to a process of the
family itself (`Fork`, which is what `reissued` notes).

### AdmissionRetry

| Code | Model |
|---|---|
| `retain_failure` | `FailedAgain`, with `Previous`, `Complete`, `Unknown`; `Retained` |
| `read_progress` and its checks | `Valid`, `Progress` on files of at most `MaxLines` lines |
| `_defer_reads` | `Due`, `Defer`, `Undefer`, `Deferred`, `StageFails` |
| `AdmissionAttempt` | `Submit`, `Finish`, `Receive` (also the second read of a rebuilt head) |
| `Daemon.save` and its failures | `Save`, `SaveFails`, `Crash` |
| `Daemon.load_state` | `StartTick`, or `StartTickUnread` when the file cannot be read; the save of a failed tick loads it too (`SaveFails`) |

`streak` and `done` are a history: how many failures in a row were alike, and
which work was ever reported; `readable` is FALSE from a load that fails to the
next save. Only the properties read them. The loop of `save` is
`After`, with what `Snapshot` can read of each attempt, and `Uncounted` what it
leaves. Time is what is
left of a delay, in units of 30 seconds.

### OrderedHistory

Operators, no steps: `Disposition` and `Verdict` on a history, `Stage` (the
trees `reland` builds), `Commits`, `Rebuilt` (what the history check reads of
them). `_tree_map` lists blobs only, which is why `TreeMap` and `Link` are
there: a submodule is invisible to it.

## Runs

Every run is exhaustive for its constants.

| Run | Instance | What it shows |
|---|---|---|
| `train` | 3 requests, two of which clash with each other and one with an outside change, the third on a branch of its own or on the work of all; families of 1 or 2, 2 rounds, 1 gate thread; a plain run, a dry one and one with landing decisions, each disturbed by one of the groups of `AnyOnce` | a held request is never merged; nothing an author pushed after the snapshot reaches the base; an unfinished family is marked; nothing is forgotten; families land on landed ones only; a landed family left its planned trees; a mismatch stops the run, also in a bisection and with a family behind it; a hold names the request's own tree; no gate outlives the run; a red tree is not landed and the decision is on the row of the family that lands, as long as no two gates run at once (in this instance the pool has one thread, and only a family of one has another behind it, so no bisection gates beside the pool); the promise of `GatedBase` is kept step by step, so that wherever a family landed whole the base has a tree that was gated; every run ends |
| `train_gate_index` | 3 requests, 2 gate threads, undisturbed | finding 1 |
| `gates` | 2 gates of one train or of two, 2 slots, memory for 2 gates and the reserve, which another program may take one of, two setup commands and one gate command, a command killed while nothing is left behind by another, one crash, a neighbour that may hang anywhere | nothing leaked; commands exclude each other in a slot and in setup; a put-off gate never started; the reserve is kept; `GateService` is implemented; the gates of a train whose own threads do not hang end, also when its neighbour hangs, unless the neighbour keeps the setup lock from a gate that has started |
| `merge_family` | every set of at most 5 requests, every set of conflicts among 5 numbers | scores are exact; the result is the maximum family with the tie rule |
| `daemon` | 2 requests, the first with 2 heads and possibly an unordered history, 2 admission slots, capacity 0, 1 or 3, both orders of a turn, one disturbance of any kind | every read is owned and no more than the slots, also across a stop, a drain and a new configuration; holds were judged, stand while they are kept and are read again when due; a stopped train stops the tick; successors were accepted and their source was looked at again; only heads that were read land; an owner asked to stop exits, or fails as in finding 5 |
| `daemon_stop_reland` | 2 requests, 2 slots, one stop | finding 5 |
| `daemon_unread_head` | 2 rounds of the train, one push | finding 2 |
| `daemon_close_stale` | one push and one commit | finding 3 |
| `admission_process` | 3 PIDs, 2 forks, 1 stranger, 1 failed call of the supervisor, a cancellation and a timeout at any moment, a process outside that holds the pipes | only children of the supervisor are signalled; the slot is given back when the family is gone; a verdict is the command's own and undisturbed; a read ends |
| `admission_retry` | 2 sources and the rebuilt one, 1 work id, 2 reasons, every progress file of 3 lines, 1 change of the source, 1 failed call, unreadable file, failed save or crash, reads that outlive their tick | a delay follows three like failures of this source; it is not lost while the source stays and the file can be read; it ends by time, and the request is read again |
| `stacked` | 3 branches stacked on one another, opened together or child first, at most 7 requests in all, two disturbances of any kind (failed call, lost answer, unreadable memory, push, close, crash) | what a listed head that was superseded brought is on the base or in a request; a child does not land before its parent; unless the record of a successor was lost (a crash, a lost answer, an unreadable memory), a child is not held for a parent whose successor is open; no request is stranded |
| `stacked_memory` | 2 branches, the child opened first, undisturbed | finding 4 |

Bounds of Train: two requests in one family already give a first and a last
member, a landed prefix and a bisection in halves; in families of one a second
family is planned on the first. Two rounds are one requeue: whatever is handed back
is served again. One disturbance of a kind is enough for each early return to be
taken once, and two to four kinds combine in one behaviour: `AnyOnce` lists the
groups. Of a mode's kinds each two meet in one of them, but for failed reads and stops
in a plain run, which meet in the other modes. Two gates at work at once, where finding 1
is, are in `train_gate_index` only; what else could come of them is left to the proofs, which hold
for any `Jobs`, families, clashes and stacked branches. Of Gates: two gates in two slots,
of one process or of two, meet at every lock, and memory that another program
may take makes one wait for it; the lock of a second setup command is awaited when the
gate has started, that of the first before it has. `MaxStrays` 1 lets a command leave
processes behind while nothing is left of another one; a crash may leave what both
gates ran. Of MergeFamily: five vertices have every shape
of component that repeats (two pairs, a pair and single ones) and a branch below
a branch; the numbers are not consecutive, so that a lane is not its number. Of
Daemon: the second request is read or handed over while the first is at any
point; the second head is a push or a repair; a disturbance may come at any
step. `Unordered` says whose history the admission may refuse as unordered, and
is one request: the re-landing of the second would be the same. With two slots
answers come in any order, and with a capacity of one a rebuilt head has to take
over the slot of the read it follows; in `daemon_stop_reland` the other one runs.
Of AdmissionProcess: three PIDs are a
command, a child and a stranger, or a grandchild; two `Forks` with one PID free
again give the command's PID away within the family, and one of `Births` gives it
to a stranger; one of `Faults` makes any one call of the supervisor fail. Of
AdmissionRetry: `MostCounted` stops the counters at 4, past the third failure
that starts a delay and the first doubling; three lines are the shortest file
that begins, reports work and ends; `Late` lets one unit of time pass before a
finished read is saved. Of Stacked: `Depth` 3 is a child that is a parent, so
a restacked branch is restacked on; two disturbances (`Most`) are a publication
that fails and is tried again, or a call lost and then a crash; `MaxPulls` 7 is
every branch with a request, an ordered and a restacked successor and one more.

Fairness. Train: weak fairness for the run's own thread (it never waits for
something only a disturbance could provide) and for the gate threads. Gates:
weak fairness for each gate of the trains in `Fair`: its thread goes on and its
commands end, because each has a timeout. The neighbour, strays, other programs
and a stop request have none. `Retires` is stated of a train that is asked to stop,
and of one alone on its host as long as no stray keeps its memory: a gate waits for
memory as long as a stray does. It excepts the train that is at its neighbour's
mercy for ever (`AtNeighboursMercy`): one of its gates has run a setup command and
waits for the setup lock, and a neighbour without fairness has it. Daemon: weak
fairness for the watch loop and for each read, which ends because the admission
command has a timeout and a cancellation kills it. AdmissionProcess: for the
supervisor, the waiting thread, the grace and the timeout, and for nothing the
command or a stranger does: a process that holds on must be killed.
AdmissionRetry: for the ticks, for time, and for the end of a read. Stacked: for
the ticks. The disturbances have none anywhere.

Deadlock is checked in every run but `admission_process`, which ends when the
read has returned. Where another system really ends, the specification says so
with a step that changes nothing (`AllEnded`, `Ended`, `Done`, and Train's own).

`MemoryKept` is stated of a train that is alone on its host, without strays:
two guards do not know of each other's promises, and the code does not claim it.

`TypeOK` is part of the run `gates`, where it says more than types (who has to give
back what). The other modules state theirs for the reader, and no run spends its time
on it: those of `Train`, `Daemon`, `Stacked`, `AdmissionProcess` and `AdmissionRetry`
are proved, with the pointers and orders they include.

## Findings

`PROJECT.json` quotes the lines. In short:
1. `train_gate_index`: `gate_family` takes its row's index and remembers a red
   tree under it in one critical section, and appends the row in another. With
   two gate threads the index may name another gate's green row, and a tree
   already gated red lands. One gate thread is enough for a family to point at
   another gate's row, when a red family is bisected on the run's own thread
   while the pool gates the next family: TLC finds `DecidedOnOwnGate` violated
   with `Jobs = 1`, three requests that do not clash, families of two and
   landing decisions.
2. `daemon_unread_head`: the rows the daemon admitted are the train's for its
   first round only. In a later round the train lists the requests again; a head
   pushed meanwhile is gated and merged although the admission never read it.
3. `daemon_close_stale`: `close_merged` takes a forward push that is refused
   because the author pushed meanwhile for one of a branch it may not write, and
   closes the request as already on the base.
4. `stacked_memory`: a request seen before its parent's request is opened is
   remembered as not against the base. That memory answers before the parents
   are read, so when the parent is opened and merges, the child is skipped for
   as long as its head and base stay, instead of being retargeted.
5. `daemon_stop_reland`: a stop request that arrives while a head is rebuilt lets
   `_submit` return without a read, and the next line of `reland` looks the read up.
   The `KeyError` ends the watch loop, and the reads of other requests that still
   run are not drained. `StopExits` says no more than that the owner ends.

## Observations

What the models show of the code where no document promises otherwise, or the
promise leaves room. They are not stated as properties.
- `train.py:653`: a merge that takes effect and whose answer is lost ends in
  the retry list. It is found merged by the next snapshot, and its tree is never
  compared with the plan. In `TrainProofs` an acknowledged merge is one that
  was answered.
- `train.py:553`: a gate that ends after the round voided its family writes its
  own verdict over `SPECULATION_VOID`. Nothing lands from it, the receipt says
  otherwise.
- `train.py:925`: when the pairwise read fails as a whole, no pair counts as a
  conflict; a conflicting pair is folded together, and its second member is held
  for a conflict it does not have with the base.
- `gate.py:158`: `subprocess.run` kills the shell of a timed-out command, not
  what it started. These strays share the slot's directory with the next gate.
  The same happens to a running command when its train dies (`locks.py:3`).
- `train.py:653` again: a merged request whose answer was lost keeps its commit
  status "gating", since a later snapshot reports it merged and posts nothing.
- `gate.py:216`: once a gate has run a command it waits for the setup lock in the
  kernel, without its stop request. A neighbour that hangs in a setup command of the
  same repository keeps a stopped train for as long as it hangs.
- `daemon.py:149`: a state file that cannot be read is taken for an empty memory, also
  for the moment of one failed read, and the next save writes that over it. Holds are
  read again; delays after failed reads (`DelayKept` excepts this) and the records of
  successors (`HeldAsOrphan` excepts this) are forgotten.
- `daemon.py:1280`: without an executor the daemon publishes a rebuilt history without
  looking at its source again, and closes what its author pushed since the list.
- `_admission_process.py:139`: when the command has been waited for, its PID may
  be given to another process of its own family, adopted later by the
  supervisor. The status of that one is then taken for the command's
  (`reissued`; the verdict's property excludes it). The PIDs of a host have to
  wrap around for it.
- `_admission_process.py`: nothing survives the supervisor to signal the command
  when the supervisor is killed, or its owner dies: the family goes on in a slot
  that counts as free. The model has no such kill.
- `admission.py:228`: a supervised command ended by a signal has a verdict like
  one that failed; the request is held until it, the base or the program changes.
- `admission_retry.py`: a read ended by a cancellation counts as a failed one, and
  three of them delay the source. A rebuilt head is read under the row of the
  original, which its successful read removes: its failures are never delayed.
  A digest that cannot be read drops a delay, and with it the work known.
- `daemon.py:1338`, `daemon.py:1157`: a publication is tried again from its
  start, and the second build has another commit date. When the push took effect and a
  later call failed, each further push of it is refused (`PUSH_REFUSED`).
- `daemon.py:1050`: a child is held as `PARENT_CLOSED_UNMERGED` also when the
  parent's successor was merged before the child was restacked (one failed call
  is enough), when the record of the successor was lost with a crash, or when
  the child was opened after the record was pruned. Such a hold has no digest to
  watch: it stands for as long as the head and base stay. A merged parent among
  several of a reused branch name is enough for a retarget.
- `daemon.py:1157`: unlike `_reland_source`, `restack` does not look at the request again
  before it closes it: a push by its author since the list is not carried.
- `git.py:281`: the trees `reland` builds know blobs only. A submodule
  (`Link`) among the tests or documents is carried in the code commit, or the rebuilt
  tree differs and the request is held as `RELAND_TREE_MISMATCH`.
- `history.py`: a head that changes code and no tests, and is unordered, is
  refused again after its re-landing (`RebuiltVerdict`).
- `train.py:351`: a dry run merges nothing, but posts statuses and comments.
- `daemon.py:1338`: the source of a rebuilt history is read before the push of
  the new branch, and closed after it. A push by its author between the two is
  on a closed request; the successor has the tree that was read.

## Proofs

`TrainTypeOK` (`TrainProofs`): `TypeOK` is inductive as it stands because it
includes `Pointers`: the type of `families[cur]` in a landing action needs that
`cur` is a family and `at` one of its steps, which no type says. One lemma per
action; the operators on queues and trees have lemmas of their own.

`LandsAsPlanned`, `StopsAtMismatch` (`TrainProofs`): neither property is
inductive. `TrainLandingInv` adds what the landing relies on: how far the
family at `cur` has landed and in which merges (progress), that finished
families keep their evidence, that a stopped run's thread never returns to the
landing points, and that a merge was compared before the next one is made.
From it: a family marked LANDED has one acknowledged merge per step, in each of
which the base held exactly the planned tree; a merge whose tree differs is
never noted as the same, and afterwards every commit is from outside.

`NothingLeaked`, `CommandsExclusive`, `PostponedBeforeCommands`
(`GatesProofs`): `TypeOK` says that what is taken is what some gate still has
to give back: each guard counts its admitted gates, each pool's table and the
locks of the files name the slots gates are in. `GatesInv` adds that a slot's
worktree has the commit of the gate that prepared it (`OwnTree`), that whoever
runs a setup command has the setup lock (`SetupHeld`), and how a gate's verdict
and its place in the code go together (`Decided`). The counts need the theorems
on finite cardinalities: `CountKept`, `CountUp`, `CountDown` are stated once
for any step of one gate.

`ImplementsService` (`GatesProofs`): under the mapping of `phase` and `place`
each step of `Gates` begins a gate, ends one, asks again for those of a dead
train, or is a stutter. `GatesInv` gives that the slot of a gate that starts is
the place of no other working gate.

`ReserveKept` (`GatesProofs`): `MemoryInv` says that each guard's gates, the
reserve and what other programs use fit into the memory (`Promised`), which is
what `Fits` checks when a gate is admitted and every way out restores, and that
only gates whose command runs use memory (`MemoryCounts`). The property follows
for a train that is alone: those gates are some of the admitted ones.

`GatesEndWithTheRun`, `MergesWhatItPlanned`, `LandsInOrder`,
`MarksPartialLandings` (`TrainProofs`). `Drained` says that between rounds no
family has a gate left, that none is queued while the round joins its threads,
and that a finished gate has its row. `UnseenInv` adds that from the check of a
member to its merge the head pushed has the changes of the planned step
(`AsPrepared`). `RoundInv` is about the families of a round: they are served in
the order they were planned (`InOrder`), a landed one is done with
(`LandedRests`), one with a merged member lands now or has ended in one of four
statuses (`MergedEnd`), and each is chained to the one before it, whose landing
comes first (`Chained`). Most steps only hand families on; `Onward` says what
such a step may do, once for all of them.

`NobodyHeldIsMerged`, `NothingAskedIsForgotten` (`TrainPlaces`) and
`NobodyIsHeldForAnother` (`TrainTrees`). The run's thread
keeps pull requests in six lists: the fold, the family at hand, the members
planned behind it (`later`), the parts of a bisection (`stack`), those to queue
again and the queue. `PlacesInv` says that during a round nobody is in two of
them (`FoldOnce`, `OnePlace`), that `later` is the members of the round's
families one after the other (`LinedUp`, with a witness for where each starts:
`Behind` cuts it by counting), and that the held and the merged are apart from
those still to be served (`HeldAside`, `MergedGone`). Without `LinedUp` a round
that is left could queue a member of the family at hand twice. A step within a
round is a `Moves`: it takes nobody in and lets nobody go whom the receipt does
not name. `CoverInv` adds that a round ends with none of its parts or families
left (`Emptied`), that a family in one of the last three statuses of a receipt
is never given another (`EndedRests`), and that everybody is in a list or
named (`Covered`). What halving and splitting at a member do to a list are
lemmas of their own (`ListChunk`, `PartsSplit`). `OwnInv` is about verdicts: a tree
is remembered red only after a gate of it was (`RedKnown`), every family is
planned on a base the run has seen (`Based`), and the first step of a family that
still awaits its verdict adds to the tree it was folded onto only what was read
of its first member (`OwnWork`), as does the fold being planned (`FoldOwn`). A
merge reads its member's row anew; by `LinedUp` that member is in no family
behind (`BehindApart`), so no other first step changes under it.

`DecidesOnOwnGate`, `RedTreesNeverLand` (`TrainTrees`) have one hypothesis,
`[]RecordsApart`: no two gates are at once between the release of the lock under
which a gate reads its row's index and the append of the row. Finding 1 is a run
that breaks it, and a repair that adds the row under the same lock makes it true.
`NoRaceWithoutSpeculation` has both properties without it, for runs in which a
family may hold the whole queue: a round has one family then (`Undivided`), and only
that one is with a gate (`OneGateAtATime`). `Indexed` says that each family, each
tree remembered red and each row agree on the row; the first theorem follows. The
second needs more, since a bisection has its trees gated while other families wait
for theirs or are green already. Every tree is split into what authors wrote
(`Authored`) and what reached the base from outside; commits hold nothing from
outside the base does not have (`SeenInv`). The families served, or landed, climb
(`ClimbInv`): a later one has work of authors no earlier one has (`ClimbApart`), since
a member that adds nothing is left out of the fold (`Folds`). A bisection stays
within the tree that was red, which no waiting family is within (`PartsInv`). So
no family waits whose tree an earlier one shares (`WaitsApart`), no gate runs on a
tree found red (`RunsFresh`), and no family served or landed is green on a tree
that was found red (`GreenIsNotRed`).

`ImplementsGatedBase`, `LandsWhatPassed`, `PromiseWithoutSpeculation` (`TrainTrees`):
under the mapping of `Base` every step of `Train` is one step of `GatedBase` or
changes nothing it sees. `PromiseInv` puts together what that takes: that a family
being landed has its trees and commits as planned on `expected` and was read back
so far (`LandingInv`), that what is merged is what was prepared (`UnseenInv`), that no
gate is asked for during a landing (`Unasked`), that a green verdict is of the
family's own gate and not copied (`Indexed`, `GreenOwn`, `LandsGreen`), and that from
the check of a member to its merge only others commit (`SinceCheck`), so that a merge
onto the base that was read gives exactly the planned tree. The hypothesis is again
`[]RecordsApart`, since a copied green row (finding 1) would land a tree no gate of
this run judged; where a family may hold the whole queue `UndividedApart` gives it.

`DaemonTypeOK`, `ReadsInCustody`, `StoppedTrainIsQuiet`, `WhatIsHeldWasJudged`,
`HeldWhileItStands`, `ReadAgainWhenItFell`, `SuccessorsAreAccepted`,
`OneRoundLandsWhatWasRead` (`DaemonProofs`). Every action is put in one of a few
groups (`Steps`), and a lemma per group of variables says which groups change
them (`RemoteFrame` to `AnswerFrame`), so a proof has a case for those only.
`DaemonTyped` is `TypeOK` with the order of the stages of a turn (`Pipeline`),
where an effect goes on (`AtWork`), that rows under decision are listed and not
being read (`Discovering`) and that what is received is done (`Grouped`).
`SlotsHeld` counts the candidates with the reads from their choice on, and keeps
the slot of a head that is rebuilt. `JudgedInv` is what memory needs: each
pull request is held once, a refusing answer not received yet has its refusal
under the configuration of now (no configuration is taken while a read is in
flight), and every commit any read, hold or listing is bound to has one content
and is not ahead of the base (`Dated`); without `Dated` a hold whose commit is
that of the base need not have the base's content. `Accepts` says what a landing and
a publication rest on: what is in the batch was accepted, and what was accepted of a
rebuilt history stands or its source is no head any more (`Stands`). The latter is
for good, since every read is of a head its request has now or had before (`Past`),
heads only go on and nobody reopens a request (`HeadStep`). `OneRoundLandsWhatWasRead`
has the hypothesis `MaxRounds = 1`, since finding 2 refutes it for more.

`StackedTypeOK`, `ParentsLandFirst`, `NothingSupersededIsLost`,
`HeldWhenNobodyTakesIn` (`StackedProofs`).
`LandingOrder`: whatever is listed, published or remembered of a branch has
changes of that branch, of the one it is stacked on, or of merged ones, and a
request is against the base only when all branches below are merged, so the
merged branches are the lowest ones. `KeptWork`: a superseded change is on the
base or in a living request, also in the head of it that the tick has listed,
since that is what a restack builds on (`SupersededKept`); and the steps of a
publication are ordered so that the new branch has all the changes before the
old request is closed (`WorkComplete`). Both hold between any two calls, so also
when a call fails, takes effect unheard or the process dies. `ForkInv` is what makes
the record of a superseded parent the right one. An original has successors of one
kind only, which follows from what it was against when it was rebuilt (`Sources`,
`OneKind`); of those only the last is open, and the record names it (`Last`,
`RecordsLast`). That a push onto the branch of an earlier attempt can open a second
request, against another base, is excluded by `Publication`: it needs that a
restacked branch is retargeted only when the branch below has no open successor
(`Outlived`), and that needs the order in which branches were succeeded (`Before`)
and that a list leaves out nothing that is older than one of its rows (`Listing`).
A record is dropped only when nothing open is stacked on its branch; what comes
to be stacked on it later comes after the successors (`SupersededRecalled`), which is
why the property is about children that were opened before the successor. It is also
about runs that keep their records only: without a death of the process, a lost answer
or a memory that cannot be read.

`NeverMismatched`, `SameChange`, `OneKindEach`, `RebuiltVerdict`
(`AdmissionProofs`): two trees are equal when they are equal path by path,
so each statement comes down to one path, which `TouchedOnce` says is changed by one
stage of the rebuilt history at the most. The tree mismatch that `reland` guards
against needs a submodule among the tests or documents: `NeverMismatched` and
what follows from it assume `LinksAreCode`, and `RebuiltVerdict` says exactly
when the history check accepts the rebuilt history.

`DelayIsJustified`, `DelayIsKept`, `AdmissionRetryTypeOK` (`AdmissionProofs`).
`RetryInv` has four parts. `Typed` types the ledgers. `LedgerInv` says what a row
rests on (`Justified`): each count is of as many attempts in a row, up to three,
that were of the row's source and reason (`Counts`), the work known is work that was
reported, and a delay that runs follows a third failure (`Third`); and that the tick
waits only for such a row, of the source it read. `Flight` says what waits to be
counted: two attempts at the most, of which the first was answered and the second is
of the rebuilt history, so that the row of a rebuilt history is never counted twice.
This is also why the loop of `save` can be reasoned about: it is unfolded for none,
one and two attempts (`AfterNone` to `LeftTwo`), where an unbounded one would be an
induction over data. `Unchanged` says that as long as nothing about the source has
changed and the file was readable when it was last loaded, all rows and attempts are of it or of its rebuilt history, the tick's copy is
the file, and nothing is read or counted while a delay runs; then only time touches
the row.

`SignalsOwnChildren`, `SlotsOfTheGone`, `VerdictOfTheCommand`
(`AdmissionProcessProofs`): `SupervisionInv` says that whoever is of the family
has the supervisor or a running process of the family for a parent (`Table`),
once the supervisor adopts orphans and does not ignore SIGCHLD (`Custodied`);
that every known PID is a child not yet waited for (`KnownAreChildren`); that
the status kept is the one the command ended with, while its PID was not given
away (`Led`); and that whoever was signalled, the read is given up or nothing will
be answered (`Quiet`). That a family without a child of the supervisor is empty
(`NoChildNoFamily`) needs that there is no ring of parents. `Rooted` says so
of every part of the family, which a fork and the end of a process keep, and
needs no induction over generations.

All hold for any number of processes, pull requests, trains, gates, slots,
threads, family sizes, rounds and disturbances, and for any paths, globs and
contents. The assumptions are the named ones of `Train`, `Gates`, `Daemon`, `Stacked`,
`AdmissionProcess` and `AdmissionRetry`: the pull requests are finitely many positive numbers, the
pool has a thread, the budget is a number per disturbance; gates and slots are
finite sets, `None` is neither, there is at least one gate command; the
supervisor is not among the PIDs a command may get; the rebuilt history is a source of
its own, and the counters of failures go to three at least.

Model-checked only:
- `RedTreeNeverLanded`, `DecidedOnOwnGate` and `KeepsGatedBase` of `Train` where two
  gates may be at their rows at once: they are false there (finding 1), so no theorem
  for every value of the constants has them without a hypothesis on the gates or on
  the family sizes.
- `ScoresExact` and `MaximumChosen` of `MergeFamily`: a score is a sum of powers of
  two, one pair for each vertex of a family, and decoding it, like the maximum over the
  families of a graph, is an induction over the number of vertices, which the prover
  cannot state.
- `OwnedUntilDrained` of `Daemon` and the properties of the other findings are false,
  and have a counterexample.
- Everything about liveness (`Termination`, `Retires`, `StopExits`, `Settles`,
  `Ends`, `ReadAgain`), which the prover does not do.

## Not modelled

- `batching.py`: floating-point statistics; `Train` takes any family size.
- Receipts on disk, events, the surface, redaction, MCP, dashboard, doctor,
  init, configuration: formatting and reports, no protocol state.
- `tree_provider.py`: its answer counts only when it equals git's.
- `localhub.py`, `replay.py`, demo, presets, Lean proofs.
- How a glob matches (`globs.py`): a glob list is a set of paths. Paths that git
  quotes in its listings are not told apart from others.
- What an admission command prints and reads, its environment, and the text of
  its progress file: `AdmissionProcess` has its status, `AdmissionRetry` lines that
  are valid or not.
- Dry runs of the daemon; priorities among candidates.

## Plan

Done: the train and what it promises the base branch, its gates, the maximum family,
the daemon, stacked requests and publications, the admission command and the back-off
of failed reads, the history check; theorems about the landing, the rounds, the lists
and the trees of the train and its refinement of `GatedBase`, the safety and the
refinement of the gates, the daemon, stacked requests, the supervision of an admission
command, the delays after failed reads and the rebuilt history.

What is left to the model checker is listed above. A repair of finding 1 (the row
appended in the critical section that reads its index) would make `RecordsApart` an
invariant of `Train` and discharge the hypothesis of the theorems that have it.
