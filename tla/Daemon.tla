------------------------------- MODULE Daemon -------------------------------
(***************************************************************************)
(* The automatic train (src/svrf/daemon.py) under `svrf watch` (cli.py):   *)
(* ticks that list the open pull requests, read heads on an executor that  *)
(* outlives a tick, receive the answers in whatever order they come, hand  *)
(* admitted heads to the batched train, repair, re-land or hold the        *)
(* others, and remember what is held; drains, a changed configuration, a   *)
(* stop request, the death of the process and `svrf forget`.               *)
(*                                                                         *)
(* The v-th head of pull request n is <<n, v>>.  A base is a commit of the *)
(* base branch: its number, what the paths a hold may depend on contain,   *)
(* and the heads it contains.  The train itself is Train: here a run lands *)
(* or hands back each member of its batch.  Pull requests against other    *)
(* branches, drafts, forks and labels never become candidates and are left *)
(* out, priorities choose among candidates and are any choice.             *)
(***************************************************************************)
EXTENDS Integers, Sequences, FiniteSets

CONSTANTS
  Numbers,        \* the pull requests
  Jobs,           \* admission_jobs
  Capacities,     \* what admission_capacity_command may answer
  Guards,         \* whether gates and reads share a memory guard
  MaxRounds,      \* max_rounds of the train
  Heads,          \* how many heads each pull request may have
  Unordered,      \* the pull requests whose history the admission may find unordered
  Touching,       \* the pull requests whose landing changes a path that holds depend on
  Disturbances,   \* which disturbances of Slip may happen,
  Most            \* and how many of them in all

Slip == {"fail",     \* a read or a write fails before its effect
         "push",     \* an author pushes a head
         "close",    \* somebody closes a pull request
         "commit",   \* the base branch moves
         "reload",   \* the configuration on file changes
         "forget",   \* `svrf forget`
         "stop",     \* SIGTERM or SIGINT
         "crash"}    \* the process dies and is started again

ASSUME NumbersAssumption == IsFiniteSet(Numbers) /\ Numbers \subseteq Nat \ {0}
ASSUME JobsAssumption == Jobs \in Nat \ {0} /\ Capacities \subseteq Nat /\ Guards \subseteq BOOLEAN
ASSUME DisturbanceAssumption ==
  /\ Heads \in [Numbers -> Nat \ {0}] /\ MaxRounds \in Nat \ {0}
  /\ Unordered \subseteq Numbers /\ Touching \subseteq Numbers /\ Disturbances \subseteq Slip /\ Most \in Nat

VARIABLES
  \* the remote: heads, pull requests, ordered successors, the base branch
  head, status, successor, base, left,
  \* the watch loop, and the memory on disk
  config, wanted, stop, disk,
  \* the tick
  pc, stages, guard, slots, held, rows, basis, baseNow, queue, cands, seen, deferred, kept, stopped,
  \* the reads in flight, the threads that make them, the group received, the batch
  inflight, running, cohort, group, batch, at,
  \* what admission answered: a history the properties read and nothing else does
  approved, refused

remote == <<head, status, successor, base>>
watch  == <<config, wanted, stop>>
found  == <<rows, basis, baseNow, queue, cands, seen, deferred, kept>>
reads  == <<inflight, running, cohort, group, batch>>
answers == <<approved, refused>>
vars == <<remote, left, watch, disk, pc, stages, guard, slots, held, found, stopped, reads, at, answers>>

---------------------------------------------------------------------------
Slips(e) == e \in Disturbances /\ left > 0 /\ left' = left - 1
Steady == UNCHANGED left

NoBase == [sha |-> 0, content |-> 0, carries |-> {}]
Nobody == [n |-> 0, head |-> 0, base |-> NoBase, back |-> "idle"]

IsHead(n, v) == status[n] = "open" /\ head[n] = v
Least(S) == CHOOSE x \in S : \A y \in S : x <= y

Reading == {r.n : r \in inflight}
Done == {r.n : r \in {s \in inflight : s.answer # "none"}}
Read(n) == CHOOSE r \in inflight : r.n = n
Without(n) == {r \in inflight : r.n # n}

Forgetting(n) == {e \in held : e.n # n}

\* watch_digest: what the watched paths contain on a base.
Digest(b) == b.content

\* hold: what is remembered of a refused head: the base it was judged on (sha, and
\* what the watched paths contain there), the digest of those paths that was read
\* (0: it could not be) and the configuration.
Hold(n, v, kind, b, digest) ==
  [n |-> n, head |-> v, kind |-> kind, sha |-> b.sha, content |-> Digest(b),
   digest |-> digest, config |-> config]

Goto(label) == pc' = label /\ UNCHANGED stages
NextStage == pc' = Head(stages) /\ stages' = Tail(stages)
FirstList == stages = <<"wait">>
Back == pc' = at.back /\ at' = Nobody /\ UNCHANGED stages

\* What a discovery read is not used after it.
Discovered == rows' = [n \in Numbers |-> 0] /\ basis' = NoBase /\ baseNow' = NoBase /\ kept' = {}

\* The answers that matter after a tick: of reads not received, and behind a hold.
Answered(memory, live) ==
  /\ approved' = {a \in approved : a[1] \in live}
  /\ refused' = {f \in refused : f.n \in live \/ \E e \in memory : e.n = f.n}

NewTick ==
  /\ Discovered /\ queue' = {} /\ cands' = {} /\ seen' = {} /\ deferred' = FALSE
  /\ cohort' = {} /\ group' = {} /\ batch' = {} /\ stopped' = FALSE
  /\ stages' = <<>> /\ slots' = 0 /\ at' = Nobody

Init ==
  /\ head = [n \in Numbers |-> 1] /\ status = [n \in Numbers |-> "open"]
  /\ successor = [n \in Numbers |-> 0]
  /\ base = [sha |-> 1, content |-> 1, carries |-> {}] /\ left = Most
  /\ config = 1 /\ wanted = 1 /\ stop = FALSE /\ disk = {}
  /\ pc = "idle" /\ stages = <<>> /\ guard \in Guards /\ slots = 0 /\ held = {}
  /\ rows = [n \in Numbers |-> 0] /\ basis = NoBase /\ baseNow = NoBase
  /\ queue = {} /\ cands = {} /\ seen = {} /\ deferred = FALSE /\ kept = {} /\ stopped = FALSE
  /\ inflight = {} /\ running = {} /\ cohort = {} /\ group = {} /\ batch = {} /\ at = Nobody
  /\ approved = {} /\ refused = {}

---------------------------------------------------------------------------
(* The watch loop: a tick, a drain, a new configuration, the end.          *)

Changed == wanted # config

\* load_state: a memory that cannot be read, or is something else, is an empty one.
StartTick ==
  /\ pc = "idle" /\ ~stop /\ ~Changed
  /\ \/ held' = disk /\ Steady
     \/ held' = {} /\ Slips("fail")
  /\ pc' = "list" /\ stages' = <<"wait">>
  /\ UNCHANGED <<remote, watch, disk, guard, slots, found, stopped, reads, at, answers>>

\* The tick ends: the memory is written and the reads in flight are kept.
EndTick ==
  /\ disk' = held /\ held' = {} /\ pc' = "idle" /\ NewTick /\ Answered(held, Reading)
  /\ UNCHANGED <<remote, watch, guard, inflight, running>>

\* _drain: what is done goes to a receipt, without effects, and the memory on disk is read
\* and written back.  Also while the file with the configuration cannot be read.
DrainingChanged == Changed                    \* mutant: a stop request alone drains nothing
Draining == stop \/ Changed

DrainTick ==
  /\ pc = "idle" /\ Done # {}
  /\ \/ Draining /\ Steady /\ UNCHANGED disk
     \/ Slips("fail") /\ (UNCHANGED disk \/ (Draining /\ disk' = {}))
  /\ inflight' = {r \in inflight : r.answer = "none"}
  /\ UNCHANGED <<remote, watch, pc, stages, guard, slots, held, found, stopped, running,
                 cohort, group, batch, at, answers>>

ReloadedAtOnce == Changed                     \* mutant: reads in flight are not waited for
Reloadable == Changed /\ inflight = {}

Reload ==
  /\ pc = "idle" /\ ~stop /\ Reloadable
  /\ config' = wanted /\ inflight' = {}
  /\ UNCHANGED <<remote, left, wanted, stop, disk, pc, stages, guard, slots, held, found, stopped,
                 running, cohort, group, batch, at, answers>>

Exit ==
  /\ pc = "idle" /\ stop /\ inflight = {}
  /\ pc' = "exited"
  /\ UNCHANGED <<remote, left, watch, disk, stages, guard, slots, held, found, stopped, reads, at, answers>>

---------------------------------------------------------------------------
(* Discovery: one list, the base, one decision for every row.              *)

\* A read is cancelled when its head is positively not the head of an open pull
\* request any more: another head is listed, or its own endpoint says closed.
Listed == [n \in Numbers |-> IF status[n] = "open" THEN head[n] ELSE 0]
Replaced(r, listed) == listed[r.n] # 0 /\ listed[r.n] # r.head
Cancelled(r, obsolete) ==
  IF r \in obsolete /\ r.answer = "none" THEN [r EXCEPT !.cancelled = TRUE] ELSE r

ListUnread ==
  /\ pc = "list" /\ Slips("fail")
  /\ \/ FirstList /\ EndTick
     \/ /\ ~FirstList /\ NextStage
        /\ UNCHANGED <<remote, watch, disk, guard, slots, held, found, stopped, reads, at, answers>>

List ==
  /\ pc = "list"
  /\ rows' = Listed
  /\ LET moved == {r \in inflight : Replaced(r, Listed)}
         gone == {r \in inflight : Listed[r.n] = 0}
     IN \/ inflight' = {Cancelled(r, moved \union gone) : r \in inflight} /\ Steady
        \/ gone # {} /\ inflight' = {Cancelled(r, moved) : r \in inflight} /\ Slips("fail")
  /\ held' = {e \in held : Listed[e.n] # 0}
  /\ Goto("base")
  /\ UNCHANGED <<remote, watch, disk, guard, slots, basis, baseNow, queue, cands, seen, deferred,
                 kept, stopped, running, cohort, group, batch, at, answers>>

ReadBase ==
  /\ pc = "base"
  /\ \/ basis' = base /\ Steady
     \/ basis' = NoBase /\ Slips("fail")
  /\ queue' = {n \in Numbers : rows[n] # 0 /\ n \notin Reading /\ <<n, rows[n]>> \notin seen}
  /\ baseNow' = NoBase /\ cands' = {}
  /\ Goto("observe")
  /\ UNCHANGED <<remote, watch, disk, guard, slots, held, rows, seen, deferred, kept, stopped,
                 reads, at, answers>>

Row == Least(queue)
Remembered(n) == {e \in held : e.n = n /\ e.head = rows[n]}
CurrentBase == IF baseNow.sha = 0 THEN base ELSE baseNow

\* watch_digest and held_retry: is what the verdict of e read still there?  A native
\* conflict is bound to the base commit, another refusal to the configuration and to
\* what the paths it read contain, a hold of the train to its head alone.  A digest
\* that could not be read is recovered from the commit it was due on.
RecoveredNow(e, b) == IF e.digest = 0 THEN Digest(b) ELSE e.digest   \* mutant: from the base now
Recovered(e, b) == IF e.digest = 0 THEN e.content ELSE e.digest
DueBySha(e, b) ==                             \* mutant: any commit to the base reopens
  \/ e.kind = "native" /\ e.sha # b.sha
  \/ e.kind = "watched" /\ (e.config # config \/ e.sha # b.sha)
Due(e, b) ==
  \/ e.kind = "native" /\ e.sha # b.sha
  \/ e.kind = "watched" /\ (e.config # config \/ (e.sha # b.sha /\ Recovered(e, b) # Digest(b)))

\* The base moved elsewhere: the hold follows it.
Following(e, b) ==
  IF e.kind = "watched" THEN [e EXCEPT !.digest = Recovered(e, b), !.sha = b.sha, !.content = Digest(b)]
  ELSE e

\* Decided without a read of the base, or on the base read once for all rows.
ReadsBase(e) == e.kind = "native" \/ (e.kind = "watched" /\ e.config = config)

\* Its head is on the base that was read before the rows were.
Contained == <<Row, rows[Row]>> \in basis.carries

ObserveContained ==
  /\ pc = "observe" /\ queue # {} /\ Contained
  /\ at' = [n |-> Row, head |-> rows[Row], base |-> basis, back |-> "observe"]
  /\ held' = Forgetting(Row) /\ queue' = queue \ {Row}
  /\ Goto("forward")
  /\ UNCHANGED <<remote, left, watch, disk, guard, slots, rows, basis, baseNow, cands, seen,
                 deferred, kept, stopped, reads, answers>>

Observe ==
  /\ pc = "observe" /\ queue # {} /\ ~Contained
  /\ queue' = queue \ {Row}
  /\ \/ /\ Remembered(Row) = {}
        /\ cands' = cands \union {Row} /\ Steady
        /\ UNCHANGED <<held, baseNow, kept>>
     \/ \E e \in Remembered(Row) :
          \/ /\ Due(e, CurrentBase)
             /\ cands' = cands \union {Row} /\ Steady
             /\ baseNow' = IF ReadsBase(e) THEN CurrentBase ELSE baseNow
             /\ UNCHANGED <<held, kept>>
          \/ /\ ~Due(e, CurrentBase)
             /\ kept' = kept \union {Row} /\ Steady
             /\ held' = Forgetting(Row) \union {Following(e, CurrentBase)}
             /\ baseNow' = IF ReadsBase(e) THEN CurrentBase ELSE baseNow
             /\ UNCHANGED cands
          \/ /\ ReadsBase(e) /\ Slips("fail")
             /\ kept' = kept \union {Row}
             /\ UNCHANGED <<held, baseNow, cands>>
  /\ UNCHANGED <<remote, watch, disk, pc, stages, guard, slots, rows, basis, seen, deferred,
                 stopped, reads, at, answers>>

---------------------------------------------------------------------------
(* Slots, staging, submission.                                             *)

Smaller(x, y) == IF x < y THEN x ELSE y
Free(n) == IF n > Cardinality(inflight) THEN n - Cardinality(inflight) ELSE 0

\* _owned_candidates: as many as there are free slots, in an order priorities decide.
Owned(wanting, width) ==
  {taken \in SUBSET wanting : Cardinality(taken) = Smaller(Free(width), Cardinality(wanting))}

Width(capacity) == Smaller(Jobs, capacity)

\* Nothing to do, or no capacity and nothing in flight: the tick is over.
Idle ==
  /\ pc = "observe" /\ queue = {} /\ FirstList /\ inflight = {}
  /\ cands = {} \/ 0 \in Capacities
  /\ EndTick /\ Steady

\* Some candidates take the free slots, the others are left to a later discovery; the
\* base they are read against is fetched with them.
Choose ==
  /\ pc = "observe" /\ queue = {}
  /\ \E capacity \in IF FirstList /\ cands # {} THEN Capacities ELSE {Jobs} :
       LET width == IF FirstList THEN Width(capacity) ELSE slots
           wanting == IF width = 0 THEN {} ELSE cands
       IN /\ ~(FirstList /\ inflight = {} /\ wanting = {})
          /\ slots' = width
          /\ \E taken \in Owned(wanting, width) :
               /\ deferred' = (taken # wanting)
               /\ cands' = taken
               /\ seen' = seen \union {<<n, rows[n]>> : n \in taken}
                               \union (IF FirstList THEN {<<r.n, r.head>> : r \in inflight} ELSE {})
  /\ Steady /\ Goto("stage")
  /\ UNCHANGED <<remote, watch, disk, guard, held, rows, basis, baseNow, queue, kept, stopped,
                 reads, at, answers>>

Stage ==
  /\ pc = "stage"
  /\ IF cands = {} THEN basis' = basis ELSE basis' = base
  /\ Steady /\ Goto("submit")
  /\ UNCHANGED <<remote, watch, disk, guard, slots, held, rows, baseNow, queue, cands, seen,
                 deferred, kept, stopped, reads, at, answers>>

StageUnread ==
  /\ pc = "stage" /\ cands # {} /\ Slips("fail")
  /\ \/ FirstList /\ EndTick
     \/ /\ ~FirstList /\ NextStage
        /\ cands' = {} /\ seen' = seen \ {<<n, rows[n]>> : n \in cands}
        /\ UNCHANGED <<remote, watch, disk, guard, slots, held, rows, basis, baseNow, queue,
                       deferred, kept, stopped, reads, at, answers>>

NewRead(n, v, b, reland) ==
  [n |-> n, head |-> v, base |-> b, reland |-> reland, answer |-> "none", cancelled |-> FALSE]

StopAsked == stop

Submit ==
  /\ pc = "submit"
  /\ IF cands = {} \/ StopAsked
     THEN /\ NextStage /\ cands' = {} /\ Discovered
          /\ UNCHANGED <<inflight, running>>
     ELSE LET n == Least(cands)
          IN /\ inflight' = inflight \union {NewRead(n, rows[n], basis, FALSE)}
             /\ running' = running \union {n} /\ cands' = cands \ {n}
             /\ Goto("submit") /\ UNCHANGED <<rows, basis, baseNow, kept>>
  /\ UNCHANGED <<remote, left, watch, disk, guard, slots, held, queue, seen, deferred, stopped,
                 cohort, group, batch, at, answers>>

\* A thread of the executor: the admission of a head on a base, or of the rebuilt
\* history of a head.  Anything may go wrong, also after a cancellation.
Answers(r) ==
  CASE r.reland -> {"mergeable", "hold", "unread"}
    [] ~r.reland /\ <<r.n, r.head>> \in r.base.carries -> {"landed", "unread"}
    [] OTHER -> {"mergeable", "hold", "native", "repair", "unread"}
                  \union (IF r.n \in Unordered THEN {"reland"} ELSE {})

Finish(n) ==
  /\ n \in running /\ running' = running \ {n}
  /\ \E r \in inflight : \E answer \in Answers(r) :
       /\ r.n = n
       /\ inflight' = Without(n) \union {[r EXCEPT !.answer = answer]}
       /\ approved' = approved \union
            (IF answer = "mergeable" /\ (r.reland => IsHead(n, r.head)) THEN {<<n, r.head, r.reland>>} ELSE {})
       /\ refused' = refused \union
            (IF answer \in {"hold", "native"}
             THEN {[n |-> n, head |-> r.head, sha |-> r.base.sha, content |-> r.base.content, config |-> config]}
             ELSE {})
  /\ UNCHANGED <<remote, left, watch, disk, pc, stages, guard, slots, held, found, stopped, cohort,
                 group, batch, at>>

---------------------------------------------------------------------------
(* The loop of a tick: wait, receive, land, refill, save.                  *)

\* The deadline, or nothing left to wait for: what is in flight stays in flight.
EndLoop ==
  /\ pc = "wait" /\ (inflight = {} \/ stop \/ Done = {})
  /\ EndTick /\ Steady

Wait ==
  /\ pc = "wait" /\ ~stop /\ Done # {}
  /\ group' = Done /\ cohort' = Reading \ Done /\ batch' = {}
  /\ pc' = "receive"
  /\ stages' = IF guard THEN <<"ready", "land", "refill", "save">> ELSE <<"refill", "ready", "land", "save">>
  /\ UNCHANGED <<remote, left, watch, disk, guard, slots, held, found, stopped, inflight, running,
                 at, answers>>

\* land_batch first receives what of the group waited for is done by now.
Ready ==
  /\ pc = "ready"
  /\ group' = (IF stop THEN {} ELSE cohort \intersect Done) /\ cohort' = {}
  /\ Goto("receive")
  /\ UNCHANGED <<remote, left, watch, disk, guard, slots, held, found, stopped, inflight, running,
                 batch, at, answers>>

Received ==
  /\ pc = "receive" /\ (group = {} \/ stop)
  /\ group' = {} /\ NextStage
  /\ UNCHANGED <<remote, left, watch, disk, guard, slots, held, found, stopped, inflight, running,
                 cohort, batch, at, answers>>

At(r, back) == [n |-> r.n, head |-> r.head, base |-> r.base, back |-> back]

\* The head a verdict is about is the head that was read, whatever is listed now.
AdmittedAsListed(r) == [n |-> r.n, head |-> head[r.n]]   \* mutant: the head it has now
Admitted(r) == [n |-> r.n, head |-> r.head]

\* What a refused read leaves: bound to the base it was judged on.
WatchedNow(r, digest) == Hold(r.n, r.head, "watched", base, digest)   \* mutant: the base now
Watched(r, digest) == Hold(r.n, r.head, "watched", r.base, digest)

Verdict(r, answer) == ~r.reland /\ ~r.cancelled /\ r.answer = answer

\* receive, one answer of the group.
ReceiveNothing(r) ==                          \* cancelled, not read, or too late
  /\ r.cancelled \/ r.answer = "unread" \/ (r.reland /\ stopped)
  /\ UNCHANGED <<held, batch, at>> /\ Goto("receive") /\ Steady

ReceiveAdmitted(r) ==
  /\ Verdict(r, "mergeable")
  /\ held' = Forgetting(r.n) /\ batch' = batch \union {Admitted(r)}
  /\ UNCHANGED at /\ Goto("receive") /\ Steady

\* A stopped train stops later groups: the verdict is asked for again another time.
ReceiveStopped(r) ==
  /\ stopped /\ \E answer \in {"landed", "repair", "reland", "hold", "native"} : Verdict(r, answer)
  /\ held' = Forgetting(r.n)
  /\ UNCHANGED <<batch, at>> /\ Goto("receive") /\ Steady

\* close_merged, repair and reland go on from here.
ReceiveEffect(r) ==
  /\ ~stopped
  /\ \E verdict \in {<<"landed", "forward">>, <<"repair", "repair">>, <<"reland", "reland">>} :
       Verdict(r, verdict[1]) /\ Goto(verdict[2])
  /\ held' = Forgetting(r.n) /\ at' = At(r, "receive")
  /\ UNCHANGED batch /\ Steady

ReceiveHold(r) ==
  /\ ~stopped
  /\ \/ \E digest \in {0, Digest(r.base)} :
          /\ Verdict(r, "hold") \/ (r.reland /\ ~r.cancelled /\ r.answer = "hold")
          /\ IF digest = 0 THEN Slips("fail") ELSE Steady
          /\ held' = Forgetting(r.n) \union {Watched(r, digest)}
     \/ /\ Verdict(r, "native") /\ Steady
        /\ held' = Forgetting(r.n) \union {Hold(r.n, r.head, "native", r.base, 0)}
  /\ UNCHANGED <<batch, at>> /\ Goto("receive")

AcceptedUnread(r) == r.answer # "hold"        \* mutant: a read that failed accepts as well
Accepted(r) == r.answer = "mergeable"

ReceiveRebuilt(r) ==
  /\ r.reland /\ ~r.cancelled /\ ~stopped /\ Accepted(r)
  /\ at' = At(r, "receive") /\ Goto("revalidate") /\ Steady
  /\ UNCHANGED <<held, batch>>

Receive ==
  /\ pc = "receive" /\ group # {} /\ ~stop
  /\ LET r == Read(Least(group))
     IN /\ group' = group \ {r.n} /\ inflight' = Without(r.n)
        /\ \/ ReceiveNothing(r) \/ ReceiveAdmitted(r) \/ ReceiveStopped(r)
           \/ ReceiveEffect(r) \/ ReceiveHold(r) \/ ReceiveRebuilt(r)
  /\ UNCHANGED <<remote, watch, disk, guard, slots, found, stopped, running, cohort, answers>>

\* Refill, when the round left candidates and a slot is free; unless the deadline passed.
Refill ==
  /\ pc = "refill"
  /\ \/ /\ deferred /\ slots > Cardinality(inflight) /\ ~stopped /\ ~stop
        /\ deferred' = FALSE /\ Goto("list")
     \/ NextStage /\ UNCHANGED deferred
  /\ UNCHANGED <<remote, left, watch, disk, guard, slots, held, rows, basis, baseNow, queue, cands,
                 seen, kept, stopped, reads, at, answers>>

Save ==
  /\ pc = "save"
  /\ disk' = held /\ pc' = "wait" /\ stages' = <<>>
  /\ UNCHANGED <<remote, left, watch, guard, slots, held, found, stopped, reads, at, answers>>

---------------------------------------------------------------------------
(* Landing: a run of the train, which tells its receipt while it runs.     *)

LandsAnyway == TRUE                           \* mutant: a later group lands after a stop
MayLand == ~stopped

Land ==
  /\ pc = "land"
  /\ IF batch = {} \/ ~MayLand
     THEN NextStage /\ batch' = {} /\ UNCHANGED disk
     ELSE Goto("train") /\ disk' = held /\ UNCHANGED batch
  /\ UNCHANGED <<remote, left, watch, guard, slots, held, found, stopped, inflight, running, cohort,
                 group, at, answers>>

\* The head of the row it was given, or, in a later round, the head it listed itself.
LandsHead(m) == status[m.n] = "open" /\ (head[m.n] = m.head \/ MaxRounds > 1)

Containing(n) ==
  [sha |-> base.sha + 1, carries |-> base.carries \union {<<n, head[n]>>},
   content |-> IF n \in Touching THEN base.content + 1 ELSE base.content]

Train ==
  /\ pc = "train"
  /\ \E m \in batch :
       /\ LandsHead(m) /\ batch' = batch \ {m}
       /\ base' = Containing(m.n) /\ status' = [status EXCEPT ![m.n] = "merged"]
  /\ UNCHANGED <<head, successor, left, watch, disk, pc, stages, guard, slots, held, found, stopped,
                 inflight, running, cohort, group, at, answers>>

\* The run ends, perhaps at a tree that is not the planned one, and its receipt holds,
\* hands back for a repair or names for a retry what did not land.
TrainEnds ==
  /\ pc = "train" /\ stopped' \in BOOLEAN /\ Goto("outcome")
  /\ UNCHANGED <<remote, left, watch, disk, guard, slots, held, found, reads, at, answers>>

Outcome ==
  /\ pc = "outcome"
  /\ \E m \in batch :
       /\ batch' = batch \ {m}
       /\ \/ held' = Forgetting(m.n) \union {Hold(m.n, m.head, "train", NoBase, 0)} /\ UNCHANGED <<pc, at>>
          \/ /\ ~stop /\ pc' = "repair" /\ UNCHANGED held
             /\ at' = [n |-> m.n, head |-> m.head, base |-> NoBase, back |-> "outcome"]
          \/ UNCHANGED <<held, pc, at>>
  /\ UNCHANGED <<remote, left, watch, disk, stages, guard, slots, found, stopped, inflight, running,
                 cohort, group, answers>>

Landed ==
  /\ pc = "outcome" /\ batch = {} /\ NextStage
  /\ UNCHANGED <<remote, left, watch, disk, guard, slots, held, found, stopped, reads, at, answers>>

---------------------------------------------------------------------------
(* Repair, close_merged, reland: calls to git and GitHub that may fail.    *)

rest == <<watch, disk, guard, slots, found, stopped, inflight, running, cohort, group, batch, answers>>

Retry == Back /\ Steady /\ UNCHANGED <<remote, held>>

\* The base is merged into the head and pushed, never forced.
Repair ==
  /\ pc = "repair"
  /\ \/ Retry
     \/ /\ held' = Forgetting(at.n) \union {Hold(at.n, at.head, "train", NoBase, 0)}
        /\ Back /\ Steady /\ UNCHANGED remote
     \/ /\ IsHead(at.n, at.head) /\ head[at.n] < Heads[at.n]
        /\ head' = [head EXCEPT ![at.n] = @ + 1]
        /\ held' = Forgetting(at.n)
        /\ Back /\ Steady /\ UNCHANGED <<status, successor, base>>
  /\ UNCHANGED rest

\* The branch is forwarded to the base the head is in: refused when the branch has
\* moved past it, or is protected.  GitHub then records the pull request as merged.
Forward ==
  /\ pc = "forward"
  /\ \/ /\ <<at.n, head[at.n]>> \in at.base.carries
        /\ status' = [status EXCEPT ![at.n] = IF @ = "open" THEN "merged" ELSE @]
        /\ Back /\ Steady /\ UNCHANGED <<head, successor, base, held>>
     \/ Goto("close") /\ Steady /\ UNCHANGED <<remote, held, at>>
  /\ UNCHANGED rest

Closed(n) == status' = [status EXCEPT ![n] = IF @ = "open" THEN "closed" ELSE @]

Close ==
  /\ pc = "close"
  /\ \/ Closed(at.n) /\ Back /\ Steady /\ UNCHANGED <<head, successor, base, held>>
     \/ Retry
  /\ UNCHANGED rest

\* The head's tree is rebuilt as an ordered history on the base, and that history is
\* read by the admission in the slot of the read just received.
Reland ==
  /\ pc = "reland"
  /\ \/ Retry /\ UNCHANGED <<inflight, running>>
     \/ /\ held' = Forgetting(at.n) \union {Hold(at.n, at.head, "train", NoBase, 0)}
        /\ Back /\ Steady /\ UNCHANGED <<remote, inflight, running>>
     \/ /\ ~StopAsked
        /\ inflight' = inflight \union {NewRead(at.n, at.head, base, TRUE)}
        /\ running' = running \union {at.n}
        /\ Back /\ Steady /\ UNCHANGED <<remote, held>>
     \/ /\ StopAsked  \* nothing was submitted, and the entry of its read is looked up
        /\ Goto("error") /\ Steady /\ UNCHANGED <<remote, held, at, inflight, running>>
  /\ UNCHANGED <<watch, disk, guard, slots, found, stopped, cohort, group, batch, answers>>

\* _reland_source: the accepted history is published for the source it was built from.
AnySource == TRUE                             \* mutant: the source is not looked at again
StillSource == IsHead(at.n, at.head)

Revalidate ==
  /\ pc = "revalidate"
  /\ \/ Retry
     \/ /\ StillSource /\ Goto("publish") /\ Steady
        /\ UNCHANGED <<remote, held, at>>
  /\ UNCHANGED rest

\* The ordered branch is pushed and opened as a pull request, once.
Publish ==
  /\ pc = "publish"
  /\ \/ /\ successor[at.n] = 0
        /\ successor' = [successor EXCEPT ![at.n] = at.head]
        /\ Goto("supersede") /\ Steady /\ UNCHANGED <<head, status, base, held, at>>
     \/ Retry
  /\ UNCHANGED rest

Supersede ==
  /\ pc = "supersede"
  /\ \/ /\ Closed(at.n) /\ held' = Forgetting(at.n)
        /\ Back /\ Steady /\ UNCHANGED <<head, successor, base>>
     \/ Back /\ Slips("fail") /\ UNCHANGED <<remote, held>>
  /\ UNCHANGED rest

Step ==
  \/ StartTick \/ DrainTick \/ Reload \/ Exit
  \/ List \/ ListUnread \/ ReadBase \/ ObserveContained \/ Observe
  \/ Idle \/ Choose \/ Stage \/ StageUnread \/ Submit
  \/ EndLoop \/ Wait \/ Ready \/ Received \/ Receive \/ Refill \/ Save \/ Land \/ Train \/ TrainEnds \/ Outcome \/ Landed
  \/ Repair \/ Forward \/ Close \/ Reland \/ Revalidate \/ Publish \/ Supersede

---------------------------------------------------------------------------
(* The process, its operator, the authors and the base branch.             *)

\* The process is gone, with its memory and its reads, and is started again.  An error
\* of a tick ends the watch loop as well, after the memory on disk is written back, or an
\* empty one if it cannot be read.
Restart ==
  /\ pc # "exited"
  /\ \/ pc = "error" /\ Steady /\ disk' \in {disk, {}}
     \/ pc # "error" /\ Slips("crash") /\ UNCHANGED disk
  /\ pc' = "idle" /\ NewTick /\ held' = {} /\ inflight' = {} /\ running' = {}
  /\ stop' = FALSE /\ config' = wanted /\ Answered(disk', {})
  /\ UNCHANGED <<remote, wanted, guard>>

process == <<disk, pc, stages, guard, slots, held, found, stopped, reads, at>>

RequestStop ==
  /\ ~stop /\ pc \notin {"error", "exited"} /\ Slips("stop") /\ stop' = TRUE
  /\ UNCHANGED <<remote, config, wanted, process, answers>>

\* The file is read between ticks only: an edit during a tick is one after it.
EditConfiguration ==
  /\ pc = "idle" /\ Slips("reload") /\ wanted' = wanted + 1
  /\ UNCHANGED <<remote, config, stop, process, answers>>

\* `svrf forget`, between two ticks: the tick has the owner lock.  It forgets more than it
\* was asked to when the memory cannot be read.
Forget ==
  /\ pc = "idle" /\ Slips("forget")
  /\ \E e \in disk : disk' \in {disk \ {e}, {}}
  /\ UNCHANGED <<remote, watch, pc, stages, guard, slots, held, found, stopped, reads, at, answers>>

\* What the admission said of a rebuilt history lapses with the source it was built from,
\* unless the train has looked at the source since and is publishing it.
Lapsed(n) ==
  /\ approved' = IF pc = "publish" /\ at.n = n THEN approved ELSE {a \in approved : ~(a[1] = n /\ a[3])}
  /\ UNCHANGED refused

Push(n) ==
  /\ status[n] = "open" /\ head[n] < Heads[n] /\ Slips("push")
  /\ head' = [head EXCEPT ![n] = @ + 1]
  /\ Lapsed(n) /\ UNCHANGED <<status, successor, base, watch, process>>

ClosedByHand(n) ==
  /\ status[n] = "open" /\ Slips("close")
  /\ status' = [status EXCEPT ![n] = "closed"]
  /\ Lapsed(n) /\ UNCHANGED <<head, successor, base, watch, process>>

\* A commit from outside: it touches what holds depend on, or contains a head (also one
\* that is on the base already: then it changes the commit and nothing else).
Commit ==
  /\ Slips("commit")
  /\ \/ base' = [base EXCEPT !.sha = @ + 1, !.content = @ + 1]
     \/ \E n \in Numbers : base' = Containing(n)
  /\ UNCHANGED <<head, status, successor, watch, process, answers>>

Ended == pc = "exited" /\ UNCHANGED vars

Next ==
  \/ Step \/ Restart \/ RequestStop \/ EditConfiguration \/ Forget \/ Commit \/ Ended
  \/ \E n \in Numbers : Finish(n) \/ Push(n) \/ ClosedByHand(n)

Spec == Init /\ [][Next]_vars

\* The watch loop goes on, and a read ends: its command has a timeout, and a stop
\* request or a cancellation ends it earlier.
FairSpec == Spec /\ WF_vars(Step) /\ \A n \in Numbers : WF_vars(Finish(n))

---------------------------------------------------------------------------
(* Properties.                                                             *)

HeadNumber == UNION {1..Heads[n] : n \in Numbers}
Base == [sha : Nat, content : Nat, carries : SUBSET (Numbers \X HeadNumber)]
Entry == [n : Numbers, head : HeadNumber, kind : {"watched", "native", "train"}, sha : Nat,
          content : Nat, digest : Nat, config : Nat]
ReadRecord == [n : Numbers, head : HeadNumber, base : Base, reland : BOOLEAN, cancelled : BOOLEAN,
         answer : {"none", "mergeable", "landed", "hold", "native", "repair", "reland", "unread"}]
Stages == {"ready", "land", "refill", "save", "wait"}
Labels == Stages \union {"idle", "list", "base", "observe", "stage", "submit", "receive", "train",
                         "outcome", "repair", "forward", "close", "reland", "revalidate", "publish",
                         "supersede", "error", "exited"}

TypeOK ==
  /\ head \in [Numbers -> HeadNumber] /\ status \in [Numbers -> {"open", "merged", "closed"}]
  /\ successor \in [Numbers -> HeadNumber \union {0}] /\ base \in Base /\ left \in Nat
  /\ config \in Nat /\ wanted \in Nat /\ stop \in BOOLEAN /\ disk \subseteq Entry /\ held \subseteq Entry
  /\ pc \in Labels /\ stages \in Seq(Stages) /\ guard \in BOOLEAN /\ slots \in 0..Jobs
  /\ rows \in [Numbers -> HeadNumber \union {0}] /\ basis \in Base /\ baseNow \in Base
  /\ queue \subseteq Numbers /\ cands \subseteq Numbers /\ seen \subseteq Numbers \X HeadNumber
  /\ deferred \in BOOLEAN /\ kept \subseteq Numbers /\ stopped \in BOOLEAN
  /\ inflight \subseteq ReadRecord /\ running \subseteq Numbers /\ cohort \subseteq Numbers
  /\ group \subseteq Numbers /\ batch \subseteq [n : Numbers, head : HeadNumber]
  /\ at.n \in Numbers \union {0} /\ at.head \in HeadNumber \union {0} /\ at.base \in Base /\ at.back \in Labels
  /\ approved \subseteq Numbers \X HeadNumber \X BOOLEAN

\* Every read that runs is owned and will be received or drained, a pull request has one
\* read at most, and the reads in flight never outnumber the admission slots, through
\* refills, rebuilt heads that take over a slot, ticks, drains and a new configuration.
Custody ==
  /\ running = {r.n : r \in {s \in inflight : s.answer = "none"}}
  /\ \A r, s \in inflight : r.n = s.n => r = s
  /\ Cardinality(inflight) <= Jobs

\* What is remembered, in memory or on disk, was judged: some read refused exactly this
\* head, on a base with this content and under this configuration (or the train held it).
\* A failed, cancelled or drained read leaves nothing (daemon.py, rounds 4 and 6).
Judged(e) ==
  \/ e.kind = "train"
  \/ \E f \in refused : /\ f.n = e.n /\ f.head = e.head /\ f.config = e.config /\ f.content = e.content
                        /\ e.kind = "native" => f.sha = e.sha
HoldsJudged == \A e \in held \union disk : Judged(e)

\* A head is passed over as held only while its verdict still stands: the base just read
\* has the content the refusal read, the configuration is the same (README, Memory).
HoldStands ==
  [][\A n \in kept' \ kept : \A e \in held :
       e.n = n /\ e.kind # "train" /\ left' = left =>
         \E f \in refused : /\ f.n = n /\ f.head = rows[n] /\ f.content = baseNow'.content
                            /\ e.kind = "native" => f.sha = baseNow'.sha
                            /\ e.kind = "watched" => f.config = config]_vars

\* ... and is read again only when its head, the configuration, the commit a native
\* conflict is bound to, or a path its verdict read has changed.
ReadAgainWhenDue ==
  [][\A n \in cands' \ cands : \A e \in held :
       e.n = n /\ e.head = rows[n] =>
         /\ e.kind # "train"
         /\ e.kind = "native" => e.sha # baseNow'.sha
         /\ e.kind = "watched" => e.config # config \/ e.content # baseNow'.content]_vars

\* After a train stopped on a tree that was not planned, the rest of the tick lands,
\* publishes, closes and reads nothing, and repairs only what that run handed back
\* (daemon.py, round 5).
Acting == {"train", "forward", "close", "reland", "revalidate", "publish", "supersede", "list", "submit"}
StoppedTrainStops == stopped => pc \notin Acting /\ (pc = "repair" => at.back = "outcome")

\* A successor is opened only for a head whose rebuilt history the admission accepted, and
\* which nobody pushed over or closed from then on, or before: up to the last look at it
\* (daemon.py, _reland_source), however long that second read took.
SuccessorAccepted ==
  [][\A n \in Numbers : successor'[n] # successor[n] => <<n, successor'[n], TRUE>> \in approved]_vars

\* A head that lands was read by the admission: no author's later push slips in between
\* the read, the batch and the landing, and no landing uses an answer of an earlier tick (README, How
\* a round works, 2).
OnlyReadHeadsLand ==
  [][\A n \in Numbers : pc = "train" /\ status[n] = "open" /\ status'[n] = "merged"
       => <<n, head[n], FALSE>> \in approved]_vars

\* An owner asked to stop drains what it started and exits, unless it is killed, or a
\* re-landing fails for want of its read: what that run leaves is OwnedUntilDrained.
StopExits == stop ~> (pc \in {"exited", "error"} \/ ~stop)

\* A stop request leaves no read behind: original futures remain owned until drained
\* (daemon.py, request_stop), and an owner retires only after its work drains (cli.py, _watch).
OwnedUntilDrained == stop /\ pc \in {"exited", "error"} => inflight = {}

\* A pull request closed as already merged is: every commit of its head is on the base.
ClosedIsCarried ==
  [][\A n \in Numbers : pc = "close" /\ status[n] = "open" /\ status'[n] = "closed"
       => <<n, head[n]>> \in base.carries]_vars
=============================================================================
