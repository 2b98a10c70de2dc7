---------------------------- MODULE AdmissionRetry ----------------------------
(***************************************************************************)
(* What follows a failed admission read: the attempt and the progress its  *)
(* command reports (src/svrf/admission_attempt.py), the ledger of failures *)
(* in the state file (admission_retry.py), and the ticks that wait instead *)
(* of reading again (daemon.py, _defer_reads, _submit and save).           *)
(*                                                                         *)
(* One pull request: the rows of the ledger do not depend on each other.   *)
(* A source is all that an occurrence key digests: head, base, command,    *)
(* environment and watched paths.  Time counts units of 30 seconds and is  *)
(* kept as what is left of a delay.  An attempt leaves the owner's hands   *)
(* in the step that counts it, so attempts need no names here.             *)
(***************************************************************************)
EXTENDS Integers, Sequences, FiniteSets, SequencesExt

CONSTANTS
  Sources,     \* the occurrence keys the pull request may have,
  RebuiltHead, \* the one of its rebuilt history, read under the same number
  Work,        \* the work ids a command may report
  Reasons,     \* why a read may fail
  Changes,     \* how often the source, or whether it is observed, may change
  Slips,       \* how many reads and writes of the train may fail, and how often it dies
  Late,        \* how many units of time may pass before a finished read is saved
  MostCounted  \* where the counters stop (the code's do not; from 8 on a delay is 900 s)

ASSUME SourcesAssumption == IsFiniteSet(Sources) /\ RebuiltHead \notin Sources
ASSUME BoundsAssumption == Changes \in Nat /\ Slips \in Nat /\ Late \in Nat /\ MostCounted \in Nat \ (0..2)

VARIABLES
  source, observed, open, changes, slips,   \* the pull request and its source, as they are
  disk,                                     \* the state file: the row, and its history
  readable,                                 \* FALSE from a load that fails to the next save
  pc, mem, basis, pending, flying           \* a tick, its copy of the state, attempts not counted

world == <<source, observed, open, changes>>
vars == <<world, slips, disk, readable, pc, mem, basis, pending, flying>>

---------------------------------------------------------------------------
(* The progress file.  A line names its kind, or the work id it reports;   *)
(* "other" is a line that is torn, or breaks the schema, the sequence, the *)
(* digests or the source: the reasons a file is refused for are one reason *)
(* here, and a terminal that does not fit a failed read is no terminal.    *)

Lines == {"begin", "failed", "other"} \cup Work
MaxLines == 3
File == BoundedSeq(Lines, MaxLines) \ {<<>>}

Unread(r) == [reason |-> r, work |-> {}, end |-> "none"]

\* _decode_progress, _summarize_progress and read_progress of a file f.
Valid(f) ==
  /\ f[1] = "begin" /\ "other" \notin Range(f)
  /\ \A i \in 2..Len(f) : f[i] # "begin" /\ f[i - 1] # "failed"

Progress(f) ==
  IF ~Valid(f) THEN Unread("INVALID")
  ELSE [reason |-> "none", work |-> Range(f) \cap Work,
        end |-> IF Last(f) = "failed" THEN "failed" ELSE "none"]

Reports == {Progress(f) : f \in File} \cup {Unread("ABSENT")}

---------------------------------------------------------------------------
(* The ledger.                                                             *)

NoRow == [source |-> "none"]
Smaller(a, b) == IF a < b THEN a ELSE b
Greater(a, b) == IF a > b THEN a ELSE b

\* 30 seconds after the third failure, doubled by each one more, 900 at the most.
Delay(c) == Smaller(30, 2 ^ Smaller(c - 3, 5))
Count(c) == Smaller(MostCounted, c)

\* A read of the source itself ended without an observed terminal of a failure.
Complete(a) == a.observed /\ a.report.reason = "none" /\ a.report.end = "failed"
Unknown(a) ==
  IF a.report.reason # "none" THEN a.report.reason
  ELSE IF a.report.end = "none" THEN "TERMINAL_UNOBSERVED" ELSE "TERMINAL_NOT_QUALIFIED"

\* The row before, if it is of the same source.
PreviousAny(row, a) == row                    \* mutant: failures of any source count
Previous(row, a) == IF row # NoRow /\ row.source = a.source THEN row ELSE NoRow

Row(a, work, count, unknown, why, due) ==
  [source |-> a.source, reason |-> a.reason, work |-> work, count |-> count,
   unknown |-> unknown, why |-> why, left |-> IF due THEN Greater(0, Delay(Greater(count, unknown)) - a.age) ELSE 0]

FailedAgain(row, a) ==
  LET before == Previous(row, a)
      sameReason == before # NoRow /\ before.reason = a.reason
      known == IF before = NoRow THEN {} ELSE before.work
      count == IF a.report.work \ known # {} THEN 0
               ELSE Count((IF sameReason THEN before.count ELSE 0) + 1)
      unknown == Count((IF sameReason /\ before.why = Unknown(a) THEN before.unknown ELSE 0) + 1)
  IN IF Complete(a) THEN Row(a, known \cup a.report.work, count, 0, "none", count >= 3)
     ELSE Row(a, known, 0, unknown, Unknown(a), unknown >= 3 /\ a.observed)

\* retain_failure
Retained(row, a) == IF a.failed THEN FailedAgain(row, a) ELSE NoRow

\* A history for the properties: how many failed attempts in a row (up to three) were alike
\* and reported no work that no attempt on their source had reported before.
Kind(a) == [source |-> a.source, reason |-> a.reason, unknown |-> IF Complete(a) THEN "none" ELSE Unknown(a)]
Fresh(a, done) == Complete(a) /\ a.report.work \ done[a.source] # {}
NoStreak == [kind |-> [source |-> "none"], length |-> 0]
Streak(m, a) ==
  IF ~a.failed \/ Fresh(a, m.done) THEN NoStreak
  ELSE [kind |-> Kind(a), length |-> IF m.streak.kind = Kind(a) THEN Smaller(3, m.streak.length + 1) ELSE 1]

Kept(m, a) ==
  [row |-> Retained(m.row, a), streak |-> Streak(m, a),
   done |-> [m.done EXCEPT ![a.source] = @ \cup a.report.work]]

---------------------------------------------------------------------------
Empty == [row |-> NoRow, streak |-> NoStreak, done |-> [s \in Sources \cup {RebuiltHead} |-> {}]]

Slip == slips > 0 /\ slips' = slips - 1
Steady == UNCHANGED slips
Changing == changes > 0 /\ changes' = changes - 1
Goto(label) == pc' = label

Init ==
  /\ source \in Sources /\ observed = TRUE /\ open = TRUE /\ changes = Changes /\ slips = Slips
  /\ disk = Empty /\ readable = TRUE /\ pc = "idle" /\ mem = Empty /\ basis = RebuiltHead
  /\ pending = <<>> /\ flying = "none"

\* An author, a new base, another configuration or environment; a value that cannot be read.
Change ==
  /\ Changing
  /\ \/ source' \in Sources \ {source} /\ UNCHANGED <<observed, open>>
     \/ observed' = ~observed /\ UNCHANGED <<source, open>>
     \/ open' = ~open /\ UNCHANGED <<source, observed>>
  /\ UNCHANGED <<slips, disk, readable, pc, mem, basis, pending, flying>>

Aged(m) == IF m.row = NoRow THEN m ELSE [m EXCEPT !.row.left = Greater(0, @ - 1)]

\* A unit of time passes; the delay of an attempt runs from its end.
Pass ==
  /\ disk.row # NoRow /\ disk.row.left > 0 /\ \A i \in DOMAIN pending : pending[i].age < Late
  /\ disk' = Aged(disk) /\ mem' = Aged(mem)
  /\ pending' = [i \in DOMAIN pending |->
                   IF pending[i].finished THEN [pending[i] EXCEPT !.age = @ + 1] ELSE pending[i]]
  /\ UNCHANGED <<world, slips, readable, pc, basis, flying>>

---------------------------------------------------------------------------
(* The tick.                                                               *)

\* load_state: a file that cannot be read, or holds something else, is taken for an empty
\* memory, which the tick goes on with and saves.
StartTick ==
  /\ pc = "idle" /\ Goto("list") /\ mem' = disk /\ readable' = TRUE
  /\ UNCHANGED <<world, slips, disk, basis, pending, flying>>

StartTickUnread ==
  /\ pc = "idle" /\ Slip /\ Goto("list") /\ mem' = Empty /\ readable' = FALSE
  /\ UNCHANGED <<world, disk, basis, pending, flying>>

Due == mem.row = NoRow \/ mem.row.left = 0

\* The pull requests as listed: one that is gone loses its row.
ForgottenUnlisted == mem' = [mem EXCEPT !.row = NoRow]   \* mutant: a failed list forgets the row
Forgotten == UNCHANGED mem

ListFails ==
  /\ pc = "list" /\ Slip /\ Forgotten /\ Goto("save")
  /\ UNCHANGED <<world, disk, readable, basis, pending, flying>>

List ==
  /\ pc = "list" /\ Steady
  /\ mem' = IF open THEN mem ELSE [mem EXCEPT !.row = NoRow]
  /\ Goto(IF flying # "none" THEN "wait" ELSE IF ~open THEN "save" ELSE IF Due THEN "stage" ELSE "defer")
  /\ UNCHANGED <<world, disk, readable, basis, pending, flying>>

StageFails ==
  /\ pc \in {"defer", "stage"} /\ Slip /\ Goto("save")
  /\ UNCHANGED <<world, disk, readable, mem, basis, pending, flying>>

\* _defer_reads: the delay is of the source as it is now, and that source is observed.
DelayedHere == observed /\ source = mem.row.source
WaitFull == [mem EXCEPT !.row.left = Delay(Greater(mem.row.count, mem.row.unknown))]   \* mutant: the delay starts again
WaitOn == mem

Defer ==
  /\ pc = "defer" /\ DelayedHere /\ basis' = source /\ mem' = WaitOn /\ Goto("deferred")
  /\ UNCHANGED <<world, slips, disk, readable, pending, flying>>

Undefer ==
  /\ pc = "defer" /\ ~DelayedHere /\ mem' = [mem EXCEPT !.row = NoRow] /\ Goto("stage")
  /\ UNCHANGED <<world, slips, disk, readable, basis, pending, flying>>

Deferred ==
  /\ pc = "deferred" /\ Goto("save")
  /\ UNCHANGED <<world, slips, disk, readable, mem, basis, pending, flying>>

\* An attempt bound to its source; its record is written before it is given to a thread.
Submitted(s, at) ==
  pending' = Append(pending, [source |-> s, observed |-> at, finished |-> FALSE, failed |-> FALSE,
                              reason |-> "none", report |-> Unread("ABSENT"), age |-> 0])

Submit ==
  /\ pc = "stage" /\ Submitted(source, observed) /\ flying' = "reading" /\ basis' = source /\ Goto("wait")
  /\ UNCHANGED <<world, slips, disk, readable, mem>>

\* What an ended read leaves: an answer, or a reason and its command's progress.
Endings(a) ==
  LET ended == [a EXCEPT !.finished = TRUE]
  IN {ended} \cup {[ended EXCEPT !.failed = TRUE, !.reason = f.reason, !.report = f.report] :
                     f \in [reason : Reasons, report : Reports]}

\* AdmissionAttempt.run: the read has ended; the last progress of its command is on file.
Running == {"reading", "rereading"}

Finish ==
  /\ flying \in Running
  /\ \E ended \in Endings(Last(pending)) :
       /\ pending' = [pending EXCEPT ![Len(pending)] = ended]
       /\ flying' = IF ended.failed \/ flying = "rereading" THEN "ended" ELSE "answered"
  /\ UNCHANGED <<world, slips, disk, readable, pc, mem, basis>>

\* The result is received; a head that is re-landed has its rebuilt history read next.
Receive ==
  /\ pc = "wait" /\ flying \in {"answered", "ended"} /\ Goto("save")
  /\ \/ flying' = "none" /\ UNCHANGED pending
     \/ flying = "answered" /\ flying' = "rereading" /\ Submitted(RebuiltHead, observed)
  /\ UNCHANGED <<world, slips, disk, readable, mem, basis>>

\* tick_seconds: the read goes on without the tick.
TickEnds ==
  /\ pc = "wait" /\ flying \in Running /\ Goto("save")
  /\ UNCHANGED <<world, slips, disk, readable, mem, basis, pending, flying>>

\* save: every finished attempt is counted, with its progress read once more, which may
\* fail.  A failed write is tried again on the state of the file; then the train is gone.
Counted(a) == a.finished
Reread(a) == [a EXCEPT !.report = Unread("READ_FAILED")]
Snapshot(a, read) == IF read THEN a ELSE Reread(a)

After(m, read) ==
  LET after[i \in 0..Len(pending)] ==
        IF i = 0 THEN m
        ELSE IF Counted(pending[i]) THEN Kept(after[i - 1], Snapshot(pending[i], read)) ELSE after[i - 1]
  IN after[Len(pending)]
Saved(m) == After(m, TRUE)
SavedUnread(m) == After(m, FALSE)

Uncounted ==
  LET rest[i \in 0..Len(pending)] ==
        IF i = 0 THEN <<>>
        ELSE IF Counted(pending[i]) THEN rest[i - 1] ELSE Append(rest[i - 1], pending[i])
  IN rest[Len(pending)]

Save ==
  /\ pc = "save" /\ Goto("idle") /\ mem' = Empty /\ basis' = RebuiltHead /\ readable' = TRUE
  /\ \/ Steady /\ disk' = Saved(mem)
     \/ Slip /\ disk' = SavedUnread(mem)
  /\ pending' = Uncounted
  /\ UNCHANGED <<world, flying>>

Restarted == pc' = "idle" /\ mem' = Empty /\ basis' = RebuiltHead /\ pending' = <<>> /\ flying' = "none"

SaveFails ==
  /\ pc = "save" /\ Slip /\ Restarted
  /\ \/ disk' \in {disk, Saved(disk)} /\ readable' = TRUE
     \/ disk' = Saved(Empty) /\ readable' = FALSE
  /\ UNCHANGED world

Crash ==
  /\ Slip /\ Restarted /\ readable' = TRUE /\ UNCHANGED <<world, disk>>

Tick ==
  \/ StartTick \/ StartTickUnread \/ List \/ ListFails \/ StageFails \/ Defer \/ Undefer \/ Deferred
  \/ Submit \/ Receive \/ TickEnds \/ Save \/ SaveFails

Next == Tick \/ Finish \/ Pass \/ Change \/ Crash

Spec == Init /\ [][Next]_vars

\* The train ticks on and time passes; a read ends (AdmissionProcess, Ends).
FairSpec == Spec /\ WF_vars(Tick) /\ WF_vars(Finish) /\ WF_vars(Pass)

---------------------------------------------------------------------------
TypeOK ==
  /\ source \in Sources /\ basis \in Sources \cup {RebuiltHead}
  /\ observed \in BOOLEAN /\ open \in BOOLEAN /\ readable \in BOOLEAN
  /\ flying \in Running \cup {"none", "answered", "ended"}
  /\ changes \in 0..Changes /\ slips \in 0..Slips
  /\ pc \in {"idle", "list", "defer", "deferred", "stage", "wait", "save"}
  /\ flying \in Running => pending # <<>> /\ ~Last(pending).finished
  /\ \A m \in {disk, mem} :
       m.row # NoRow => m.row.left \in 0..30 /\ m.row.source \in Sources \cup {RebuiltHead}

\* A read is put off only after three reads in a row of exactly this source, each of which
\* failed for the same reason and reported no work that no read before it had reported,
\* or could not be observed for the same reason, all of them since the memory was last lost.
DelayJustified == pc = "deferred" => mem.streak.length = 3 /\ mem.streak.kind.source = basis

\* While nothing about the source changes and the state file can be read whenever it is
\* loaded, a delay on file ends by time alone: neither a list or a stage that failed, nor a
\* crash or a failed write forgets it.  (load_state takes a file that it cannot read for an
\* empty memory, and the next save writes that over every delay there is.)
Delayed == disk.row # NoRow /\ disk.row.left > 0
DelayKept ==
  [][Delayed /\ changes = Changes /\ readable /\ readable' =>
       disk'.row # NoRow /\ disk'.row.left >= disk.row.left - 1]_vars

\* A pull request that stays open is read again and again: no delay outlives its time.
ReadAgain == <>[]~open \/ []<>(flying \in Running)
=============================================================================
