---------------------------- MODULE AdmissionProofs ----------------------------
(***************************************************************************)
(* What surrounds an admission read, for every value of the constants: the *)
(* delay that follows reads that failed (AdmissionRetry), and the ordered  *)
(* history that a head is re-landed as and then read as (OrderedHistory).  *)
(*                                                                         *)
(* A row of the ledger counts; a delay is justified by what was counted.   *)
(* The invariant RetryInv ties every count of a row to as many attempts in *)
(* a row that were alike, knows which attempts wait for a save (two at the *)
(* most, the second of a rebuilt history), and what time and failures      *)
(* leave alone while nothing about the source changes.                     *)
(***************************************************************************)
EXTENDS AdmissionRetry, OrderedHistory, SequenceTheorems, TLAPS

---------------------------------------------------------------------------
(* The types.                                                              *)

Keys == Sources \cup {RebuiltHead}
Whys == {"none", "INVALID", "ABSENT", "READ_FAILED", "TERMINAL_UNOBSERVED", "TERMINAL_NOT_QUALIFIED"}
Report == [reason : {"none", "INVALID", "ABSENT", "READ_FAILED"}, work : SUBSET Work, end : {"none", "failed"}]
Attempt == [source : Keys, observed : BOOLEAN, finished : BOOLEAN, failed : BOOLEAN,
            reason : Reasons \cup {"none"}, report : Report, age : Nat]
RowSet == [source : Keys, reason : Reasons \cup {"none"}, work : SUBSET Work, count : 0..MostCounted,
           unknown : 0..MostCounted, why : Whys, left : 0..30]
Ledger == [row : {NoRow} \cup RowSet,
           streak : [kind : {NoStreak.kind} \cup [source : Keys, reason : Reasons \cup {"none"}, unknown : Whys], length : 0..3],
           done : [Keys -> SUBSET Work]]
Typed ==
  /\ source \in Sources /\ basis \in Keys /\ observed \in BOOLEAN /\ open \in BOOLEAN /\ readable \in BOOLEAN
  /\ flying \in Running \cup {"none", "answered", "ended"}
  /\ changes \in 0..Changes /\ slips \in 0..Slips
  /\ pc \in {"idle", "list", "defer", "deferred", "stage", "wait", "save"}
  /\ disk \in Ledger /\ mem \in Ledger /\ pending \in Seq(Attempt)

\* As many attempts in a row, up to three, were of the row's source, reason and unknown.
Counts(m, n, why) ==
  n > 0 => /\ m.streak.kind = [source |-> m.row.source, reason |-> m.row.reason, unknown |-> why]
           /\ m.streak.length >= Smaller(3, n)
\* The read before was the third in a row, at least.
Third(row) == row.count >= 3 \/ row.unknown >= 3
\* What the rows of a ledger rest on: no work is known that was not reported, every count
\* is of attempts that were alike, a delay follows a third one, and the rebuilt history of
\* a head, which is read once, is counted once.
Justified(m) ==
  m.row # NoRow =>
    /\ m.row.work \subseteq m.done[m.row.source]
    /\ Counts(m, m.row.count, "none") /\ Counts(m, m.row.unknown, m.row.why)
    /\ m.row.left # 0 => Third(m.row)
    /\ m.row.source = RebuiltHead => m.row.count <= 1 /\ m.row.unknown <= 1
\* The state file and the tick's copy of it, and what the tick decided from the copy.
LedgerInv ==
  /\ Justified(disk) /\ Justified(mem)
  /\ pc \in {"defer", "deferred"} => mem.row # NoRow /\ Third(mem.row)
  /\ pc = "deferred" => mem.row.source = basis

\* The attempts that are not counted yet, and the read that is under way: a tick reads a
\* head and, if that is answered, its rebuilt history, so two attempts at the most wait for
\* a save, and the second of them follows an answer that leaves no row.
NoRows == disk.row = NoRow /\ mem.row = NoRow
Flight ==
  /\ Len(pending) <= 2
  /\ Len(pending) = 2 => /\ pc = "save" /\ pending[1].finished /\ ~pending[1].failed
                         /\ pending[2].source = RebuiltHead /\ flying \in {"rereading", "ended"}
  /\ pending # <<>> => (pending[Len(pending)].finished <=> flying \notin Running)
  /\ flying \in Running => pending # <<>>
  /\ flying = "none" /\ pending # <<>> => pc = "save"
  /\ flying = "reading" => pending[1].source # RebuiltHead
  /\ flying = "rereading" => pending[Len(pending)].source = RebuiltHead
  /\ flying = "answered" => IF pending = <<>> THEN NoRows ELSE ~pending[1].failed /\ pending[1].source # RebuiltHead
  /\ pending # <<>> /\ pending[1].source = RebuiltHead => NoRows
  /\ pc \in {"defer", "deferred", "stage"} => flying = "none"

\* While nothing about the source has changed every row and every attempt is of that source
\* or its rebuilt history, and nothing is read or waits to be counted during a delay, unless
\* the tick could not read the state file: then it has no row.
Slow(m) == m.row # NoRow /\ m.row.left # 0
Unchanged ==
  changes = Changes =>
  /\ observed /\ open
  /\ pc # "idle" => IF readable THEN mem = disk ELSE mem.row = NoRow
  /\ disk.row # NoRow => disk.row.source \in {source, RebuiltHead}
  /\ \A i \in DOMAIN pending : pending[i].source \in {source, RebuiltHead}
  /\ (pc = "stage" \/ pending # <<>>) /\ (readable \/ pc = "idle") => ~Slow(disk)

RetryInv == Typed /\ LedgerInv /\ Flight /\ Unchanged

---------------------------------------------------------------------------
(* Records of the ledger, and what the operators on them return.           *)

\* A row is not NoRow, and a kind of failure is not that of no streak.
LEMMA RowApart == \A r \in RowSet : r # NoRow
BY DEF RowSet, NoRow

LEMMA KindApart == \A s, r, u : [source |-> s, reason |-> r, unknown |-> u] # NoStreak.kind
BY DEF NoStreak

\* Whatever read_progress makes of a file is a report.
LEMMA Reported == Reports \subseteq Report /\ Unread("READ_FAILED") \in Report /\ Unread("ABSENT") \in Report
BY DEF Reports, Report, Progress, Unread

\* A delay is 900 seconds at the most (admission_retry.py, retain_failure).
LEMMA DelayBound == \A c \in Nat : c >= 3 => Delay(c) \in 0..30
<1> SUFFICES ASSUME NEW c \in Nat, c >= 3 PROVE Delay(c) \in 0..30
  OBVIOUS
<1>1. Smaller(c - 3, 5) \in {0, 1, 2, 3, 4, 5}
  BY DEF Smaller
<1>2. 2^0 \in Nat /\ 2^1 \in Nat /\ 2^2 \in Nat /\ 2^3 \in Nat /\ 2^4 \in Nat /\ 2^5 \in Nat
  OBVIOUS
<1>3. 2 ^ Smaller(c - 3, 5) \in Nat
  BY <1>1, <1>2
<1> QED BY <1>3 DEF Delay, Smaller

---------------------------------------------------------------------------
(* What save makes of the attempts it counts.  The loop is a function of   *)
(* how many of them are done; two attempts wait at the most, so it is      *)
(* unfolded for none, one and two.                                         *)

\* The ledger after i of the attempts, as a function of i.
Saving(h, m, read) ==
  h = [i \in 0..Len(pending) |->
        IF i = 0 THEN m
        ELSE IF Counted(pending[i]) THEN Kept(h[i - 1], Snapshot(pending[i], read)) ELSE h[i - 1]]

\* A recursive function of the attempts that fits save's loop is the one save computes.
LEMMA AfterIs == ASSUME NEW m, NEW read, NEW g, Saving(g, m, read), Len(pending) \in Nat
  PROVE \E h : Saving(h, m, read) /\ After(m, read) = h[Len(pending)]
<1>1. After(m, read) = (CHOOSE h : Saving(h, m, read))[Len(pending)]
  BY DEF After, Saving
<1>2. Saving(CHOOSE h : Saving(h, m, read), m, read)
  <2>1. \E h : Saving(h, m, read)
    OBVIOUS
  <2> HIDE DEF Saving
  <2> QED BY <2>1
<1> QED BY <1>1, <1>2

\* Without attempts a save writes the ledger as it is.
LEMMA AfterNone == ASSUME NEW m, NEW read, pending = <<>> PROVE After(m, read) = m
<1> DEFINE g == [i \in 0..0 |-> m]
<1>1. Len(pending) = 0
  OBVIOUS
<1>2. Saving(g, m, read)
  BY <1>1 DEF Saving
<1>3. PICK h : Saving(h, m, read) /\ After(m, read) = h[Len(pending)]
  BY <1>1, <1>2, AfterIs
<1>4. h[0] = m
  BY <1>1, <1>3 DEF Saving
<1> QED BY <1>1, <1>3, <1>4

\* One attempt is counted if it has finished.
LEMMA AfterOne ==
  ASSUME NEW m, NEW read, Len(pending) = 1
  PROVE  After(m, read) = IF pending[1].finished THEN Kept(m, Snapshot(pending[1], read)) ELSE m
<1> DEFINE one == IF Counted(pending[1]) THEN Kept(m, Snapshot(pending[1], read)) ELSE m
           g == [i \in 0..1 |-> IF i = 0 THEN m ELSE one]
<1>1. Saving(g, m, read)
  BY DEF Saving
<1>2. PICK h : Saving(h, m, read) /\ After(m, read) = h[Len(pending)]
  BY <1>1, AfterIs
<1>3. h[0] = m /\ h[1] = IF Counted(pending[1]) THEN Kept(h[0], Snapshot(pending[1], read)) ELSE h[0]
  BY <1>2 DEF Saving
<1> QED BY <1>2, <1>3 DEF Counted

\* Of two attempts the first is counted, and the second if it has finished.
LEMMA AfterTwo ==
  ASSUME NEW m, NEW read, Len(pending) = 2, pending[1].finished
  PROVE  LET one == Kept(m, Snapshot(pending[1], read))
         IN After(m, read) = IF pending[2].finished THEN Kept(one, Snapshot(pending[2], read)) ELSE one
<1> DEFINE one == Kept(m, Snapshot(pending[1], read))
           two == IF pending[2].finished THEN Kept(one, Snapshot(pending[2], read)) ELSE one
           g == [i \in 0..2 |-> IF i = 0 THEN m ELSE IF i = 1 THEN one ELSE two]
<1>1. Saving(g, m, read)
  <2> HIDE DEF one
  <2>1. one = Kept(m, Snapshot(pending[1], read))
    BY DEF one
  <2>2. two = IF pending[2].finished THEN Kept(one, Snapshot(pending[2], read)) ELSE one
    OBVIOUS
  <2> HIDE DEF two
  <2> QED BY <2>1, <2>2 DEF Saving, Counted
<1>2. PICK h : Saving(h, m, read) /\ After(m, read) = h[Len(pending)]
  <2> HIDE DEF g
  <2> QED BY <1>1, AfterIs
<1>3. /\ h[0] = m /\ h[1] = Kept(h[0], Snapshot(pending[1], read))
      /\ h[2] = IF pending[2].finished THEN Kept(h[1], Snapshot(pending[2], read)) ELSE h[1]
  BY <1>2 DEF Saving, Counted
<1> QED BY <1>2, <1>3

\* What is left of the attempts after i of them.
Leaving(h) ==
  h = [i \in 0..Len(pending) |->
        IF i = 0 THEN <<>>
        ELSE IF Counted(pending[i]) THEN h[i - 1] ELSE Append(h[i - 1], pending[i])]

\* Likewise for the attempts that are left.
LEMMA UncountedIs == ASSUME NEW g, Leaving(g), Len(pending) \in Nat
  PROVE \E h : Leaving(h) /\ Uncounted = h[Len(pending)]
<1>1. Uncounted = (CHOOSE h : Leaving(h))[Len(pending)]
  BY DEF Uncounted, Leaving
<1>2. Leaving(CHOOSE h : Leaving(h))
  <2>1. \E h : Leaving(h)
    OBVIOUS
  <2> HIDE DEF Leaving
  <2> QED BY <2>1
<1> QED BY <1>1, <1>2

\* No attempt is left of none.
LEMMA LeftNone == ASSUME pending = <<>> PROVE Uncounted = <<>>
<1> DEFINE g == [i \in 0..0 |-> <<>>]
<1>1. Len(pending) = 0
  OBVIOUS
<1>2. Leaving(g)
  BY <1>1 DEF Leaving
<1>3. PICK h : Leaving(h) /\ Uncounted = h[Len(pending)]
  BY <1>1, <1>2, UncountedIs
<1>4. h[0] = <<>>
  BY <1>1, <1>3 DEF Leaving
<1> QED BY <1>1, <1>3, <1>4

\* One attempt is left if it is still read.
LEMMA LeftOne ==
  ASSUME Len(pending) = 1
  PROVE  Uncounted = IF pending[1].finished THEN <<>> ELSE <<pending[1]>>
<1> DEFINE one == IF Counted(pending[1]) THEN <<>> ELSE Append(<<>>, pending[1])
           g == [i \in 0..1 |-> IF i = 0 THEN <<>> ELSE one]
<1>1. Leaving(g)
  BY DEF Leaving
<1>2. PICK h : Leaving(h) /\ Uncounted = h[Len(pending)]
  <2> HIDE DEF g
  <2> QED BY <1>1, UncountedIs
<1>3. h[0] = <<>> /\ h[1] = IF Counted(pending[1]) THEN h[0] ELSE Append(h[0], pending[1])
  BY <1>2 DEF Leaving
<1>4. Append(<<>>, pending[1]) = <<pending[1]>>
  OBVIOUS
<1> QED BY <1>2, <1>3, <1>4 DEF Counted

\* Of two, the second is left if it is still read.
LEMMA LeftTwo ==
  ASSUME Len(pending) = 2, pending[1].finished
  PROVE  Uncounted = IF pending[2].finished THEN <<>> ELSE <<pending[2]>>
<1> DEFINE two == IF pending[2].finished THEN <<>> ELSE Append(<<>>, pending[2])
           g == [i \in 0..2 |-> IF i = 0 \/ i = 1 THEN <<>> ELSE two]
<1>1. Leaving(g)
  <2>1. two = IF pending[2].finished THEN <<>> ELSE Append(<<>>, pending[2])
    OBVIOUS
  <2> HIDE DEF two
  <2> QED BY <2>1 DEF Leaving, Counted
<1>2. PICK h : Leaving(h) /\ Uncounted = h[Len(pending)]
  <2> HIDE DEF g
  <2> QED BY <1>1, UncountedIs
<1>3. /\ h[0] = <<>> /\ h[1] = h[0]
      /\ h[2] = IF pending[2].finished THEN h[1] ELSE Append(h[1], pending[2])
  BY <1>2 DEF Leaving, Counted
<1>4. Append(<<>>, pending[2]) = <<pending[2]>>
  OBVIOUS
<1> QED BY <1>2, <1>3, <1>4

---------------------------------------------------------------------------
(* One attempt is counted.                                                 *)

\* An attempt as a save counts it, with what of its progress can be read.
LEMMA SnapshotTyped ==
  ASSUME NEW a \in Attempt, NEW read
  PROVE  /\ Snapshot(a, read) \in Attempt
         /\ Snapshot(a, read).source = a.source /\ Snapshot(a, read).failed = a.failed
BY Reported DEF Snapshot, Reread, Attempt

\* Why a read's end is not known is one of the reasons of the code.
LEMMA WhyTyped == ASSUME NEW a \in Attempt PROVE Unknown(a) \in Whys /\ Complete(a) \in BOOLEAN
BY DEF Unknown, Whys, Complete, Attempt, Report

\* A delay of so many units is left once part of it is over.
LEMMA LeftTyped ==
  ASSUME NEW c \in Nat, NEW u \in Nat, NEW age \in Nat, c >= 3 \/ u >= 3
  PROVE  Greater(0, Delay(Greater(c, u)) - age) \in 0..30
<1>1. Greater(c, u) \in Nat /\ Greater(c, u) >= 3
  BY DEF Greater
<1>2. Delay(Greater(c, u)) \in 0..30
  BY <1>1, DelayBound
<1> QED BY <1>2 DEF Greater

\* What retain_failure counts on: the work and the counts of a row of the same source and
\* reason.
Known(row, a) == IF row # NoRow /\ row.source = a.source THEN row.work ELSE {}
Again(row, a) == row # NoRow /\ row.source = a.source /\ row.reason = a.reason
Counting(row, a) == IF a.report.work \ Known(row, a) # {} THEN 0 ELSE Count((IF Again(row, a) THEN row.count ELSE 0) + 1)
Missing(row, a) == Count((IF Again(row, a) /\ row.why = Unknown(a) THEN row.unknown ELSE 0) + 1)

\* FailedAgain in these terms.
LEMMA FailedAgainIs ==
  ASSUME NEW row, NEW a
  PROVE  FailedAgain(row, a) =
           IF Complete(a)
           THEN Row(a, Known(row, a) \cup a.report.work, Counting(row, a), 0, "none", Counting(row, a) >= 3)
           ELSE Row(a, Known(row, a), 0, Missing(row, a), Unknown(a), Missing(row, a) >= 3 /\ a.observed)
<1>1. CASE row # NoRow /\ row.source = a.source
  <2>1. Previous(row, a) = row
    BY <1>1 DEF Previous
  <2> QED BY <1>1, <2>1 DEF FailedAgain, Known, Again, Counting, Missing
<1>2. CASE ~(row # NoRow /\ row.source = a.source)
  <2>1. Previous(row, a) = NoRow
    BY <1>2 DEF Previous
  <2> QED BY <1>2, <2>1 DEF FailedAgain, Known, Again, Counting, Missing
<1> QED BY <1>1, <1>2

\* The counts are bounded, and one beyond the first continues that of a row of the same
\* source and reason.
LEMMA Counters ==
  ASSUME NEW row \in {NoRow} \cup RowSet, NEW a \in Attempt
  PROVE  /\ Counting(row, a) \in 0..MostCounted /\ Missing(row, a) \in 0..MostCounted
         /\ Counting(row, a) > 0 =>
              /\ a.report.work \subseteq Known(row, a)
              /\ \/ Counting(row, a) = 1
                 \/ Again(row, a) /\ row.count > 0 /\ Counting(row, a) <= row.count + 1
         /\ \/ Missing(row, a) = 1
            \/ Again(row, a) /\ row.why = Unknown(a) /\ row.unknown > 0 /\ Missing(row, a) <= row.unknown + 1
<1>1. MostCounted \in Nat /\ MostCounted >= 3
  BY BoundsAssumption
<1>2. row # NoRow => row.count \in 0..MostCounted /\ row.unknown \in 0..MostCounted
  BY DEF RowSet
<1>3. \A c \in Nat : Count(c) \in 0..MostCounted /\ Count(c) <= c /\ (c = 1 => Count(c) = 1)
  BY <1>1 DEF Count, Smaller
<1>4. CASE Again(row, a)
  <2>1. row.count \in Nat /\ row.unknown \in Nat
    BY <1>1, <1>2, <1>4 DEF Again
  <2>2. /\ Count(row.count + 1) \in 0..MostCounted /\ Count(row.unknown + 1) \in 0..MostCounted /\ Count(1) = 1
        /\ Count(row.count + 1) = 1 \/ (row.count > 0 /\ Count(row.count + 1) <= row.count + 1)
        /\ Count(row.unknown + 1) = 1 \/ (row.unknown > 0 /\ Count(row.unknown + 1) <= row.unknown + 1)
    BY <1>3, <2>1
  <2>3. Counting(row, a) = IF a.report.work \ Known(row, a) # {} THEN 0 ELSE Count(row.count + 1)
    BY <1>4 DEF Counting
  <2>4. Missing(row, a) = IF row.why = Unknown(a) THEN Count(row.unknown + 1) ELSE Count(1)
    BY <1>4 DEF Missing
  <2> QED BY <1>1, <1>4, <2>2, <2>3, <2>4
<1>5. CASE ~Again(row, a)
  <2>1. Counting(row, a) = IF a.report.work \ Known(row, a) # {} THEN 0 ELSE Count(1)
    BY <1>5 DEF Counting
  <2>2. Missing(row, a) = Count(1)
    BY <1>5 DEF Missing
  <2> QED BY <1>1, <1>3, <2>1, <2>2
<1> QED BY <1>4, <1>5

\* What it writes, field by field.
LEMMA RowFields ==
  ASSUME NEW row \in {NoRow} \cup RowSet, NEW a \in Attempt
  PROVE  LET new == FailedAgain(row, a)
         IN /\ new \in RowSet /\ new.source = a.source /\ new.reason = a.reason
            /\ new.work \subseteq Known(row, a) \cup a.report.work
            /\ new.left # 0 => Third(new)
            /\ IF Complete(a) THEN new.count = Counting(row, a) /\ new.unknown = 0
               ELSE new.count = 0 /\ new.unknown = Missing(row, a) /\ new.why = Unknown(a)
<1> DEFINE new == FailedAgain(row, a)
           count == Counting(row, a)
           unknown == Missing(row, a)
           due == unknown >= 3 /\ a.observed
<1>1. /\ a.source \in Keys /\ a.reason \in Reasons \cup {"none"} /\ a.report.work \subseteq Work /\ a.age \in Nat
      /\ Known(row, a) \subseteq Work
  BY DEF Attempt, Report, RowSet, Known
<1>2. count \in 0..MostCounted /\ unknown \in 0..MostCounted /\ 0 \in 0..MostCounted /\ count \in Nat /\ unknown \in Nat
  BY Counters, BoundsAssumption
<1> HIDE DEF count, unknown, new
<1>3. CASE Complete(a)
  <2> DEFINE left == IF count >= 3 THEN Greater(0, Delay(Greater(count, 0)) - a.age) ELSE 0
  <2>1. new = [source |-> a.source, reason |-> a.reason, work |-> Known(row, a) \cup a.report.work, count |-> count,
               unknown |-> 0, why |-> "none", left |-> left]
    BY <1>3, FailedAgainIs DEF Row, new, count
  <2>2. left \in 0..30 /\ (left # 0 => count >= 3)
    BY <1>1, <1>2, LeftTyped
  <2>3. "none" \in Whys
    BY DEF Whys
  <2> HIDE DEF left
  <2> QED BY <1>1, <1>2, <1>3, <2>1, <2>2, <2>3 DEF Third, RowSet, new, count
<1>4. CASE ~Complete(a)
  <2> DEFINE left == IF due THEN Greater(0, Delay(Greater(0, unknown)) - a.age) ELSE 0
  <2>1. new = [source |-> a.source, reason |-> a.reason, work |-> Known(row, a), count |-> 0,
               unknown |-> unknown, why |-> Unknown(a), left |-> left]
    BY <1>4, FailedAgainIs DEF Row, new, unknown
  <2>2. left \in 0..30 /\ (left # 0 => unknown >= 3)
    BY <1>1, <1>2, LeftTyped
  <2>3. Unknown(a) \in Whys
    BY WhyTyped
  <2> HIDE DEF left, due
  <2> QED BY <1>1, <1>2, <1>4, <2>1, <2>2, <2>3 DEF Third, RowSet, new, unknown
<1> QED BY <1>3, <1>4 DEF new, count, unknown

\* The kind of a failed attempt, unfolded.
LEMMA KindIs == ASSUME NEW a PROVE Kind(a) = [source |-> a.source, reason |-> a.reason, unknown |-> IF Complete(a) THEN "none" ELSE Unknown(a)]
BY DEF Kind

\* The history counts the same attempt.
LEMMA StreakFields ==
  ASSUME NEW m \in Ledger, NEW a \in Attempt
  PROVE  LET new == Streak(m, a)
         IN /\ new \in [kind : {NoStreak.kind} \cup [source : Keys, reason : Reasons \cup {"none"}, unknown : Whys], length : 0..3]
            /\ a.failed /\ ~Fresh(a, m.done) =>
                 /\ new.kind = Kind(a) /\ new.length >= 1
                 /\ m.streak.kind = Kind(a) => new.length = Smaller(3, m.streak.length + 1)
<1>1. Kind(a) \in [source : Keys, reason : Reasons \cup {"none"}, unknown : Whys]
  BY WhyTyped DEF Kind, Attempt, Whys
<1>2. m.streak.length \in 0..3
  BY DEF Ledger
<1> DEFINE length == IF m.streak.kind = Kind(a) THEN Smaller(3, m.streak.length + 1) ELSE 1
<1>3. length \in 0..3 /\ length >= 1 /\ (m.streak.kind = Kind(a) => length = Smaller(3, m.streak.length + 1))
  BY <1>2 DEF Smaller
<1>4. NoStreak = [kind |-> NoStreak.kind, length |-> 0]
  BY DEF NoStreak
<1>5. CASE ~a.failed \/ Fresh(a, m.done)
  BY <1>4, <1>5 DEF Streak
<1>6. CASE ~(~a.failed \/ Fresh(a, m.done))
  <2>1. Streak(m, a) = [kind |-> Kind(a), length |-> length]
    BY <1>6 DEF Streak
  <2> HIDE DEF length
  <2> QED BY <1>1, <1>3, <1>6, <2>1
<1> QED BY <1>5, <1>6

\* A ledger stays one.
LEMMA KeptTyped ==
  ASSUME NEW m \in Ledger, NEW a \in Attempt
  PROVE  /\ Kept(m, a) \in Ledger
         /\ Kept(m, a).row = IF a.failed THEN FailedAgain(m.row, a) ELSE NoRow
         /\ Kept(m, a).row = NoRow \/ Kept(m, a).row.source = a.source
         /\ Kept(m, a).streak = Streak(m, a)
         /\ a.source \in Keys /\ Kept(m, a).done[a.source] = m.done[a.source] \cup a.report.work
<1>1. m.row \in {NoRow} \cup RowSet /\ m.done \in [Keys -> SUBSET Work] /\ a.source \in Keys /\ a.report.work \in SUBSET Work
  BY DEF Ledger, Attempt, Report
<1>2. FailedAgain(m.row, a) \in RowSet /\ FailedAgain(m.row, a).source = a.source
  BY <1>1, RowFields
<1>3. [m.done EXCEPT ![a.source] = @ \cup a.report.work] \in [Keys -> SUBSET Work]
  BY <1>1
<1>4. Retained(m.row, a) \in {NoRow} \cup RowSet
  BY <1>2 DEF Retained
<1>5. Kept(m, a) = [row |-> Retained(m.row, a), streak |-> Streak(m, a), done |-> [m.done EXCEPT ![a.source] = @ \cup a.report.work]]
  BY DEF Kept
<1>6. Kept(m, a) \in Ledger
  BY <1>3, <1>4, <1>5, StreakFields DEF Ledger
<1>7. [m.done EXCEPT ![a.source] = @ \cup a.report.work][a.source] = m.done[a.source] \cup a.report.work
  BY <1>1
<1> QED BY <1>1, <1>2, <1>5, <1>6, <1>7 DEF Retained

\* A count goes with as many reads in a row that were alike.
LEMMA KeptJustified ==
  ASSUME NEW m \in Ledger, NEW a \in Attempt, Justified(m), a.source = RebuiltHead => m.row = NoRow
  PROVE  Justified(Kept(m, a))
<1> DEFINE row == m.row
           new == FailedAgain(row, a)
<1> SUFFICES ASSUME a.failed PROVE Justified(Kept(m, a))
  BY KeptTyped DEF Justified
<1>1. /\ Kept(m, a).row = new /\ Kept(m, a).streak = Streak(m, a) /\ Kept(m, a).done[a.source] = m.done[a.source] \cup a.report.work
      /\ row \in {NoRow} \cup RowSet
  BY KeptTyped DEF Ledger
<1>2. /\ new \in RowSet /\ new.source = a.source /\ new.reason = a.reason
      /\ new.work \subseteq Known(row, a) \cup a.report.work
      /\ new.left # 0 => Third(new)
      /\ IF Complete(a) THEN new.count = Counting(row, a) /\ new.unknown = 0
         ELSE new.count = 0 /\ new.unknown = Missing(row, a) /\ new.why = Unknown(a)
  BY <1>1, RowFields
<1>3. Known(row, a) \subseteq m.done[a.source]
  BY DEF Known, Justified
<1>4. new.work \subseteq Kept(m, a).done[new.source]
  BY <1>1, <1>2, <1>3
<1>5. m.streak.length \in 0..3 /\ (row # NoRow => row.count \in Nat /\ row.unknown \in Nat)
  BY <1>1, BoundsAssumption DEF Ledger, RowSet
<1>6. new.count \in Nat /\ new.unknown \in Nat
  BY <1>2, BoundsAssumption DEF RowSet
<1> HIDE DEF new, row
<1>7. ASSUME NEW n \in Nat, NEW before \in Nat, NEW why, ~Fresh(a, m.done),
             why = (IF Complete(a) THEN "none" ELSE Unknown(a)),
             n = 1 \/ (before > 0 /\ n <= before + 1 /\ m.streak.kind = Kind(a) /\ m.streak.length >= Smaller(3, before))
      PROVE  Counts(Kept(m, a), n, why)
  <2>1. /\ Streak(m, a).kind = Kind(a) /\ Streak(m, a).length >= 1 /\ Streak(m, a).length \in 0..3
        /\ m.streak.kind = Kind(a) => Streak(m, a).length = Smaller(3, m.streak.length + 1)
    BY <1>7, StreakFields
  <2>2. Streak(m, a).length >= Smaller(3, n)
    BY <1>5, <1>7, <2>1 DEF Smaller
  <2>3. Kind(a) = [source |-> new.source, reason |-> new.reason, unknown |-> why]
    BY <1>2, <1>7, KindIs
  <2> QED BY <1>1, <2>1, <2>2, <2>3 DEF Counts
<1>8. Counts(Kept(m, a), new.count, "none")
  <2> SUFFICES ASSUME new.count > 0 PROVE Counts(Kept(m, a), new.count, "none")
    BY DEF Counts
  <2>1. Complete(a) /\ new.count = Counting(row, a)
    BY <1>2
  <2>2. /\ a.report.work \subseteq Known(row, a)
        /\ \/ new.count = 1
           \/ Again(row, a) /\ row.count > 0 /\ new.count <= row.count + 1
    BY <1>1, <2>1, Counters
  <2>3. ~Fresh(a, m.done)
    BY <1>3, <2>2 DEF Fresh
  <2>4. CASE new.count = 1
    BY <1>7, <2>1, <2>3, <2>4
  <2>5. CASE Again(row, a) /\ row.count > 0 /\ new.count <= row.count + 1
    <3>1. Counts(m, row.count, "none") /\ row.source = a.source /\ row.reason = a.reason /\ row # NoRow
      BY <2>5 DEF Justified, Again, row
    <3>2. m.streak.kind = Kind(a) /\ m.streak.length >= Smaller(3, row.count)
      BY <2>1, <2>5, <3>1, KindIs DEF Counts, row
    <3> QED BY <1>5, <1>6, <1>7, <2>1, <2>3, <2>5, <3>1, <3>2
  <2> QED BY <2>2, <2>4, <2>5
<1>9. Counts(Kept(m, a), new.unknown, new.why)
  <2> SUFFICES ASSUME new.unknown > 0 PROVE Counts(Kept(m, a), new.unknown, new.why)
    BY DEF Counts
  <2>1. ~Complete(a) /\ new.unknown = Missing(row, a) /\ new.why = Unknown(a) /\ ~Fresh(a, m.done)
    BY <1>2 DEF Fresh
  <2>2. \/ new.unknown = 1
        \/ Again(row, a) /\ row.why = Unknown(a) /\ row.unknown > 0 /\ new.unknown <= row.unknown + 1
    BY <1>1, <2>1, Counters
  <2>4. CASE new.unknown = 1
    BY <1>7, <2>1, <2>4
  <2>5. CASE Again(row, a) /\ row.why = Unknown(a) /\ row.unknown > 0 /\ new.unknown <= row.unknown + 1
    <3>1. Counts(m, row.unknown, row.why) /\ row.source = a.source /\ row.reason = a.reason /\ row # NoRow
      BY <2>5 DEF Justified, Again, row
    <3>2. m.streak.kind = Kind(a) /\ m.streak.length >= Smaller(3, row.unknown)
      BY <2>1, <2>5, <3>1, KindIs DEF Counts, row
    <3> QED BY <1>5, <1>6, <1>7, <2>1, <2>5, <3>1, <3>2
  <2> QED BY <2>2, <2>4, <2>5
<1>10. new.source = RebuiltHead => new.count <= 1 /\ new.unknown <= 1
  <2>1. new.source = RebuiltHead => ~Again(row, a)
    BY <1>2 DEF Again, row
  <2> QED BY <1>1, <1>2, <2>1, Counters, BoundsAssumption
<1> QED BY <1>1, <1>2, <1>4, <1>8, <1>9, <1>10 DEF Justified

---------------------------------------------------------------------------
(* What a step may do to the ledgers and to the attempts.                  *)

\* The ledger a tick starts without.
LEMMA EmptyTyped == Empty \in Ledger /\ Empty.row = NoRow /\ Justified(Empty)
<1>1. Empty = [row |-> NoRow, streak |-> NoStreak, done |-> [s \in Keys |-> {}]]
  BY DEF Empty, Keys
<1>2. NoStreak = [kind |-> NoStreak.kind, length |-> 0]
  BY DEF NoStreak
<1>3. NoStreak \in [kind : {NoStreak.kind} \cup [source : Keys, reason : Reasons \cup {"none"}, unknown : Whys], length : 0..3]
  BY <1>2
<1> QED BY <1>1, <1>3 DEF Ledger, Justified

\* A row that is forgotten.
LEMMA DroppedTyped ==
  ASSUME NEW m \in Ledger
  PROVE  LET new == [m EXCEPT !.row = NoRow] IN new \in Ledger /\ new.row = NoRow /\ Justified(new)
BY DEF Ledger, Justified

\* Time takes from a delay and changes nothing else.
LEMMA AgedTyped ==
  ASSUME NEW m \in Ledger
  PROVE  /\ Aged(m) \in Ledger
         /\ Justified(m) => Justified(Aged(m))
         /\ Aged(m).row = NoRow <=> m.row = NoRow
         /\ m.row # NoRow =>
              /\ Aged(m).row.source = m.row.source
              /\ Third(m.row) => Third(Aged(m).row)
              /\ Aged(m).row.left >= m.row.left - 1
         /\ Slow(Aged(m)) => Slow(m)
<1>1. CASE m.row = NoRow
  BY <1>1 DEF Aged, Slow
<1>2. CASE m.row # NoRow
  <2> DEFINE left == Greater(0, m.row.left - 1)
             row == [m.row EXCEPT !.left = left]
  <2>1. m.row \in RowSet /\ m.row.left \in 0..30
    BY <1>2 DEF Ledger, RowSet
  <2>2. left \in 0..30 /\ left >= m.row.left - 1 /\ (left # 0 => m.row.left # 0)
    BY <2>1 DEF Greater
  <2> HIDE DEF left
  <2>3. /\ row \in RowSet /\ row.source = m.row.source /\ row.reason = m.row.reason /\ row.work = m.row.work
        /\ row.count = m.row.count /\ row.unknown = m.row.unknown /\ row.why = m.row.why /\ row.left = left
    BY <2>1, <2>2 DEF RowSet
  <2>4. row # NoRow
    BY <2>3, RowApart
  <2>5. Aged(m) = [m EXCEPT !.row = row]
    BY <1>2 DEF Aged, left
  <2> HIDE DEF row
  <2>6. Aged(m) \in Ledger /\ Aged(m).row = row /\ Aged(m).streak = m.streak /\ Aged(m).done = m.done
    BY <2>3, <2>5 DEF Ledger
  <2>7. Justified(m) => Justified(Aged(m))
    BY <1>2, <2>2, <2>3, <2>6 DEF Justified, Counts, Third
  <2> QED BY <1>2, <2>2, <2>3, <2>4, <2>6, <2>7 DEF Slow, Third
<1> QED BY <1>1, <1>2

\* The attempts there can be.
LEMMA AttemptsAre ==
  ASSUME Typed, Flight
  PROVE  /\ Len(pending) \in Nat /\ DOMAIN pending = 1..Len(pending)
         /\ \/ pending = <<>> /\ Len(pending) = 0
            \/ pending # <<>> /\ Len(pending) = 1 /\ pending[1] \in Attempt
            \/ pending # <<>> /\ Len(pending) = 2 /\ pending[1] \in Attempt /\ pending[2] \in Attempt
<1>1. Len(pending) \in Nat /\ DOMAIN pending = 1..Len(pending) /\ (pending = <<>> <=> Len(pending) = 0)
  BY LenProperties, EmptySeq DEF Typed
<1>2. PICK n \in Nat : n = Len(pending)
  BY <1>1
<1>3. n <= 2
  BY <1>2 DEF Flight
<1>4. \A i \in 1..n : pending[i] \in Attempt
  BY <1>2, ElementOfSeq DEF Typed
<1> QED BY <1>1, <1>2, <1>3, <1>4

\* What save makes of a ledger.
LEMMA SavedTyped ==
  ASSUME Typed, Flight, NEW m \in Ledger, NEW read, Justified(m),
         pending # <<>> /\ pending[1].source = RebuiltHead => m.row = NoRow
  PROVE  LET new == After(m, read)
         IN /\ new \in Ledger /\ Justified(new)
            /\ pending = <<>> => new = m
            /\ Len(pending) = 1 /\ ~pending[1].finished => new = m
            /\ Len(pending) = 1 /\ pending[1].finished /\ ~pending[1].failed => new.row = NoRow
            /\ Len(pending) = 2 /\ ~pending[2].finished => new.row = NoRow
            /\ new.row = NoRow \/ new = m \/ \E i \in DOMAIN pending : new.row.source = pending[i].source
<1>1. CASE pending = <<>>
  <2>1. After(m, read) = m
    BY <1>1, AfterNone
  <2>2. Len(pending) = 0
    BY <1>1
  <2> QED BY <1>1, <2>1, <2>2
<1>2. CASE Len(pending) = 1
  <2> DEFINE a == Snapshot(pending[1], read)
  <2>1. a \in Attempt /\ a.source = pending[1].source /\ a.failed = pending[1].failed /\ pending # <<>>
    BY <1>2, AttemptsAre, SnapshotTyped
  <2>2. 1 \in DOMAIN pending
    BY <1>2, AttemptsAre
  <2>3. After(m, read) = IF pending[1].finished THEN Kept(m, a) ELSE m
    BY <1>2, AfterOne
  <2> HIDE DEF a
  <2>4. /\ Kept(m, a) \in Ledger /\ Justified(Kept(m, a))
        /\ a.failed \/ Kept(m, a).row = NoRow
        /\ Kept(m, a).row = NoRow \/ Kept(m, a).row.source = a.source
    BY <2>1, KeptTyped, KeptJustified
  <2> QED BY <1>2, <2>1, <2>2, <2>3, <2>4
<1>3. CASE Len(pending) = 2
  <2> DEFINE a == Snapshot(pending[1], read)
             b == Snapshot(pending[2], read)
             one == Kept(m, a)
  <2>1. /\ pending[1].finished /\ ~pending[1].failed /\ pending # <<>>
        /\ a \in Attempt /\ a.source = pending[1].source /\ a.failed = pending[1].failed
        /\ b \in Attempt /\ b.source = pending[2].source /\ b.failed = pending[2].failed
    BY <1>3, AttemptsAre, SnapshotTyped DEF Flight
  <2>2. 2 \in DOMAIN pending
    BY <1>3, AttemptsAre
  <2>3. After(m, read) = IF pending[2].finished THEN Kept(one, b) ELSE one
    BY <1>3, <2>1, AfterTwo
  <2> HIDE DEF a, b
  <2>4. one \in Ledger /\ Justified(one) /\ one.row = NoRow
    BY <2>1, KeptTyped, KeptJustified
  <2> HIDE DEF one
  <2>5. /\ Kept(one, b) \in Ledger /\ Justified(Kept(one, b))
        /\ Kept(one, b).row = NoRow \/ Kept(one, b).row.source = b.source
    BY <2>1, <2>4, KeptTyped, KeptJustified
  <2> QED BY <1>3, <2>1, <2>2, <2>3, <2>4, <2>5
<1> QED BY <1>1, <1>2, <1>3, AttemptsAre

---------------------------------------------------------------------------
(* The invariant, step by step.                                            *)

\* The bounds of the runs are kept.
LEMMA Bounded ==
  ASSUME Typed
  PROVE  /\ Slip => slips' \in 0..Slips
         /\ Steady => slips' \in 0..Slips
         /\ Changing => changes' \in 0..Changes /\ changes' # Changes
BY BoundsAssumption DEF Typed, Slip, Steady, Changing

\* A tick copies the state file.
LEMMA StartTickKept == ASSUME RetryInv, StartTick PROVE RetryInv'
<1> USE DEF RetryInv, world
<1>1. Typed'
  BY DEF Typed, StartTick, Goto
<1>2. LedgerInv'
  BY DEF LedgerInv, Typed, StartTick, Goto
<1>3. Flight'
  BY DEF Flight, NoRows, StartTick, Goto
<1>4. Unchanged'
  BY DEF Unchanged, Flight, Typed, StartTick, Goto
<1> QED BY <1>1, <1>2, <1>3, <1>4

\* A tick that cannot read the state file has no row.
LEMMA StartTickUnreadKept == ASSUME RetryInv, StartTickUnread PROVE RetryInv'
<1> USE DEF RetryInv, world
<1>1. slips' \in 0..Slips
  BY Bounded DEF StartTickUnread
<1>2. Typed'
  BY <1>1, EmptyTyped DEF Typed, StartTickUnread, Goto
<1>3. LedgerInv'
  BY EmptyTyped DEF LedgerInv, Typed, StartTickUnread, Goto
<1>4. Flight'
  BY EmptyTyped DEF Flight, NoRows, StartTickUnread, Goto
<1>5. Unchanged'
  BY EmptyTyped DEF Unchanged, Flight, Typed, StartTickUnread, Goto
<1> QED BY <1>2, <1>3, <1>4, <1>5

\* What is read instead of put off has no delay, whichever of the two is listed.
LEMMA ListKept == ASSUME RetryInv, List PROVE RetryInv'
<1> USE DEF RetryInv, world
<1>1. mem' \in Ledger /\ Justified(mem') /\ (mem' = mem \/ mem'.row = NoRow) /\ (open => mem' = mem)
  BY DroppedTyped DEF Typed, List, LedgerInv
<1>2. Typed'
  BY <1>1 DEF Typed, List, Goto, Steady
<1>3. pc' \in {"wait", "save", "stage", "defer"} /\ (pc' = "defer" => mem' = mem /\ mem.row # NoRow /\ mem.row.left # 0)
  BY DEF List, Goto, Due
<1>4. LedgerInv'
  <2>1. pc' = "defer" => mem'.row # NoRow /\ Third(mem'.row)
    BY <1>3 DEF LedgerInv, Justified
  <2>2. Justified(disk') /\ pc' # "deferred"
    BY <1>3 DEF LedgerInv, List
  <2> QED BY <1>1, <2>1, <2>2 DEF LedgerInv
<1>5. Flight'
  BY <1>1 DEF Flight, NoRows, List, Goto
<1>6. Unchanged'
  BY <1>1 DEF Unchanged, Flight, Typed, List, Goto, Due, Slow
<1> QED BY <1>2, <1>4, <1>5, <1>6

\* A list that fails leaves the rows alone.
LEMMA ListFailsKept == ASSUME RetryInv, ListFails PROVE RetryInv'
<1> USE DEF RetryInv, world
<1>1. slips' \in 0..Slips
  BY Bounded DEF ListFails
<1>2. Typed'
  BY <1>1 DEF Typed, ListFails, Goto, Forgotten
<1>3. LedgerInv'
  BY DEF LedgerInv, Typed, ListFails, Goto, Forgotten
<1>4. Flight'
  BY DEF Flight, NoRows, ListFails, Goto, Forgotten
<1>5. Unchanged'
  BY DEF Unchanged, Flight, Typed, ListFails, Goto, Forgotten
<1> QED BY <1>2, <1>3, <1>4, <1>5

\* So does a stage that fails.
LEMMA StageFailsKept == ASSUME RetryInv, StageFails PROVE RetryInv'
<1> USE DEF RetryInv, world
<1>1. slips' \in 0..Slips
  BY Bounded DEF StageFails
<1>2. Typed'
  BY <1>1 DEF Typed, StageFails, Goto
<1>3. LedgerInv'
  BY DEF LedgerInv, Typed, StageFails, Goto
<1>4. Flight'
  BY DEF Flight, NoRows, StageFails, Goto
<1>5. Unchanged'
  BY DEF Unchanged, Flight, Typed, StageFails, Goto
<1> QED BY <1>2, <1>3, <1>4, <1>5

\* A delay holds for the source as it is now.
LEMMA DeferKept == ASSUME RetryInv, Defer PROVE RetryInv'
<1> USE DEF RetryInv, world
<1>1. Typed'
  BY DEF Typed, Defer, Goto, WaitOn, Keys
<1>2. LedgerInv'
  BY DEF LedgerInv, Typed, Defer, Goto, WaitOn, DelayedHere
<1>3. Flight'
  BY DEF Flight, NoRows, Defer, Goto, WaitOn
<1>4. Unchanged'
  BY DEF Unchanged, Flight, Typed, Defer, Goto, WaitOn
<1> QED BY <1>1, <1>2, <1>3, <1>4

\* A row of the rebuilt history has been counted once at most, so a delay is of the source
\* itself: it is given up only when the source or what is observed of it has changed.
LEMMA UndeferKept == ASSUME RetryInv, Undefer PROVE RetryInv'
<1> USE DEF RetryInv, world
<1>1. mem' \in Ledger /\ Justified(mem') /\ mem'.row = NoRow /\ pc' = "stage" /\ pc = "defer"
  BY DroppedTyped DEF Typed, Undefer, Goto
<1>2. Typed'
  BY <1>1 DEF Typed, Undefer
<1>3. LedgerInv'
  BY <1>1 DEF LedgerInv, Undefer
<1>4. Flight'
  BY <1>1 DEF Flight, NoRows, Undefer
<1>5. changes # Changes
  <2> SUFFICES ASSUME changes = Changes PROVE FALSE
    OBVIOUS
  <2>1. mem.row # NoRow /\ Third(mem.row) /\ Justified(mem) /\ mem.row \in RowSet
    BY <1>1 DEF LedgerInv, Typed, Ledger
  <2>2. mem.row.count \in Nat /\ mem.row.unknown \in Nat
    BY <2>1, BoundsAssumption DEF RowSet
  <2>3. mem.row.source # RebuiltHead
    BY <2>1, <2>2 DEF Justified, Third
  <2>4. mem = disk /\ observed /\ disk.row.source \in {source, RebuiltHead}
    BY <1>1, <2>1 DEF Unchanged
  <2> QED BY <2>3, <2>4 DEF Undefer, DelayedHere
<1>6. Unchanged'
  BY <1>5 DEF Unchanged, Undefer
<1> QED BY <1>2, <1>3, <1>4, <1>6

\* A tick that waits goes on to its save.
LEMMA DeferredKept == ASSUME RetryInv, Deferred PROVE RetryInv'
<1> USE DEF RetryInv, world
<1>1. Typed'
  BY DEF Typed, Deferred, Goto
<1>2. LedgerInv'
  BY DEF LedgerInv, Typed, Deferred, Goto
<1>3. Flight'
  BY DEF Flight, NoRows, Deferred, Goto
<1>4. Unchanged'
  BY DEF Unchanged, Flight, Typed, Deferred, Goto
<1> QED BY <1>1, <1>2, <1>3, <1>4

\* An attempt is bound to the source itself, and is the only one there is.
LEMMA SubmitKept == ASSUME RetryInv, Submit PROVE RetryInv'
<1> USE DEF RetryInv, world
<1> DEFINE a == [source |-> source, observed |-> observed, finished |-> FALSE, failed |-> FALSE,
                 reason |-> "none", report |-> Unread("ABSENT"), age |-> 0]
<1>1. a \in Attempt /\ a.source = source /\ ~a.finished
  BY Reported DEF Attempt, Typed, Keys
<1>2. pending = <<>> /\ pc = "stage" /\ source # RebuiltHead
  BY SourcesAssumption DEF Flight, Submit, Typed
<1>3. pending' = Append(pending, a)
  BY DEF Submit, Submitted
<1> HIDE DEF a
<1>4. pending' = <<a>> /\ Len(pending') = 1 /\ pending'[1] = a /\ pending' # <<>> /\ pending' \in Seq(Attempt)
      /\ DOMAIN pending' = {1}
  BY <1>1, <1>2, <1>3
<1>5. /\ flying' = "reading" /\ pc' = "wait" /\ basis' = source
      /\ UNCHANGED <<source, observed, open, changes, slips, disk, readable, mem>>
  BY DEF Submit, Goto
<1>6. Typed'
  BY <1>4, <1>5 DEF Typed, Running, Keys
<1>7. LedgerInv'
  BY <1>5 DEF LedgerInv
<1>8. Flight'
  BY <1>1, <1>2, <1>4, <1>5 DEF Flight, NoRows, Running
<1>9. Unchanged'
  BY <1>1, <1>2, <1>4, <1>5 DEF Unchanged
<1> QED BY <1>6, <1>7, <1>8, <1>9

\* What an ended read leaves is an attempt of the same source.
LEMMA EndingTyped ==
  ASSUME NEW a \in Attempt, NEW e \in Endings(a)
  PROVE  e \in Attempt /\ e.source = a.source /\ e.finished
<1> DEFINE ended == [a EXCEPT !.finished = TRUE]
           unanswered(f) == [ended EXCEPT !.failed = TRUE, !.reason = f.reason, !.report = f.report]
<1>1. ended \in Attempt /\ ended.source = a.source /\ ended.finished
  BY DEF Attempt
<1>2. \A f \in [reason : Reasons, report : Reports] :
        unanswered(f) \in Attempt /\ unanswered(f).source = a.source /\ unanswered(f).finished
  BY <1>1, Reported DEF Attempt
<1>3. Endings(a) = {ended} \cup {unanswered(f) : f \in [reason : Reasons, report : Reports]}
  BY DEF Endings
<1> HIDE DEF ended, unanswered
<1> QED BY <1>1, <1>2, <1>3

\* The read that ends is of the attempt that was given to the thread last.
LEMMA FinishKept == ASSUME RetryInv, Finish PROVE RetryInv'
<1> USE DEF RetryInv, world
<1>1. /\ flying \in Running /\ pending # <<>>
      /\ UNCHANGED <<source, observed, open, changes, slips, disk, readable, pc, mem, basis>>
  BY DEF Finish, Flight
<1>2. PICK ended \in Endings(Last(pending)) :
        /\ pending' = [pending EXCEPT ![Len(pending)] = ended]
        /\ flying' = IF ended.failed \/ flying = "rereading" THEN "ended" ELSE "answered"
  BY DEF Finish
<1>3. PICK n \in {1, 2} : n = Len(pending) /\ pending[n] \in Attempt /\ DOMAIN pending = 1..n
  BY <1>1, AttemptsAre
<1>4. Last(pending) = pending[n]
  BY <1>3 DEF Last
<1>5. ended \in Attempt /\ ended.source = pending[n].source /\ ended.finished
  BY <1>2, <1>3, <1>4, EndingTyped
<1>6. /\ pending' \in Seq(Attempt) /\ Len(pending') = n /\ pending'[n] = ended /\ DOMAIN pending' = 1..n
      /\ \A i \in 1..n : i # n => pending'[i] = pending[i]
      /\ pending' # <<>>
  BY <1>2, <1>3, <1>5 DEF Typed
<1>7. flying' \in {"ended", "answered"} /\ (flying' = "answered" => ~ended.failed /\ flying = "reading")
  BY <1>1, <1>2 DEF Running
<1>8. Typed'
  BY <1>1, <1>6, <1>7 DEF Typed, Running
<1>9. LedgerInv'
  BY <1>1 DEF LedgerInv
<1>10. \A i \in 1..n : pending'[i].source = pending[i].source
  BY <1>5, <1>6
<1>11. Flight'
  <2>1. n = 2 => /\ pc = "save" /\ pending[1].finished /\ ~pending[1].failed
                 /\ pending[2].source = RebuiltHead /\ flying = "rereading"
    BY <1>1, <1>3 DEF Flight, Running
  <2>2. n = 2 => flying' = "ended"
    BY <1>2, <2>1
  <2>3. flying' = "answered" => n = 1 /\ ~pending'[1].failed /\ pending'[1].source # RebuiltHead
    BY <1>5, <1>6, <1>7, <2>1, <1>3 DEF Flight
  <2>4. pending'[1].source = RebuiltHead => NoRows'
    BY <1>1, <1>10 DEF Flight, NoRows
  <2>5. pc' \in {"defer", "deferred", "stage"} => FALSE
    BY <1>1 DEF Flight, Running
  <2> QED BY <1>1, <1>3, <1>5, <1>6, <1>7, <1>10, <2>1, <2>2, <2>3, <2>4, <2>5 DEF Flight, Running
<1>12. Unchanged'
  BY <1>1, <1>3, <1>6, <1>10 DEF Unchanged
<1> QED BY <1>8, <1>9, <1>11, <1>12

\* The rebuilt history is read when the source itself was answered, and the answer leaves
\* no row.
LEMMA ReceiveKept == ASSUME RetryInv, Receive PROVE RetryInv'
<1> USE DEF RetryInv, world
<1>1. /\ pc = "wait" /\ pc' = "save" /\ flying \in {"answered", "ended"}
      /\ UNCHANGED <<source, observed, open, changes, slips, disk, readable, mem, basis>>
  BY DEF Receive, Goto
<1>2. LedgerInv'
  BY <1>1 DEF LedgerInv
<1>3. \/ pending = <<>>
      \/ pending # <<>> /\ Len(pending) = 1 /\ pending[1] \in Attempt /\ pending[1].finished /\ DOMAIN pending = {1}
  BY <1>1, AttemptsAre DEF Flight, Running
<1>4. CASE flying' = "none" /\ UNCHANGED pending
  <2>1. Typed'
    BY <1>1, <1>4 DEF Typed
  <2>2. Flight'
    BY <1>1, <1>3, <1>4 DEF Flight, NoRows, Running
  <2>3. Unchanged'
    BY <1>1, <1>4 DEF Unchanged
  <2> QED BY <1>2, <2>1, <2>2, <2>3
<1>5. CASE flying = "answered" /\ flying' = "rereading" /\ Submitted(RebuiltHead, observed)
  <2> DEFINE a == [source |-> RebuiltHead, observed |-> observed, finished |-> FALSE, failed |-> FALSE,
                   reason |-> "none", report |-> Unread("ABSENT"), age |-> 0]
  <2>1. a \in Attempt /\ a.source = RebuiltHead /\ ~a.finished
    BY Reported DEF Attempt, Typed, Keys
  <2>2. pending' = Append(pending, a)
    BY <1>5 DEF Submitted
  <2> HIDE DEF a
  <2>3. CASE pending = <<>>
    <3>1. /\ Len(pending') = 1 /\ pending'[1] = a /\ pending' # <<>> /\ pending' \in Seq(Attempt)
          /\ DOMAIN pending' = {1}
      BY <2>1, <2>2, <2>3
    <3>2. NoRows /\ ~Slow(disk)
      BY <1>5, <2>3 DEF Flight, NoRows, Slow
    <3>3. Typed'
      BY <1>1, <1>5, <3>1 DEF Typed, Running
    <3>4. Flight'
      BY <1>1, <1>5, <2>1, <3>1, <3>2 DEF Flight, NoRows, Running
    <3>5. Unchanged'
      BY <1>1, <2>1, <3>1, <3>2 DEF Unchanged, Slow
    <3> QED BY <1>2, <3>3, <3>4, <3>5
  <2>4. CASE pending # <<>>
    <3>1. /\ Len(pending') = 2 /\ pending'[1] = pending[1] /\ pending'[2] = a /\ pending' # <<>>
          /\ pending' \in Seq(Attempt) /\ DOMAIN pending' = {1, 2}
      BY <1>3, <2>1, <2>2, <2>4 DEF Typed
    <3>2. pending[1].finished /\ ~pending[1].failed /\ pending[1].source # RebuiltHead
      BY <1>3, <1>5, <2>4 DEF Flight
    <3>3. Typed'
      BY <1>1, <1>5, <3>1 DEF Typed, Running
    <3>4. Flight'
      BY <1>1, <1>5, <2>1, <3>1, <3>2 DEF Flight, NoRows, Running
    <3>5. Unchanged'
      BY <1>1, <1>3, <2>1, <2>4, <3>1 DEF Unchanged
    <3> QED BY <1>2, <3>3, <3>4, <3>5
  <2> QED BY <2>3, <2>4
<1> QED BY <1>4, <1>5 DEF Receive

\* The tick ends without the read.
LEMMA TickEndsKept == ASSUME RetryInv, TickEnds PROVE RetryInv'
<1> USE DEF RetryInv, world
<1>1. Typed'
  BY DEF Typed, TickEnds, Goto
<1>2. LedgerInv'
  BY DEF LedgerInv, Typed, TickEnds, Goto
<1>3. Flight'
  BY DEF Flight, NoRows, TickEnds, Goto
<1>4. Unchanged'
  BY DEF Unchanged, Flight, Typed, TickEnds, Goto
<1> QED BY <1>1, <1>2, <1>3, <1>4

\* The attempts a save leaves: the one that is still read, if there is one.
LEMMA StillRead ==
  ASSUME Typed, Flight
  PROVE  \/ Uncounted = <<>> /\ flying \notin Running
         \/ /\ flying \in Running /\ Uncounted = <<pending[Len(pending)]>>
            /\ Len(pending) \in {1, 2} /\ pending # <<>>
            /\ pending[Len(pending)] \in Attempt /\ ~pending[Len(pending)].finished
<1>1. CASE pending = <<>>
  BY <1>1, LeftNone DEF Flight
<1>2. CASE pending # <<>> /\ Len(pending) = 1 /\ pending[1] \in Attempt
  BY <1>2, LeftOne DEF Flight
<1>3. CASE pending # <<>> /\ Len(pending) = 2 /\ pending[1] \in Attempt /\ pending[2] \in Attempt
  BY <1>3, LeftTwo DEF Flight
<1> QED BY <1>1, <1>2, <1>3, AttemptsAre

\* A save: what it writes, and which attempts are left to count.
LEMMA SaveKept == ASSUME RetryInv, Save PROVE RetryInv'
<1> USE DEF RetryInv, world
<1>1. /\ pc = "save" /\ pc' = "idle" /\ mem' = Empty /\ basis' = RebuiltHead /\ pending' = Uncounted
      /\ readable' = TRUE
      /\ UNCHANGED <<source, observed, open, changes, flying>>
  BY DEF Save, Goto
<1>2. slips' \in 0..Slips
  BY Bounded DEF Save
<1>3. PICK read \in BOOLEAN : disk' = After(mem, read)
  BY DEF Save, Saved, SavedUnread
<1>4. LET new == disk'
      IN /\ new \in Ledger /\ Justified(new)
         /\ pending = <<>> => new = mem
         /\ Len(pending) = 1 /\ ~pending[1].finished => new = mem
         /\ Len(pending) = 1 /\ pending[1].finished /\ ~pending[1].failed => new.row = NoRow
         /\ Len(pending) = 2 /\ ~pending[2].finished => new.row = NoRow
         /\ new.row = NoRow \/ new = mem \/ \E i \in DOMAIN pending : new.row.source = pending[i].source
  <2>1. mem \in Ledger /\ Justified(mem) /\ (pending # <<>> /\ pending[1].source = RebuiltHead => mem.row = NoRow)
    BY DEF Typed, LedgerInv, Flight, NoRows
  <2> QED BY <1>3, <2>1, SavedTyped
<1>5. mem' \in Ledger /\ mem'.row = NoRow /\ Justified(mem')
  BY <1>1, EmptyTyped
<1>6. CASE pending' = <<>> /\ flying \notin Running
  <2>1. Len(pending') = 0 /\ pending' \in Seq(Attempt) /\ DOMAIN pending' = {}
    BY <1>6
  <2>2. Typed'
    BY <1>1, <1>2, <1>4, <1>5, <2>1 DEF Typed, Keys
  <2>3. LedgerInv'
    BY <1>1, <1>4, <1>5 DEF LedgerInv
  <2>4. flying = "answered" => disk'.row = NoRow
    BY <1>4, <1>6, AttemptsAre DEF Flight, NoRows, Running
  <2>5. Flight'
    BY <1>1, <1>5, <1>6, <2>1, <2>4 DEF Flight, NoRows, Running
  <2>6. Unchanged'
    BY <1>1, <1>4, <1>6, <2>1 DEF Unchanged
  <2> QED BY <2>2, <2>3, <2>5, <2>6
<1>7. CASE /\ flying \in Running /\ pending' = <<pending[Len(pending)]>>
           /\ Len(pending) \in {1, 2} /\ pending # <<>>
           /\ pending[Len(pending)] \in Attempt /\ ~pending[Len(pending)].finished
  <2>1. PICK a \in Attempt : a = pending[Len(pending)] /\ pending' = <<a>> /\ ~a.finished
    BY <1>7
  <2>2. Len(pending') = 1 /\ pending' \in Seq(Attempt) /\ DOMAIN pending' = {1} /\ pending'[1] = a /\ pending' # <<>>
    BY <2>1
  <2>3. Typed'
    BY <1>1, <1>2, <1>4, <1>5, <2>2 DEF Typed, Keys
  <2>4. LedgerInv'
    BY <1>1, <1>4, <1>5 DEF LedgerInv
  <2>5. /\ Len(pending) = 1 => a = pending[1] /\ disk' = mem
        /\ Len(pending) = 2 => a = pending[2] /\ disk'.row = NoRow /\ flying = "rereading"
    BY <1>4, <1>7, <2>1 DEF Flight, Running
  <2>6. flying = "reading" => a.source # RebuiltHead
    BY <1>7, <2>5 DEF Flight
  <2>7. flying = "rereading" => a.source = RebuiltHead
    BY <1>7, <2>1 DEF Flight
  <2>8. a.source = RebuiltHead => disk'.row = NoRow
    BY <1>7, <2>5 DEF Flight, NoRows
  <2>9. Flight'
    BY <1>1, <1>5, <1>7, <2>1, <2>2, <2>6, <2>7, <2>8 DEF Flight, NoRows, Running
  <2>10. Len(pending) \in DOMAIN pending
    BY <1>7, AttemptsAre
  <2>11. Unchanged'
    <3> SUFFICES ASSUME changes' = Changes PROVE Unchanged'
      BY DEF Unchanged
    <3>1. observed /\ open /\ ~Slow(mem) /\ (mem.row # NoRow => mem = disk)
      BY <1>1, <1>7 DEF Unchanged, Slow
    <3>2. a.source \in {source, RebuiltHead}
      BY <1>1, <2>1, <2>10 DEF Unchanged
    <3>3. disk'.row # NoRow => disk' = mem
      BY <1>7, <2>5
    <3>4. ~Slow(disk')
      BY <3>1, <3>3 DEF Slow
    <3>5. disk'.row # NoRow => disk'.row.source \in {source, RebuiltHead}
      BY <1>1, <3>1, <3>3 DEF Unchanged
    <3>6. ~Slow(disk)'
      BY <3>4 DEF Slow
    <3> QED BY <1>1, <2>2, <3>1, <3>2, <3>5, <3>6 DEF Unchanged
  <2> QED BY <2>3, <2>4, <2>9, <2>11
<1> QED BY <1>1, <1>6, <1>7, StillRead

\* A save whose write fails and is tried again on the state of the file, or never.
LEMMA SaveFailsKept == ASSUME RetryInv, SaveFails PROVE RetryInv'
<1> USE DEF RetryInv, world
<1>1. /\ pc' = "idle" /\ mem' = Empty /\ basis' = RebuiltHead /\ pending' = <<>> /\ flying' = "none" /\ pc = "save"
      /\ readable' \in BOOLEAN
      /\ UNCHANGED <<source, observed, open, changes>>
  BY DEF SaveFails, Restarted
<1>2. slips' \in 0..Slips
  BY Bounded DEF SaveFails
<1>3. /\ disk' \in Ledger /\ Justified(disk')
      /\ disk'.row = NoRow \/ disk' = disk \/ \E i \in DOMAIN pending : disk'.row.source = pending[i].source
  <2>1. Empty \in Ledger /\ Justified(Empty) /\ Empty.row = NoRow
    BY EmptyTyped
  <2>2. disk \in Ledger /\ Justified(disk) /\ (pending # <<>> /\ pending[1].source = RebuiltHead => disk.row = NoRow)
    BY DEF Typed, LedgerInv, Flight, NoRows
  <2>3. PICK m \in {disk, Empty} : disk' = disk \/ disk' = After(m, TRUE)
    BY DEF SaveFails, Saved
  <2>4. CASE disk' = disk
    BY <2>2, <2>4
  <2>5. CASE disk' = After(m, TRUE)
    BY <2>1, <2>2, <2>3, <2>5, SavedTyped
  <2> QED BY <2>3, <2>4, <2>5
<1>4. mem' \in Ledger /\ mem'.row = NoRow /\ Justified(mem')
  BY <1>1, EmptyTyped
<1>5. Len(pending') = 0 /\ pending' \in Seq(Attempt) /\ DOMAIN pending' = {}
  BY <1>1
<1>6. Typed'
  BY <1>1, <1>2, <1>3, <1>4, <1>5 DEF Typed, Keys
<1>7. LedgerInv'
  BY <1>1, <1>3, <1>4 DEF LedgerInv
<1>8. Flight'
  BY <1>1, <1>5 DEF Flight, Running
<1>9. Unchanged'
  BY <1>1, <1>3, <1>5 DEF Unchanged
<1> QED BY <1>6, <1>7, <1>8, <1>9

\* A crash takes the copy and the attempts, and leaves the state file.
LEMMA CrashKept == ASSUME RetryInv, Crash PROVE RetryInv'
<1> USE DEF RetryInv, world
<1>1. slips' \in 0..Slips
  BY Bounded DEF Crash
<1>2. Typed'
  BY <1>1, EmptyTyped DEF Typed, Crash, Restarted, Keys
<1>3. LedgerInv'
  BY EmptyTyped DEF LedgerInv, Typed, Crash, Restarted
<1>4. Flight'
  BY EmptyTyped DEF Flight, NoRows, Crash, Restarted, Running
<1>5. Unchanged'
  BY EmptyTyped DEF Unchanged, Flight, Typed, Crash, Restarted
<1> QED BY <1>2, <1>3, <1>4, <1>5

\* Once the source has changed, what held of it before is not claimed.
LEMMA ChangeKept == ASSUME RetryInv, Change PROVE RetryInv'
<1> USE DEF RetryInv, world
<1>1. changes' \in 0..Changes /\ changes' # Changes
  BY Bounded DEF Change
<1>2. Typed'
  BY <1>1 DEF Typed, Change
<1>3. LedgerInv'
  BY DEF LedgerInv, Change
<1>4. Flight'
  BY DEF Flight, NoRows, Change
<1>5. Unchanged'
  BY <1>1 DEF Unchanged
<1> QED BY <1>2, <1>3, <1>4, <1>5

\* Time leaves every attempt what it is but for its age.
LEMMA OlderAttempts ==
  ASSUME Typed, Flight, Pass
  PROVE  /\ pending' \in Seq(Attempt) /\ Len(pending') = Len(pending) /\ DOMAIN pending' = DOMAIN pending
         /\ pending' = <<>> <=> pending = <<>>
         /\ \A i \in DOMAIN pending : /\ pending'[i].source = pending[i].source
                                      /\ pending'[i].finished = pending[i].finished
                                      /\ pending'[i].failed = pending[i].failed
<1> DEFINE older(a) == IF a.finished THEN [a EXCEPT !.age = @ + 1] ELSE a
<1>1. \A a \in Attempt : /\ older(a) \in Attempt /\ older(a).source = a.source
                         /\ older(a).finished = a.finished /\ older(a).failed = a.failed
  BY DEF Attempt
<1>2. Len(pending) \in Nat /\ DOMAIN pending = 1..Len(pending) /\ \A i \in 1..Len(pending) : pending[i] \in Attempt
  BY LenProperties, ElementOfSeq DEF Typed
<1>3. pending' = [i \in 1..Len(pending) |-> older(pending[i])]
  BY <1>2 DEF Pass
<1> HIDE DEF older
<1>4. pending' \in Seq(Attempt) /\ Len(pending') = Len(pending) /\ DOMAIN pending' = DOMAIN pending
  BY <1>1, <1>2, <1>3
<1>5. pending' = <<>> <=> pending = <<>>
  BY <1>4, EmptySeq DEF Typed
<1> QED BY <1>1, <1>2, <1>3, <1>4, <1>5

\* Time shortens the delays of both ledgers alike.
LEMMA PassKept == ASSUME RetryInv, Pass PROVE RetryInv'
<1> USE DEF RetryInv, world
<1>1. /\ disk' = Aged(disk) /\ mem' = Aged(mem)
      /\ UNCHANGED <<source, observed, open, changes, slips, readable, pc, basis, flying>>
  BY DEF Pass
<1>2. /\ disk' \in Ledger /\ Justified(disk') /\ (disk'.row = NoRow <=> disk.row = NoRow)
      /\ disk.row # NoRow => disk'.row.source = disk.row.source
      /\ Slow(disk') => Slow(disk)
  BY <1>1, AgedTyped DEF Typed, LedgerInv
<1>3. /\ mem' \in Ledger /\ Justified(mem') /\ (mem'.row = NoRow <=> mem.row = NoRow)
      /\ mem.row # NoRow => mem'.row.source = mem.row.source /\ (Third(mem.row) => Third(mem'.row))
  BY <1>1, AgedTyped DEF Typed, LedgerInv
<1>4. Typed'
  BY <1>1, <1>2, <1>3, OlderAttempts DEF Typed
<1>5. LedgerInv'
  BY <1>1, <1>2, <1>3 DEF LedgerInv
<1>6. Flight'
  <2>1. NoRows => NoRows'
    BY <1>2, <1>3 DEF NoRows
  <2>2. CASE pending = <<>>
    BY <1>1, <2>1, <2>2, OlderAttempts DEF Flight
  <2>3. CASE Len(pending) = 1 /\ pending # <<>>
    <3>1. 1 \in DOMAIN pending
      BY <2>3, AttemptsAre
    <3> QED BY <1>1, <2>1, <2>3, <3>1, OlderAttempts DEF Flight
  <2>4. CASE Len(pending) = 2 /\ pending # <<>>
    <3>1. 1 \in DOMAIN pending /\ 2 \in DOMAIN pending
      BY <2>4, AttemptsAre
    <3> QED BY <1>1, <2>1, <2>4, <3>1, OlderAttempts DEF Flight
  <2> QED BY <2>2, <2>3, <2>4, AttemptsAre
<1>7. Unchanged'
  <2>1. Slow(disk)' => Slow(disk)
    BY <1>2 DEF Slow
  <2>2. mem = disk => mem' = disk'
    BY <1>1
  <2>3. mem.row = NoRow => mem'.row = NoRow
    BY <1>3
  <2> QED BY <1>1, <1>2, <2>1, <2>2, <2>3, OlderAttempts DEF Unchanged
<1> QED BY <1>4, <1>5, <1>6, <1>7

---------------------------------------------------------------------------
(* The invariant, and what it gives.                                       *)

LEMMA RetryInit == ASSUME Init PROVE RetryInv
<1> USE DEF Init
<1>1. Typed
  BY EmptyTyped, BoundsAssumption DEF Typed, Keys
<1>2. LedgerInv
  BY EmptyTyped DEF LedgerInv
<1>3. Flight
  BY EmptyTyped DEF Flight, NoRows, Running
<1>4. Unchanged
  BY EmptyTyped DEF Unchanged
<1> QED BY <1>1, <1>2, <1>3, <1>4 DEF RetryInv

LEMMA RetryNext == ASSUME RetryInv, [Next]_vars PROVE RetryInv'
<1>1. CASE UNCHANGED vars
  BY <1>1 DEF vars, world, RetryInv, Typed, LedgerInv, Flight, NoRows, Unchanged
<1>2. CASE Tick
  BY <1>2, StartTickKept, StartTickUnreadKept, ListKept, ListFailsKept, StageFailsKept, DeferKept, UndeferKept, DeferredKept, SubmitKept,
     ReceiveKept, TickEndsKept, SaveKept, SaveFailsKept DEF Tick
<1> QED BY <1>1, <1>2, FinishKept, PassKept, ChangeKept, CrashKept DEF Next

LEMMA RetryAlways == Spec => []RetryInv
<1>1. Init => RetryInv
  BY RetryInit
<1>2. RetryInv /\ [Next]_vars => RetryInv'
  BY RetryNext
<1> QED BY <1>1, <1>2, PTL DEF Spec

\* The types of AdmissionRetry: a delay of 900 seconds at the most, on a source that the
\* pull request may have, and a read under way of an attempt that has not finished.
THEOREM AdmissionRetryTypeOK == Spec => []TypeOK
<1>1. RetryInv => TypeOK
  <2> SUFFICES ASSUME RetryInv PROVE TypeOK
    OBVIOUS
  <2>1. \A m \in {disk, mem} : m.row # NoRow => m.row.left \in 0..30 /\ m.row.source \in Keys
    BY DEF RetryInv, Typed, Ledger, RowSet
  <2>2. flying \in Running => pending # <<>> /\ ~Last(pending).finished
    BY DEF RetryInv, Flight, Last
  <2> QED BY <2>1, <2>2 DEF RetryInv, Typed, TypeOK, Keys
<1> QED BY <1>1, RetryAlways, PTL

\* _defer_reads puts a read off only when three reads in a row of exactly this source failed
\* for the same reason and brought no work that was new, or could not be observed for the
\* same reason: counts never come from another source, from before an answer, from a
\* history that was rebuilt, or from one attempt counted twice.
THEOREM DelayIsJustified == Spec => []DelayJustified
<1>1. RetryInv => DelayJustified
  <2> SUFFICES ASSUME RetryInv, pc = "deferred" PROVE mem.streak.length = 3 /\ mem.streak.kind.source = basis
    BY DEF DelayJustified
  <2>1. mem.row \in RowSet /\ mem.row # NoRow /\ Third(mem.row) /\ mem.row.source = basis /\ Justified(mem)
        /\ mem.streak.length \in 0..3
    BY DEF RetryInv, Typed, Ledger, LedgerInv
  <2>2. mem.row.count \in Nat /\ mem.row.unknown \in Nat
    BY <2>1, BoundsAssumption DEF RowSet
  <2>3. \A n \in Nat : \A why : n >= 3 /\ Counts(mem, n, why) => mem.streak.length = 3 /\ mem.streak.kind.source = basis
    BY <2>1 DEF Counts, Smaller
  <2> QED BY <2>1, <2>2, <2>3 DEF Third, Justified
<1> QED BY <1>1, RetryAlways, PTL

\* While nothing about the source changes and the state file can be read whenever it is
\* loaded, a delay on file ends by time alone, whichever of listing, staging, reading, saving
\* and the train itself fails.
THEOREM DelayIsKept == Spec => DelayKept
<1>1. ASSUME RetryInv, [Next]_vars, Delayed, changes = Changes, readable, readable'
      PROVE  disk'.row # NoRow /\ disk'.row.left >= disk.row.left - 1
  <2>1. disk \in Ledger /\ disk.row \in RowSet /\ disk.row # NoRow /\ disk.row.left \in 1..30
    BY <1>1 DEF RetryInv, Typed, Ledger, RowSet, Delayed
  <2>2. pending = <<>>
    BY <1>1 DEF RetryInv, Unchanged, Delayed, Slow
  <2>3. CASE disk' = disk
    BY <2>1, <2>3
  <2>4. CASE Pass
    <3>1. disk' = Aged(disk)
      BY <2>4 DEF Pass
    <3> QED BY <2>1, <3>1, AgedTyped
  <2>5. CASE Save
    <3>1. disk' = mem /\ mem = disk
      BY <1>1, <2>2, <2>5, AfterNone DEF Save, Saved, SavedUnread, RetryInv, Unchanged
    <3> QED BY <2>3, <3>1
  <2>6. CASE SaveFails
    <3>1. disk' = disk
      BY <1>1, <2>2, <2>6, AfterNone DEF SaveFails, Saved
    <3> QED BY <2>3, <3>1
  <2>7. disk' = disk \/ Pass \/ Save \/ SaveFails
    BY <1>1 DEF Next, Tick, StartTick, StartTickUnread, List, ListFails, StageFails, Defer, Undefer, Deferred, Submit, Receive, TickEnds,
       Finish, Change, Crash, vars
  <2> QED BY <2>3, <2>4, <2>5, <2>6, <2>7
<1>2. RetryInv /\ [Next]_vars =>
        [Delayed /\ changes = Changes /\ readable /\ readable' =>
           disk'.row # NoRow /\ disk'.row.left >= disk.row.left - 1]_vars
  BY <1>1
<1> QED BY <1>2, RetryAlways, PTL DEF Spec, DelayKept

---------------------------------------------------------------------------
(* The ordered history: what re-landing a head promises, for any globs,    *)
(* any two trees and any title.  The trees differ in which paths they take *)
(* from the base and which from the head: the proofs go path by path.      *)

\* The kind of path the commit of a stage is for.
StageKind(i) == CASE i = 1 -> "test" [] i = 2 -> "code" [] i = 3 -> "doc"

Differs(base, target, kind) == \E p \in Path : PathKind(p) = kind /\ base[p] # target[p]

\* No submodule was added, moved or removed among the tests and the docs: reland lists
\* blobs only, and a link it cannot see goes into the commit of the code.
LinksAreCode(base, target) ==
  \A p \in Path : base[p] # target[p] /\ PathKind(p) # "code" => base[p] \notin Link /\ target[p] \notin Link

\* A file, a submodule and nothing are apart.
LEMMA EntryKinds == Blob \cap Link = {} /\ Absent \notin Blob \cup Link
  BY DEF Blob, Link, Absent

\* What each stage has at a path.
LEMMA AtPath ==
  ASSUME NEW base \in Tree, NEW target \in Tree, NEW p \in Path
  PROVE  /\ Stage(base, target, 0)[p] = base[p]
         /\ Stage(base, target, 1)[p] =
              IF PathKind(p) = "test" /\ TreeMap(base)[p] # TreeMap(target)[p] THEN TreeMap(target)[p] ELSE base[p]
         /\ Stage(base, target, 2)[p] =
              IF PathKind(p) = "doc" /\ TreeMap(base)[p] # TreeMap(target)[p] THEN TreeMap(base)[p] ELSE target[p]
         /\ Stage(base, target, 3)[p] = target[p]
  BY DEF Stage, Overlay, Docs, Changed, Tree

\* The map of a tree is the tree itself where there is no link.
LEMMA MapAtPath ==
  ASSUME NEW tree \in Tree, NEW p \in Path
  PROVE  /\ TreeMap(tree)[p] = IF tree[p] \in Blob THEN tree[p] ELSE Absent
         /\ tree[p] \notin Link => TreeMap(tree)[p] = tree[p]
  BY EntryKinds DEF TreeMap, Tree

LEMMA KindOfPath == \A p : PathKind(p) \in {"test", "code", "doc"}
  BY DEF PathKind

\* Where the links are code, a path is touched by one stage at most, that of its kind, and
\* only if the head changes it.
LEMMA TouchedOnce ==
  ASSUME NEW base \in Tree, NEW target \in Tree, LinksAreCode(base, target), NEW p \in Path, NEW i \in 1..3
  PROVE  p \in Touched(base, target, i) <=> PathKind(p) = StageKind(i) /\ base[p] # target[p]
<1> DEFINE Map(tree) == TreeMap(tree)[p]
<1>1. /\ Map(base) = base[p] \/ base[p] \in Link
      /\ Map(target) = target[p] \/ target[p] \in Link
  BY MapAtPath
<1>2. base[p] = target[p] => Map(base) = Map(target)
  BY MapAtPath
<1>3. base[p] # target[p] /\ PathKind(p) # "code" => Map(base) = base[p] /\ Map(target) = target[p]
  BY <1>1 DEF LinksAreCode
<1>4. PathKind(p) \in {"test", "code", "doc"}
  BY KindOfPath
<1>5. CASE i = 1
  BY <1>2, <1>3, <1>4, <1>5, AtPath DEF Touched, StageKind
<1>6. CASE i = 2
  BY <1>2, <1>3, <1>4, <1>6, AtPath DEF Touched, StageKind
<1>7. CASE i = 3
  BY <1>2, <1>3, <1>4, <1>7, AtPath DEF Touched, StageKind
<1> QED
  BY <1>5, <1>6, <1>7

---------------------------------------------------------------------------
\* The docs of the head are put back exactly: reland does not refuse its own result
\* (RELAND_TREE_MISMATCH) unless a submodule is among the docs or tests it changes.
THEOREM NeverMismatched ==
  ASSUME NEW base \in Tree, NEW target \in Tree, LinksAreCode(base, target)
  PROVE  ~Mismatch(base, target)
<1> DEFINE back == Overlay(Stage(base, target, 2), Docs(base, target), TreeMap(target))
<1>1. ASSUME NEW p \in Path
      PROVE  back[p] = target[p]
  <2>1. CASE p \in Docs(base, target)
    <3>1. PathKind(p) = "doc" /\ TreeMap(base)[p] # TreeMap(target)[p]
      BY <2>1 DEF Docs, Changed
    <3>2. base[p] # target[p]
      BY <3>1, MapAtPath
    <3>3. TreeMap(target)[p] = target[p]
      BY <3>1, <3>2, MapAtPath DEF LinksAreCode
    <3> QED
      BY <2>1, <3>3 DEF Overlay
  <2>2. CASE p \notin Docs(base, target)
    <3>1. ~(PathKind(p) = "doc" /\ TreeMap(base)[p] # TreeMap(target)[p])
      BY <2>2 DEF Docs, Changed
    <3>2. Stage(base, target, 2)[p] = target[p]
      BY <3>1, AtPath
    <3> QED
      BY <2>2, <3>2 DEF Overlay
  <2> QED
    BY <2>1, <2>2
<1>2. back = target
  BY <1>1 DEF Overlay, Tree
<1> QED
  BY <1>2 DEF Mismatch

\* The rebuilt history brings in the change of the head and nothing else: a path is changed
\* by some commit exactly when the base and the head differ there, whatever holds there,
\* and the last commit's tree is the tree of the head.
THEOREM SameChange ==
  ASSUME NEW base \in Tree, NEW target \in Tree
  PROVE  /\ Stage(base, target, 3) = target
         /\ \A p \in Path : (\E i \in 1..3 : p \in Touched(base, target, i)) <=> base[p] # target[p]
<1>1. Stage(base, target, 3) = target
  BY DEF Stage
<1>2. ASSUME NEW p \in Path, base[p] # target[p]
      PROVE  \E i \in 1..3 : p \in Touched(base, target, i)
  BY <1>2, AtPath DEF Touched
<1>3. ASSUME NEW p \in Path, base[p] = target[p], NEW i \in 1..3
      PROVE  p \notin Touched(base, target, i)
  <2>1. TreeMap(base)[p] = TreeMap(target)[p]
    BY <1>3, MapAtPath
  <2>2. \A j \in 0..3 : Stage(base, target, j)[p] = target[p]
    BY <1>3, <2>1, AtPath
  <2>3. i \in 0..3 /\ i - 1 \in 0..3
    OBVIOUS
  <2> QED
    BY <2>2, <2>3 DEF Touched
<1> QED
  BY <1>1, <1>2, <1>3

\* Each commit of a rebuilt history touches paths of one kind only, in the order tests,
\* code, docs, and each path that changes is changed by one commit.
THEOREM OneKindEach ==
  ASSUME NEW base \in Tree, NEW target \in Tree, LinksAreCode(base, target), NEW refactor \in BOOLEAN
  PROVE  /\ Commits(base, target) = {i \in 1..3 : Differs(base, target, StageKind(i))}
         /\ \A i \in Commits(base, target) : Rebuilt(base, target, refactor)[i].kinds = {StageKind(i)}
<1>1. ASSUME NEW i \in 1..3
      PROVE  Touched(base, target, i) = {p \in Path : PathKind(p) = StageKind(i) /\ base[p] # target[p]}
  BY TouchedOnce DEF Touched
<1>2. ASSUME NEW i \in 1..3
      PROVE  i \in Commits(base, target) <=> Touched(base, target, i) # {}
  <2>1. Stage(base, target, i) \in [Path -> Blob \cup Link \cup {Absent}]
    BY EntryKinds DEF Stage, Overlay, TreeMap, Tree
  <2>2. Stage(base, target, i - 1) \in [Path -> Blob \cup Link \cup {Absent}]
    BY EntryKinds DEF Stage, Overlay, TreeMap, Tree
  <2> QED
    BY <2>1, <2>2 DEF Commits, Touched
<1>3. \A i \in 1..3 : i \in Commits(base, target) <=> Differs(base, target, StageKind(i))
  BY <1>1, <1>2 DEF Differs
<1>4. Commits(base, target) \subseteq 1..3
  BY DEF Commits
<1>5. ASSUME NEW i \in Commits(base, target)
      PROVE  Rebuilt(base, target, refactor)[i].kinds = {StageKind(i)}
  <2>1. Touched(base, target, i) # {}
    BY <1>2, <1>4
  <2>2. {PathKind(p) : p \in Touched(base, target, i)} = {StageKind(i)}
    BY <1>1, <1>4, <2>1
  <2> QED
    BY <2>2 DEF Rebuilt
<1> QED
  BY <1>3, <1>4, <1>5

\* The history check accepts a rebuilt history if and only if the head changes no code, or
\* changes tests too, or its title announces a refactoring: re-landing mends the order
\* of a history, and cannot make up for tests that are not there.
THEOREM RebuiltVerdict ==
  ASSUME NEW base \in Tree, NEW target \in Tree, LinksAreCode(base, target), NEW refactor \in BOOLEAN
  PROVE  Verdict(Rebuilt(base, target, refactor)) =
           IF ~Differs(base, target, "code") \/ Differs(base, target, "test") \/ refactor
           THEN "CLEAN" ELSE "UNORDERED"
<1> DEFINE cs == Rebuilt(base, target, refactor)
<1>1. /\ DOMAIN cs = Commits(base, target)
      /\ \A i \in DOMAIN cs : cs[i].merge = FALSE /\ cs[i].refactor = (refactor /\ i = 2)
  BY DEF Rebuilt
<1>2. /\ DOMAIN cs = {i \in 1..3 : Differs(base, target, StageKind(i))}
      /\ \A i \in DOMAIN cs : cs[i].kinds = {StageKind(i)}
  BY <1>1, OneKindEach
<1> HIDE DEF cs
<1>3. /\ 1 \in DOMAIN cs <=> Differs(base, target, "test")
      /\ 2 \in DOMAIN cs <=> Differs(base, target, "code")
      /\ DOMAIN cs \subseteq {1, 2, 3}
  BY <1>2 DEF StageKind
<1>4. /\ 1 \in DOMAIN cs => cs[1].kinds = {"test"}
      /\ 2 \in DOMAIN cs => cs[2].kinds = {"code"}
      /\ 3 \in DOMAIN cs => cs[3].kinds = {"doc"}
  BY <1>2 DEF StageKind
<1>5. 1 \in DOMAIN cs => Disposition(cs, 1) = "TESTS"
  BY <1>1, <1>4 DEF Disposition
<1>6. 3 \in DOMAIN cs => Disposition(cs, 3) = "DOCS"
  BY <1>1, <1>4 DEF Disposition
<1>7. 2 \in DOMAIN cs => (OpenTests(cs, 2) <=> 1 \in DOMAIN cs)
  <2>1. 1 \in DOMAIN cs => OpensTests(cs[1])
    BY <1>1, <1>4 DEF OpensTests, Authored
  <2> QED
    BY <1>3, <2>1 DEF OpenTests
<1>8. 2 \in DOMAIN cs => Disposition(cs, 2) = IF refactor THEN "REFACTOR"
                                              ELSE IF 1 \in DOMAIN cs THEN "CODE" ELSE "UNORDERED"
  BY <1>1, <1>4, <1>7 DEF Disposition
<1>9. CASE ~Differs(base, target, "code") \/ Differs(base, target, "test") \/ refactor
  <2>1. RefusedAt(cs) = {}
    BY <1>3, <1>5, <1>6, <1>8, <1>9 DEF RefusedAt, Refused
  <2> QED
    BY <1>9, <2>1 DEF Verdict, cs
<1>10. CASE Differs(base, target, "code") /\ ~Differs(base, target, "test") /\ ~refactor
  <2>1. RefusedAt(cs) = {2} /\ Disposition(cs, 2) = "UNORDERED"
    BY <1>3, <1>5, <1>6, <1>8, <1>10 DEF RefusedAt, Refused
  <2>2. (CHOOSE i \in RefusedAt(cs) : \A j \in RefusedAt(cs) : i <= j) = 2
    BY <2>1
  <2> QED
    BY <1>10, <2>1, <2>2 DEF Verdict, cs
<1> QED
  BY <1>9, <1>10
================================================================================
