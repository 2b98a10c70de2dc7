---------------------------- MODULE StackedProofs ----------------------------
(***************************************************************************)
(* What stacked pull requests keep through publications that fail half-way *)
(* and through restarts, for every value of the constants: the types, that *)
(* nothing lands before what it is stacked on, that no superseded head is  *)
(* lost, and that the child of a closed parent is held only when nobody    *)
(* can take it in.                                                         *)
(***************************************************************************)
EXTENDS Stacked, FiniteSetTheorems, FunctionTheorems, SequenceTheorems, TLAPS

---------------------------------------------------------------------------
(* Numbers, pull requests and commits.                                     *)

PullRow == [ref : Refs \ {Main}, base : Refs, status : Status]
Work == UNION Range(heads)

\* What there is to publish is finite, so that a new commit can be told from it.
FiniteWork ==
  /\ IsFiniteSet(Work) /\ IsFiniteSet(at.build)
  /\ \A n \in DOMAIN rows : IsFiniteSet(rows[n].head)

\* The n-th of a finite set of numbers.
LEMMA NthNumber ==
  ASSUME NEW start, IsFiniteSet(start), start \subseteq Nat, NEW n \in 1..Cardinality(start)
  PROVE  \E b \in start : Cardinality({c \in start : c <= b}) = n
<1> DEFINE upTo(b) == {c \in start : c <= b}
<1> DEFINE place == [b \in start |-> Cardinality(upTo(b))]
<1> DEFINE places == 1..Cardinality(start)
<1>1. IsFiniteSet(start) /\ Cardinality(start) \in Nat /\ start \subseteq Nat
  BY FS_CardinalityType
<1>2. \A b \in start : IsFiniteSet(upTo(b)) /\ Cardinality(upTo(b)) \in places
  <2> TAKE b \in start
  <2>1. upTo(b) \in SUBSET start /\ b \in upTo(b)
    BY <1>1
  <2>2. IsFiniteSet(upTo(b)) /\ Cardinality(upTo(b)) <= Cardinality(start)
    BY <1>1, <2>1, FS_Subset
  <2>3. Cardinality(upTo(b)) \in Nat /\ Cardinality(upTo(b)) # 0
    BY <2>1, <2>2, FS_CardinalityType, FS_EmptySet
  <2> QED BY <1>1, <2>2, <2>3
<1>3. \A a, b \in start : place[a] = place[b] => a = b
  <2> SUFFICES ASSUME NEW a \in start, NEW b \in start, a < b
               PROVE  Cardinality(upTo(a)) # Cardinality(upTo(b))
    BY <1>1
  <2>1. upTo(a) \in SUBSET upTo(b) /\ b \in upTo(b) /\ b \notin upTo(a)
    <3>1. \A c \in start : c \in Nat
      BY <1>1
    <3>2. b <= b /\ ~(b <= a) /\ \A c \in start : c <= a => c <= b
      BY <3>1
    <3> QED BY <3>2
  <2> QED BY <1>2, <2>1, FS_Subset
<1>4. place \in Injection(start, places)
  <2> HIDE DEF places
  <2>1. place \in [start -> places]
    BY <1>2
  <2> HIDE DEF place
  <2> QED BY <1>3, <2>1, Fun_IsInj
<1>5. IsFiniteSet(places) /\ Cardinality(places) = Cardinality(start)
  BY <1>1, FS_Interval, 1 \in Int
<1>6. place \in Surjection(start, places)
  <2> HIDE DEF place, places
  <2> QED BY <1>4, <1>5, FS_Injection
<1> QED BY <1>6 DEF Surjection

\* A finite set of numbers has a least one.
LEMMA LeastIn ==
  ASSUME NEW S, IsFiniteSet(S), S \subseteq Nat, S # {}
  PROVE  Least(S) \in S /\ \A y \in S : Least(S) <= y
<1>1. Cardinality(S) \in Nat /\ Cardinality(S) # 0
  BY FS_CardinalityType, FS_EmptySet
<1>2. PICK x \in S : Cardinality({c \in S : c <= x}) = 1
  <2>1. 1 \in 1..Cardinality(S)
    BY <1>1
  <2> QED BY <2>1, NthNumber
<1>3. ASSUME NEW y \in S PROVE x <= y
  <2>1. IsFiniteSet({c \in S : c <= x})
    BY FS_Subset
  <2>2. PICK z : {c \in S : c <= x} = {z}
    BY <1>2, <2>1, FS_Singleton
  <2>3. x <= x /\ (y <= x \/ x <= y)
    OBVIOUS
  <2> QED BY <2>2, <2>3
<1> QED BY <1>3 DEF Least

\* The changes of a finite head are finitely many, and so are new copies of them.
LEMMA CopiesFinite ==
  ASSUME NEW head, IsFiniteSet(head)
  PROVE  IsFiniteSet(Changes(head)) /\ \A part \in SUBSET Changes(head) : IsFiniteSet(Copies(part))
<1>1. IsFiniteSet(Changes(head))
  <2> DEFINE f == [c \in head |-> <<c[1], c[2]>>]
  <2>1. f \in Surjection(head, Changes(head))
    BY DEF Surjection, Changes
  <2> QED BY <2>1, FS_Surjection
<1>2. ASSUME NEW part \in SUBSET Changes(head) PROVE IsFiniteSet(Copies(part))
  <2> DEFINE f == [c \in part |-> <<c[1], c[2], Fresh>>]
  <2>1. IsFiniteSet(part) /\ f \in Surjection(part, Copies(part))
    BY <1>1, FS_Subset DEF Surjection, Copies
  <2> QED BY <2>1, FS_Surjection
<1> QED BY <1>1, <1>2

\* There is always a copy that nobody has made yet: rebuilt commits are new ones.
LEMMA FreshIsNew ==
  ASSUME IsFiniteSet(Work)
  PROVE  Fresh \in Nat /\ \A c \in Work : c[3] # Fresh
<1> DEFINE N == Cardinality(Work) + 1
<1>1. Cardinality(Work) \in Nat
  BY FS_CardinalityType
<1>2. \E k \in 1..N : \A c \in Work : c[3] # k
  <2> SUFFICES ASSUME \A k \in 1..N : \E c \in Work : c[3] = k PROVE FALSE
    OBVIOUS
  <2> DEFINE f == [k \in 1..N |-> CHOOSE c \in Work : c[3] = k]
  <2>1. f \in [1..N -> Work] /\ \A k \in 1..N : f[k][3] = k
    OBVIOUS
  <2>2. IsFiniteSet(1..N) /\ Cardinality(1..N) = N
    BY <1>1, FS_Interval, 1 \in Int
  <2>3. \E x, y \in 1..N : x # y /\ f[x] = f[y]
    <3> HIDE DEF f
    <3> QED BY <1>1, <2>1, <2>2, FS_PigeonHole
  <2> QED BY <2>1, <2>3
<1>3. \A k \in 1..N : k \in Nat
  BY <1>1
<1> HIDE DEF N
<1>4. Fresh = CHOOSE k \in 1..N : \A c \in Work : c[3] # k
  BY DEF Fresh, Work, N
<1> QED BY <1>2, <1>3, <1>4

---------------------------------------------------------------------------
(* Types.                                                                  *)

At == [n : Number \union {0}, head : Commits, ref : Refs, base : Refs, build : Commits,
       new : Number \union {0}, back : {"idle", "decide"}]
Label == {"idle", "decide", "revalidate", "push", "open", "close", "train"}
Remembered(m) == m \in Memory /\ Keyed(m.held) /\ Keyed(m.bases) /\ Keyed(m.relanded)

RemoteTyped ==
  /\ pulls \in Seq(PullRow) /\ heads \in [Refs -> Commits]
  /\ left \in Nat /\ slipped \subseteq Slip /\ superseded \subseteq Branch \X Nat
TickTyped ==
  /\ pc \in Label /\ rows \in [DOMAIN rows -> ListedRow] /\ DOMAIN rows \subseteq Number
  /\ queue \subseteq DOMAIN rows /\ cands \subseteq DOMAIN rows /\ batch \subseteq DOMAIN rows

LEMMA TypeParts == TypeOK <=> RemoteTyped /\ TickTyped /\ Remembered(disk) /\ Remembered(mem) /\ at \in At
BY DEF TypeOK, RemoteTyped, TickTyped, Remembered, At, Label, PullRow

\* Pull requests are numbered from one, and their refs are branches.
LEMMA Numbered ==
  ASSUME RemoteTyped
  PROVE  /\ Number = 1..Len(pulls) /\ Len(pulls) \in Nat /\ IsFiniteSet(Number) /\ Number \subseteq Nat \ {0}
         /\ \A n \in Number : pulls[n] \in PullRow
<1>1. Len(pulls) \in Nat /\ Number = 1..Len(pulls) /\ \A n \in Number : pulls[n] \in PullRow
  BY LenProperties DEF RemoteTyped, Number
<1>2. IsFiniteSet(1..Len(pulls))
  BY <1>1, FS_Interval, 1 \in Int
<1>3. \A n \in 1..Len(pulls) : n \in Nat \ {0}
  BY <1>1
<1> QED BY <1>1, <1>2, <1>3

\* The branch of an author, and what it is written on.
LEMMA OwnBranch ==
  ASSUME NEW k \in Branch
  PROVE  <<k, "">> \in Refs \ {Main} /\ Under(k) \in Refs /\ Under(k)[1] = k - 1
<1>1. k \in Nat /\ k # 0 /\ (k # 1 => k - 1 \in Branch)
  BY StackAssumption DEF Branch
<1>2. <<k, "">> \in Refs /\ <<k, "">> # Main
  BY <1>1 DEF Refs, Main
<1>3. CASE k = 1
  <2>1. Under(k) = Main /\ Main[1] = 0 /\ Main \in Refs
    BY <1>3 DEF Under, Main, Refs
  <2>2. k - 1 = 0
    BY <1>3
  <2> HIDE DEF Under, Main
  <2>3. Under(k)[1] = k - 1
    BY <2>1, <2>2
  <2> QED BY <1>2, <2>1, <2>3
<1>4. CASE k # 1
  BY <1>1, <1>2, <1>4 DEF Under, Refs
<1> QED BY <1>3, <1>4

\* The row a tick decides is one of those it has left.
LEMMA RowQueued ==
  ASSUME RemoteTyped, TickTyped, queue # {}
  PROVE  Row \in queue /\ Row \in DOMAIN rows /\ Row \in Number
<1>1. IsFiniteSet(queue) /\ queue \subseteq Nat
  BY Numbered, FS_Subset DEF TickTyped
<1> QED BY <1>1, LeastIn DEF Row, TickTyped

\* What a step does to the remote: pull requests are opened, change their status, or are
\* retargeted to the base branch; a ref gets more commits and loses none.
Opened ==
  \E ref \in Refs \ {Main}, base \in Refs : pulls' = Append(pulls, Pull(ref, base))
Ended ==
  \E n \in Number, status \in Status :
    pulls' = [pulls EXCEPT ![n].status = status] /\ (status # pulls[n].status => n \in Open)
Retargeted == \E n \in Number : pulls' = [pulls EXCEPT ![n].base = Main]

Evolves ==
  /\ pulls' \in Seq(PullRow) /\ Number \subseteq Number'
  /\ \A n \in Number : /\ pulls'[n].ref = pulls[n].ref
                       /\ pulls'[n].base \in {pulls[n].base, Main}
                       /\ n \notin Open => pulls'[n].status = pulls[n].status

LEMMA PullsEvolve ==
  ASSUME RemoteTyped, Opened \/ Ended \/ Retargeted \/ UNCHANGED pulls
  PROVE  Evolves
<1>1. Number = 1..Len(pulls) /\ Len(pulls) \in Nat /\ \A n \in Number : pulls[n] \in PullRow
  BY Numbered
<1>2. CASE UNCHANGED pulls
  BY <1>2 DEF RemoteTyped, Evolves, Number
<1>3. CASE Opened
  <2>1. PICK ref \in Refs \ {Main}, base \in Refs : pulls' = Append(pulls, Pull(ref, base))
    BY <1>3 DEF Opened
  <2>2. Pull(ref, base) \in PullRow
    BY DEF Pull, PullRow, Status
  <2>3. /\ pulls' \in Seq(PullRow) /\ Len(pulls') = Len(pulls) + 1
        /\ \A n \in 1..Len(pulls) : pulls'[n] = pulls[n]
    BY <2>1, <2>2, AppendProperties DEF RemoteTyped
  <2>4. DOMAIN pulls' = 1..(Len(pulls) + 1)
    BY <2>3, LenProperties
  <2> QED BY <1>1, <2>3, <2>4 DEF Evolves, Number
<1>4. CASE Ended
  <2>1. PICK n \in Number, status \in Status :
          pulls' = [pulls EXCEPT ![n].status = status] /\ (status # pulls[n].status => n \in Open)
    BY <1>4 DEF Ended
  <2>2. [pulls[n] EXCEPT !.status = status] \in PullRow
    BY <1>1 DEF PullRow
  <2>3. pulls' \in Seq(PullRow) /\ DOMAIN pulls' = DOMAIN pulls
    BY <1>1, <2>1, <2>2, ExceptSeq DEF RemoteTyped
  <2>4. \A m \in Number : pulls'[m] = IF m = n THEN [pulls[n] EXCEPT !.status = status] ELSE pulls[m]
    BY <2>1 DEF Number
  <2> QED BY <1>1, <2>1, <2>3, <2>4 DEF Evolves, Number, Open, PullRow
<1>5. CASE Retargeted
  <2>1. PICK n \in Number : pulls' = [pulls EXCEPT ![n].base = Main]
    BY <1>5 DEF Retargeted
  <2>2. [pulls[n] EXCEPT !.base = Main] \in PullRow
    BY <1>1 DEF PullRow, Refs
  <2>3. pulls' \in Seq(PullRow) /\ DOMAIN pulls' = DOMAIN pulls
    BY <1>1, <2>1, <2>2, ExceptSeq DEF RemoteTyped
  <2>4. \A m \in Number : pulls'[m] = IF m = n THEN [pulls[n] EXCEPT !.base = Main] ELSE pulls[m]
    BY <2>1 DEF Number
  <2> QED BY <1>1, <2>1, <2>3, <2>4 DEF Evolves, Number, Open, PullRow
<1> QED BY <1>2, <1>3, <1>4, <1>5

---------------------------------------------------------------------------
(* The memory.                                                             *)

\* What a memory is left with when rows are dropped, noted or held is one.
LEMMA PrunedRemembered ==
  ASSUME NEW m, Remembered(m), NEW listed PROVE Remembered(Pruned(m, listed))
BY DEF Remembered, Memory, Keyed, Pruned, Kept

LEMMA HoldingRemembered ==
  ASSUME Remembered(mem), NEW n \in Nat, NEW head \in Commits, NEW reason \in {"PARENT_CLOSED_UNMERGED", "RESTACK"}
  PROVE  Remembered(Holding(n, head, reason))
<1>1. [n |-> n, head |-> head, reason |-> reason] \in Entry
  BY DEF Entry
<1> QED BY <1>1 DEF Remembered, Memory, Keyed, Holding

LEMMA NotedRemembered ==
  ASSUME Remembered(mem), NEW n \in Nat, NEW note \in [n : Nat, head : Commits, base : Refs], note.n = n
  PROVE  Remembered([mem EXCEPT !.bases = {e \in @ : e.n # n} \union {note}])
BY DEF Remembered, Memory, Keyed

LEMMA RelandedRemembered ==
  ASSUME Remembered(mem), NEW n \in Nat, NEW head \in Commits, NEW new \in Nat
  PROVE  Remembered([mem EXCEPT !.held = {e \in @ : e.n # n},
                        !.relanded = {r \in @ : r.n # n} \union {[n |-> n, head |-> head, new |-> new]}])
<1>1. [n |-> n, head |-> head, new |-> new] \in [n : Nat, head : Commits, new : Nat]
  OBVIOUS
<1> DEFINE entry == [n |-> n, head |-> head, new |-> new]
<1> DEFINE after == [mem EXCEPT !.held = {e \in @ : e.n # n}, !.relanded = {r \in @ : r.n # n} \union {entry}]
<1>2. /\ after.held = {e \in mem.held : e.n # n} /\ after.bases = mem.bases
      /\ after.relanded = {r \in mem.relanded : r.n # n} \union {entry}
  <2> HIDE DEF entry
  <2> QED BY DEF Remembered, Memory
<1>3. after \in Memory
  <2> HIDE DEF entry
  <2> QED BY <1>1 DEF Remembered, Memory, entry
<1>4. entry.n = n
  OBVIOUS
<1> HIDE DEF entry, after
<1> SUFFICES Remembered(after)
  BY DEF after, entry
<1>5. Keyed(after.held) /\ Keyed(after.bases) /\ Keyed(after.relanded)
  BY <1>2, <1>4 DEF Remembered, Keyed
<1> QED BY <1>3, <1>5 DEF Remembered

---------------------------------------------------------------------------
(* The state of a tick.                                                    *)

Publishing == {"revalidate", "push", "open", "close"}

\* What is published is a listed head, rebuilt for a branch of its own.
AtWork ==
  pc \in Publishing =>
    /\ at.n \in DOMAIN rows /\ at.head = rows[at.n].head /\ at.ref # Main /\ at.back = "decide"
    /\ pc = "close" => at.new \in Number

StackTyped == TypeOK /\ FiniteWork /\ AtWork

\* New copies of the changes of a head are commits, finitely many.
LEMMA CopiesTyped ==
  ASSUME FiniteWork, NEW head \in Commits, IsFiniteSet(head), NEW part \in SUBSET Changes(head)
  PROVE  Copies(part) \in Commits /\ IsFiniteSet(Copies(part))
<1>1. \A c \in part : c[1] \in Branch /\ c[2] \in Nat
  BY DEF Changes, Commits
<1>2. Fresh \in Nat
  BY FreshIsNew DEF FiniteWork
<1> QED BY <1>1, <1>2, CopiesFinite DEF Copies, Commits

\* Refs that have commits.
LEMMA RefTyped ==
  ASSUME StackTyped, NEW ref \in Refs
  PROVE  heads[ref] \in Commits /\ heads[ref] \subseteq Work /\ IsFiniteSet(heads[ref])
<1>1. heads[ref] \in Commits /\ heads[ref] \subseteq Work
  BY TypeParts DEF StackTyped, RemoteTyped, Work, Range
<1> QED BY <1>1, FS_Subset DEF StackTyped, FiniteWork

\* A step that leaves the remote alone, and what is being published.
LEMMA TickStep ==
  ASSUME StackTyped, UNCHANGED <<pulls, heads, superseded>>, left' \in Nat, slipped' \subseteq Slip,
         TickTyped', Remembered(mem)', disk' \in {disk, mem}, at' \in At, IsFiniteSet(at'.build),
         \A n \in DOMAIN rows' : IsFiniteSet(rows'[n].head), AtWork'
  PROVE  StackTyped'
<1>1. RemoteTyped' /\ Number' = Number /\ Remembered(disk)' /\ Work' = Work
  BY TypeParts DEF StackTyped, RemoteTyped, Number, Remembered, Work
<1>2. TypeOK'
  BY <1>1 DEF TypeOK, RemoteTyped, TickTyped, Remembered, At, Label, PullRow
<1> QED BY <1>1, <1>2 DEF StackTyped, FiniteWork

LEMMA SteadyTyped == ASSUME TypeOK, Steady \/ \E e \in Slip : Slips(e) PROVE left' \in Nat /\ slipped' \subseteq Slip
BY DEF TypeOK, Steady, Slips

LEMMA NobodyTyped == Nobody \in At /\ IsFiniteSet(Nobody.build)
BY FS_EmptySet DEF Nobody, At, Commits, Refs

---------------------------------------------------------------------------
(* Every step keeps the types.                                             *)

LEMMA ListTyped == ASSUME StackTyped, List PROVE StackTyped'
<1>1. /\ RemoteTyped /\ TickTyped /\ Remembered(disk) /\ at \in At /\ FiniteWork
      /\ Open \subseteq Number /\ \A n \in Number : pulls[n] \in PullRow
  BY TypeParts, Numbered DEF StackTyped, Open
<1>2. /\ DOMAIN rows' = Open
      /\ \A n \in Open : rows'[n].head = heads[pulls[n].ref] /\ rows'[n] \in ListedRow
                         /\ IsFiniteSet(rows'[n].head)
      /\ rows' \in [Open -> ListedRow]
  BY <1>1, RefTyped DEF List, ListedRow, PullRow
<1>3. TickTyped'
  <2>1. pc' = "decide" /\ queue' = Open /\ cands' = {} /\ batch' = {} /\ Number' = Number
    BY DEF List, remote, Number
  <2> QED BY <1>1, <1>2, <2>1 DEF TickTyped, Label
<1>4. Remembered(mem)' /\ AtWork'
  <2>1. Remembered(NoMemory)
    BY DEF NoMemory, Remembered, Memory, Keyed
  <2> QED BY <1>1, <2>1, PrunedRemembered DEF List, AtWork, Publishing
<1>5. /\ UNCHANGED <<pulls, heads, superseded, disk, at>>
      /\ left' \in Nat /\ slipped' \subseteq Slip
  <2>1. Steady \/ \E e \in Slip : Slips(e)
    BY DEF List, Slip
  <2> QED BY <2>1, SteadyTyped DEF List, remote, StackTyped
<1>6. at' \in At /\ IsFiniteSet(at'.build)
  BY <1>1, <1>5 DEF At, FiniteWork
<1> QED BY <1>2, <1>3, <1>4, <1>5, <1>6, TickStep

LEMMA DecideTyped ==
  ASSUME StackTyped, Decide \/ StackedUnread \/ StackedUnknown \/ HoldOrphan
  PROVE  StackTyped'
<1>1. /\ RemoteTyped /\ TickTyped /\ Remembered(mem) /\ at \in At /\ FiniteWork
      /\ Row \in queue /\ Row \in DOMAIN rows /\ Row \in Nat
      /\ rows[Row].head \in Commits /\ rows[Row].base \in Refs
  BY TypeParts, Numbered, RowQueued
     DEF StackTyped, TickTyped, ListedRow, Decide, StackedUnread, StackedUnknown, HoldOrphan
<1>2. /\ UNCHANGED <<pulls, heads, superseded, disk, at, rows, batch, pc>> /\ left' \in Nat /\ slipped' \subseteq Slip
      /\ queue' \subseteq queue /\ cands' \subseteq cands \union {Row} /\ pc = "decide"
  <2>1. Steady \/ Slips("fail")
    BY DEF Decide, StackedUnread, StackedUnknown, HoldOrphan, Steady
  <2>2. left' \in Nat /\ slipped' \subseteq Slip
    BY <2>1, SteadyTyped DEF Slip, StackTyped
  <2>3. CASE Decide
    BY <2>2, <2>3 DEF Decide, Decided, remote
  <2>4. CASE StackedUnread \/ StackedUnknown \/ HoldOrphan
    BY <2>2, <2>4 DEF StackedUnread, StackedUnknown, HoldOrphan, Decided, remote
  <2> QED BY <2>3, <2>4
<1>3. Remembered(mem)'
  <2>1. CASE UNCHANGED mem
    BY <1>1, <2>1 DEF Remembered
  <2>2. CASE mem' = [mem EXCEPT !.bases = {e \in @ : e.n # Row} \union {Note(Row)}]
    <3>1. Note(Row) \in [n : Nat, head : Commits, base : Refs] /\ Note(Row).n = Row
      BY <1>1 DEF Note
    <3> QED BY <1>1, <2>2, <3>1, NotedRemembered
  <2>3. CASE mem' = Holding(Row, rows[Row].head, "PARENT_CLOSED_UNMERGED")
    BY <1>1, <2>3, HoldingRemembered
  <2> QED BY <2>1, <2>2, <2>3 DEF Decide, StackedUnread, StackedUnknown, HoldOrphan
<1>4. TickTyped' /\ AtWork'
  BY <1>1, <1>2 DEF TickTyped, AtWork, Publishing, Number
<1>5. /\ IsFiniteSet(at'.build) /\ at' \in At
      /\ \A n \in DOMAIN rows' : IsFiniteSet(rows'[n].head)
  BY <1>1, <1>2 DEF FiniteWork, At, Number
<1> QED BY <1>2, <1>3, <1>4, <1>5, TickStep

LEMMA RestackTyped == ASSUME StackTyped, Restack PROVE StackTyped'
<1>1. /\ RemoteTyped /\ TickTyped /\ Remembered(mem) /\ at \in At /\ FiniteWork
      /\ Row \in queue /\ Row \in DOMAIN rows /\ Row \in Nat /\ Row \in Number
      /\ rows[Row].head \in Commits /\ rows[Row].base \in Refs /\ pulls[Row] \in PullRow
      /\ IsFiniteSet(rows[Row].head)
  BY TypeParts, Numbered, RowQueued DEF StackTyped, TickTyped, ListedRow, Restack, FiniteWork
<1>2. /\ UNCHANGED <<pulls, heads, superseded, disk, rows, cands, batch>> /\ left' \in Nat /\ slipped' \subseteq Slip
      /\ queue' \subseteq queue /\ pc = "decide"
  BY SteadyTyped DEF Restack, remote, StackTyped, TypeOK, Decided
<1>3. PICK r \in Recorded(Row) :
        /\ r.new \in Open
        /\ LET onto == heads[pulls[r.new].ref]
               own == rows[Row].head \ r.head
           IN \/ /\ at' = [n |-> Row, head |-> rows[Row].head, ref |-> <<pulls[Row].ref[1], "restacked">>,
                           base |-> pulls[r.new].ref, build |-> onto \union Copies(Changes(own)),
                           new |-> 0, back |-> "decide"]
                 /\ pc' = "push" /\ UNCHANGED mem
              \/ mem' = Holding(Row, rows[Row].head, "RESTACK") /\ UNCHANGED <<pc, at>>
  BY DEF Restack
<1>4. \A n \in DOMAIN rows' : IsFiniteSet(rows'[n].head)
  BY <1>1, <1>2 DEF FiniteWork
<1>5. CASE /\ at' = [n |-> Row, head |-> rows[Row].head, ref |-> <<pulls[Row].ref[1], "restacked">>,
                     base |-> pulls[r.new].ref,
                     build |-> heads[pulls[r.new].ref] \union Copies(Changes(rows[Row].head \ r.head)),
                     new |-> 0, back |-> "decide"]
           /\ pc' = "push" /\ UNCHANGED mem
  <2>1. r.new \in Number /\ pulls[r.new] \in PullRow
    BY <1>1, <1>3, Numbered DEF Open
  <2>2. /\ <<pulls[Row].ref[1], "restacked">> \in Refs /\ <<pulls[Row].ref[1], "restacked">> # Main
        /\ pulls[r.new].ref \in Refs
    BY <1>1, <2>1 DEF PullRow, Refs, Main
  <2>3. /\ heads[pulls[r.new].ref] \in Commits /\ IsFiniteSet(heads[pulls[r.new].ref])
    BY <2>2, RefTyped
  <2>4. rows[Row].head \ r.head \in Commits /\ IsFiniteSet(rows[Row].head \ r.head)
    BY <1>1, FS_Subset DEF Commits
  <2>5. /\ Copies(Changes(rows[Row].head \ r.head)) \in Commits
        /\ IsFiniteSet(Copies(Changes(rows[Row].head \ r.head)))
    BY <1>1, <2>4, CopiesTyped
  <2>6. at'.build \in Commits /\ IsFiniteSet(at'.build)
    BY <1>5, <2>3, <2>5, FS_Union DEF Commits
  <2>7. at' \in At
    BY <1>1, <1>2, <1>5, <2>2, <2>6 DEF At, Number
  <2>8. TickTyped' /\ AtWork' /\ Remembered(mem)'
    BY <1>1, <1>2, <1>5, <2>2 DEF TickTyped, AtWork, Label, Number, Remembered
  <2> QED BY <1>2, <1>4, <2>6, <2>7, <2>8, TickStep
<1>6. CASE mem' = Holding(Row, rows[Row].head, "RESTACK") /\ UNCHANGED <<pc, at>>
  <2>1. Remembered(mem)'
    BY <1>1, <1>6, HoldingRemembered
  <2>2. TickTyped' /\ AtWork' /\ at' \in At /\ IsFiniteSet(at'.build)
    BY <1>1, <1>2, <1>6 DEF TickTyped, AtWork, Publishing, Number, FiniteWork, At
  <2> QED BY <1>2, <1>4, <2>1, <2>2, TickStep
<1> QED BY <1>3, <1>5, <1>6

\* Refs that get other commits.
LEMMA HeadsTyped ==
  ASSUME StackTyped, NEW ref \in Refs, NEW head \in Commits, IsFiniteSet(head), heads' = [heads EXCEPT ![ref] = head]
  PROVE  heads' \in [Refs -> Commits] /\ IsFiniteSet(Work)'
<1>1. heads \in [Refs -> Commits]
  BY DEF StackTyped, TypeOK
<1>2. Work' \in SUBSET (Work \union head)
  BY <1>1 DEF Work, Range
<1> QED BY <1>1, <1>2, FS_Union, FS_Subset DEF StackTyped, FiniteWork

\* A step that leaves the list alone, whatever becomes of the remote.
LEMMA RemoteStep ==
  ASSUME StackTyped, Evolves, heads' \in [Refs -> Commits], IsFiniteSet(Work)',
         left' \in Nat, slipped' \subseteq Slip, superseded' \subseteq Branch \X Nat,
         UNCHANGED <<rows, disk>>, pc' \in Label,
         queue' \subseteq queue, cands' \subseteq cands, batch' \subseteq batch,
         Remembered(mem)', (at \in At)', IsFiniteSet(at'.build), AtWork'
  PROVE  StackTyped'
<1>1. TickTyped'
  BY TypeParts DEF StackTyped, TickTyped, Evolves
<1>2. RemoteTyped'
  BY DEF RemoteTyped, Evolves
<1>3. Remembered(disk)'
  BY TypeParts DEF StackTyped, Remembered
<1>4. TypeOK'
  BY <1>1, <1>2, <1>3 DEF TypeOK, RemoteTyped, TickTyped, Remembered, At, Label, PullRow
<1> QED BY <1>4 DEF StackTyped, FiniteWork

\* Every step of the train, of its process and of the authors does that.
LEMMA PullsStep == ASSUME StackTyped, [Next]_vars PROVE Evolves
<1>1. RemoteTyped /\ TickTyped /\ AtWork /\ at \in At
  BY TypeParts DEF StackTyped
<1>2. CASE Retarget
  <2>1. Row \in Number
    BY <1>1, <1>2, RowQueued DEF Retarget
  <2>2. CASE Row \in Open
    BY <1>1, <1>2, <2>1, <2>2, PullsEvolve DEF Retarget, Retargeted
  <2>3. CASE Row \notin Open
    <3>1. pulls' = [pulls EXCEPT ![Row].base = pulls[Row].base]
      BY <1>2, <2>3 DEF Retarget
    <3>2. pulls[Row] \in PullRow /\ pulls \in Seq(PullRow)
      BY <1>1, <2>1, Numbered DEF RemoteTyped
    <3>3. pulls' = pulls
      BY <3>1, <3>2 DEF PullRow
    <3> QED BY <1>1, <3>3, PullsEvolve
  <2> QED BY <2>2, <2>3
<1>3. CASE OpenPull
  BY <1>1, <1>3, PullsEvolve DEF OpenPull, Fails, remote, Opened, AtWork, Publishing, At
<1>4. CASE ClosePull
  <2> DEFINE status == IF pulls[at.n].status = "open" THEN "superseded" ELSE pulls[at.n].status
  <2>1. at.n \in Number /\ pulls[at.n] \in PullRow
    BY <1>1, <1>4, Numbered DEF ClosePull, AtWork, Publishing, TickTyped
  <2>2. UNCHANGED pulls \/ pulls' = [pulls EXCEPT ![at.n].status = status]
    BY <1>4 DEF ClosePull, Fails, remote
  <2>3. status \in Status /\ (status # pulls[at.n].status => at.n \in Open)
    BY <2>1 DEF Status, PullRow, Open
  <2> HIDE DEF status
  <2>4. UNCHANGED pulls \/ Ended
    BY <2>1, <2>2, <2>3 DEF Ended
  <2> QED BY <1>1, <2>4, PullsEvolve
<1>5. CASE Train
  <2>1. batch \subseteq Number
    BY <1>1 DEF TickTyped
  <2>2. UNCHANGED pulls \/ Ended
    BY <1>5, <2>1 DEF Train, Ended, Status, remote
  <2> QED BY <1>1, <2>2, PullsEvolve
<1>6. CASE \E k \in Branch : AuthorOpens(k)
  <2>1. PICK k \in Branch : pulls' = Append(pulls, Pull(<<k, "">>, Under(k)))
    BY <1>6 DEF AuthorOpens
  <2> QED BY <1>1, <2>1, OwnBranch, PullsEvolve DEF Opened
<1>7. CASE \E n \in Number : SomebodyCloses(n)
  BY <1>1, <1>7, PullsEvolve DEF SomebodyCloses, Ended, Status
<1>8. CASE UNCHANGED pulls
  BY <1>1, <1>8, PullsEvolve
<1>9. UNCHANGED vars => UNCHANGED pulls
  BY DEF vars, remote
<1>10. (\E n \in Number : AuthorPushes(n)) => UNCHANGED pulls
  BY DEF AuthorPushes
<1>11. Crash => UNCHANGED pulls
  BY DEF Crash, remote
<1>12. List \/ Decide \/ StackedUnread \/ StackedUnknown \/ HoldOrphan \/ Restack \/ Receive \/ Reland => UNCHANGED pulls
  BY DEF List, Decide, StackedUnread, StackedUnknown, HoldOrphan, Restack, Receive, Reland, remote
<1>13. Revalidate \/ Push \/ Land \/ EndTick => UNCHANGED pulls
  BY DEF Revalidate, Push, Fails, Land, EndTick, remote
<1> QED BY <1>2, <1>3, <1>4, <1>5, <1>6, <1>7, <1>8, <1>9, <1>10, <1>11, <1>12, <1>13 DEF Next, Step

LEMMA RetargetTyped == ASSUME StackTyped, Retarget PROVE StackTyped'
<1>1. /\ RemoteTyped /\ TickTyped /\ Remembered(mem) /\ at \in At /\ FiniteWork
      /\ Row \in queue /\ Row \in Number
  BY TypeParts, RowQueued DEF StackTyped, Retarget
<1>2. Evolves
  BY PullsStep DEF Next, Step
<1>3. /\ UNCHANGED <<heads, superseded, disk, at, rows, cands, batch, mem, left, slipped, pc>>
      /\ queue' \subseteq queue
  BY DEF Retarget, Decided, Steady
<1>4. (at \in At)'
  BY <1>1, <1>2, <1>3 DEF At, Evolves
<1>5. AtWork' /\ Remembered(mem)' /\ IsFiniteSet(Work)'
  BY <1>1, <1>2, <1>3 DEF AtWork, StackTyped, Evolves, Remembered, FiniteWork, Work
<1> QED BY <1>1, <1>2, <1>3, <1>4, <1>5, RemoteStep DEF RemoteTyped, TickTyped, FiniteWork

LEMMA CandidatesTyped ==
  ASSUME StackTyped, Receive \/ Revalidate \/ Land \/ EndTick
  PROVE  StackTyped'
<1>1. /\ RemoteTyped /\ TickTyped /\ Remembered(mem) /\ at \in At /\ FiniteWork /\ AtWork
  BY TypeParts DEF StackTyped
<1>2. /\ UNCHANGED <<pulls, heads, superseded, left, slipped>> /\ left' \in Nat /\ slipped' \subseteq Slip
      /\ disk' \in {disk, mem}
  BY <1>1 DEF Receive, Revalidate, Land, EndTick, Steady, remote, RemoteTyped
<1>3. CASE Receive \/ Land
  <2>1. /\ UNCHANGED <<rows, mem, at, queue>> /\ cands' \subseteq cands /\ batch' \subseteq batch \union cands
        /\ pc' \in {"decide", "train"}
    BY <1>3 DEF Receive, Land, tick
  <2>2. TickTyped' /\ AtWork' /\ (at \in At)' /\ IsFiniteSet(at'.build) /\ Remembered(mem)'
    BY <1>1, <1>2, <2>1 DEF TickTyped, Label, AtWork, Publishing, At, Number, FiniteWork, Remembered
  <2>3. \A n \in DOMAIN rows' : IsFiniteSet(rows'[n].head)
    BY <1>1, <2>1 DEF FiniteWork
  <2>4. at' \in At
    BY <1>1, <2>1
  <2> QED BY <1>2, <2>2, <2>3, <2>4, TickStep
<1>4. CASE Revalidate
  <2>1. /\ UNCHANGED <<rows, queue, cands, batch, mem>>
        /\ \/ pc' = "push" /\ UNCHANGED at
           \/ pc' = at.back /\ at' = Nobody
        /\ pc = "revalidate"
    BY <1>4 DEF Revalidate, tick, Retry
  <2>2. pc' \in {"push", "decide"} /\ at' \in {at, Nobody} /\ (pc' = "push" => at' = at)
    BY <1>1, <2>1 DEF AtWork, Publishing
  <2>3. TickTyped' /\ AtWork' /\ Remembered(mem)'
    BY <1>1, <1>2, <2>1, <2>2 DEF TickTyped, Label, AtWork, Publishing, Number, Remembered
  <2>4. at' \in At /\ IsFiniteSet(at'.build) /\ \A n \in DOMAIN rows' : IsFiniteSet(rows'[n].head)
    BY <1>1, <2>1, <2>2, NobodyTyped DEF FiniteWork
  <2> QED BY <1>2, <2>3, <2>4, TickStep
<1>5. CASE EndTick
  <2>1. rows' = NoRows /\ queue' = {} /\ cands' = {} /\ batch' = {} /\ at' = Nobody /\ pc' = "idle" /\ mem' = NoMemory
    BY <1>5 DEF EndTick, Clean
  <2>2. TickTyped' /\ AtWork' /\ Remembered(mem)' /\ DOMAIN rows' = {}
    BY <2>1 DEF TickTyped, Label, AtWork, Publishing, NoRows, NoMemory, Remembered, Memory, Keyed
  <2> QED BY <1>2, <2>1, <2>2, NobodyTyped, TickStep
<1> QED BY <1>3, <1>4, <1>5

LEMMA RelandTyped == ASSUME StackTyped, Reland PROVE StackTyped'
<1>1. /\ RemoteTyped /\ TickTyped /\ Remembered(mem) /\ at \in At /\ FiniteWork
  BY TypeParts DEF StackTyped
<1>2. PICK n \in cands :
        /\ pulls[n].ref[2] = "" /\ cands' = cands \ {n}
        /\ LET lacking == Changes(rows[n].head) \ Changes(heads[Main])
           IN at' = [n |-> n, head |-> rows[n].head, ref |-> <<pulls[n].ref[1], "ordered">>,
                     base |-> Main, build |-> heads[Main] \union Copies(lacking), new |-> 0, back |-> "decide"]
  BY DEF Reland
<1>3. n \in DOMAIN rows /\ n \in Number /\ pulls[n] \in PullRow /\ rows[n].head \in Commits /\ IsFiniteSet(rows[n].head)
  BY <1>1, Numbered DEF TickTyped, ListedRow, FiniteWork
<1>4. /\ UNCHANGED <<pulls, heads, superseded, disk, rows, queue, batch, mem, left, slipped>> /\ pc' = "revalidate"
      /\ cands' \subseteq cands
  BY <1>2 DEF Reland, remote
<1>5. Main \in Refs /\ <<pulls[n].ref[1], "ordered">> \in Refs /\ <<pulls[n].ref[1], "ordered">> # Main
  BY <1>3 DEF PullRow, Refs, Main
<1>6. at'.build \in Commits /\ IsFiniteSet(at'.build)
  <2> DEFINE lacking == Changes(rows[n].head) \ Changes(heads[Main])
  <2>1. Copies(lacking) \in Commits /\ IsFiniteSet(Copies(lacking))
    BY <1>1, <1>3, CopiesTyped
  <2>2. heads[Main] \in Commits /\ IsFiniteSet(heads[Main])
    BY <1>5, RefTyped
  <2>3. at'.build = heads[Main] \union Copies(lacking)
    BY <1>2
  <2> HIDE DEF lacking
  <2> QED BY <2>1, <2>2, <2>3, FS_Union DEF Commits
<1>7. at' \in At /\ at'.n = n /\ at'.head = rows[n].head /\ at'.ref # Main /\ at'.back = "decide"
  BY <1>2, <1>3, <1>5, <1>6 DEF At
<1>8. TickTyped' /\ AtWork' /\ Remembered(mem)'
  BY <1>1, <1>3, <1>4, <1>7 DEF TickTyped, AtWork, Label, Number, Remembered
<1>9. left' \in Nat /\ slipped' \subseteq Slip /\ \A m \in DOMAIN rows' : IsFiniteSet(rows'[m].head)
  BY <1>1, <1>4 DEF RemoteTyped, FiniteWork
<1> QED BY <1>4, <1>6, <1>7, <1>8, <1>9, TickStep

\* A publication that ends, or fails.
LEMMA RetryTyped ==
  ASSUME StackTyped, pc \in Publishing, Retry, Evolves
  PROVE  pc' = "decide" /\ (at \in At)' /\ IsFiniteSet(at'.build) /\ AtWork'
BY NobodyTyped DEF StackTyped, AtWork, Publishing, Retry, At, Evolves, Nobody, Commits, Refs

LEMMA PushTyped == ASSUME StackTyped, Push PROVE StackTyped'
<1>1. /\ RemoteTyped /\ TickTyped /\ Remembered(mem) /\ at \in At /\ FiniteWork /\ AtWork /\ pc \in Publishing
      /\ at.ref \in Refs /\ at.build \in Commits /\ IsFiniteSet(at.build)
  BY TypeParts DEF StackTyped, Push, Publishing, At, FiniteWork
<1>2. /\ UNCHANGED <<pulls, superseded, disk, mem, rows, queue, cands, batch>>
      /\ \/ UNCHANGED heads
         \/ heads' = [heads EXCEPT ![at.ref] = at.build]
      /\ Retry \/ (pc' = "open" /\ UNCHANGED at)
      /\ Steady \/ \E e \in Slip : Slips(e)
  BY DEF Push, Fails, remote, tick, AfterPush, Slip
<1>3. Evolves /\ left' \in Nat /\ slipped' \subseteq Slip /\ Remembered(mem)' /\ superseded' \subseteq Branch \X Nat
  BY <1>1, <1>2, PullsEvolve, SteadyTyped DEF StackTyped, Remembered, RemoteTyped
<1>4. heads' \in [Refs -> Commits] /\ IsFiniteSet(Work)'
  BY <1>1, <1>2, HeadsTyped DEF RemoteTyped, FiniteWork, Work
<1>5. pc' \in Label /\ (at \in At)' /\ IsFiniteSet(at'.build) /\ AtWork'
  <2>1. CASE Retry
    BY <1>1, <1>3, <2>1, RetryTyped DEF Label
  <2>2. CASE pc' = "open" /\ UNCHANGED at
    BY <1>1, <1>2, <1>3, <2>2 DEF Label, AtWork, At, Evolves
  <2> QED BY <1>2, <2>1, <2>2
<1> QED BY <1>2, <1>3, <1>4, <1>5, RemoteStep

LEMMA OpenTyped == ASSUME StackTyped, OpenPull PROVE StackTyped'
<1>1. /\ RemoteTyped /\ TickTyped /\ Remembered(mem) /\ at \in At /\ FiniteWork /\ AtWork /\ pc \in Publishing
      /\ at.ref \in Refs \ {Main} /\ at.base \in Refs
  BY TypeParts DEF StackTyped, OpenPull, Publishing, At, AtWork
<1>2. /\ UNCHANGED <<heads, superseded, disk, mem, rows, queue, cands, batch>>
      /\ pulls' = Append(pulls, Pull(at.ref, at.base)) \/ UNCHANGED pulls
      /\ \/ Retry
         \/ /\ pc' = "close" /\ at' = [at EXCEPT !.new = Len(pulls')]
            /\ pulls' = Append(pulls, Pull(at.ref, at.base))
      /\ Steady \/ \E e \in Slip : Slips(e)
  BY DEF OpenPull, Fails, remote, tick, AfterOpen, Slip
<1>3. Evolves /\ left' \in Nat /\ slipped' \subseteq Slip /\ Remembered(mem)' /\ superseded' \subseteq Branch \X Nat
      /\ heads' \in [Refs -> Commits] /\ IsFiniteSet(Work)'
  BY <1>1, <1>2, PullsEvolve, SteadyTyped DEF StackTyped, Remembered, RemoteTyped, Opened, FiniteWork, Work
<1>4. pc' \in Label /\ (at \in At)' /\ IsFiniteSet(at'.build) /\ AtWork'
  <2>1. CASE Retry
    BY <1>1, <1>3, <2>1, RetryTyped DEF Label
  <2>2. CASE /\ pc' = "close" /\ at' = [at EXCEPT !.new = Len(pulls')]
             /\ pulls' = Append(pulls, Pull(at.ref, at.base))
    <3>1. pulls' \in Seq(PullRow) /\ Len(pulls') = Len(pulls) + 1 /\ Len(pulls) \in Nat
      <4>1. Pull(at.ref, at.base) \in PullRow /\ pulls \in Seq(PullRow)
        BY <1>1 DEF Pull, PullRow, Status, RemoteTyped
      <4> QED BY <2>2, <4>1, AppendProperties, LenProperties
    <3>2. Len(pulls') \in Number'
      BY <3>1, LenProperties DEF Number
    <3>3. /\ at'.new = Len(pulls') /\ at'.n = at.n /\ at'.head = at.head /\ at'.ref = at.ref
          /\ at'.base = at.base /\ at'.build = at.build /\ at'.back = at.back
          /\ at' = [n |-> at.n, head |-> at.head, ref |-> at.ref, base |-> at.base, build |-> at.build,
                    new |-> at'.new, back |-> at.back]
      BY <1>1, <2>2 DEF At
    <3> QED BY <1>1, <1>2, <1>3, <2>2, <3>2, <3>3 DEF Label, AtWork, At, Evolves, FiniteWork
  <2> QED BY <1>2, <2>1, <2>2
<1> QED BY <1>2, <1>3, <1>4, RemoteStep

LEMMA CloseTyped == ASSUME StackTyped, ClosePull PROVE StackTyped'
<1>1. /\ RemoteTyped /\ TickTyped /\ Remembered(mem) /\ at \in At /\ FiniteWork /\ AtWork /\ pc \in Publishing
      /\ at.n \in Number /\ at.n \in Nat /\ at.new \in Nat /\ at.head \in Commits
  BY TypeParts, Numbered DEF StackTyped, ClosePull, Publishing, At, AtWork, TickTyped
<1>2. /\ UNCHANGED <<heads, disk, rows, queue, cands, batch>> /\ Retry
      /\ Steady \/ \E e \in Slip : Slips(e)
      /\ \/ UNCHANGED pulls
         \/ pulls' = [pulls EXCEPT ![at.n].status = IF @ = "open" THEN "superseded" ELSE @]
      /\ superseded' \in {superseded, superseded \union Changes(at.head)}
      /\ \/ UNCHANGED mem
         \/ mem' = [mem EXCEPT !.held = {e \in @ : e.n # at.n},
                        !.relanded = {r \in @ : r.n # at.n} \union {[n |-> at.n, head |-> at.head, new |-> at.new]}]
  BY DEF ClosePull, Fails, remote, tick, Slip
<1>3. Evolves
  BY PullsStep DEF Next, Step
<1>4. Remembered(mem)'
  <2>1. CASE UNCHANGED mem
    BY <1>1, <2>1 DEF Remembered
  <2>2. CASE mem' = [mem EXCEPT !.held = {e \in @ : e.n # at.n},
                         !.relanded = {r \in @ : r.n # at.n} \union {[n |-> at.n, head |-> at.head, new |-> at.new]}]
    BY <1>1, <2>2, RelandedRemembered
  <2> QED BY <1>2, <2>1, <2>2
<1>5. superseded' \subseteq Branch \X Nat
  <2>1. Changes(at.head) \subseteq Branch \X Nat
    BY <1>1 DEF Changes, Commits
  <2> QED BY <1>1, <1>2, <2>1 DEF RemoteTyped
<1>6. left' \in Nat /\ slipped' \subseteq Slip /\ heads' \in [Refs -> Commits] /\ IsFiniteSet(Work)'
  BY <1>1, <1>2, SteadyTyped DEF StackTyped, RemoteTyped, FiniteWork, Work
<1>7. pc' \in Label /\ (at \in At)' /\ IsFiniteSet(at'.build) /\ AtWork'
  BY <1>1, <1>2, <1>3, RetryTyped DEF Label
<1> QED BY <1>2, <1>3, <1>4, <1>5, <1>6, <1>7, RemoteStep

\* A pull request that was listed is merged, or none is.
LEMMA TrainTyped == ASSUME StackTyped, Train PROVE StackTyped'
<1>1. /\ RemoteTyped /\ TickTyped /\ Remembered(mem) /\ at \in At /\ FiniteWork /\ AtWork
  BY TypeParts DEF StackTyped
<1>2. PICK n \in batch :
        /\ batch' = batch \ {n}
        /\ \/ /\ n \in Open /\ pulls[n].base = Main /\ heads[pulls[n].ref] = rows[n].head
              /\ heads' = [heads EXCEPT ![Main] = @ \union rows[n].head]
              /\ pulls' = [pulls EXCEPT ![n].status = "merged"]
           \/ UNCHANGED remote
  BY DEF Train
<1>3. /\ UNCHANGED <<left, slipped, superseded, disk, mem, at, rows, queue, cands, pc>> /\ batch' \subseteq batch /\ pc = "train"
  BY <1>2 DEF Train
<1>4. n \in Number /\ rows[n].head \in Commits /\ IsFiniteSet(rows[n].head) /\ Main \in Refs
  BY <1>1 DEF TickTyped, ListedRow, FiniteWork, Refs
<1>5. Evolves
  BY PullsStep DEF Next, Step
<1>6. heads' \in [Refs -> Commits] /\ IsFiniteSet(Work)'
  <2>1. CASE heads' = [heads EXCEPT ![Main] = @ \union rows[n].head]
    <3>1. heads[Main] \union rows[n].head \in Commits /\ IsFiniteSet(heads[Main] \union rows[n].head)
      BY <1>4, RefTyped, FS_Union DEF Commits
    <3> QED BY <1>4, <2>1, <3>1, HeadsTyped
  <2>2. CASE UNCHANGED heads
    BY <1>1, <2>2 DEF RemoteTyped, FiniteWork, Work
  <2> QED BY <1>2, <2>1, <2>2 DEF remote
<1>7. /\ pc' \in Label /\ (at \in At)' /\ IsFiniteSet(at'.build) /\ AtWork' /\ Remembered(mem)'
      /\ left' \in Nat /\ slipped' \subseteq Slip /\ superseded' \subseteq Branch \X Nat
  BY <1>1, <1>3, <1>5 DEF Label, At, AtWork, Publishing, Evolves, Remembered, RemoteTyped, FiniteWork
<1> QED BY <1>3, <1>5, <1>6, <1>7, RemoteStep

LEMMA CrashTyped == ASSUME StackTyped, Crash PROVE StackTyped'
<1>1. /\ UNCHANGED <<pulls, heads, superseded, disk>> /\ left' \in Nat /\ slipped' \subseteq Slip
      /\ rows' = NoRows /\ queue' = {} /\ cands' = {} /\ batch' = {} /\ at' = Nobody /\ pc' = "idle" /\ mem' = NoMemory
  BY SteadyTyped DEF Crash, Clean, remote, Slip, StackTyped
<1>2. TickTyped' /\ AtWork' /\ Remembered(mem)' /\ DOMAIN rows' = {}
  BY <1>1 DEF TickTyped, Label, AtWork, Publishing, NoRows, NoMemory, Remembered, Memory, Keyed
<1> QED BY <1>1, <1>2, NobodyTyped, TickStep

\* The next change of an author.
NextChange(ref) == <<ref[1], 1 + Cardinality({c \in Changes(UNION Range(heads)) : c[1] = ref[1]}), 0>>

LEMMA ChangeTyped ==
  ASSUME StackTyped, NEW ref \in Refs \ {Main}
  PROVE  {NextChange(ref)} \in Commits /\ IsFiniteSet({NextChange(ref)})
<1>1. IsFiniteSet(Changes(UNION Range(heads)))
  BY CopiesFinite DEF StackTyped, FiniteWork, Work
<1>2. Cardinality({c \in Changes(UNION Range(heads)) : c[1] = ref[1]}) \in Nat
  BY <1>1, FS_Subset, FS_CardinalityType
<1>3. ref[1] \in Branch
  BY DEF Refs, Main
<1>4. 1 + Cardinality({c \in Changes(UNION Range(heads)) : c[1] = ref[1]}) \in Nat
  BY <1>2
<1>5. NextChange(ref) \in Branch \X Nat \X Nat
  BY <1>3, <1>4 DEF NextChange
<1> QED BY <1>5, FS_Singleton DEF Commits

LEMMA AuthorsTyped ==
  ASSUME StackTyped,
         \/ \E k \in Branch : AuthorOpens(k)
         \/ \E n \in Number : AuthorPushes(n) \/ SomebodyCloses(n)
  PROVE  StackTyped'
<1>1. RemoteTyped /\ TickTyped /\ Remembered(mem) /\ at \in At /\ FiniteWork /\ AtWork
  BY TypeParts DEF StackTyped
<1>2. /\ UNCHANGED <<disk, mem, pc, rows, queue, cands, batch, at, superseded>>
      /\ Steady \/ \E e \in Slip : Slips(e)
  BY DEF AuthorOpens, AuthorPushes, SomebodyCloses, process, tick, Slip
<1>3. Evolves
  BY PullsStep DEF Next, Step
<1>4. heads' \in [Refs -> Commits] /\ IsFiniteSet(Work)'
  <2>1. CASE UNCHANGED heads
    BY <1>1, <2>1 DEF RemoteTyped, FiniteWork, Work
  <2>2. CASE \E n \in Number : AuthorPushes(n)
    <3>1. PICK n \in Number : AuthorPushes(n)
      BY <2>2
    <3>2. pulls[n].ref \in Refs \ {Main} /\ pulls[n].ref \in Refs /\ pulls[n].base \in Refs
      BY <1>1, Numbered DEF PullRow
    <3>3. PICK below \in {{}, heads[pulls[n].base]} :
            heads' = [heads EXCEPT ![pulls[n].ref] = @ \union below \union {NextChange(pulls[n].ref)}]
      BY <3>1 DEF AuthorPushes, NextChange
    <3>4. below \in Commits /\ IsFiniteSet(below)
      BY <3>2, <3>3, RefTyped, FS_EmptySet DEF Commits
    <3>5. heads[pulls[n].ref] \in Commits /\ IsFiniteSet(heads[pulls[n].ref])
      BY <3>2, RefTyped
    <3> DEFINE head == heads[pulls[n].ref] \union below \union {NextChange(pulls[n].ref)}
    <3>6. head \in Commits /\ IsFiniteSet(head)
      <4>1. heads[pulls[n].ref] \union below \in Commits /\ IsFiniteSet(heads[pulls[n].ref] \union below)
        BY <3>4, <3>5, FS_Union DEF Commits
      <4> QED BY <3>2, <4>1, ChangeTyped, FS_Union DEF Commits
    <3>7. heads' = [heads EXCEPT ![pulls[n].ref] = head]
      BY <3>3
    <3> HIDE DEF head
    <3> QED BY <3>2, <3>6, <3>7, HeadsTyped
  <2> QED BY <2>1, <2>2 DEF AuthorOpens, SomebodyCloses
<1>5. /\ pc' \in Label /\ (at \in At)' /\ IsFiniteSet(at'.build) /\ AtWork' /\ Remembered(mem)'
      /\ left' \in Nat /\ slipped' \subseteq Slip /\ superseded' \subseteq Branch \X Nat
  BY <1>1, <1>2, <1>3, SteadyTyped DEF TickTyped, At, AtWork, Publishing, Evolves, Remembered, RemoteTyped, FiniteWork, StackTyped
<1> QED BY <1>2, <1>3, <1>4, <1>5, RemoteStep

LEMMA InitTyped == ASSUME Init PROVE StackTyped
<1>1. PICK start \in Starts :
        pulls = [n \in 1..Cardinality(start) |->
                   LET k == CHOOSE b \in start : Cardinality({c \in start : c <= b}) = n
                   IN Pull(<<k, "">>, Under(k))]
  BY DEF Init
<1>2. start \subseteq Branch /\ start \subseteq Nat /\ IsFiniteSet(start) /\ Cardinality(start) \in Nat /\ IsFiniteSet(Branch)
  <2>1. IsFiniteSet(Branch) /\ Branch \subseteq Nat
    BY StackAssumption, FS_Interval, 1 \in Int DEF Branch
  <2>2. start \subseteq Branch
    BY StackAssumption
  <2> QED BY <2>1, <2>2, FS_Subset, FS_CardinalityType
<1>3. pulls \in Seq(PullRow)
  <2>1. ASSUME NEW n \in 1..Cardinality(start) PROVE pulls[n] \in PullRow
    <3> DEFINE k == CHOOSE b \in start : Cardinality({c \in start : c <= b}) = n
    <3>1. k \in Branch
      BY <1>2, NthNumber
    <3>2. pulls[n] = Pull(<<k, "">>, Under(k))
      BY <1>1
    <3> HIDE DEF k
    <3>3. Pull(<<k, "">>, Under(k)) \in PullRow
      <4>1. <<k, "">> \in Refs \ {Main} /\ Under(k) \in Refs
        BY <3>1, OwnBranch
      <4> QED BY <4>1 DEF Pull, PullRow, Status
    <3> QED BY <3>2, <3>3
  <2> DEFINE N == Cardinality(start)
  <2> DEFINE first(n) == LET k == CHOOSE b \in start : Cardinality({c \in start : c <= b}) = n
                         IN Pull(<<k, "">>, Under(k))
  <2>2. pulls = [n \in 1..N |-> pulls[n]] /\ N \in Nat
    <3>1. pulls = [n \in 1..N |-> first(n)]
      BY <1>1
    <3> HIDE DEF N, first
    <3>2. pulls = [n \in 1..N |-> pulls[n]]
      BY <3>1
    <3> QED BY <1>2, <3>2 DEF N
  <2>3. \A n \in 1..N : pulls[n] \in PullRow
    BY <2>1
  <2> HIDE DEF N
  <2>4. pulls \in [1..N -> PullRow]
    BY <2>2, <2>3
  <2> QED BY <2>2, <2>4, SeqDef
<1>4. heads \in [Refs -> Commits] /\ \A r \in Refs : heads[r] \subseteq {<<k, 1, 0>> : k \in Branch}
  <2>1. heads = [r \in Refs |-> IF r[2] = "" THEN {<<k, 1, 0>> : k \in 1..r[1]} ELSE {}]
    BY DEF Init
  <2>2. \A r \in Refs : r[1] \in Branch \union {0}
    <3>1. Main[1] = 0 /\ \A r \in Branch \X {"", "ordered", "restacked"} : r[1] \in Branch
      BY DEF Main
    <3> QED BY <3>1 DEF Refs
  <2>3. \A r \in Refs : 1..r[1] \subseteq Branch
    BY <2>2, StackAssumption DEF Branch
  <2>4. \A r \in Refs : heads[r] \subseteq {<<k, 1, 0>> : k \in Branch}
    BY <2>1, <2>3
  <2>5. \A k \in Branch : <<k, 1, 0>> \in Branch \X Nat \X Nat
    OBVIOUS
  <2>6. \A r \in Refs : heads[r] \in Commits
    BY <2>4, <2>5 DEF Commits
  <2> QED BY <2>1, <2>4, <2>6
<1>5. IsFiniteSet(Work)
  <2> DEFINE f == [k \in Branch |-> <<k, 1, 0>>]
  <2>1. f \in Surjection(Branch, {<<k, 1, 0>> : k \in Branch})
    BY DEF Surjection
  <2>2. IsFiniteSet({<<k, 1, 0>> : k \in Branch})
    BY <1>2, <2>1, FS_Surjection
  <2>3. Work \subseteq {<<k, 1, 0>> : k \in Branch}
    BY <1>4 DEF Work, Range
  <2> QED BY <2>2, <2>3, FS_Subset
<1>6. /\ left \in Nat /\ slipped \subseteq Slip /\ superseded \subseteq Branch \X Nat
      /\ pc = "idle" /\ rows = NoRows /\ queue = {} /\ cands = {} /\ batch = {} /\ at = Nobody
      /\ disk = NoMemory /\ mem = NoMemory
  BY SlipAssumption DEF Init
<1>7. TickTyped /\ AtWork /\ Remembered(mem) /\ Remembered(disk) /\ DOMAIN rows = {} /\ RemoteTyped
  BY <1>3, <1>4, <1>6 DEF TickTyped, Label, AtWork, Publishing, NoRows, NoMemory, Remembered, Memory, Keyed, RemoteTyped
<1> QED BY <1>5, <1>6, <1>7, NobodyTyped, TypeParts DEF StackTyped, FiniteWork

\* Every step keeps the types, and what it does to the remote is to open, end or
\* retarget a pull request.
LEMMA TypedNext == ASSUME StackTyped, [Next]_vars PROVE StackTyped'
<1>1. CASE UNCHANGED vars
  BY <1>1 DEF vars, remote, tick, StackTyped, TypeOK, FiniteWork, AtWork, Work, Number, Keyed
<1>2. CASE Next
  BY <1>2, ListTyped, DecideTyped, RestackTyped, RetargetTyped, CandidatesTyped, RelandTyped, PushTyped, OpenTyped,
     CloseTyped, TrainTyped, CrashTyped, AuthorsTyped DEF Next, Step
<1> QED BY <1>1, <1>2

LEMMA TypedAlways == Spec => []StackTyped
<1>1. StackTyped /\ [Next]_vars => StackTyped'
  BY TypedNext
<1> QED BY <1>1, InitTyped, PTL DEF Spec

\* The state has its type, whatever fails, dies or is pushed; in particular there is always
\* a commit to make that nobody has made before.
THEOREM StackedTypeOK == Spec => []TypeOK
<1>1. StackTyped => TypeOK
  BY DEF StackTyped
<1> QED BY <1>1, TypedAlways, PTL

---------------------------------------------------------------------------
(* Nothing lands before what it is stacked on.                             *)

MergedBranches == {pulls[n].ref[1] : n \in {m \in Number : pulls[m].status = "merged"}}
Covered(k) == 1..k \subseteq MergedBranches
Within(head, k) == \A c \in head : c[1] \in 1..k \union MergedBranches
OnParent(base, k) == IF base = Main THEN Covered(k - 1) ELSE base[1] = k - 1
Records == disk.relanded \union mem.relanded

\* A branch is merged after the ones below it: a pull request is against the branch below
\* or all of them were merged, and a head has changes of those or of merged branches only.
PullsInOrder == \A n \in Number : OnParent(pulls[n].base, pulls[n].ref[1])
HeadsInOrder == \A r \in Refs : Within(heads[r], r[1])
RowsInOrder ==
  /\ \A n \in DOMAIN rows : Within(rows[n].head, pulls[n].ref[1]) /\ OnParent(rows[n].base, pulls[n].ref[1])
  /\ \A n \in cands : rows[n].base = Main
RecordsInOrder ==
  \A r \in Records : r.n \in Number /\ r.new \in Number /\ pulls[r.new].ref[1] = pulls[r.n].ref[1]
WorkInOrder ==
  pc \in Publishing =>
    /\ at.ref[1] = pulls[at.n].ref[1] /\ OnParent(at.base, at.ref[1]) /\ Within(at.build, at.ref[1])
    /\ pc = "close" => pulls[at.new].ref = at.ref
MergedInOrder == \A b \in MergedBranches : Covered(b)

LandingOrder ==
  MergedInOrder /\ PullsInOrder /\ HeadsInOrder /\ RowsInOrder /\ RecordsInOrder /\ WorkInOrder

\* Merged branches stay merged.
LEMMA MergedGrows ==
  ASSUME Evolves
  PROVE  /\ MergedBranches \subseteq MergedBranches'
         /\ \A k : Covered(k) => Covered(k)'
         /\ \A base, k : OnParent(base, k) => OnParent(base, k)'
         /\ \A head, k : Within(head, k) => Within(head, k)'
<1>1. MergedBranches \subseteq MergedBranches'
  BY DEF Evolves, MergedBranches, Open
<1> QED BY <1>1 DEF Covered, OnParent, Within

\* ... and a branch is new among them when the train merges its pull request.
LEMMA NewlyMerged ==
  ASSUME StackTyped, [Next]_vars, ~Train
  PROVE  MergedBranches' = MergedBranches
<1>1. Number' = Number /\ (\A n \in Number : pulls'[n].ref = pulls[n].ref
                                             /\ (pulls'[n].status = "merged" <=> pulls[n].status = "merged"))
      => MergedBranches' = MergedBranches
  BY DEF MergedBranches
<1>2. ASSUME NEW ref, NEW base, pulls' = Append(pulls, Pull(ref, base))
      PROVE  MergedBranches' = MergedBranches
  <2>1. pulls \in Seq(PullRow) /\ DOMAIN pulls = 1..Len(pulls) /\ Len(pulls) \in Nat
    BY TypeParts, Numbered DEF StackTyped, RemoteTyped, Number
  <2>2. /\ DOMAIN pulls' = 1..(Len(pulls) + 1)
        /\ \A n \in 1..Len(pulls) : pulls'[n] = pulls[n]
        /\ pulls'[Len(pulls) + 1].status = "open"
    BY <1>2, <2>1 DEF Pull
  <2> QED BY <2>1, <2>2 DEF MergedBranches, Number
<1>3. CASE Retarget \/ ClosePull
  <2>1. \/ UNCHANGED pulls
        \/ \E n, base : pulls' = [pulls EXCEPT ![n].base = base]
        \/ \E n : pulls' = [pulls EXCEPT ![n].status = IF @ = "open" THEN "superseded" ELSE @]
    <3>1. CASE Retarget
      BY <3>1 DEF Retarget
    <3>2. CASE ClosePull
      BY <3>2 DEF ClosePull, Fails, remote
    <3> QED BY <1>3, <3>1, <3>2
  <2>2. Number' = Number /\ \A n \in Number : pulls[n] \in PullRow
    BY <2>1, Numbered, TypeParts DEF Number, StackTyped
  <2>3. \A n \in Number : pulls'[n].status = "merged" <=> pulls[n].status = "merged"
    BY <2>1, <2>2 DEF Number, PullRow
  <2>4. \A n \in Number : pulls'[n].ref = pulls[n].ref
    BY PullsStep DEF Evolves
  <2> QED BY <1>1, <2>2, <2>3, <2>4
<1>4. CASE \E n \in Number : SomebodyCloses(n)
  BY <1>1, <1>4 DEF SomebodyCloses, Number, Open
<1>5. CASE OpenPull \/ \E k \in Branch : AuthorOpens(k)
  <2>1. UNCHANGED pulls \/ \E ref, base : pulls' = Append(pulls, Pull(ref, base))
    BY <1>5 DEF OpenPull, AuthorOpens, Fails, remote
  <2> QED BY <1>2, <2>1 DEF MergedBranches, Number
<1>6. UNCHANGED pulls => MergedBranches' = MergedBranches
  BY DEF MergedBranches, Number
<1>7. UNCHANGED vars => UNCHANGED pulls
  BY DEF vars, remote
<1>8. (\E n \in Number : AuthorPushes(n)) \/ Crash => UNCHANGED pulls
  BY DEF AuthorPushes, Crash, remote
<1>9. List \/ Decide \/ StackedUnread \/ StackedUnknown \/ HoldOrphan \/ Restack \/ Receive \/ Reland => UNCHANGED pulls
  BY DEF List, Decide, StackedUnread, StackedUnknown, HoldOrphan, Restack, Receive, Reland, remote
<1>10. Revalidate \/ Push \/ Land \/ EndTick => UNCHANGED pulls
  BY DEF Revalidate, Push, Fails, Land, EndTick, remote
<1> QED BY <1>3, <1>4, <1>5, <1>6, <1>7, <1>8, <1>9, <1>10 DEF Next, Step

\* Branches are numbered from one, the base branch is below all of them.
LEMMA RefNumbers ==
  /\ Main \in Refs /\ Main[1] = 0
  /\ \A r \in Refs \ {Main} : r[1] \in Branch /\ r[1] \in Nat /\ r[1] - 1 \in Nat /\ r[1] \in 1..r[1]
                              /\ 1..r[1] = 1..(r[1] - 1) \union {r[1]}
<1>1. Main \in Refs /\ Main[1] = 0 /\ \A r \in Refs \ {Main} : r[1] \in Branch
  BY DEF Refs, Main
<1>2. \A k \in Branch : k \in Nat /\ k - 1 \in Nat /\ k \in 1..k /\ 1..k = 1..(k - 1) \union {k}
  BY StackAssumption DEF Branch
<1> QED BY <1>1, <1>2

\* The train merges what is on the base branch with everything it is stacked on.
LEMMA TrainOrder ==
  ASSUME StackTyped, LandingOrder, Train
  PROVE  MergedInOrder' /\ HeadsInOrder'
<1>1. RemoteTyped /\ TickTyped /\ Evolves
  BY TypeParts, PullsStep DEF StackTyped, Next, Step
<1>2. PICK n \in batch :
        \/ /\ n \in Open /\ pulls[n].base = Main /\ heads[pulls[n].ref] = rows[n].head
           /\ heads' = [heads EXCEPT ![Main] = @ \union rows[n].head]
           /\ pulls' = [pulls EXCEPT ![n].status = "merged"]
        \/ UNCHANGED remote
  BY DEF Train
<1>3. CASE UNCHANGED remote
  BY <1>3 DEF remote, LandingOrder, MergedInOrder, HeadsInOrder, MergedBranches, Number, Covered, Within
<1>4. CASE /\ n \in Open /\ pulls[n].base = Main /\ heads[pulls[n].ref] = rows[n].head
           /\ heads' = [heads EXCEPT ![Main] = @ \union rows[n].head]
           /\ pulls' = [pulls EXCEPT ![n].status = "merged"]
  <2> DEFINE k == pulls[n].ref[1]
  <2>1. n \in Number /\ pulls[n] \in PullRow /\ pulls[n].ref \in Refs \ {Main}
    BY <1>1, <1>4, Numbered DEF Open, PullRow
  <2>2. k \in Nat /\ 1..k = 1..(k - 1) \union {k}
    BY <2>1, RefNumbers
  <2>3. MergedBranches' = MergedBranches \union {k}
    <3>1. Number' = Number
      BY <1>4 DEF Number
    <3>2. \A m \in Number : pulls'[m].ref = pulls[m].ref
                            /\ pulls'[m].status = IF m = n THEN "merged" ELSE pulls[m].status
      BY <1>4, <2>1, <1>1, Numbered DEF Number, PullRow
    <3> QED BY <2>1, <3>1, <3>2 DEF MergedBranches
  <2>4. Covered(k - 1)
    BY <1>4, <2>1 DEF LandingOrder, PullsInOrder, OnParent
  <2>5. 1..k \subseteq MergedBranches'
    BY <2>2, <2>3, <2>4 DEF Covered
  <2>6. MergedInOrder'
    BY <2>3, <2>5 DEF LandingOrder, MergedInOrder, Covered
  <2>7. Within(rows[n].head, k)
    BY <1>4, <2>1 DEF LandingOrder, HeadsInOrder
  <2>8. \A r \in Refs : \A c \in heads'[r] : c[1] \in 1..r[1] \union MergedBranches'
    <3>1. \A r \in Refs : heads'[r] = IF r = Main THEN heads[Main] \union rows[n].head ELSE heads[r]
      BY <1>1, <1>4, RefNumbers DEF RemoteTyped
    <3>2. \A r \in Refs : \A c \in heads[r] : c[1] \in 1..r[1] \union MergedBranches'
      BY <2>3 DEF LandingOrder, HeadsInOrder, Within
    <3>3. \A c \in rows[n].head : c[1] \in MergedBranches'
      BY <2>3, <2>5, <2>7 DEF Within
    <3> QED BY <3>1, <3>2, <3>3
  <2> QED BY <2>6, <2>8 DEF HeadsInOrder, Within
<1> QED BY <1>2, <1>3, <1>4

\* What is pushed, by the train or by an author, is of branches that may be there.
LEMMA PushOrder ==
  ASSUME StackTyped, LandingOrder, Evolves,
         \/ UNCHANGED heads
         \/ pc \in Publishing /\ heads' = [heads EXCEPT ![at.ref] = at.build]
         \/ \E n \in Number : AuthorPushes(n)
  PROVE  HeadsInOrder'
<1>1. RemoteTyped /\ at \in At
  BY TypeParts DEF StackTyped
<1>2. CASE UNCHANGED heads
  BY <1>2, MergedGrows DEF LandingOrder, HeadsInOrder, Within
<1>3. CASE pc \in Publishing /\ heads' = [heads EXCEPT ![at.ref] = at.build]
  <2>1. Within(at.build, at.ref[1]) /\ at.ref \in Refs
    BY <1>1, <1>3 DEF LandingOrder, WorkInOrder, At
  <2>2. \A c \in at.build : c[1] \in 1..at.ref[1] \union MergedBranches'
    BY <2>1, MergedGrows DEF Within
  <2>3. \A r \in Refs : heads'[r] = IF r = at.ref THEN at.build ELSE heads[r]
    BY <1>1, <1>3 DEF RemoteTyped
  <2>4. \A r \in Refs : \A c \in heads[r] : c[1] \in 1..r[1] \union MergedBranches'
    BY MergedGrows DEF LandingOrder, HeadsInOrder, Within
  <2> QED BY <2>2, <2>3, <2>4 DEF HeadsInOrder, Within
<1>4. CASE \E n \in Number : AuthorPushes(n)
  <2>1. PICK n \in Number : AuthorPushes(n)
    BY <1>4
  <2> DEFINE ref == pulls[n].ref
  <2>2. pulls[n] \in PullRow /\ ref \in Refs \ {Main} /\ pulls[n].base \in Refs
    BY <1>1, Numbered DEF PullRow
  <2>3. PICK below \in {{}, heads[pulls[n].base]} :
          heads' = [heads EXCEPT ![ref] = @ \union below \union {NextChange(ref)}]
    BY <2>1 DEF AuthorPushes, NextChange
  <2>4. \A r \in Refs : \A c \in heads[r] : c[1] \in 1..r[1] \union MergedBranches'
    BY MergedGrows DEF LandingOrder, HeadsInOrder, Within
  <2>5. NextChange(ref)[1] \in 1..ref[1]
    BY <2>2, RefNumbers DEF NextChange
  <2>6. \A c \in heads[pulls[n].base] : c[1] \in 1..ref[1] \union MergedBranches'
    <3>1. OnParent(pulls[n].base, ref[1])
      BY DEF LandingOrder, PullsInOrder
    <3>2. CASE pulls[n].base = Main
      <4>1. 1..Main[1] = {}
        BY RefNumbers
      <4> QED BY <2>2, <2>4, <3>2, <4>1
    <3>3. CASE pulls[n].base # Main
      <4>1. 1..pulls[n].base[1] \subseteq 1..ref[1]
        BY <2>2, <3>1, <3>3, RefNumbers DEF OnParent
      <4> QED BY <2>2, <2>4, <4>1
    <3> QED BY <3>2, <3>3
  <2>7. \A r \in Refs : heads'[r] = IF r = ref THEN heads[ref] \union below \union {NextChange(ref)} ELSE heads[r]
    BY <1>1, <2>2, <2>3 DEF RemoteTyped
  <2> HIDE DEF ref
  <2> QED BY <2>2, <2>3, <2>4, <2>5, <2>6, <2>7 DEF HeadsInOrder, Within
<1> QED BY <1>2, <1>3, <1>4

\* A pull request is opened against the branch below, and retargeted when that is merged.
LEMMA BaseOrder == ASSUME StackTyped, LandingOrder, [Next]_vars PROVE PullsInOrder'
<1>1. RemoteTyped /\ TickTyped /\ AtWork /\ at \in At /\ Evolves
  BY TypeParts, PullsStep DEF StackTyped
<1>2. ASSUME NEW ref \in Refs \ {Main}, NEW base \in Refs, pulls' = Append(pulls, Pull(ref, base)),
             OnParent(base, ref[1])
      PROVE  PullsInOrder'
  <2>1. /\ DOMAIN pulls' = DOMAIN pulls \union {Len(pulls) + 1}
        /\ \A n \in Number : pulls'[n] = pulls[n]
        /\ pulls'[Len(pulls) + 1] = Pull(ref, base)
    <3>1. Pull(ref, base) \in PullRow
      BY DEF Pull, PullRow, Status
    <3> QED BY <1>1, <1>2, <3>1, Numbered, AppendProperties, LenProperties DEF RemoteTyped
  <2> QED BY <1>1, <1>2, <2>1, MergedGrows DEF LandingOrder, PullsInOrder, Number, Pull
<1>3. ASSUME Number' = Number, \A n \in Number : pulls'[n].base = pulls[n].base
      PROVE  PullsInOrder'
  BY <1>1, <1>3, MergedGrows DEF LandingOrder, PullsInOrder, Evolves
<1>4. CASE Retarget
  <2>1. Row \in Number /\ Row \in DOMAIN rows /\ rows[Row].base # Main /\ MergedParents(Row) # {}
    BY <1>1, <1>4, RowQueued DEF Retarget, Stacked
  <2> DEFINE k == pulls[Row].ref[1]
  <2>2. k - 1 \in MergedBranches
    <3>1. rows[Row].base[1] = k - 1
      BY <2>1 DEF LandingOrder, RowsInOrder, OnParent
    <3> QED BY <2>1, <3>1 DEF MergedParents, PullsWithHead, MergedBranches
  <2>3. Covered(k - 1)
    BY <2>2 DEF LandingOrder, MergedInOrder
  <2>4. Number' = Number /\ \A n \in Number \ {Row} : pulls'[n] = pulls[n]
    BY <1>1, <1>4 DEF Retarget, Number
  <2>5. OnParent(pulls'[Row].base, k)
    BY <1>1, <2>1, <2>3 DEF Evolves, OnParent, LandingOrder, PullsInOrder
  <2> HIDE DEF k
  <2> QED BY <1>1, <2>4, <2>5, MergedGrows DEF LandingOrder, PullsInOrder, Evolves, k
<1>5. CASE OpenPull
  <2>1. /\ at.ref \in Refs \ {Main} /\ at.base \in Refs /\ OnParent(at.base, at.ref[1])
    BY <1>1, <1>5 DEF OpenPull, Publishing, AtWork, At, LandingOrder, WorkInOrder
  <2> QED BY <1>2, <1>3, <1>5, <2>1 DEF OpenPull, Fails, remote, Number
<1>6. CASE \E k \in Branch : AuthorOpens(k)
  <2>1. PICK k \in Branch : pulls' = Append(pulls, Pull(<<k, "">>, Under(k)))
    BY <1>6 DEF AuthorOpens
  <2>2. Under(k) = Main => Covered(k - 1)
    <3>1. Under(k) = Main => k - 1 = 0
      BY OwnBranch, RefNumbers
    <3> QED BY <3>1 DEF Covered
  <2>3. OnParent(Under(k), k)
    BY <2>2, OwnBranch DEF OnParent
  <2> QED BY <1>2, <2>1, <2>3, OwnBranch
<1>7. CASE ClosePull \/ Train \/ \E n \in Number : SomebodyCloses(n)
  <2>1. UNCHANGED pulls \/ \E n, status : pulls' = [pulls EXCEPT ![n].status = status]
    <3>1. CASE ClosePull
      <4>1. UNCHANGED pulls \/ pulls' = [pulls EXCEPT ![at.n].status = IF @ = "open" THEN "superseded" ELSE @]
        BY <3>1 DEF ClosePull, Fails, remote
      <4> QED BY <4>1
    <3>2. CASE Train
      BY <3>2 DEF Train, remote
    <3>3. CASE \E n \in Number : SomebodyCloses(n)
      BY <3>3 DEF SomebodyCloses
    <3> QED BY <1>7, <3>1, <3>2, <3>3
  <2>2. Number' = Number /\ \A n \in Number : pulls'[n].base = pulls[n].base
    BY <1>1, <2>1, Numbered DEF Number, PullRow
  <2> QED BY <1>3, <2>2
<1>8. UNCHANGED pulls => PullsInOrder'
  BY <1>3 DEF Number
<1>9. UNCHANGED vars => UNCHANGED pulls
  BY DEF vars, remote
<1>10. (\E n \in Number : AuthorPushes(n)) \/ Crash => UNCHANGED pulls
  BY DEF AuthorPushes, Crash, remote
<1>11. List \/ Decide \/ StackedUnread \/ StackedUnknown \/ HoldOrphan \/ Restack \/ Receive \/ Reland => UNCHANGED pulls
  BY DEF List, Decide, StackedUnread, StackedUnknown, HoldOrphan, Restack, Receive, Reland, remote
<1>12. Revalidate \/ Push \/ Land \/ EndTick => UNCHANGED pulls
  BY DEF Revalidate, Push, Fails, Land, EndTick, remote
<1> QED BY <1>4, <1>5, <1>6, <1>7, <1>8, <1>9, <1>10, <1>11, <1>12 DEF Next, Step

\* What a tick listed was in order, and stays so.
LEMMA RowOrder == ASSUME StackTyped, LandingOrder, [Next]_vars PROVE RowsInOrder'
<1>1. RemoteTyped /\ TickTyped /\ Evolves
  BY TypeParts, PullsStep DEF StackTyped
<1>2. ASSUME UNCHANGED rows, \A n \in cands' : n \in cands \/ rows[n].base = Main PROVE RowsInOrder'
  BY <1>1, <1>2, MergedGrows DEF LandingOrder, RowsInOrder, Evolves, TickTyped
<1>3. CASE List
  <2>1. /\ DOMAIN rows' = Open /\ cands' = {} /\ UNCHANGED <<pulls, heads>> /\ Open \subseteq Number
        /\ \A n \in Open : rows'[n].head = heads[pulls[n].ref] /\ rows'[n].base = pulls[n].base
                           /\ pulls[n].ref \in Refs
    BY <1>1, <1>3, Numbered DEF List, remote, Open, PullRow
  <2> QED BY <1>1, <2>1, MergedGrows DEF LandingOrder, HeadsInOrder, PullsInOrder, RowsInOrder, Evolves
<1>4. CASE rows' = NoRows /\ cands' = {}
  BY <1>4 DEF RowsInOrder, NoRows
<1>5. UNCHANGED vars => UNCHANGED <<rows, cands>>
  BY DEF vars, tick
<1>6. EndTick \/ Crash => rows' = NoRows /\ cands' = {}
  BY DEF EndTick, Crash, Clean
<1>7. Decide => UNCHANGED rows /\ \A n \in cands' : n \in cands \/ rows[n].base = Main
  BY DEF Decide
<1>8. StackedUnread \/ Retarget \/ StackedUnknown \/ HoldOrphan \/ Restack => UNCHANGED <<rows, cands>>
  BY DEF StackedUnread, Retarget, StackedUnknown, HoldOrphan, Restack
<1>9. Receive \/ Reland \/ Revalidate => UNCHANGED rows /\ cands' \subseteq cands
  BY DEF Receive, Reland, Revalidate, tick
<1>10. Push \/ OpenPull \/ ClosePull \/ Land \/ Train => UNCHANGED <<rows, cands>>
  BY DEF Push, OpenPull, ClosePull, Fails, Land, Train, tick
<1>11. (\E k \in Branch : AuthorOpens(k)) \/ (\E n \in Number : AuthorPushes(n) \/ SomebodyCloses(n))
       => UNCHANGED <<rows, cands>>
  BY DEF AuthorOpens, AuthorPushes, SomebodyCloses, process, tick
<1> QED BY <1>2, <1>3, <1>4, <1>5, <1>6, <1>7, <1>8, <1>9, <1>10, <1>11 DEF Next, Step

\* Only a close that was answered makes a record, and it closed what it is about.
LEMMA RecordsFrom ==
  ASSUME StackTyped, [Next]_vars, NEW r \in Records', r \notin Records
  PROVE  ClosePull /\ pc = "close" /\ r.n = at.n /\ r.new = at.new /\ at.n \notin Open'
<1>1. RemoteTyped /\ TickTyped /\ AtWork
  BY TypeParts DEF StackTyped
<1>2. CASE List
  BY <1>2 DEF List, Pruned, NoMemory, Kept, Records
<1>3. CASE HoldOrphan \/ Restack \/ StackedUnknown
  <2>1. \/ mem' = mem
        \/ \E head, reason : mem' = Holding(Row, head, reason)
        \/ \E bases : mem' = [mem EXCEPT !.bases = bases]
    <3>1. CASE HoldOrphan
      BY <3>1 DEF HoldOrphan
    <3>2. CASE Restack
      BY <3>2 DEF Restack
    <3>3. CASE StackedUnknown
      BY <3>3 DEF StackedUnknown
    <3> QED BY <1>3, <3>1, <3>2, <3>3
  <2>2. mem'.relanded = mem.relanded
    BY <2>1, TypeParts DEF Holding, StackTyped, Remembered, Memory
  <2>3. disk' = disk
    BY <1>3 DEF HoldOrphan, Restack, StackedUnknown
  <2> QED BY <2>2, <2>3 DEF Records
<1>4. CASE ClosePull
  <2>1. disk' = disk /\ pc = "close"
    BY <1>4 DEF ClosePull, Fails
  <2>2. mem' # mem
    BY <2>1 DEF Records
  <2>3. /\ pulls' = [pulls EXCEPT ![at.n].status = IF @ = "open" THEN "superseded" ELSE @]
        /\ mem' = [mem EXCEPT !.held = {e \in @ : e.n # at.n},
                     !.relanded = {e \in @ : e.n # at.n} \union {[n |-> at.n, head |-> at.head, new |-> at.new]}]
    BY <1>4, <2>2 DEF ClosePull, Fails
  <2>4. mem'.relanded \subseteq mem.relanded \union {[n |-> at.n, head |-> at.head, new |-> at.new]}
    BY <2>3, TypeParts DEF StackTyped, Remembered, Memory
  <2>5. r = [n |-> at.n, head |-> at.head, new |-> at.new]
    BY <2>1, <2>4 DEF Records
  <2>6. at.n \in Number /\ pulls[at.n] \in PullRow
    BY <1>1, <2>1, Numbered DEF AtWork, Publishing, TickTyped
  <2>7. pulls'[at.n].status # "open"
    BY <2>3, <2>6 DEF PullRow, Number
  <2>8. at.n \notin Open'
    BY <2>7 DEF Open
  <2> QED BY <1>4, <2>1, <2>5, <2>8
<1>5. CASE EndTick \/ Crash \/ Land
  BY <1>5 DEF EndTick, Crash, Land, Clean, NoMemory, Records
<1>6. CASE UNCHANGED <<disk, mem>>
  BY <1>6 DEF Records
<1>7. UNCHANGED vars => UNCHANGED <<disk, mem>>
  BY DEF vars
<1>8. Decide \/ StackedUnread \/ Retarget \/ Receive \/ Reland \/ Revalidate => UNCHANGED <<disk, mem>>
  BY DEF Decide, StackedUnread, Retarget, Receive, Reland, Revalidate
<1>9. Push \/ OpenPull \/ Train => UNCHANGED <<disk, mem>>
  BY DEF Push, OpenPull, Fails, Train
<1>10. (\E k \in Branch : AuthorOpens(k)) \/ (\E n \in Number : AuthorPushes(n) \/ SomebodyCloses(n))
       => UNCHANGED <<disk, mem>>
  BY DEF AuthorOpens, AuthorPushes, SomebodyCloses, process
<1> QED BY <1>2, <1>3, <1>4, <1>5, <1>6, <1>7, <1>8, <1>9, <1>10 DEF Next, Step

\* A superseded pull request is remembered with a successor of its own branch.
LEMMA RecordOrder == ASSUME StackTyped, LandingOrder, [Next]_vars PROVE RecordsInOrder'
<1>1. TickTyped /\ AtWork /\ Evolves
  BY TypeParts, PullsStep DEF StackTyped
<1>2. pc = "close" => at.n \in Number /\ at.new \in Number /\ pulls[at.new].ref[1] = pulls[at.n].ref[1]
  BY <1>1 DEF LandingOrder, WorkInOrder, AtWork, Publishing, TickTyped
<1> QED BY <1>1, <1>2, RecordsFrom DEF LandingOrder, RecordsInOrder, Evolves

\* What is rebuilt is for a branch whose parent it is built on.
LEMMA WorkOrder == ASSUME StackTyped, LandingOrder, [Next]_vars PROVE WorkInOrder'
<1>1. RemoteTyped /\ TickTyped /\ AtWork /\ at \in At /\ Evolves
  BY TypeParts, PullsStep DEF StackTyped
<1>2. ASSUME UNCHANGED at, pc' \in Publishing => pc \in Publishing /\ (pc' = "close" => pc = "close")
      PROVE  WorkInOrder'
  <2>1. pc \in Publishing => at.n \in Number /\ (pc = "close" => at.new \in Number)
    BY <1>1 DEF AtWork, TickTyped
  <2> QED BY <1>1, <1>2, <2>1, MergedGrows DEF LandingOrder, WorkInOrder, Evolves
<1>3. ASSUME pc' \notin Publishing PROVE WorkInOrder'
  BY <1>3 DEF WorkInOrder
<1>4. CASE Retry /\ pc \in Publishing
  BY <1>1, <1>3, <1>4 DEF Retry, AtWork, Publishing
<1>5. ASSUME UNCHANGED <<pulls, heads>>, NEW n \in DOMAIN rows, NEW part, NEW base \in Refs, NEW own,
             at' = [n |-> n, head |-> rows[n].head, ref |-> <<pulls[n].ref[1], own>>, base |-> base,
                    build |-> heads[base] \union Copies(part), new |-> 0, back |-> "decide"],
             part \subseteq Changes(rows[n].head), OnParent(base, pulls[n].ref[1]), pc' # "close"
      PROVE  WorkInOrder'
  <2> DEFINE k == pulls[n].ref[1]
  <2>1. n \in Number /\ pulls'[n] = pulls[n] /\ pulls[n].ref \in Refs \ {Main}
    BY <1>1, <1>5, Numbered DEF TickTyped, PullRow
  <2>2. Within(rows[n].head, k) /\ Within(heads[base], base[1])
    BY DEF LandingOrder, RowsInOrder, HeadsInOrder
  <2>3. \A c \in Copies(part) : c[1] \in 1..k \union MergedBranches
    BY <1>5, <2>2 DEF Copies, Changes, Within
  <2>4. \A c \in heads[base] : c[1] \in 1..k \union MergedBranches
    <3>1. CASE base = Main
      <4>1. 1..base[1] = {}
        BY <3>1, RefNumbers
      <4> QED BY <2>2, <4>1 DEF Within
    <3>2. CASE base # Main
      <4>1. 1..base[1] \subseteq 1..k
        BY <1>5, <2>1, <3>2, RefNumbers DEF OnParent
      <4> QED BY <2>2, <4>1 DEF Within
    <3> QED BY <3>1, <3>2
  <2>5. Within(at'.build, k)
    BY <1>5, <2>3, <2>4 DEF Within
  <2>6. /\ \A c \in at'.build : c[1] \in 1..k \union MergedBranches'
        /\ IF base = Main THEN 1..(k - 1) \subseteq MergedBranches' ELSE base[1] = k - 1
    <3>1. MergedBranches \subseteq MergedBranches'
      BY <1>1, MergedGrows
    <3>2. OnParent(base, k)
      BY <1>5
    <3> QED BY <2>5, <3>1, <3>2 DEF Within, OnParent, Covered
  <2>7. at'.n = n /\ at'.ref[1] = k /\ at'.base = base /\ pc' # "close" /\ pulls'[n].ref[1] = k
    BY <1>5, <2>1
  <2> HIDE DEF k
  <2> QED BY <2>6, <2>7 DEF WorkInOrder, Within, OnParent, Covered
<1>6. CASE Restack
  <2>1. PICK r \in Recorded(Row) :
          /\ r.new \in Open
          /\ LET onto == heads[pulls[r.new].ref]
                 own == rows[Row].head \ r.head
             IN \/ /\ at' = [n |-> Row, head |-> rows[Row].head, ref |-> <<pulls[Row].ref[1], "restacked">>,
                             base |-> pulls[r.new].ref, build |-> onto \union Copies(Changes(own)),
                             new |-> 0, back |-> "decide"]
                   /\ pc' = "push"
                \/ UNCHANGED <<pc, at>>
    BY <1>6 DEF Restack
  <2>2. CASE UNCHANGED <<pc, at>>
    BY <1>2, <2>2
  <2>3. CASE /\ at' = [n |-> Row, head |-> rows[Row].head, ref |-> <<pulls[Row].ref[1], "restacked">>,
                       base |-> pulls[r.new].ref,
                       build |-> heads[pulls[r.new].ref] \union Copies(Changes(rows[Row].head \ r.head)),
                       new |-> 0, back |-> "decide"]
             /\ pc' = "push"
    <3>1. Row \in DOMAIN rows /\ UNCHANGED <<pulls, heads>> /\ rows[Row].base # Main
      BY <1>1, <1>6, RowQueued DEF Restack, remote, ParentClosed, Stacked
    <3>2. r.n \in Number /\ r.new \in Number /\ pulls[r.new].ref[1] = pulls[r.n].ref[1] /\ pulls[r.n].ref = rows[Row].base
      BY <2>1 DEF Recorded, LandingOrder, RecordsInOrder, Records, PullsWithHead
    <3>3. pulls[r.new].ref \in Refs \ {Main} /\ OnParent(rows[Row].base, pulls[Row].ref[1])
      BY <1>1, <3>1, <3>2, Numbered DEF PullRow, LandingOrder, RowsInOrder
    <3>4. OnParent(pulls[r.new].ref, pulls[Row].ref[1])
      BY <3>1, <3>2, <3>3 DEF OnParent
    <3>5. Changes(rows[Row].head \ r.head) \subseteq Changes(rows[Row].head)
      BY DEF Changes
    <3> QED BY <1>5, <2>3, <3>1, <3>3, <3>4, <3>5
  <2> QED BY <2>1, <2>2, <2>3
<1>7. CASE Reland
  <2>1. PICK n \in cands :
          at' = [n |-> n, head |-> rows[n].head, ref |-> <<pulls[n].ref[1], "ordered">>, base |-> Main,
                 build |-> heads[Main] \union Copies(Changes(rows[n].head) \ Changes(heads[Main])),
                 new |-> 0, back |-> "decide"]
    BY <1>7 DEF Reland
  <2>2. n \in DOMAIN rows /\ UNCHANGED <<pulls, heads>> /\ pc' = "revalidate" /\ OnParent(Main, pulls[n].ref[1])
    BY <1>1, <1>7 DEF Reland, remote, TickTyped, LandingOrder, RowsInOrder
  <2> DEFINE part == Changes(rows[n].head) \ Changes(heads[Main])
  <2>3. part \subseteq Changes(rows[n].head) /\ pc' # "close" /\ Main \in Refs
    BY <2>2, RefNumbers
  <2>4. at' = [n |-> n, head |-> rows[n].head, ref |-> <<pulls[n].ref[1], "ordered">>, base |-> Main,
               build |-> heads[Main] \union Copies(part), new |-> 0, back |-> "decide"]
    BY <2>1
  <2> HIDE DEF part, Main
  <2> QED BY <1>5, <2>2, <2>3, <2>4
<1>8. CASE Revalidate \/ Push
  <2>1. pc \in {"revalidate", "push"} /\ (Retry \/ (UNCHANGED at /\ pc' \in {"push", "open"}))
    BY <1>8 DEF Revalidate, Push, Fails, AfterPush
  <2> QED BY <1>2, <1>4, <2>1 DEF Publishing
<1>9. CASE OpenPull
  <2>1. CASE /\ pulls' = Append(pulls, Pull(at.ref, at.base))
             /\ pc' = "close" /\ at' = [at EXCEPT !.new = Len(pulls')]
    <3>1. at.ref \in Refs \ {Main} /\ at.base \in Refs /\ at.n \in Number
      BY <1>1, <1>9 DEF OpenPull, AtWork, Publishing, At, TickTyped
    <3>2. Pull(at.ref, at.base) \in PullRow
      BY <3>1 DEF Pull, PullRow, Status
    <3>3. Len(pulls') = Len(pulls) + 1 /\ pulls'[Len(pulls')] = Pull(at.ref, at.base)
      BY <1>1, <2>1, <3>2, AppendProperties DEF RemoteTyped
    <3>4. at'.n = at.n /\ at'.ref = at.ref /\ at'.base = at.base /\ at'.build = at.build /\ at'.new = Len(pulls')
      BY <1>1, <2>1 DEF At
    <3>5. at.ref[1] = pulls[at.n].ref[1] /\ OnParent(at.base, at.ref[1]) /\ Within(at.build, at.ref[1])
      BY <1>9 DEF OpenPull, LandingOrder, WorkInOrder, Publishing
    <3>6. pulls'[at.n].ref = pulls[at.n].ref /\ pulls'[at'.new].ref = at.ref
      BY <1>1, <3>1, <3>3, <3>4 DEF Evolves, Pull
    <3>7. OnParent(at.base, at.ref[1])' /\ Within(at.build, at.ref[1])'
      BY <1>1, <3>4, <3>5, MergedGrows DEF OnParent, Covered, Within
    <3> QED BY <3>4, <3>5, <3>6, <3>7 DEF WorkInOrder
  <2>2. CASE Retry
    BY <1>4, <1>9, <2>2 DEF OpenPull, Publishing
  <2> QED BY <1>9, <2>1, <2>2 DEF OpenPull, Fails, AfterOpen
<1>10. CASE ClosePull
  BY <1>4, <1>10 DEF ClosePull, Fails, Publishing
<1>11. List \/ Decide \/ StackedUnread \/ Retarget \/ StackedUnknown \/ HoldOrphan \/ Receive \/ Land \/ Train \/ EndTick \/ Crash
       => pc' \notin Publishing
  <2>1. List \/ Receive \/ Land \/ Train \/ EndTick \/ Crash => pc' \notin Publishing
    BY DEF List, Receive, Land, Train, EndTick, Crash, Clean, Publishing
  <2>2. Decide \/ StackedUnread \/ Retarget \/ StackedUnknown \/ HoldOrphan => pc' \notin Publishing
    BY DEF Decide, StackedUnread, Retarget, StackedUnknown, HoldOrphan, Publishing
  <2> QED BY <2>1, <2>2
<1>12. UNCHANGED vars => UNCHANGED <<at, pc>>
  BY DEF vars
<1>13. (\E k \in Branch : AuthorOpens(k)) \/ (\E n \in Number : AuthorPushes(n) \/ SomebodyCloses(n)) => UNCHANGED <<at, pc>>
  BY DEF AuthorOpens, AuthorPushes, SomebodyCloses, process
<1> QED BY <1>2, <1>3, <1>6, <1>7, <1>8, <1>9, <1>10, <1>11, <1>12, <1>13 DEF Next, Step

\* Every step keeps the order.
LEMMA OrderNext == ASSUME StackTyped, LandingOrder, [Next]_vars PROVE LandingOrder'
<1>1. Evolves
  BY PullsStep
<1>2. MergedInOrder' /\ HeadsInOrder'
  <2>1. CASE Train
    BY <2>1, TrainOrder
  <2>2. CASE ~Train
    <3>1. MergedInOrder'
      BY <2>2, NewlyMerged DEF LandingOrder, MergedInOrder, Covered
    <3>2. \/ UNCHANGED heads
          \/ pc \in Publishing /\ heads' = [heads EXCEPT ![at.ref] = at.build]
          \/ \E n \in Number : AuthorPushes(n)
      <4>1. CASE Push
        BY <4>1 DEF Push, Fails, Publishing, remote
      <4>2. UNCHANGED vars => UNCHANGED heads
        BY DEF vars, remote
      <4>3. List \/ Decide \/ StackedUnread \/ Retarget \/ StackedUnknown \/ HoldOrphan \/ Restack \/ Receive => UNCHANGED heads
        BY DEF List, Decide, StackedUnread, Retarget, StackedUnknown, HoldOrphan, Restack, Receive, remote
      <4>4. Reland \/ Revalidate \/ OpenPull \/ ClosePull \/ Land \/ EndTick \/ Crash => UNCHANGED heads
        BY DEF Reland, Revalidate, OpenPull, ClosePull, Fails, Land, EndTick, Crash, remote
      <4>5. (\E k \in Branch : AuthorOpens(k)) \/ (\E n \in Number : SomebodyCloses(n)) => UNCHANGED heads
        BY DEF AuthorOpens, SomebodyCloses
      <4> QED BY <2>2, <4>1, <4>2, <4>3, <4>4, <4>5 DEF Next, Step
    <3> QED BY <1>1, <3>1, <3>2, PushOrder
  <2> QED BY <2>1, <2>2
<1> QED BY <1>2, BaseOrder, RowOrder, RecordOrder, WorkOrder DEF LandingOrder

LEMMA InitOrder == ASSUME Init PROVE LandingOrder
<1>1. \A n \in Number : pulls[n].status = "open" /\ OnParent(pulls[n].base, pulls[n].ref[1])
  <2>1. PICK start \in Starts :
          pulls = [n \in 1..Cardinality(start) |->
                     LET k == CHOOSE b \in start : Cardinality({c \in start : c <= b}) = n
                     IN Pull(<<k, "">>, Under(k))]
    BY DEF Init
  <2>2. start \subseteq Branch /\ start \subseteq Nat /\ IsFiniteSet(start)
    <3>1. IsFiniteSet(Branch) /\ Branch \subseteq Nat /\ start \subseteq Branch
      BY StackAssumption, FS_Interval, 1 \in Int DEF Branch
    <3> QED BY <3>1, FS_Subset
  <2> SUFFICES ASSUME NEW n \in 1..Cardinality(start)
               PROVE  pulls[n].status = "open" /\ OnParent(pulls[n].base, pulls[n].ref[1])
    BY <2>1 DEF Number
  <2>3. PICK k \in Branch : pulls[n] = Pull(<<k, "">>, Under(k))
    BY <2>1, <2>2, NthNumber
  <2>4. Under(k) = Main => Covered(k - 1)
    <3>1. Under(k) = Main => k - 1 = 0
      BY <2>3, OwnBranch, RefNumbers
    <3> QED BY <3>1 DEF Covered
  <2>5. OnParent(Under(k), k)
    BY <2>3, <2>4, OwnBranch DEF OnParent
  <2>6. pulls[n].status = "open" /\ pulls[n].base = Under(k) /\ pulls[n].ref[1] = k
    <3>1. PICK ref, base : ref = <<k, "">> /\ base = Under(k) /\ pulls[n] = Pull(ref, base)
      BY <2>3, Zenon
    <3>2. pulls[n] = Pull(ref, base)
      BY <3>1, Zenon
    <3>3. pulls[n].status = "open" /\ pulls[n].base = base /\ pulls[n].ref = ref
      BY <3>2 DEF Pull
    <3>4. \A b : <<b, "">>[1] = b
      OBVIOUS
    <3> QED BY <3>1, <3>3, <3>4, Zenon
  <2> QED BY <2>5, <2>6
<1>2. heads = [r \in Refs |-> IF r[2] = "" THEN {<<k, 1, 0>> : k \in 1..r[1]} ELSE {}]
  BY DEF Init
<1>3. MergedInOrder /\ PullsInOrder /\ HeadsInOrder
  <2>1. MergedBranches = {}
    BY <1>1 DEF MergedBranches
  <2>2. ASSUME NEW r \in Refs, NEW c \in heads[r] PROVE c[1] \in 1..r[1]
    <3>1. heads[r] \subseteq {<<k, 1, 0>> : k \in 1..r[1]}
      BY <1>2
    <3>2. PICK k \in 1..r[1] : c = <<k, 1, 0>>
      BY <3>1
    <3> QED BY <3>2
  <2> QED BY <1>1, <2>1, <2>2 DEF MergedInOrder, PullsInOrder, HeadsInOrder, Within
<1>4. RowsInOrder /\ RecordsInOrder /\ WorkInOrder
  BY DEF Init, RowsInOrder, RecordsInOrder, WorkInOrder, Records, NoRows, NoMemory, Publishing
<1> QED BY <1>3, <1>4 DEF LandingOrder

LEMMA OrderAlways == Spec => []LandingOrder
<1>1. StackTyped /\ LandingOrder /\ [Next]_vars => LandingOrder'
  BY OrderNext
<1> QED BY <1>1, InitOrder, TypedAlways, PTL DEF Spec

\* The base branch has no change of a branch none of whose pull requests was merged: a
\* child does not bring in what was rejected, or not decided yet, with its parent
\* (daemon.py, stacked).
THEOREM ParentsLandFirst == Spec => []LandsAfterParent
<1>1. LandingOrder => LandsAfterParent
  <2> SUFFICES ASSUME LandingOrder, NEW c \in heads[Main]
               PROVE  \E n \in Number : pulls[n].status = "merged" /\ pulls[n].ref[1] = c[1]
    BY DEF LandsAfterParent, Changes
  <2>1. c[1] \in 1..Main[1] \union MergedBranches /\ 1..Main[1] = {}
    BY RefNumbers DEF LandingOrder, HeadsInOrder, Within
  <2> QED BY <2>1 DEF MergedBranches
<1> QED BY <1>1, OrderAlways, PTL

---------------------------------------------------------------------------
(* No superseded work is lost.                                             *)

Grown == \A r \in Refs : heads[r] \subseteq heads'[r]

\* No ref loses a commit.
LEMMA HeadsGrow == ASSUME StackTyped, [Next]_vars PROVE Grown
<1>1. RemoteTyped /\ at \in At
  BY TypeParts DEF StackTyped
<1>2. CASE Push
  BY <1>1, <1>2 DEF Push, Fails, remote, Grown, RemoteTyped, At
<1>3. CASE Train
  BY <1>1, <1>3 DEF Train, remote, Grown, RemoteTyped
<1>4. CASE \E n \in Number : AuthorPushes(n)
  BY <1>1, <1>4 DEF AuthorPushes, Grown, RemoteTyped
<1>5. CASE UNCHANGED heads
  BY <1>5 DEF Grown
<1>6. UNCHANGED vars => UNCHANGED heads
  BY DEF vars, remote
<1>7. List \/ Decide \/ StackedUnread \/ Retarget \/ StackedUnknown \/ HoldOrphan \/ Restack \/ Receive => UNCHANGED heads
  BY DEF List, Decide, StackedUnread, Retarget, StackedUnknown, HoldOrphan, Restack, Receive, remote
<1>8. Reland \/ Revalidate \/ OpenPull \/ ClosePull \/ Land \/ EndTick \/ Crash => UNCHANGED heads
  BY DEF Reland, Revalidate, OpenPull, ClosePull, Fails, Land, EndTick, Crash, remote
<1>9. (\E k \in Branch : AuthorOpens(k)) \/ (\E n \in Number : SomebodyCloses(n)) => UNCHANGED heads
  BY DEF AuthorOpens, SomebodyCloses
<1> QED BY <1>2, <1>3, <1>4, <1>5, <1>6, <1>7, <1>8, <1>9 DEF Next, Step

Alive == {"open", "closed"}

\* A pull request has a change for good when its branch has it and, if the tick may still
\* replace the pull request, the head that was listed for it has it too.
Carries(n, c) ==
  /\ pulls[n].status \in Alive /\ c \in Changes(heads[pulls[n].ref])
  /\ n \in DOMAIN rows => c \in Changes(rows[n].head)
SupersededKept ==
  \A c \in superseded : c \in Changes(heads[Main]) \/ \E n \in Number : Carries(n, c)

\* What replaces a head has all of its changes, is pushed before it is opened, and its
\* pull request is opened before the other is closed.
WorkComplete ==
  /\ pc \in Publishing => Changes(at.head) \subseteq Changes(at.build)
  /\ pc \in {"open", "close"} => at.build \subseteq heads[at.ref]
  /\ pc = "close" => at.new \notin DOMAIN rows /\ pulls[at.new].status \in Alive

KeptWork == SupersededKept /\ WorkComplete

\* Pull requests stay open, or closed by somebody, unless the train acts.
LEMMA AliveStays ==
  ASSUME StackTyped, [Next]_vars, ~ClosePull, ~Train, NEW n \in Number, pulls[n].status \in Alive
  PROVE  pulls'[n].status \in Alive
<1>1. RemoteTyped /\ \A m \in Number : pulls[m] \in PullRow
  BY TypeParts, Numbered DEF StackTyped
<1>2. UNCHANGED pulls => pulls'[n].status \in Alive
  OBVIOUS
<1>3. CASE Retarget
  BY <1>1, <1>3 DEF Retarget, PullRow, Number
<1>4. CASE \E m \in Number : SomebodyCloses(m)
  BY <1>1, <1>4 DEF SomebodyCloses, PullRow, Number, Alive
<1>5. CASE OpenPull \/ \E k \in Branch : AuthorOpens(k)
  <2>1. UNCHANGED pulls \/ \E ref, base : pulls' = Append(pulls, Pull(ref, base))
    BY <1>5 DEF OpenPull, AuthorOpens, Fails, remote
  <2>2. pulls \in Seq(PullRow) /\ n \in 1..Len(pulls)
    BY <1>1, Numbered DEF RemoteTyped
  <2> QED BY <2>1, <2>2
<1>6. UNCHANGED vars => UNCHANGED pulls
  BY DEF vars, remote
<1>7. (\E m \in Number : AuthorPushes(m)) \/ Crash => UNCHANGED pulls
  BY DEF AuthorPushes, Crash, remote
<1>8. List \/ Decide \/ StackedUnread \/ StackedUnknown \/ HoldOrphan \/ Restack \/ Receive \/ Reland => UNCHANGED pulls
  BY DEF List, Decide, StackedUnread, StackedUnknown, HoldOrphan, Restack, Receive, Reland, remote
<1>9. Revalidate \/ Push \/ Land \/ EndTick => UNCHANGED pulls
  BY DEF Revalidate, Push, Fails, Land, EndTick, remote
<1> QED BY <1>2, <1>3, <1>4, <1>5, <1>6, <1>7, <1>8, <1>9 DEF Next, Step

\* The list is kept, dropped, or made of the heads there are.
LEMMA RowsStep ==
  ASSUME [Next]_vars
  PROVE  \/ UNCHANGED rows
         \/ rows' = NoRows
         \/ List
<1>1. UNCHANGED vars => UNCHANGED rows
  BY DEF vars, tick
<1>2. EndTick \/ Crash => rows' = NoRows
  BY DEF EndTick, Crash, Clean
<1>3. Decide \/ StackedUnread \/ Retarget \/ StackedUnknown \/ HoldOrphan \/ Restack => UNCHANGED rows
  BY DEF Decide, StackedUnread, Retarget, StackedUnknown, HoldOrphan, Restack
<1>4. Receive \/ Reland \/ Revalidate => UNCHANGED rows
  BY DEF Receive, Reland, Revalidate, tick
<1>5. Push \/ OpenPull \/ ClosePull \/ Land \/ Train => UNCHANGED rows
  BY DEF Push, OpenPull, ClosePull, Fails, Land, Train, tick
<1>6. (\E k \in Branch : AuthorOpens(k)) \/ (\E n \in Number : AuthorPushes(n) \/ SomebodyCloses(n)) => UNCHANGED rows
  BY DEF AuthorOpens, AuthorPushes, SomebodyCloses, process, tick
<1> QED BY <1>1, <1>2, <1>3, <1>4, <1>5, <1>6 DEF Next, Step

LEMMA ChangesGrow == \A a, b : a \subseteq b => Changes(a) \subseteq Changes(b)
BY DEF Changes

\* What carries a change goes on carrying it while it is neither merged nor superseded.
LEMMA CarriesOn ==
  ASSUME StackTyped, [Next]_vars, NEW n \in Number, NEW c, Carries(n, c), pulls'[n].status \in Alive
  PROVE  n \in Number' /\ Carries(n, c)'
<1>1. Evolves /\ Grown /\ pulls[n].ref \in Refs
  BY PullsStep, HeadsGrow, Numbered, TypeParts DEF StackTyped, PullRow
<1>2. n \in Number' /\ pulls'[n].ref = pulls[n].ref
  BY <1>1 DEF Evolves
<1>3. c \in Changes(heads'[pulls[n].ref])
  BY <1>1, ChangesGrow DEF Carries, Grown
<1>4. n \in DOMAIN rows' => c \in Changes(rows'[n].head)
  <2>1. CASE UNCHANGED rows
    BY <2>1 DEF Carries
  <2>2. CASE rows' = NoRows
    BY <2>2 DEF NoRows
  <2>3. CASE List
    BY <1>2, <1>3, <2>3 DEF List, remote
  <2> QED BY <2>1, <2>2, <2>3, RowsStep
<1> QED BY <1>2, <1>3, <1>4 DEF Carries

LEMMA TrainKeeps == ASSUME StackTyped, KeptWork, Train PROVE SupersededKept'
<1>1. RemoteTyped /\ TickTyped /\ Grown /\ UNCHANGED superseded
  BY TypeParts, HeadsGrow DEF StackTyped, Next, Step, Train
<1>2. PICK n \in batch :
        \/ /\ n \in Open /\ pulls[n].base = Main /\ heads[pulls[n].ref] = rows[n].head
           /\ heads' = [heads EXCEPT ![Main] = @ \union rows[n].head]
           /\ pulls' = [pulls EXCEPT ![n].status = "merged"]
        \/ UNCHANGED remote
  BY DEF Train
<1>3. n \in Number /\ n \in DOMAIN rows /\ \A m \in Number : pulls[m] \in PullRow
  BY <1>1, Numbered DEF TickTyped
<1>4. SUFFICES ASSUME NEW c \in superseded, NEW m \in Number, Carries(m, c)
               PROVE  c \in Changes(heads'[Main]) \/ \E q \in Number' : Carries(q, c)'
  BY <1>1, ChangesGrow, RefNumbers DEF KeptWork, SupersededKept, Grown
<1>5. CASE pulls'[m].status = pulls[m].status
  BY <1>4, <1>5, CarriesOn DEF Carries, Next, Step
<1>6. CASE pulls'[m].status # pulls[m].status
  <2>1. m = n /\ heads' = [heads EXCEPT ![Main] = @ \union rows[n].head]
    BY <1>2, <1>3, <1>6 DEF Number, PullRow, remote
  <2>2. rows[n].head \subseteq heads'[Main]
    BY <1>1, <2>1, RefNumbers DEF RemoteTyped
  <2> QED BY <1>3, <1>4, <2>1, <2>2, ChangesGrow DEF Carries
<1> QED BY <1>5, <1>6

LEMMA CloseKeeps == ASSUME StackTyped, LandingOrder, KeptWork, ClosePull PROVE SupersededKept'
<1>1. RemoteTyped /\ TickTyped /\ AtWork /\ Evolves /\ Grown /\ UNCHANGED <<rows, heads>> /\ pc = "close"
  BY TypeParts, PullsStep, HeadsGrow DEF StackTyped, Next, Step, ClosePull, Fails, tick, remote
<1>2. /\ at.n \in Number /\ at.n \in DOMAIN rows /\ at.head = rows[at.n].head
      /\ at.new \in Number /\ at.new \notin DOMAIN rows /\ pulls[at.new].status \in Alive
      /\ pulls[at.new].ref = at.ref /\ at.build \subseteq heads[at.ref]
      /\ Changes(at.head) \subseteq Changes(at.build)
      /\ \A m \in Number : pulls[m] \in PullRow
  BY <1>1, Numbered DEF AtWork, Publishing, TickTyped, KeptWork, WorkComplete, LandingOrder, WorkInOrder
<1>3. \A m \in Number : m # at.n => pulls'[m].status = pulls[m].status
  BY <1>1, <1>2 DEF ClosePull, Fails, remote, Number, PullRow
<1>4. PICK q \in Number : q = at.new
  BY <1>2
<1>5. \A c \in Changes(at.head) : Carries(q, c)
  BY <1>2, <1>4, ChangesGrow DEF Carries
<1>6. pulls'[q].status \in Alive
  BY <1>2, <1>3, <1>4
<1>7. \A c \in Changes(at.head) : q \in Number' /\ Carries(q, c)'
  BY <1>5, <1>6, CarriesOn DEF Next, Step
<1>8. superseded' \subseteq superseded \union Changes(at.head)
  BY DEF ClosePull, Fails
<1>9. ASSUME NEW c \in superseded
      PROVE  c \in Changes(heads'[Main]) \/ \E m \in Number' : Carries(m, c)'
  <2>1. CASE c \in Changes(heads[Main])
    BY <1>1, <2>1
  <2>2. CASE \E m \in Number : Carries(m, c)
    <3>1. PICK m \in Number : Carries(m, c)
      BY <2>2
    <3>2. CASE m = at.n
      <4>1. c \in Changes(at.head)
        BY <1>2, <3>1, <3>2 DEF Carries
      <4> QED BY <1>7, <4>1
    <3>3. CASE m # at.n
      <4>1. pulls'[m].status \in Alive
        BY <1>3, <3>1, <3>3 DEF Carries
      <4> QED BY <3>1, <4>1, CarriesOn DEF Next, Step
    <3> QED BY <3>2, <3>3
  <2> QED BY <2>1, <2>2 DEF KeptWork, SupersededKept
<1>10. ASSUME NEW c \in superseded'
       PROVE  c \in Changes(heads'[Main]) \/ \E m \in Number' : Carries(m, c)'
  BY <1>7, <1>8, <1>9
<1> QED BY <1>10 DEF SupersededKept

LEMMA SupersededNext == ASSUME StackTyped, LandingOrder, KeptWork, [Next]_vars PROVE SupersededKept'
<1>1. CASE Train \/ ClosePull
  BY <1>1, TrainKeeps, CloseKeeps
<1>2. CASE ~Train /\ ~ClosePull
  <2>1. UNCHANGED superseded
    <3>1. UNCHANGED vars => UNCHANGED superseded
      BY DEF vars
    <3>2. List \/ Decide \/ StackedUnread \/ Retarget \/ StackedUnknown \/ HoldOrphan \/ Restack \/ Receive
          => UNCHANGED superseded
      BY DEF List, Decide, StackedUnread, Retarget, StackedUnknown, HoldOrphan, Restack, Receive
    <3>3. Reland \/ Revalidate \/ Push \/ OpenPull \/ Land \/ EndTick \/ Crash => UNCHANGED superseded
      BY DEF Reland, Revalidate, Push, OpenPull, Fails, Land, EndTick, Crash
    <3>4. (\E k \in Branch : AuthorOpens(k)) \/ (\E n \in Number : AuthorPushes(n) \/ SomebodyCloses(n))
          => UNCHANGED superseded
      BY DEF AuthorOpens, AuthorPushes, SomebodyCloses, process
    <3> QED BY <1>2, <3>1, <3>2, <3>3, <3>4 DEF Next, Step
  <2>2. Changes(heads[Main]) \subseteq Changes(heads'[Main])
    BY HeadsGrow, ChangesGrow, RefNumbers DEF Grown
  <2>3. \A c : \A n \in Number : Carries(n, c) => n \in Number' /\ Carries(n, c)'
    BY <1>2, AliveStays, CarriesOn DEF Carries
  <2> QED BY <2>1, <2>2, <2>3 DEF KeptWork, SupersededKept
<1> QED BY <1>1, <1>2

\* Whatever is rebuilt has the changes of the head it replaces.
LEMMA CompleteNext == ASSUME StackTyped, LandingOrder, KeptWork, [Next]_vars PROVE WorkComplete'
<1>1. RemoteTyped /\ TickTyped /\ AtWork /\ at \in At /\ Evolves /\ Grown
  BY TypeParts, PullsStep, HeadsGrow DEF StackTyped
<1>2. ASSUME pc' \notin Publishing PROVE WorkComplete'
  BY <1>2 DEF WorkComplete, Publishing
<1>3. CASE Retry /\ pc \in Publishing
  BY <1>1, <1>2, <1>3 DEF Retry, AtWork, Publishing
<1>4. ASSUME pc \in Publishing, UNCHANGED <<at, pc, rows>>, pc = "close" => pulls'[at.new].status \in Alive
      PROVE  WorkComplete'
  BY <1>1, <1>4 DEF KeptWork, WorkComplete, Grown, At
<1>5. CASE Restack
  <2>1. CASE UNCHANGED <<pc, at>>
    BY <1>2, <1>5, <2>1 DEF Restack, Publishing
  <2>2. CASE pc' = "push" /\ Changes(rows[Row].head) \subseteq Changes(at'.build) /\ at'.head = rows[Row].head
    BY <2>2 DEF WorkComplete
  <2>3. ASSUME NEW onto, Changes(at'.build) = Changes(onto) \union Changes(rows[Row].head)
        PROVE  Changes(rows[Row].head) \subseteq Changes(at'.build)
    BY <2>3
  <2>4. \/ UNCHANGED <<pc, at>>
        \/ /\ pc' = "push" /\ at'.head = rows[Row].head
           /\ \E onto : Changes(at'.build) = Changes(onto) \union Changes(rows[Row].head)
    <3>1. PICK r \in Recorded(Row) :
            LET onto == heads[pulls[r.new].ref]
                own == rows[Row].head \ r.head
            IN \/ /\ at' = [n |-> Row, head |-> rows[Row].head, ref |-> <<pulls[Row].ref[1], "restacked">>,
                            base |-> pulls[r.new].ref, build |-> onto \union Copies(Changes(own)),
                            new |-> 0, back |-> "decide"]
                  /\ Changes(at'.build) = Changes(onto) \union Changes(rows[Row].head)
                  /\ pc' = "push"
               \/ UNCHANGED <<pc, at>>
      BY <1>5 DEF Restack
    <3> QED BY <3>1
  <2> QED BY <2>1, <2>2, <2>3, <2>4
<1>6. CASE Reland
  <2>1. PICK n \in cands :
          at' = [n |-> n, head |-> rows[n].head, ref |-> <<pulls[n].ref[1], "ordered">>, base |-> Main,
                 build |-> heads[Main] \union Copies(Changes(rows[n].head) \ Changes(heads[Main])),
                 new |-> 0, back |-> "decide"]
    BY <1>6 DEF Reland
  <2> DEFINE lacking == Changes(rows[n].head) \ Changes(heads[Main])
  <2>2. at'.head = rows[n].head /\ at'.build = heads[Main] \union Copies(lacking) /\ pc' = "revalidate"
    BY <1>6, <2>1 DEF Reland
  <2>3. lacking \subseteq Changes(Copies(lacking))
    <3>1. \A c \in lacking : c = <<c[1], c[2]>>
      BY DEF Changes
    <3>2. \A c \in lacking : <<c[1], c[2], Fresh>> \in Copies(lacking)
      BY DEF Copies
    <3> HIDE DEF lacking
    <3>3. ASSUME NEW c \in lacking PROVE c \in Changes(Copies(lacking))
      <4>1. PICK d \in Copies(lacking) : d = <<c[1], c[2], Fresh>>
        BY <3>2
      <4>2. c = <<d[1], d[2]>>
        BY <3>1, <4>1
      <4> QED BY <4>2 DEF Changes
    <3> QED BY <3>3
  <2>4. Changes(heads[Main] \union Copies(lacking)) = Changes(heads[Main]) \union Changes(Copies(lacking))
    BY DEF Changes
  <2> QED BY <2>2, <2>3, <2>4 DEF WorkComplete
<1>7. CASE Revalidate
  <2>1. CASE UNCHANGED at /\ pc = "revalidate" /\ pc' = "push"
    BY <2>1 DEF KeptWork, WorkComplete, Publishing
  <2> QED BY <1>3, <1>7, <2>1 DEF Revalidate, Publishing
<1>8. CASE Push
  <2>1. CASE UNCHANGED at /\ pc = "push" /\ pc' = "open" /\ heads' = [heads EXCEPT ![at.ref] = at.build]
    BY <1>1, <2>1 DEF KeptWork, WorkComplete, Publishing, RemoteTyped, At
  <2> QED BY <1>3, <1>8, <2>1 DEF Push, Fails, Publishing, AfterPush
<1>9. CASE OpenPull
  <2>1. CASE /\ pulls' = Append(pulls, Pull(at.ref, at.base)) /\ pc = "open" /\ UNCHANGED <<heads, rows>>
             /\ pc' = "close" /\ at' = [at EXCEPT !.new = Len(pulls')]
    <3>1. at.ref \in Refs \ {Main} /\ at.base \in Refs /\ at.n \in Number
      BY <1>1, <2>1 DEF AtWork, Publishing, At, TickTyped
    <3>2. Pull(at.ref, at.base) \in PullRow
      BY <3>1 DEF Pull, PullRow, Status
    <3>3. /\ Len(pulls') = Len(pulls) + 1 /\ pulls'[Len(pulls')] = Pull(at.ref, at.base)
          /\ Number = 1..Len(pulls) /\ Len(pulls) \in Nat
      BY <1>1, <2>1, <3>2, AppendProperties, Numbered DEF RemoteTyped
    <3>4. Len(pulls') \notin DOMAIN rows
      BY <1>1, <3>3 DEF TickTyped
    <3>5. at'.head = at.head /\ at'.ref = at.ref /\ at'.build = at.build /\ at'.new = Len(pulls')
      BY <1>1, <2>1 DEF At
    <3>6. pulls'[Len(pulls')].status = "open"
      BY <3>3 DEF Pull
    <3>7. Changes(at.head) \subseteq Changes(at.build) /\ at.build \subseteq heads[at.ref]
      BY <2>1 DEF KeptWork, WorkComplete, Publishing
    <3> QED BY <2>1, <3>4, <3>5, <3>6, <3>7 DEF WorkComplete, Alive
  <2> QED BY <1>3, <1>9, <2>1 DEF OpenPull, Fails, Publishing, AfterOpen, tick
<1>10. CASE ClosePull
  BY <1>3, <1>10 DEF ClosePull, Fails, Publishing
<1>11. List \/ Receive \/ Land \/ Train \/ EndTick \/ Crash => pc' \notin Publishing
  BY DEF List, Receive, Land, Train, EndTick, Crash, Clean, Publishing
<1>12. Decide \/ StackedUnread \/ Retarget \/ StackedUnknown \/ HoldOrphan => pc' \notin Publishing
  BY DEF Decide, StackedUnread, Retarget, StackedUnknown, HoldOrphan, Publishing
<1>13. CASE \/ UNCHANGED vars \/ \E k \in Branch : AuthorOpens(k)
            \/ \E n \in Number : AuthorPushes(n) \/ SomebodyCloses(n)
  <2>1. UNCHANGED <<at, pc, rows>>
    BY <1>13 DEF vars, tick, AuthorOpens, AuthorPushes, SomebodyCloses, process
  <2>2. CASE ClosePull \/ Train
    BY <1>2, <1>10, <1>11, <2>2
  <2>3. CASE ~ClosePull /\ ~Train /\ pc \in Publishing
    <3>1. pc = "close" => at.new \in Number /\ pulls[at.new].status \in Alive
      BY <1>1 DEF AtWork, Publishing, KeptWork, WorkComplete
    <3>2. pc = "close" => pulls'[at.new].status \in Alive
      BY <2>3, <3>1, AliveStays
    <3> QED BY <1>4, <2>1, <2>3, <3>2
  <2> QED BY <1>2, <2>1, <2>2, <2>3
<1> QED BY <1>2, <1>5, <1>6, <1>7, <1>8, <1>9, <1>10, <1>11, <1>12, <1>13 DEF Next, Step

LEMMA InitKept == ASSUME Init PROVE KeptWork
BY DEF Init, KeptWork, SupersededKept, WorkComplete, Publishing

LEMMA KeptAlways == Spec => []KeptWork
<1>1. StackTyped /\ LandingOrder /\ KeptWork /\ [Next]_vars => KeptWork'
  BY SupersededNext, CompleteNext DEF KeptWork
<1> QED BY <1>1, InitKept, TypedAlways, OrderAlways, PTL DEF Spec

\* The work of a superseded head is not lost: every change of the head that was listed and
\* that the train closed as superseded is on the base branch or on the branch of a pull
\* request that is open, or that somebody else closed, whatever failed or died in between
\* (daemon.py, restack and _finish_reland).
THEOREM NothingSupersededIsLost == Spec => []NothingLost
<1>1. KeptWork => NothingLost
  BY DEF KeptWork, SupersededKept, Carries, NothingLost, Alive
<1> QED BY <1>1, KeptAlways, PTL

---------------------------------------------------------------------------
(* Whoever takes in the child of a closed parent is found.                 *)

\* What an author opened; any other pull request succeeds the one of its branch.
Original(n) == pulls[n].ref[2] = ""
Succeeds(n, k) == ~Original(n) /\ pulls[n].ref[1] = k

\* The tick has nothing more to do with it.
Done(p) == p \notin Open /\ p \notin queue \union cands /\ (pc \in Publishing => at.n # p)

LEMMA PairParts == ASSUME NEW x, NEW a, NEW b, x = <<a, b>> PROVE x[1] = a /\ x[2] = b
OBVIOUS
LEMMA PullParts ==
  \A ref, base : Pull(ref, base).ref = ref /\ Pull(ref, base).base = base /\ Pull(ref, base).status = "open"
BY DEF Pull

LEMMA RefKinds ==
  /\ Main[1] = 0 /\ Main[2] = ""
  /\ \A r \in Refs : r[2] \in {"", "ordered", "restacked"}
  /\ \A r \in Refs \ {Main} : r = <<r[1], r[2]>> /\ r[1] \in Branch
<1>1. Main[1] = 0 /\ Main[2] = "" /\ Main = <<0, "">>
  BY DEF Main
<1>2. ASSUME NEW S, NEW T, NEW r \in S \X T PROVE r = <<r[1], r[2]>> /\ r[1] \in S /\ r[2] \in T
  OBVIOUS
<1>3. ASSUME NEW r \in Refs \ {Main} PROVE r \in Branch \X {"", "ordered", "restacked"}
  <2> HIDE DEF Main
  <2> QED BY DEF Refs
<1> HIDE DEF Main
<1>4. \A r \in Refs : r[2] \in {"", "ordered", "restacked"}
  BY <1>1, <1>2, <1>3
<1> QED BY <1>1, <1>2, <1>3, <1>4

\* A new pull request is the last one: a successor, or the original of a branch.
LEMMA NewPull ==
  ASSUME StackTyped, [Next]_vars, NEW n \in Number' \ Number
  PROVE  /\ n = Len(pulls') /\ \A m \in Number : m < n
         /\ \/ OpenPull /\ pc = "open" /\ Openable /\ pulls'[n] = Pull(at.ref, at.base)
            \/ \E k \in Branch : AuthorOpens(k) /\ pulls'[n] = Pull(<<k, "">>, Under(k))
<1>1. RemoteTyped /\ AtWork /\ at \in At
  BY TypeParts DEF StackTyped
<1>2. pulls \in Seq(PullRow) /\ Number = 1..Len(pulls) /\ Len(pulls) \in Nat
  BY <1>1, Numbered DEF RemoteTyped
<1>3. ASSUME NEW e \in PullRow, pulls' = Append(pulls, e)
      PROVE  n = Len(pulls') /\ (\A m \in Number : m < n) /\ pulls'[n] = e
  <2>1. Number' = 1..(Len(pulls) + 1) /\ pulls'[Len(pulls) + 1] = e /\ Len(pulls') = Len(pulls) + 1
    BY <1>2, <1>3 DEF Number
  <2> QED BY <1>2, <2>1
<1>4. CASE OpenPull
  <2>1. pc = "open" /\ Openable /\ pulls' = Append(pulls, Pull(at.ref, at.base))
    BY <1>4 DEF OpenPull, Fails, remote, Number
  <2>2. Pull(at.ref, at.base) \in PullRow
    BY <1>1, <2>1 DEF Pull, PullRow, Status, AtWork, Publishing, At
  <2> QED BY <1>3, <1>4, <2>1, <2>2
<1>5. CASE \E k \in Branch : AuthorOpens(k)
  <2>1. PICK k \in Branch : AuthorOpens(k)
    BY <1>5
  <2>2. Pull(<<k, "">>, Under(k)) \in PullRow
    BY OwnBranch DEF Pull, PullRow, Status
  <2> QED BY <1>3, <2>1, <2>2 DEF AuthorOpens
<1>6. CASE ~OpenPull /\ ~\E k \in Branch : AuthorOpens(k)
  <2>1. Number' = Number
    <3>1. UNCHANGED pulls => Number' = Number
      BY DEF Number
    <3>2. Retarget \/ ClosePull \/ Train \/ (\E m \in Number : SomebodyCloses(m)) => Number' = Number
      <4>1. \A m, r : DOMAIN [pulls EXCEPT ![m] = r] = DOMAIN pulls
        OBVIOUS
      <4>2. UNCHANGED pulls \/ (\E m, r : pulls' = [pulls EXCEPT ![m] = r]) => Number' = Number
        BY <4>1 DEF Number
      <4>3. Retarget \/ ClosePull => UNCHANGED pulls \/ \E m, r : pulls' = [pulls EXCEPT ![m] = r]
        BY DEF Retarget, ClosePull, Fails, remote
      <4>4. Train \/ (\E m \in Number : SomebodyCloses(m)) => UNCHANGED pulls \/ \E m, r : pulls' = [pulls EXCEPT ![m] = r]
        BY DEF Train, SomebodyCloses, remote
      <4> QED BY <4>2, <4>3, <4>4
    <3>3. UNCHANGED vars => UNCHANGED pulls
      BY DEF vars, remote
    <3>4. (\E m \in Number : AuthorPushes(m)) \/ Crash => UNCHANGED pulls
      BY DEF AuthorPushes, Crash, remote
    <3>5. List \/ Decide \/ StackedUnread \/ StackedUnknown \/ HoldOrphan \/ Restack \/ Receive \/ Reland => UNCHANGED pulls
      BY DEF List, Decide, StackedUnread, StackedUnknown, HoldOrphan, Restack, Receive, Reland, remote
    <3>6. Revalidate \/ Push \/ Land \/ EndTick => UNCHANGED pulls
      BY DEF Revalidate, Push, Fails, Land, EndTick, remote
    <3> QED BY <1>6, <3>1, <3>2, <3>3, <3>4, <3>5, <3>6 DEF Next, Step
  <2> QED BY <2>1
<1> QED BY <1>4, <1>5, <1>6

\* Only a retargeting changes what a pull request is against, and only the train's own
\* close supersedes one.
LEMMA PullChanges ==
  ASSUME StackTyped, [Next]_vars, NEW n \in Number
  PROVE  /\ pulls'[n].base # pulls[n].base => Retarget /\ n = Row /\ n \in Open /\ pulls'[n].base = Main
         /\ pulls'[n].status = "superseded" => pulls[n].status = "superseded" \/ (ClosePull /\ n = at.n /\ n \in Open)
<1>1. RemoteTyped /\ pulls[n] \in PullRow /\ pulls \in Seq(PullRow) /\ n \in 1..Len(pulls)
  BY TypeParts, Numbered DEF StackTyped, RemoteTyped
<1>2. CASE UNCHANGED pulls
  BY <1>2
<1>3. CASE Retarget
  BY <1>1, <1>3 DEF Retarget, PullRow
<1>4. CASE ClosePull
  BY <1>1, <1>4 DEF ClosePull, Fails, remote, PullRow, Open
<1>5. CASE Train \/ \E m \in Number : SomebodyCloses(m)
  <2>1. UNCHANGED pulls \/ \E m \in Number, s \in {"merged", "closed"} : pulls' = [pulls EXCEPT ![m].status = s]
    <3>1. CASE Train
      BY <3>1, TypeParts DEF Train, remote, StackTyped, TickTyped
    <3>2. CASE \E m \in Number : SomebodyCloses(m)
      BY <3>2 DEF SomebodyCloses
    <3> QED BY <1>5, <3>1, <3>2
  <2> QED BY <1>1, <2>1 DEF PullRow
<1>6. CASE OpenPull \/ \E k \in Branch : AuthorOpens(k)
  <2>1. UNCHANGED pulls \/ \E ref, base : pulls' = Append(pulls, Pull(ref, base))
    BY <1>6 DEF OpenPull, AuthorOpens, Fails, remote
  <2> QED BY <1>1, <2>1
<1>7. UNCHANGED vars => UNCHANGED pulls
  BY DEF vars, remote
<1>8. (\E m \in Number : AuthorPushes(m)) \/ Crash => UNCHANGED pulls
  BY DEF AuthorPushes, Crash, remote
<1>9. List \/ Decide \/ StackedUnread \/ StackedUnknown \/ HoldOrphan \/ Restack \/ Receive \/ Reland => UNCHANGED pulls
  BY DEF List, Decide, StackedUnread, StackedUnknown, HoldOrphan, Restack, Receive, Reland, remote
<1>10. Revalidate \/ Push \/ Land \/ EndTick => UNCHANGED pulls
  BY DEF Revalidate, Push, Fails, Land, EndTick, remote
<1> QED BY <1>2, <1>3, <1>4, <1>5, <1>6, <1>7, <1>8, <1>9, <1>10 DEF Next, Step

\* What is left to decide and to admit is what is open, and becomes less.
LEMMA QueueStep ==
  ASSUME StackTyped, [Next]_vars
  PROVE  \/ List /\ queue' = Open /\ cands' = {} /\ UNCHANGED pulls
         \/ queue' = {} /\ cands' = {}
         \/ /\ pc = "decide" /\ queue # {} /\ queue' = queue \ {Row}
            /\ \/ UNCHANGED cands
               \/ cands' = cands \union {Row} /\ rows[Row].base = Main /\ Decide
         \/ UNCHANGED queue /\ cands' \subseteq cands /\ ~Retarget
<1>1. CASE List
  BY <1>1 DEF List, remote
<1>2. CASE EndTick \/ Crash
  BY <1>2 DEF EndTick, Crash, Clean
<1>3. CASE Decide
  BY <1>3 DEF Decide, Decided
<1>4. CASE StackedUnread \/ Retarget \/ StackedUnknown \/ HoldOrphan \/ Restack
  BY <1>4 DEF StackedUnread, Retarget, StackedUnknown, HoldOrphan, Restack, Decided
<1>5. CASE UNCHANGED vars
  BY <1>5 DEF vars, tick, Retarget, Decided, RemoteTyped
<1>6. CASE Receive \/ Reland \/ Revalidate
  BY <1>6 DEF Receive, Reland, Revalidate, tick, Retarget
<1>7. CASE Push \/ OpenPull \/ ClosePull \/ Land \/ Train
  BY <1>7 DEF Push, OpenPull, ClosePull, Fails, Land, Train, tick, Retarget
<1>8. CASE (\E k \in Branch : AuthorOpens(k)) \/ (\E n \in Number : AuthorPushes(n) \/ SomebodyCloses(n))
  BY <1>8 DEF AuthorOpens, AuthorPushes, SomebodyCloses, process, tick, Retarget, Decided
<1> QED BY <1>1, <1>2, <1>3, <1>4, <1>5, <1>6, <1>7, <1>8 DEF Next, Step

\* A publication begins with a pull request that was to be decided or admitted, and goes on.
SameWork == at'.n = at.n /\ at'.ref = at.ref /\ at'.base = at.base
GoesOn ==
  /\ pc \in Publishing /\ SameWork /\ UNCHANGED <<queue, cands>>
  /\ pc' = "close" => \/ OpenPull /\ at'.new = Len(pulls')
                      \/ pc = "close" /\ at'.new = at.new
  /\ pc = "close" => pc' = "close"

LEMMA WorkStep ==
  ASSUME StackTyped, [Next]_vars, pc' \in Publishing
  PROVE  \/ Restack /\ pc' = "push"
         \/ Reland /\ pc' = "revalidate"
         \/ GoesOn
<1> USE DEF GoesOn
<1>1. AtWork /\ at \in At
  BY TypeParts DEF StackTyped
<1>2. CASE Restack
  <2>1. pc' = "push" \/ pc' = pc
    BY <1>2 DEF Restack
  <2> QED BY <1>2, <2>1 DEF Restack, Publishing
<1>3. CASE Reland
  BY <1>3 DEF Reland
<1>4. CASE Retry
  BY <1>1, <1>4 DEF Retry, At, Publishing
<1>5. CASE Revalidate \/ Push
  <2>1. pc \in {"revalidate", "push"} /\ (Retry \/ (UNCHANGED at /\ pc' \in {"push", "open"})) /\ UNCHANGED tick
    BY <1>5 DEF Revalidate, Push, Fails, AfterPush
  <2> QED BY <1>4, <2>1 DEF Publishing, SameWork, tick
<1>6. CASE OpenPull
  <2>1. pc = "open" /\ (Retry \/ (pc' = "close" /\ at' = [at EXCEPT !.new = Len(pulls')])) /\ UNCHANGED tick
    BY <1>6 DEF OpenPull, Fails, AfterOpen
  <2>2. CASE at' = [at EXCEPT !.new = Len(pulls')] /\ pc' = "close"
    BY <1>1, <1>6, <2>1, <2>2 DEF At, Publishing, SameWork, tick
  <2> QED BY <1>4, <2>1, <2>2
<1>7. CASE ClosePull
  BY <1>4, <1>7 DEF ClosePull, Fails
<1>8. CASE UNCHANGED <<at, pc, queue, cands>>
  BY <1>8 DEF SameWork
<1>9. UNCHANGED vars => UNCHANGED <<at, pc, queue, cands>>
  BY DEF vars, tick
<1>10. (\E k \in Branch : AuthorOpens(k)) \/ (\E n \in Number : AuthorPushes(n) \/ SomebodyCloses(n))
        => UNCHANGED <<at, pc, queue, cands>>
  BY DEF AuthorOpens, AuthorPushes, SomebodyCloses, process, tick
<1>11. ~(List \/ Decide \/ StackedUnread \/ Retarget \/ StackedUnknown \/ HoldOrphan \/ Receive)
  BY DEF List, Decide, StackedUnread, Retarget, StackedUnknown, HoldOrphan, Receive, Publishing
<1>12. ~(Land \/ Train \/ EndTick \/ Crash)
  BY DEF Land, Train, EndTick, Crash, Clean, Publishing
<1> QED BY <1>2, <1>3, <1>5, <1>6, <1>7, <1>8, <1>9, <1>10, <1>11, <1>12 DEF Next, Step

\* There is one original per branch.
OneEach == \A m, n \in Number : Original(m) /\ pulls[m].ref = pulls[n].ref => m = n

\* What is rebuilt for a branch depends on what its original was against: an ordered copy
\* when that was the base branch, a restacked one when the parent is closed, not merged.
GoneParent(base) == \E b \in Number : Original(b) /\ pulls[b].ref = base /\ pulls[b].status # "merged" /\ Done(b)
Source(p, ref) ==
  /\ pulls[p].ref = <<ref[1], "">>
  /\ IF ref[2] = "ordered" THEN pulls[p].base = Main ELSE GoneParent(pulls[p].base)
Sources == \A q \in Number : ~Original(q) => \E p \in Number : Source(p, pulls[q].ref)

\* A restacked branch is against a successor, till that merges.
Base(ref, base) == IF ref[2] = "ordered" THEN base = Main ELSE \E m \in Number : ~Original(m) /\ pulls[m].ref = base
Bases == \A q \in Number : ~Original(q) => pulls[q].base = Main \/ Base(pulls[q].ref, pulls[q].base)

\* The rows of a tick are decided and admitted once, on the base they are listed with.
Deciding ==
  /\ \A n \in queue : rows[n].base = pulls[n].base
  /\ \A n \in cands : pulls[n].base = Main
  /\ queue \intersect cands = {}

\* A publication is the one successor of an original that is not decided any more, and
\* when it is about to close that one nothing succeeds it later.
Publication ==
  pc \in Publishing =>
    /\ Original(at.n) /\ at.ref[2] # "" /\ Source(at.n, at.ref) /\ Base(at.ref, at.base)
    /\ at.n \notin queue \union cands
    /\ pc # "close" => \A q \in Open : pulls[q].ref = at.ref => pulls[q].base = at.base
    /\ pc = "close" => \A q \in Number : Succeeds(q, at.ref[1]) => q <= at.new

\* A record names the last successor of an original that is done with.
RecordsLast ==
  \A r \in Records : /\ Original(r.n) /\ ~Original(r.new) /\ Done(r.n)
                     /\ \A q \in Number : Succeeds(q, pulls[r.n].ref[1]) => q <= r.new
SupersededDone == \A p \in Number : pulls[p].status = "superseded" => Original(p) /\ Done(p)

\* What every step keeps.
LEMMA ForkFacts ==
  ASSUME StackTyped, [Next]_vars
  PROVE  /\ RemoteTyped /\ TickTyped /\ AtWork /\ at \in At /\ Evolves
         /\ Number \subseteq Number' /\ Open' \cap Number \subseteq Open
         /\ \A n \in Number : /\ pulls[n] \in PullRow /\ n \in Nat /\ pulls'[n].ref = pulls[n].ref
                              /\ (Original(n)' <=> Original(n))
                              /\ n \notin Open => pulls'[n].status = pulls[n].status
<1>1. RemoteTyped /\ TickTyped /\ AtWork /\ at \in At /\ Evolves
  BY TypeParts, PullsStep DEF StackTyped
<1>2. /\ Number \subseteq Number'
      /\ \A n \in Number : /\ pulls[n] \in PullRow /\ n \in Nat /\ pulls'[n].ref = pulls[n].ref
                           /\ n \notin Open => pulls'[n].status = pulls[n].status
  BY <1>1, Numbered DEF Evolves
<1>3. Open' \cap Number \subseteq Open
  BY <1>2 DEF Open
<1>4. \A n \in Number : Original(n)' <=> Original(n)
  BY <1>2 DEF Original
<1> QED BY <1>1, <1>2, <1>3, <1>4

\* What is done with is not taken up again.
LEMMA DoneStays ==
  ASSUME StackTyped, [Next]_vars, NEW p \in Number, Done(p)
  PROVE  Done(p)'
<1>1. p \notin Open'
  BY ForkFacts DEF Done
<1>2. queue' \union cands' \subseteq queue \union cands \union Open
  BY QueueStep, RowQueued, ForkFacts
<1>3. pc' \in Publishing => at'.n # p
  <2>1. CASE Restack /\ pc' = "push"
    <3>1. at'.n = Row /\ Row \in queue
      BY <2>1, RowQueued, ForkFacts DEF Restack, Publishing
    <3> QED BY <3>1 DEF Done
  <2>2. CASE Reland
    <3>1. PICK n \in cands : \E head, ref, build :
            at' = [n |-> n, head |-> head, ref |-> ref, base |-> Main, build |-> build, new |-> 0, back |-> "decide"]
      BY <2>2 DEF Reland
    <3>2. at'.n = n
      BY <3>1
    <3> QED BY <3>2 DEF Done
  <2>3. CASE GoesOn
    BY <2>3 DEF Done, GoesOn, SameWork
  <2> QED BY <2>1, <2>2, <2>3, WorkStep
<1> QED BY <1>1, <1>2, <1>3 DEF Done

LEMMA OriginalRef ==
  ASSUME StackTyped, NEW n \in Number
  PROVE  /\ pulls[n].ref \in Refs \ {Main} /\ pulls[n].ref = <<pulls[n].ref[1], pulls[n].ref[2]>>
         /\ Original(n) => pulls[n].ref = <<pulls[n].ref[1], "">>
         /\ pulls[n].base \in Refs
<1>1. pulls[n] \in PullRow
  BY TypeParts, Numbered DEF StackTyped
<1>2. pulls[n].ref \in Refs \ {Main} /\ pulls[n].base \in Refs
  BY <1>1 DEF PullRow
<1>3. pulls[n].ref = <<pulls[n].ref[1], pulls[n].ref[2]>>
  BY <1>2, RefKinds
<1> QED BY <1>2, <1>3 DEF Original

\* All that succeeds an original is of one kind, hence on one ref.
LEMMA OneKind ==
  ASSUME StackTyped, OneEach, NEW p \in Number, NEW s \in Number, NEW ref \in Refs \ {Main}, NEW other \in Refs \ {Main},
         ref[2] # "", other[2] # "", ref[1] = other[1], Source(p, ref), Source(s, other)
  PROVE  ref = other
<1>1. Original(p) /\ pulls[p].ref = pulls[s].ref
  <2>1. pulls[p].ref = <<ref[1], "">> /\ pulls[s].ref = <<other[1], "">>
    BY DEF Source
  <2>2. pulls[p].ref = pulls[s].ref
    BY <2>1
  <2> QED BY <2>1, <2>2, PairParts DEF Original
<1>2. p = s
  BY <1>1 DEF OneEach
<1>3. pulls[p].base = Main => ~GoneParent(pulls[p].base)
  BY OriginalRef DEF GoneParent
<1>4. ref[2] = other[2]
  <2>1. ref[2] \in {"ordered", "restacked"} /\ other[2] \in {"ordered", "restacked"}
    BY RefKinds
  <2> QED BY <1>2, <1>3, <2>1 DEF Source
<1> QED BY <1>4, RefKinds

\* What is published is rebuilt for a branch above one that is done with, when it is restacked.
LEMMA SourceGone ==
  ASSUME StackTyped, LandingOrder, OneEach, Publication, pc \in Publishing,
         NEW p \in Number, NEW ref, ref[2] # "ordered", Source(p, ref)
  PROVE  ref[1] - 1 # at.ref[1]
<1>1. PICK b \in Number : Original(b) /\ pulls[b].ref = pulls[p].base /\ Done(b)
  BY DEF Source, GoneParent
<1>2. pulls[b].ref = <<pulls[b].ref[1], "">> /\ pulls[p].base # Main
  BY <1>1, OriginalRef
<1>3. pulls[b].ref[1] = ref[1] - 1
  <2>1. pulls[p].ref[1] = ref[1]
    BY PairParts DEF Source
  <2>2. OnParent(pulls[p].base, pulls[p].ref[1])
    BY DEF LandingOrder, PullsInOrder
  <2> QED BY <1>1, <1>2, <2>1, <2>2 DEF OnParent
<1>4. at.n \in Number /\ Original(at.n) /\ at.ref[1] = pulls[at.n].ref[1]
  BY TypeParts DEF StackTyped, AtWork, TickTyped, Publication, LandingOrder, WorkInOrder
<1>5. pulls[at.n].ref = <<at.ref[1], "">>
  BY <1>4, OriginalRef
<1>6. at.n # b
  BY <1>1 DEF Done
<1> QED BY <1>1, <1>2, <1>3, <1>4, <1>5, <1>6 DEF OneEach

\* What is rebuilt for is not retargeted before the branch is published, as its parent is not merged.
LEMMA SourceStays ==
  ASSUME StackTyped, OneEach, Deciding, [Next]_vars, NEW p \in Number, NEW ref, Source(p, ref)
  PROVE  Source(p, ref)'
<1>1. pulls'[p].ref = <<ref[1], "">>
  BY ForkFacts DEF Source
<1>2. CASE ref[2] = "ordered"
  BY <1>1, <1>2, PullChanges DEF Source
<1>3. CASE ref[2] # "ordered"
  <2>1. PICK b \in Number : Original(b) /\ pulls[b].ref = pulls[p].base /\ pulls[b].status # "merged" /\ Done(b)
    BY <1>3 DEF Source, GoneParent
  <2>2. pulls'[p].base = pulls[p].base
    <3> SUFFICES ASSUME pulls'[p].base # pulls[p].base PROVE FALSE
      OBVIOUS
    <3>1. Retarget /\ p = Row
      BY PullChanges
    <3>2. p \in queue /\ rows[p].base = pulls[p].base
      BY <3>1, RowQueued, ForkFacts DEF Retarget, Deciding
    <3>3. PICK m \in Number : pulls[m].ref = rows[Row].base /\ pulls[m].status = "merged"
      BY <3>1 DEF Retarget, MergedParents, PullsWithHead
    <3> QED BY <2>1, <3>1, <3>2, <3>3 DEF OneEach
  <2>3. b \in Number' /\ Original(b)' /\ pulls'[b].ref = pulls[b].ref
    BY ForkFacts, <2>1
  <2>4. pulls'[b].status # "merged"
    BY ForkFacts, <2>1 DEF Done
  <2>5. Done(b)'
    BY <2>1, DoneStays
  <2> QED BY <1>1, <1>3, <2>1, <2>2, <2>3, <2>4, <2>5 DEF Source, GoneParent
<1> QED BY <1>2, <1>3

\* A pull request that is new and no original is the successor that is published.
LEMMA NewSuccessor ==
  ASSUME StackTyped, [Next]_vars, NEW n \in Number', n \notin Number, ~Original(n)'
  PROVE  /\ OpenPull /\ pc = "open" /\ Openable /\ pc \in Publishing
         /\ pulls'[n].ref = at.ref /\ pulls'[n].base = at.base /\ n = Len(pulls')
<1>1. n \in Number' \ Number
  OBVIOUS
<1>2. CASE OpenPull /\ pc = "open" /\ Openable /\ pulls'[n] = Pull(at.ref, at.base)
  <2>1. n = Len(pulls')
    BY <1>1, NewPull
  <2>2. pulls'[n].ref = at.ref /\ pulls'[n].base = at.base
    BY <1>2, PullParts
  <2> QED BY <1>2, <2>1, <2>2 DEF Publishing
<1>3. ASSUME NEW k \in Branch, pulls'[n] = Pull(<<k, "">>, Under(k)) PROVE FALSE
  <2>1. pulls'[n].ref = <<k, "">>
    BY <1>3, PullParts
  <2> QED BY <2>1, PairParts DEF Original
<1> QED BY <1>1, <1>2, <1>3, NewPull

\* Where a publication begins.
LEMMA RestackWork ==
  ASSUME StackTyped, Restack, pc' = "push"
  PROVE  /\ UNCHANGED pulls /\ queue' = queue \ {Row} /\ UNCHANGED cands /\ ParentClosed(Row) /\ Row \in queue /\ Row \in Number
         /\ \E r \in Recorded(Row) : /\ r.new \in Open /\ at'.n = Row /\ at'.base = pulls[r.new].ref
                                     /\ at'.ref = <<pulls[Row].ref[1], "restacked">>
<1>1. pc = "decide" /\ queue # {} /\ Row \in queue /\ Row \in Number
  BY RowQueued, TypeParts DEF Restack, StackTyped
<1>2. PICK r \in Recorded(Row) : \E head, build :
        /\ r.new \in Open
        /\ at' = [n |-> Row, head |-> head, ref |-> <<pulls[Row].ref[1], "restacked">>, base |-> pulls[r.new].ref,
                  build |-> build, new |-> 0, back |-> "decide"]
  <2>1. pc' # pc
    BY <1>1
  <2> QED BY <2>1 DEF Restack
<1>3. at'.n = Row /\ at'.base = pulls[r.new].ref /\ at'.ref = <<pulls[Row].ref[1], "restacked">>
  BY <1>2
<1> QED BY <1>1, <1>2, <1>3 DEF Restack, Decided, remote

LEMMA RelandWork ==
  ASSUME StackTyped, Reland
  PROVE  /\ UNCHANGED pulls /\ queue' = {} /\ pc' = "revalidate"
         /\ \E n \in cands : /\ Original(n) /\ cands' = cands \ {n} /\ at'.n = n /\ at'.base = Main
                             /\ at'.ref = <<pulls[n].ref[1], "ordered">>
<1>1. PICK n \in cands : \E head, build :
        /\ pulls[n].ref[2] = "" /\ cands' = cands \ {n}
        /\ at' = [n |-> n, head |-> head, ref |-> <<pulls[n].ref[1], "ordered">>, base |-> Main,
                  build |-> build, new |-> 0, back |-> "decide"]
  BY DEF Reland
<1>2. at'.n = n /\ at'.base = Main /\ at'.ref = <<pulls[n].ref[1], "ordered">>
  <2>1. PICK head, build :
          at' = [n |-> n, head |-> head, ref |-> <<pulls[n].ref[1], "ordered">>, base |-> Main,
                 build |-> build, new |-> 0, back |-> "decide"]
    BY <1>1
  <2>2. PICK order : order = <<pulls[n].ref[1], "ordered">>
    OBVIOUS
  <2>3. at' = [n |-> n, head |-> head, ref |-> order, base |-> Main, build |-> build, new |-> 0,
               back |-> "decide"]
    BY <2>1, <2>2
  <2>4. at'.n = n /\ at'.base = Main /\ at'.ref = order
    BY <2>3
  <2> QED BY <2>2, <2>4
<1> QED BY <1>1, <1>2 DEF Reland, Original, remote

LEMMA EachNext == ASSUME StackTyped, OneEach, Publication, [Next]_vars PROVE OneEach'
<1> SUFFICES ASSUME NEW m \in Number', NEW n \in Number', Original(m)', pulls'[m].ref = pulls'[n].ref, m # n
             PROVE  FALSE
  BY DEF OneEach
<1>1. CASE m \in Number /\ n \in Number
  BY <1>1, ForkFacts DEF OneEach
<1>2. ASSUME NEW x \in Number' \ Number, NEW y \in Number, Original(y), pulls'[x].ref = pulls[y].ref
      PROVE  FALSE
  <2>1. Original(x)'
    BY <1>2 DEF Original
  <2>2. CASE OpenPull /\ pc = "open" /\ pulls'[x] = Pull(at.ref, at.base)
    <3>1. pulls'[x].ref = at.ref
      BY <2>2, PullParts
    <3> QED BY <2>1, <2>2, <3>1 DEF Publication, Publishing, Original
  <2>3. CASE \E k \in Branch : AuthorOpens(k) /\ pulls'[x] = Pull(<<k, "">>, Under(k))
    <3>1. PICK k \in Branch : AuthorOpens(k) /\ pulls'[x] = Pull(<<k, "">>, Under(k))
      BY <2>3
    <3>2. pulls'[x].ref = <<k, "">>
      BY <3>1, PullParts
    <3> QED BY <1>2, <3>1, <3>2 DEF AuthorOpens, PullsWithHead
  <2> QED BY <2>2, <2>3, NewPull
<1>3. CASE m \notin Number /\ n \in Number
  <2>1. pulls'[m].ref = pulls[n].ref /\ Original(n)
    BY <1>3, ForkFacts DEF Original
  <2> QED BY <1>2, <1>3, <2>1
<1>4. CASE m \in Number /\ n \notin Number
  <2>1. pulls'[n].ref = pulls[m].ref /\ Original(m)
    BY <1>4, ForkFacts DEF Original
  <2> QED BY <1>2, <1>4, <2>1
<1>5. CASE m \notin Number /\ n \notin Number
  <2>1. m \in Number' \ Number /\ n \in Number' \ Number
    BY <1>5
  <2>2. m = Len(pulls') /\ n = Len(pulls')
    BY <2>1, NewPull
  <2> QED BY <2>2
<1> QED BY <1>1, <1>3, <1>4, <1>5

LEMMA SourcesNext == ASSUME StackTyped, OneEach, Deciding, Publication, Sources, [Next]_vars PROVE Sources'
<1> SUFFICES ASSUME NEW q \in Number', ~Original(q)' PROVE \E p \in Number' : Source(p, pulls[q].ref)'
  BY DEF Sources
<1>1. CASE q \in Number
  <2>1. pulls'[q].ref = pulls[q].ref /\ ~Original(q)
    BY <1>1, ForkFacts
  <2>2. PICK ref : ref = pulls[q].ref
    OBVIOUS
  <2>3. PICK p \in Number : Source(p, ref)
    BY <1>1, <2>1, <2>2 DEF Sources
  <2>4. Source(p, ref)' /\ p \in Number'
    BY <2>3, SourceStays, ForkFacts
  <2>5. pulls'[q].ref = ref
    BY <2>1, <2>2
  <2> QED BY <2>4, <2>5 DEF Source
<1>2. CASE q \notin Number
  <2>1. pc \in Publishing /\ pulls'[q].ref = at.ref
    BY <1>2, NewSuccessor
  <2>2. PICK ref, p : ref = at.ref /\ p = at.n
    OBVIOUS
  <2>3. p \in Number /\ Source(p, ref)
    BY <2>1, <2>2, TypeParts DEF Publication, StackTyped, AtWork, TickTyped
  <2>4. Source(p, ref)' /\ p \in Number'
    BY <2>3, SourceStays, ForkFacts
  <2>5. pulls'[q].ref = ref
    BY <2>1, <2>2
  <2> QED BY <2>4, <2>5 DEF Source
<1> QED BY <1>1, <1>2

LEMMA BaseStays ==
  ASSUME StackTyped, [Next]_vars, NEW ref, NEW base, Base(ref, base) PROVE Base(ref, base)'
BY ForkFacts DEF Base

LEMMA BasesNext == ASSUME StackTyped, Publication, Bases, [Next]_vars PROVE Bases'
<1> SUFFICES ASSUME NEW q \in Number', ~Original(q)', pulls'[q].base # Main
             PROVE  Base(pulls[q].ref, pulls[q].base)'
  BY DEF Bases
<1>1. PICK ref, base : ref = pulls'[q].ref /\ base = pulls'[q].base
  OBVIOUS
<1>2. Base(ref, base)
  <2>1. CASE q \in Number
    <3>1. pulls'[q].ref = pulls[q].ref /\ ~Original(q) /\ pulls'[q].base = pulls[q].base
      BY <2>1, ForkFacts, PullChanges
    <3> QED BY <1>1, <2>1, <3>1 DEF Bases
  <2>2. CASE q \notin Number
    <3>1. pc \in Publishing /\ pulls'[q].ref = at.ref /\ pulls'[q].base = at.base
      BY <2>2, NewSuccessor
    <3> QED BY <1>1, <3>1 DEF Publication
  <2> QED BY <2>1, <2>2
<1>3. Base(ref, base)'
  BY <1>2, BaseStays
<1> QED BY <1>1, <1>3 DEF Base

LEMMA DecidingNext == ASSUME StackTyped, Deciding, RowsInOrder, [Next]_vars PROVE Deciding'
<1>1. ASSUME ~List, NEW n \in Number, n # Row \/ ~Retarget
      PROVE  pulls'[n].base = pulls[n].base
  BY <1>1, PullChanges
<1>2. CASE List /\ queue' = Open /\ cands' = {} /\ UNCHANGED pulls
  <2>1. \A n \in Open : rows'[n].base = pulls[n].base
    BY <1>2 DEF List
  <2> QED BY <1>2, <2>1 DEF Deciding
<1>3. CASE queue' = {} /\ cands' = {}
  BY <1>3 DEF Deciding
<1>4. (queue' = {} /\ cands' = {}) \/ UNCHANGED rows \/ List
  <2>1. rows' = NoRows => (queue' = {} /\ cands' = {}) \/ UNCHANGED rows \/ List
    <3>1. queue' \subseteq DOMAIN rows' /\ cands' \subseteq DOMAIN rows'
      BY TypedNext DEF StackTyped, TypeOK
    <3> QED BY <3>1 DEF NoRows
  <2> QED BY <2>1, RowsStep
<1>5. queue \subseteq Number /\ cands \subseteq Number
  BY TypeParts DEF StackTyped, TickTyped
<1>6. CASE UNCHANGED rows /\ queue # {} /\ queue' = queue \ {Row} /\ ~List
           /\ (UNCHANGED cands \/ (cands' = cands \union {Row} /\ rows[Row].base = Main /\ Decide))
  <2>1. Row \in queue
    BY <1>6, RowQueued, TypeParts DEF StackTyped
  <2>2. \A n \in queue' : rows'[n].base = pulls'[n].base
    BY <1>1, <1>5, <1>6 DEF Deciding
  <2>3. \A n \in cands : pulls'[n].base = Main
    BY <1>1, <1>5, <1>6, <2>1 DEF Deciding
  <2>4. cands' = cands \union {Row} /\ rows[Row].base = Main => pulls'[Row].base = Main
    <3>1. pulls[Row].base = rows[Row].base
      BY <2>1 DEF Deciding
    <3> QED BY <1>5, <2>1, <3>1, PullChanges
  <2> QED BY <1>6, <2>1, <2>2, <2>3, <2>4 DEF Deciding
<1>7. CASE UNCHANGED rows /\ UNCHANGED queue /\ cands' \subseteq cands /\ ~Retarget /\ ~List
  BY <1>1, <1>5, <1>7 DEF Deciding
<1>8. CASE queue # {} /\ queue' = queue \ {Row} /\ pc = "decide"
           /\ (UNCHANGED cands \/ (cands' = cands \union {Row} /\ rows[Row].base = Main /\ Decide))
  BY <1>3, <1>4, <1>6, <1>8 DEF List
<1>9. CASE UNCHANGED queue /\ cands' \subseteq cands /\ ~Retarget
  <2>1. CASE List
    BY <1>2, <2>1 DEF List, remote
  <2> QED BY <1>3, <1>4, <1>7, <1>9, <2>1
<1> QED BY <1>2, <1>3, <1>8, <1>9, QueueStep

---------------------------------------------------------------------------
(* Restacked branches.                                                     *)

\* A restacked branch is retargeted when the successor it is against has merged, so then
\* the branch below has none that is open.
Outlived ==
  \A q \in Number : pulls[q].ref[2] = "restacked" /\ pulls[q].base = Main =>
    \A s \in Open : ~Succeeds(s, pulls[q].ref[1] - 1)

\* It succeeds its original after the branch below was succeeded ...
Before ==
  \A q, m \in Number : pulls[q].ref[2] = "restacked" /\ Succeeds(m, pulls[q].ref[1] - 1) => m < q

\* ... and a list has all that is open and came before one of its rows.
Listing == \A n \in DOMAIN rows, m \in Open : m <= n => m \in DOMAIN rows

LEMMA SameKind ==
  ASSUME StackTyped, OneEach, Sources, NEW m \in Number, NEW s \in Number, ~Original(m), Succeeds(s, pulls[m].ref[1])
  PROVE  pulls[m].ref = pulls[s].ref
<1>1. PICK p \in Number, o \in Number : Source(p, pulls[m].ref) /\ Source(o, pulls[s].ref)
  BY DEF Sources, Succeeds
<1>2. pulls[m].ref[2] # "" /\ pulls[s].ref[2] # "" /\ pulls[s].ref[1] = pulls[m].ref[1]
  BY DEF Succeeds, Original
<1>3. pulls[m].ref \in Refs \ {Main} /\ pulls[s].ref \in Refs \ {Main}
  BY OriginalRef
<1> QED BY <1>1, <1>2, <1>3, OneKind

\* What a publication for n may be begun with.
ToPublish(n, ref, base) ==
  /\ Original(n) /\ ref[2] # "" /\ Source(n, ref) /\ Base(ref, base)
  /\ \A q \in Open : pulls[q].ref = ref => pulls[q].base = base

LEMMA WorkBegins ==
  ASSUME StackTyped, OneEach, Deciding, [Next]_vars, UNCHANGED pulls, pc' # "close",
         NEW n \in Number, NEW ref, NEW base, ToPublish(n, ref, base), n \notin queue' \union cands',
         at'.n = n, at'.ref = ref, at'.base = base
  PROVE  Publication'
<1> USE DEF ToPublish
<1>1. Source(n, ref)' /\ Base(ref, base)' /\ Original(n)'
  BY SourceStays, BaseStays, ForkFacts
<1>2. Open' = Open
  BY DEF Open, Number
<1>3. Source(at.n, at.ref)' /\ Base(at.ref, at.base)' /\ Original(at.n)'
  BY <1>1 DEF Source, Base, Original, GoneParent
<1> QED BY <1>2, <1>3 DEF Publication

LEMMA RestackBegins ==
  ASSUME StackTyped, LandingOrder, OneEach, Sources, Bases, Deciding, RecordsLast, Outlived,
         Restack, pc' = "push"
  PROVE  Publication'
<1>1. PICK r \in Recorded(Row) : /\ r.new \in Open /\ at'.n = Row /\ at'.base = pulls[r.new].ref
                                 /\ at'.ref = <<pulls[Row].ref[1], "restacked">>
  BY RestackWork
<1>2. /\ UNCHANGED pulls /\ queue' = queue \ {Row} /\ UNCHANGED cands /\ ParentClosed(Row)
      /\ Row \in queue /\ Row \in Number
  BY RestackWork
<1> DEFINE k == pulls[Row].ref[1]
<1>3. PICK n, ref, base : n = Row /\ ref = <<k, "restacked">> /\ base = pulls[r.new].ref
  OBVIOUS
<1>4. ref[1] = k /\ ref[2] = "restacked"
  BY <1>3
<1>5. /\ r.n \in Number /\ r.new \in Number /\ pulls[r.new].ref[1] = pulls[r.n].ref[1]
      /\ Original(r.n) /\ ~Original(r.new) /\ Done(r.n) /\ r.n \in PullsWithHead(rows[Row].base)
  <2>1. r \in Records /\ r.n \in PullsWithHead(rows[Row].base)
    BY DEF Records, Recorded
  <2> QED BY <2>1 DEF LandingOrder, RecordsInOrder, RecordsLast
<1>6. pulls[r.n].ref = pulls[Row].base /\ pulls[Row].base # Main /\ pulls[r.n].status # "merged"
  <2>1. rows[Row].base = pulls[Row].base
    BY <1>2 DEF Deciding
  <2> QED BY <1>2, <1>5, <2>1 DEF ParentClosed, Stacked, PullsWithHead, MergedParents
<1>7. Original(Row)
  <2> SUFFICES ASSUME ~Original(Row) PROVE FALSE
    OBVIOUS
  <2>1. PICK m \in Number : ~Original(m) /\ pulls[m].ref = pulls[Row].base
    BY <1>2, <1>6 DEF Bases, Base
  <2> QED BY <1>5, <1>6, <2>1 DEF Original
<1>8. pulls[r.n].ref[1] = k - 1
  BY <1>2, <1>6 DEF LandingOrder, PullsInOrder, OnParent
<1>9. Source(Row, ref)
  <2>1. GoneParent(pulls[Row].base)
    BY <1>5, <1>6 DEF GoneParent
  <2>2. pulls[Row].ref = <<k, "">>
    BY <1>2, <1>7, OriginalRef
  <2> QED BY <1>4, <2>1, <2>2 DEF Source
<1>10. Base(ref, base)
  BY <1>3, <1>4, <1>5 DEF Base
<1>11. ASSUME NEW q \in Open, pulls[q].ref = ref PROVE pulls[q].base = base
  <2>1. q \in Number /\ ~Original(q) /\ pulls[q].ref[1] = k /\ pulls[q].ref[2] = "restacked"
    BY <1>4, <1>11 DEF Original, Open
  <2>2. Succeeds(r.new, k - 1)
    BY <1>5, <1>8 DEF Succeeds
  <2>3. pulls[q].base # Main
    BY <1>1, <2>1, <2>2 DEF Outlived
  <2>4. PICK m \in Number : ~Original(m) /\ pulls[m].ref = pulls[q].base
    BY <2>1, <2>3 DEF Bases, Base
  <2>5. pulls[m].ref[1] = k - 1
    BY <2>1, <2>3, <2>4 DEF LandingOrder, PullsInOrder, OnParent
  <2>6. pulls[m].ref = pulls[r.new].ref
    BY <1>5, <2>2, <2>4, <2>5, SameKind
  <2> QED BY <1>3, <2>4, <2>6
<1>12. Row \notin queue' \union cands'
  BY <1>2 DEF Deciding
<1>13. [Next]_vars /\ n \in Number /\ Original(n) /\ Source(n, ref) /\ n \notin queue' \union cands' /\ pc' # "close"
  BY <1>2, <1>3, <1>7, <1>9, <1>12 DEF Next, Step
<1>14. at'.n = n /\ at'.ref = ref /\ at'.base = base
  BY <1>1, <1>3
<1>15. ToPublish(n, ref, base)
  BY <1>4, <1>10, <1>11, <1>13 DEF ToPublish
<1> HIDE DEF k
<1> QED BY <1>2, <1>13, <1>14, <1>15, WorkBegins

LEMMA RelandBegins ==
  ASSUME StackTyped, OneEach, Bases, Deciding, Reland
  PROVE  Publication'
<1>1. PICK n \in cands : /\ Original(n) /\ cands' = cands \ {n} /\ at'.n = n /\ at'.base = Main
                         /\ at'.ref = <<pulls[n].ref[1], "ordered">>
  BY RelandWork
<1>2. UNCHANGED pulls /\ queue' = {} /\ pc' = "revalidate"
  BY RelandWork
<1>3. n \in Number /\ pulls[n].base = Main
  BY TypeParts DEF StackTyped, TickTyped, Deciding
<1>4. PICK ref, base : ref = <<pulls[n].ref[1], "ordered">> /\ base = Main
  OBVIOUS
<1>5. ref[1] = pulls[n].ref[1] /\ ref[2] = "ordered"
  BY <1>4
<1>6. Source(n, ref)
  <2>1. pulls[n].ref = <<ref[1], "">>
    BY <1>1, <1>3, <1>5, OriginalRef
  <2> QED BY <1>3, <1>5, <2>1 DEF Source
<1>7. Base(ref, base)
  BY <1>4, <1>5 DEF Base
<1>8. ASSUME NEW q \in Open, pulls[q].ref = ref PROVE pulls[q].base = base
  <2>1. q \in Number /\ ~Original(q)
    BY <1>5, <1>8 DEF Open, Original
  <2> QED BY <1>4, <1>5, <1>8, <2>1 DEF Bases, Base
<1>9. [Next]_vars /\ n \notin queue' \union cands' /\ pc' # "close" /\ at'.n = n /\ at'.ref = ref /\ at'.base = base
  BY <1>1, <1>2, <1>4 DEF Next, Step
<1>10. ToPublish(n, ref, base)
  BY <1>1, <1>5, <1>6, <1>7, <1>8 DEF ToPublish
<1> QED BY <1>2, <1>3, <1>9, <1>10, WorkBegins

LEMMA WorkGoesOn ==
  ASSUME StackTyped, OneEach, Deciding, Publication, [Next]_vars, pc' \in Publishing, GoesOn
  PROVE  Publication'
<1> USE DEF GoesOn
<1>1. PICK n, ref, base : n = at.n /\ ref = at.ref /\ base = at.base
  OBVIOUS
<1>2. at'.n = n /\ at'.ref = ref /\ at'.base = base
  BY <1>1 DEF SameWork
<1>3. n \in Number /\ Original(n) /\ ref[2] # "" /\ Source(n, ref) /\ Base(ref, base) /\ n \notin queue \union cands
  BY <1>1, TypeParts DEF Publication, StackTyped, AtWork, TickTyped
<1>4. Original(n)' /\ Source(n, ref)' /\ Base(ref, base)'
  BY <1>3, ForkFacts, SourceStays, BaseStays
<1>5. Original(at.n)' /\ Source(at.n, at.ref)' /\ Base(at.ref, at.base)'
  BY <1>2, <1>4 DEF Original, Source, Base, GoneParent
<1>6. ASSUME NEW q \in Open', pulls'[q].ref = ref, pc' # "close" PROVE pulls'[q].base = base
  <2>1. CASE q \in Number
    <3>1. q \in Open /\ pulls[q].ref = ref
      BY <1>6, <2>1, ForkFacts
    <3>2. pulls'[q].base = pulls[q].base
      BY <2>1, PullChanges DEF Retarget, Publishing
    <3> QED BY <1>1, <1>6, <3>1, <3>2 DEF Publication
  <2>2. CASE q \notin Number
    <3>1. q \in Number' /\ ~Original(q)'
      BY <1>3, <1>6 DEF Open, Original
    <3> QED BY <1>1, <2>2, <3>1, NewSuccessor
  <2> QED BY <2>1, <2>2
<1>7. ASSUME NEW q \in Number', Succeeds(q, ref[1])', pc' = "close" PROVE q <= at'.new
  <2>1. CASE OpenPull /\ at'.new = Len(pulls')
    <3>1. Number' = 1..Len(pulls') /\ Len(pulls') \in Nat
      BY ForkFacts, LenProperties DEF Evolves, Number
    <3> QED BY <2>1, <3>1
  <2>2. CASE pc = "close" /\ at'.new = at.new
    <3>1. q \in Number
      BY <1>7, <2>2, NewSuccessor DEF Succeeds
    <3>2. Succeeds(q, ref[1])
      BY <1>7, <3>1, ForkFacts DEF Succeeds
    <3> QED BY <1>1, <2>2, <3>1, <3>2 DEF Publication
  <2> QED BY <1>7, <2>1, <2>2
<1>8. at.n' \notin queue' \union cands' /\ at.ref'[2] # ""
  BY <1>2, <1>3
<1>9. pc' # "close" => \A q \in Open' : pulls'[q].ref = at'.ref => pulls'[q].base = at'.base
  BY <1>2, <1>6
<1>10. pc' = "close" => \A q \in Number' : Succeeds(q, at.ref[1])' => q <= at'.new
  BY <1>2, <1>7 DEF Succeeds, Original
<1> QED BY <1>5, <1>8, <1>9, <1>10 DEF Publication

LEMMA PublicationNext ==
  ASSUME StackTyped, LandingOrder, OneEach, Sources, Bases, Deciding, Publication, RecordsLast, Outlived, [Next]_vars
  PROVE  Publication'
<1>1. CASE pc' \notin Publishing
  BY <1>1 DEF Publication
<1>2. CASE Restack /\ pc' = "push"
  BY <1>2, RestackBegins
<1>3. CASE Reland
  BY <1>3, RelandBegins
<1>4. CASE pc' \in Publishing /\ GoesOn
  BY <1>4, WorkGoesOn
<1> QED BY <1>1, <1>2, <1>3, <1>4, WorkStep

\* A pull request that is closed is done with.
LEMMA ClosedDone ==
  ASSUME StackTyped, Publication, ClosePull, at.n \notin Open'
  PROVE  at.n \in Number /\ Original(at.n) /\ pc' \notin Publishing /\ at.n \notin queue' \union cands'
<1>1. pc = "close" /\ UNCHANGED <<queue, cands>> /\ pc' = at.back
  BY DEF ClosePull, Fails, Retry, tick
<1>2. at.n \in Number /\ at.back = "decide"
  BY <1>1, TypeParts DEF StackTyped, AtWork, Publishing, TickTyped
<1> QED BY <1>1, <1>2 DEF Publication, Publishing

LEMMA RecordsLastNext ==
  ASSUME StackTyped, LandingOrder, OneEach, Publication, RecordsLast, [Next]_vars
  PROVE  RecordsLast'
<1> SUFFICES ASSUME NEW r \in Records'
             PROVE  /\ Original(r.n)' /\ ~Original(r.new)' /\ Done(r.n)'
                    /\ \A q \in Number' : Succeeds(q, pulls[r.n].ref[1])' => q <= r.new
  BY DEF RecordsLast
<1>1. CASE r \in Records
  <2>1. /\ r.n \in Number /\ r.new \in Number /\ Original(r.n) /\ ~Original(r.new) /\ Done(r.n)
        /\ \A q \in Number : Succeeds(q, pulls[r.n].ref[1]) => q <= r.new
    BY <1>1 DEF LandingOrder, RecordsInOrder, RecordsLast
  <2>2. pulls'[r.n].ref = pulls[r.n].ref
    BY <2>1, ForkFacts
  <2>3. ASSUME NEW q \in Number', Succeeds(q, pulls[r.n].ref[1])' PROVE q <= r.new
    <3>1. CASE q \in Number
      BY <2>1, <2>2, <2>3, <3>1, ForkFacts DEF Succeeds
    <3>2. CASE q \notin Number
      <4>1. pc \in Publishing /\ pulls'[q].ref = at.ref
        BY <2>3, <3>2, NewSuccessor DEF Succeeds
      <4>2. pulls[at.n].ref[1] = pulls[r.n].ref[1] /\ at.n \in Number /\ Original(at.n)
        BY <2>2, <2>3, <4>1, TypeParts DEF Succeeds, LandingOrder, WorkInOrder, Publication, StackTyped, AtWork, TickTyped
      <4>3. at.n = r.n
        BY <2>1, <4>2, OriginalRef DEF OneEach
      <4> QED BY <2>1, <4>1, <4>3 DEF Done
    <3> QED BY <3>1, <3>2
  <2>4. Original(r.n)' /\ ~Original(r.new)' /\ Done(r.n)'
    BY <2>1, ForkFacts, DoneStays
  <2> QED BY <2>3, <2>4
<1>2. CASE r \notin Records
  <2>1. ClosePull /\ pc = "close" /\ r.n = at.n /\ r.new = at.new /\ at.n \notin Open'
    BY <1>2, RecordsFrom
  <2>2. pc \in Publishing /\ r.new \in Number /\ pulls[r.new].ref = at.ref
    BY <2>1, TypeParts DEF Publishing, StackTyped, AtWork, LandingOrder, WorkInOrder
  <2>3. r.n \in Number /\ Original(r.n) /\ pc' \notin Publishing /\ r.n \notin queue' \union cands'
    BY <2>1, ClosedDone
  <2>4. ~Original(r.new)
    BY <2>2 DEF Publication, Original
  <2>5. Original(r.n)' /\ ~Original(r.new)' /\ Done(r.n)'
    BY <2>1, <2>2, <2>3, <2>4, ForkFacts DEF Done
  <2>6. ASSUME NEW q \in Number', Succeeds(q, pulls[r.n].ref[1])' PROVE q <= r.new
    <3>1. q \in Number
      BY <2>1, <2>6, NewSuccessor DEF Succeeds
    <3>2. pulls'[r.n].ref = pulls[r.n].ref /\ at.ref[1] = pulls[r.n].ref[1]
      BY <2>1, <2>2, <2>3, ForkFacts DEF LandingOrder, WorkInOrder
    <3>3. Succeeds(q, at.ref[1])
      BY <2>6, <3>1, <3>2, ForkFacts DEF Succeeds
    <3> QED BY <2>1, <2>2, <3>1, <3>3 DEF Publication
  <2> QED BY <2>5, <2>6
<1> QED BY <1>1, <1>2

LEMMA SupersededDoneNext ==
  ASSUME StackTyped, Publication, SupersededDone, [Next]_vars
  PROVE  SupersededDone'
<1> SUFFICES ASSUME NEW p \in Number', pulls'[p].status = "superseded" PROVE Original(p)' /\ Done(p)'
  BY DEF SupersededDone
<1>1. p \in Number
  <2> SUFFICES ASSUME p \notin Number PROVE FALSE
    OBVIOUS
  <2>1. \E ref, base : pulls'[p] = Pull(ref, base)
    BY NewPull
  <2> QED BY <2>1 DEF Pull
<1>2. CASE pulls[p].status = "superseded"
  BY <1>1, <1>2, ForkFacts, DoneStays DEF SupersededDone
<1>3. CASE ClosePull /\ p = at.n
  <2>1. p \notin Open'
    BY DEF Open
  <2>2. Original(p) /\ pc' \notin Publishing /\ p \notin queue' \union cands'
    BY <1>3, <2>1, ClosedDone
  <2> QED BY <1>1, <2>1, <2>2, ForkFacts DEF Done
<1> QED BY <1>1, <1>2, <1>3, PullChanges

LEMMA BeforeNext ==
  ASSUME StackTyped, LandingOrder, OneEach, Sources, Publication, Before, [Next]_vars
  PROVE  Before'
<1> SUFFICES ASSUME NEW q \in Number', NEW m \in Number', pulls'[q].ref[2] = "restacked",
                    Succeeds(m, pulls[q].ref[1] - 1)'
             PROVE  m < q
  BY DEF Before
<1>1. ~Original(q)' /\ ~Original(m)' /\ pulls'[m].ref[1] = pulls'[q].ref[1] - 1
  BY DEF Original, Succeeds
<1>2. CASE q \in Number /\ m \in Number
  <2>1. pulls[q].ref = pulls'[q].ref /\ pulls[m].ref = pulls'[m].ref /\ ~Original(m)
    BY <1>1, <1>2, ForkFacts
  <2> QED BY <1>1, <1>2, <2>1 DEF Before, Succeeds
<1>3. CASE q \in Number /\ m \notin Number
  <2>1. pc \in Publishing /\ pulls'[m].ref = at.ref
    BY <1>1, <1>3, NewSuccessor
  <2>2. pulls[q].ref = pulls'[q].ref /\ ~Original(q)
    BY <1>1, <1>3, ForkFacts
  <2>3. PICK ref : ref = pulls[q].ref
    OBVIOUS
  <2>4. PICK p \in Number : Source(p, ref)
    BY <1>3, <2>2, <2>3 DEF Sources
  <2>5. ref[2] # "ordered"
    BY <2>2, <2>3
  <2>6. ref[1] - 1 # at.ref[1]
    BY <2>1, <2>4, <2>5, SourceGone
  <2> QED BY <1>1, <2>1, <2>2, <2>3, <2>6
<1>4. CASE q \notin Number /\ m \in Number
  BY <1>4, NewPull
<1>5. CASE q \notin Number /\ m \notin Number
  <2>1. pulls'[m].ref = at.ref /\ pulls'[q].ref = at.ref /\ pc \in Publishing
    BY <1>1, <1>5, NewSuccessor
  <2>2. at.ref[1] \in Int
    BY <2>1, RefNumbers, TypeParts DEF StackTyped, AtWork, At
  <2> QED BY <1>1, <2>1, <2>2
<1> QED BY <1>2, <1>3, <1>4, <1>5

LEMMA OutlivedNext ==
  ASSUME StackTyped, LandingOrder, OneEach, Sources, Bases, Deciding, Publication, Outlived, Before, Listing, [Next]_vars
  PROVE  Outlived'
<1> SUFFICES ASSUME NEW q \in Number', pulls'[q].ref[2] = "restacked", pulls'[q].base = Main,
                    NEW s \in Open', Succeeds(s, pulls[q].ref[1] - 1)'
             PROVE  FALSE
  BY DEF Outlived
<1>1. ~Original(q)' /\ ~Original(s)' /\ pulls'[s].ref[1] = pulls'[q].ref[1] - 1 /\ s \in Number'
  BY DEF Original, Succeeds, Open
<1>2. q \in Number
  <2> SUFFICES ASSUME q \notin Number PROVE FALSE
    OBVIOUS
  <2>1. pc \in Publishing /\ pulls'[q].ref = at.ref /\ at.base = Main
    BY <1>1, NewSuccessor
  <2>2. PICK m \in Number : pulls[m].ref = Main
    BY <2>1 DEF Publication, Base
  <2> QED BY <2>2, OriginalRef
<1>3. pulls[q].ref = pulls'[q].ref /\ ~Original(q)
  BY <1>1, <1>2, ForkFacts
<1>4. s \in Number
  <2> SUFFICES ASSUME s \notin Number PROVE FALSE
    OBVIOUS
  <2>1. pc \in Publishing /\ pulls'[s].ref = at.ref
    BY <1>1, NewSuccessor
  <2>2. PICK ref : ref = pulls[q].ref
    OBVIOUS
  <2>3. PICK p \in Number : Source(p, ref)
    BY <1>2, <1>3, <2>2 DEF Sources
  <2>4. ref[2] # "ordered"
    BY <1>3, <2>2
  <2>5. ref[1] - 1 # at.ref[1]
    BY <2>1, <2>3, <2>4, SourceGone
  <2> QED BY <1>1, <1>3, <2>1, <2>2, <2>5
<1>5. s \in Open /\ pulls[s].ref = pulls'[s].ref /\ Succeeds(s, pulls[q].ref[1] - 1)
  BY <1>1, <1>3, <1>4, ForkFacts DEF Succeeds
<1>6. pulls[q].base # Main
  BY <1>2, <1>3, <1>5 DEF Outlived
<1>7. Retarget /\ q = Row
  BY <1>2, <1>6, PullChanges
<1>8. q \in queue /\ q \in DOMAIN rows /\ rows[q].base = pulls[q].base
  BY <1>7, RowQueued, ForkFacts DEF Retarget, Deciding
<1>9. PICK m \in Number : ~Original(m) /\ pulls[m].ref = pulls[q].base
  BY <1>2, <1>3, <1>6 DEF Bases, Base
<1>10. pulls[m].ref = pulls[s].ref
  <2>1. pulls[m].ref[1] = pulls[q].ref[1] - 1
    BY <1>2, <1>6, <1>9 DEF LandingOrder, PullsInOrder, OnParent
  <2>2. Succeeds(s, pulls[m].ref[1])
    BY <1>5, <2>1
  <2> QED BY <1>4, <1>9, <2>2, SameKind
<1>11. s \in DOMAIN rows
  <2>1. s < q
    BY <1>2, <1>3, <1>4, <1>5 DEF Before
  <2>2. s <= q
    BY <1>2, <1>4, <2>1, ForkFacts
  <2> QED BY <1>5, <1>8, <2>2 DEF Listing
<1>12. Waiting(Row)
  BY <1>7, <1>8, <1>9, <1>10, <1>11 DEF Waiting, ListedRefs
<1> QED BY <1>7, <1>12 DEF Retarget, Stacked

LEMMA ListingNext == ASSUME StackTyped, Listing, [Next]_vars PROVE Listing'
<1>1. CASE UNCHANGED rows
  <2> SUFFICES ASSUME NEW n \in DOMAIN rows, NEW m \in Open', m <= n PROVE m \in DOMAIN rows
    BY <1>1 DEF Listing
  <2>1. n \in Number /\ m \in Number'
    BY ForkFacts DEF TickTyped, Open
  <2>2. m \in Number
    <3> SUFFICES ASSUME m \notin Number PROVE FALSE
      OBVIOUS
    <3>1. m = Len(pulls') /\ n < m /\ n \in Nat
      BY <2>1, NewPull, ForkFacts
    <3>2. Len(pulls') \in Nat
      BY ForkFacts, LenProperties DEF Evolves
    <3> QED BY <3>1, <3>2
  <2> QED BY <2>2, ForkFacts DEF Listing
<1>2. CASE rows' = NoRows
  BY <1>2 DEF Listing, NoRows
<1>3. CASE List
  <2>1. DOMAIN rows' = Open /\ UNCHANGED pulls
    BY <1>3 DEF List, remote
  <2>2. Open' = Open
    BY <2>1 DEF Open, Number
  <2> QED BY <2>1, <2>2 DEF Listing
<1> QED BY <1>1, <1>2, <1>3, RowsStep

---------------------------------------------------------------------------
(* Records.                                                                *)

\* Of the successors of an original only the last one is open.
Last == \A q \in Number, s \in Number : ~Original(q) /\ Succeeds(s, pulls[q].ref[1]) /\ q < s => q \notin Open

\* A superseded pull request is remembered, unless all that was stacked on it when that
\* was dropped is gone: what is stacked on it now came after its successors.
Now == IF pc = "idle" THEN disk ELSE mem
Recalled(p) == \E r \in Now.relanded : r.n = p
Past(p) ==
  \A c \in Open \union queue : pulls[c].base = pulls[p].ref =>
    \A q \in Number : Succeeds(q, pulls[p].ref[1]) => q <= c
Heard == slipped \intersect {"crash", "lost", "unread"} = {}
SupersededRecalled == Heard => \A p \in Number : pulls[p].status = "superseded" => Recalled(p) \/ Past(p)

LEMMA LastNext ==
  ASSUME StackTyped, LandingOrder, OneEach, Sources, Publication, Last, [Next]_vars
  PROVE  Last'
<1> SUFFICES ASSUME NEW q \in Number', NEW s \in Number', ~Original(q)', Succeeds(s, pulls[q].ref[1])', q < s, q \in Open'
             PROVE  FALSE
  BY DEF Last
<1>1. q \in Number
  <2> SUFFICES ASSUME q \notin Number PROVE FALSE
    OBVIOUS
  <2>1. q = Len(pulls') /\ Number' = 1..Len(pulls') /\ Len(pulls') \in Nat
    BY NewPull, ForkFacts, LenProperties DEF Evolves, Number
  <2> QED BY <2>1
<1>2. q \in Open /\ ~Original(q) /\ pulls'[q].ref = pulls[q].ref
  BY <1>1, ForkFacts
<1>3. CASE s \in Number
  <2>1. Succeeds(s, pulls[q].ref[1])
    BY <1>2, <1>3, ForkFacts DEF Succeeds
  <2> QED BY <1>1, <1>2, <1>3, <2>1 DEF Last
<1>4. CASE s \notin Number
  <2>1. Openable /\ pc = "open" /\ pc \in Publishing /\ pulls'[s].ref = at.ref
    BY <1>4, NewSuccessor DEF Succeeds
  <2>2. at.ref[1] = pulls[q].ref[1]
    BY <1>2, <2>1 DEF Succeeds
  <2>3. PICK p \in Number : Source(p, pulls[q].ref)
    BY <1>1, <1>2 DEF Sources
  <2>4. at.n \in Number /\ Source(at.n, at.ref) /\ at.ref[2] # "" /\ at.ref \in Refs \ {Main}
    BY <2>1, TypeParts DEF Publication, StackTyped, AtWork, TickTyped, At
  <2>5. pulls[q].ref = at.ref
    BY <1>1, <1>2, <2>2, <2>3, <2>4, OneKind, OriginalRef DEF Original
  <2>6. pulls[q].base = at.base
    BY <1>2, <2>1, <2>5 DEF Publication
  <2> QED BY <1>2, <2>1, <2>5, <2>6 DEF Openable
<1> QED BY <1>3, <1>4

\* What a step does to the memory there is now.
LEMMA NowStep ==
  ASSUME StackTyped, SupersededDone, Publication, [Next]_vars, NEW p \in Number, pulls[p].status = "superseded",
         NEW r \in Now.relanded, r.n = p, Heard'
  PROVE  \/ r \in Now'.relanded
         \/ List /\ UNCHANGED pulls /\ queue' = Open /\ \A c \in Open : pulls[c].base # pulls[p].ref
<1>1. TickTyped /\ AtWork
  BY TypeParts DEF StackTyped
<1>2. ASSUME UNCHANGED <<disk, mem>>, pc = "idle" <=> pc' = "idle"
      PROVE  r \in Now'.relanded
  BY <1>2 DEF Now
<1>3. ASSUME pc # "idle", pc' # "idle", r \in mem.relanded => r \in mem'.relanded
      PROVE  r \in Now'.relanded
  BY <1>3 DEF Now
<1>4. CASE List
  <2>1. r \in disk.relanded /\ UNCHANGED pulls /\ queue' = Open /\ pc' = "decide"
    BY <1>4 DEF List, Now, remote
  <2>2. ~Slips("unread")
    BY DEF Slips, Heard
  <2>3. mem'.relanded = Kept(disk, rows') /\ DOMAIN rows' = Open /\ \A n \in Open : rows'[n].base = pulls[n].base
    BY <1>4, <2>2 DEF List, Pruned
  <2>4. (\E n \in Open : pulls[n].base = pulls[p].ref) => r \in mem'.relanded
    BY <2>1, <2>3 DEF Kept
  <2> QED BY <1>4, <2>1, <2>4 DEF Now
<1>5. CASE HoldOrphan \/ Restack \/ StackedUnknown
  <2>1. \/ mem' = mem
        \/ \E head, reason : mem' = Holding(Row, head, reason)
        \/ \E bases : mem' = [mem EXCEPT !.bases = bases]
    <3>1. CASE HoldOrphan
      BY <3>1 DEF HoldOrphan
    <3>2. CASE Restack
      BY <3>2 DEF Restack
    <3>3. CASE StackedUnknown
      BY <3>3 DEF StackedUnknown
    <3> QED BY <1>5, <3>1, <3>2, <3>3
  <2>2. mem'.relanded = mem.relanded
    BY <2>1, TypeParts DEF Holding, StackTyped, Remembered, Memory
  <2>3. pc # "idle" /\ pc' # "idle"
    BY <1>5 DEF HoldOrphan, Restack, StackedUnknown
  <2> QED BY <1>3, <2>2, <2>3
<1>6. CASE ClosePull
  <2>1. pc = "close" /\ pc' = at.back
    BY <1>6 DEF ClosePull, Fails, Retry
  <2>2. pc' # "idle"
    BY <1>1, <2>1 DEF AtWork, Publishing
  <2>3. p # at.n
    BY <2>1 DEF SupersededDone, Done, Publishing
  <2>4. CASE UNCHANGED mem
    BY <1>3, <2>1, <2>2, <2>4
  <2>5. CASE ~UNCHANGED mem
    <3>1. mem' = [mem EXCEPT !.held = {e \in @ : e.n # at.n},
                      !.relanded = {e \in @ : e.n # at.n} \union {[n |-> at.n, head |-> at.head, new |-> at.new]}]
      BY <1>6, <2>5 DEF ClosePull, Fails
    <3>2. {e \in mem.relanded : e.n # at.n} \subseteq mem'.relanded
      BY <3>1, TypeParts DEF StackTyped, Remembered, Memory
    <3> QED BY <1>3, <2>1, <2>2, <2>3, <3>2
  <2> QED BY <2>4, <2>5
<1>7. CASE EndTick
  BY <1>7 DEF EndTick, Clean, Now
<1>8. CASE Land
  BY <1>3, <1>8 DEF Land
<1>9. ~Crash
  <2>1. Crash => "crash" \in slipped'
    BY DEF Crash, Slips
  <2> QED BY <2>1 DEF Heard
<1>10. UNCHANGED vars => UNCHANGED <<disk, mem, pc>>
  BY DEF vars
<1>11. Decide \/ StackedUnread \/ Retarget \/ Receive \/ Reland => UNCHANGED <<disk, mem>> /\ pc = "decide" /\ pc' # "idle"
  BY DEF Decide, StackedUnread, Retarget, Receive, Reland
<1>12. Revalidate \/ Push \/ OpenPull \/ Train => UNCHANGED <<disk, mem>> /\ pc # "idle" /\ pc' # "idle"
  <2>1. Retry /\ pc \in Publishing => pc' # "idle"
    BY <1>1 DEF Retry, AtWork
  <2>2. Revalidate => UNCHANGED <<disk, mem>> /\ pc # "idle" /\ pc' # "idle"
    BY <2>1 DEF Revalidate, Publishing
  <2>3. Push => UNCHANGED <<disk, mem>> /\ pc # "idle" /\ pc' # "idle"
    BY <2>1 DEF Push, Publishing, Fails, AfterPush
  <2>4. OpenPull => UNCHANGED <<disk, mem>> /\ pc # "idle" /\ pc' # "idle"
    BY <2>1 DEF OpenPull, Publishing, Fails, AfterOpen
  <2>5. Train => UNCHANGED <<disk, mem>> /\ pc # "idle" /\ pc' # "idle"
    BY DEF Train
  <2> QED BY <2>2, <2>3, <2>4, <2>5
<1>13. (\E k \in Branch : AuthorOpens(k)) \/ (\E n \in Number : AuthorPushes(n) \/ SomebodyCloses(n))
       => UNCHANGED <<disk, mem, pc>>
  BY DEF AuthorOpens, AuthorPushes, SomebodyCloses, process
<1> QED BY <1>2, <1>3, <1>4, <1>5, <1>6, <1>7, <1>8, <1>9, <1>10, <1>11, <1>12, <1>13 DEF Next, Step

\* What slipped once has slipped.
LEMMA HeardBefore == ASSUME [Next]_vars, Heard' PROVE Heard
<1>1. UNCHANGED slipped \/ Steady \/ (\E e : Slips(e)) => slipped \subseteq slipped'
  BY DEF Steady, Slips
<1>2. List \/ Decide \/ StackedUnread \/ Retarget \/ StackedUnknown \/ HoldOrphan \/ Restack
        => UNCHANGED slipped \/ Steady \/ \E e : Slips(e)
  BY DEF List, Decide, StackedUnread, Retarget, StackedUnknown, HoldOrphan, Restack
<1>3. Receive \/ Reland \/ Revalidate \/ Land \/ Train \/ EndTick => UNCHANGED slipped
  BY DEF Receive, Reland, Revalidate, Land, Train, EndTick
<1>4. Push \/ OpenPull \/ ClosePull => UNCHANGED slipped \/ Steady \/ \E e : Slips(e)
  BY DEF Push, OpenPull, ClosePull, Fails
<1>5. Crash => \E e : Slips(e)
  BY DEF Crash
<1>6. (\E k \in Branch : AuthorOpens(k)) \/ (\E n \in Number : AuthorPushes(n) \/ SomebodyCloses(n))
        => Steady \/ \E e : Slips(e)
  BY DEF AuthorOpens, AuthorPushes, SomebodyCloses
<1>7. UNCHANGED vars => UNCHANGED slipped
  BY DEF vars
<1>8. slipped \subseteq slipped'
  BY <1>1, <1>2, <1>3, <1>4, <1>5, <1>6, <1>7 DEF Next, Step
<1> QED BY <1>8 DEF Heard

\* A close that is heard is recorded.
LEMMA CloseRecorded ==
  ASSUME StackTyped, ClosePull, NEW p, p = at.n, p \in Open, p \notin Open', Heard'
  PROVE  Recalled(p)'
<1>1. pc = "close" /\ pc' = at.back /\ at.back = "decide"
  BY DEF ClosePull, Fails, Retry, StackTyped, AtWork, Publishing
<1>2. ~Fails /\ ~Slips("lost")
  <2>1. Fails => UNCHANGED pulls
    BY DEF Fails, remote
  <2>2. UNCHANGED pulls => Open' = Open
    BY DEF Open, Number
  <2>3. Slips("lost") => "lost" \in slipped'
    BY DEF Slips
  <2> QED BY <2>1, <2>2, <2>3 DEF Heard
<1>3. mem' = [mem EXCEPT !.held = {e \in @ : e.n # at.n},
                  !.relanded = {e \in @ : e.n # at.n} \union {[n |-> at.n, head |-> at.head, new |-> at.new]}]
  BY <1>2 DEF ClosePull
<1>4. [n |-> at.n, head |-> at.head, new |-> at.new] \in mem'.relanded
  BY <1>3, TypeParts DEF StackTyped, Remembered, Memory
<1>5. Now'.relanded = mem'.relanded
  BY <1>1 DEF Now
<1> QED BY <1>4, <1>5 DEF Recalled

\* What comes to be stacked on a superseded pull request comes after all its successors.
LEMMA PastStays ==
  ASSUME StackTyped, LandingOrder, OneEach, Publication, SupersededDone, [Next]_vars,
         NEW p \in Number, pulls[p].status = "superseded", Past(p)
  PROVE  Past(p)'
<1> SUFFICES ASSUME NEW c \in Open' \union queue', pulls'[c].base = pulls'[p].ref,
                    NEW q \in Number', Succeeds(q, pulls[p].ref[1])'
             PROVE  q <= c
  BY DEF Past
<1>1. pulls'[p].ref = pulls[p].ref /\ Original(p) /\ Done(p)
  BY ForkFacts DEF SupersededDone
<1>2. q \in Number
  <2> SUFFICES ASSUME q \notin Number PROVE FALSE
    OBVIOUS
  <2>1. pc \in Publishing /\ pulls'[q].ref = at.ref
    BY NewSuccessor DEF Succeeds
  <2>2. at.n \in Number /\ Original(at.n) /\ pulls[at.n].ref[1] = pulls[p].ref[1]
    BY <1>1, <2>1, TypeParts DEF Succeeds, LandingOrder, WorkInOrder, Publication, StackTyped, AtWork, TickTyped
  <2>3. at.n = p
    BY <1>1, <2>2, OriginalRef DEF OneEach
  <2> QED BY <1>1, <2>1, <2>3 DEF Done
<1>3. Succeeds(q, pulls[p].ref[1])
  BY <1>1, <1>2, ForkFacts DEF Succeeds
<1>4. CASE c \in Number
  <2>1. c \in Open \union queue
    <3>1. c \in Open' => c \in Open
      BY <1>4, ForkFacts
    <3>2. queue' \subseteq queue \union Open
      BY QueueStep
    <3> QED BY <3>1, <3>2
  <2>2. pulls[c].base = pulls[p].ref
    <3>1. pulls[p].ref # Main
      BY OriginalRef
    <3> QED BY <1>1, <1>4, <3>1, PullChanges
  <2> QED BY <1>2, <1>3, <2>1, <2>2 DEF Past
<1>5. CASE c \notin Number
  <2>1. c \in Number'
    <3>1. queue' \subseteq queue \union Open /\ queue \union Open \subseteq Number
      BY QueueStep, ForkFacts DEF TickTyped, Open
    <3> QED BY <1>5, <3>1 DEF Open
  <2>2. c = Len(pulls') /\ q < c
    BY <1>2, <1>5, <2>1, NewPull
  <2>3. Len(pulls') \in Nat /\ q \in Nat
    BY <1>2, ForkFacts, LenProperties DEF Evolves
  <2> QED BY <2>2, <2>3
<1> QED BY <1>4, <1>5

LEMMA RecalledNext ==
  ASSUME StackTyped, LandingOrder, OneEach, Publication, SupersededDone, SupersededRecalled, [Next]_vars
  PROVE  SupersededRecalled'
<1> SUFFICES ASSUME Heard', NEW p \in Number', pulls'[p].status = "superseded"
             PROVE  Recalled(p)' \/ Past(p)'
  BY DEF SupersededRecalled
<1>1. p \in Number
  <2> SUFFICES ASSUME p \notin Number PROVE FALSE
    OBVIOUS
  <2>1. \E ref, base : pulls'[p] = Pull(ref, base)
    BY NewPull
  <2> QED BY <2>1 DEF Pull
<1>2. CASE pulls[p].status = "superseded"
  <2>1. Recalled(p) \/ Past(p)
    BY <1>1, <1>2, HeardBefore DEF SupersededRecalled
  <2>2. CASE Past(p)
    BY <1>1, <1>2, <2>2, PastStays
  <2>3. CASE Recalled(p)
    <3>1. PICK r \in Now.relanded : r.n = p
      BY <2>3 DEF Recalled
    <3>2. CASE r \in Now'.relanded
      BY <3>1, <3>2 DEF Recalled
    <3>3. CASE UNCHANGED pulls /\ queue' = Open /\ \A c \in Open : pulls[c].base # pulls[p].ref
      <4>1. Open' = Open
        BY <3>3 DEF Open, Number
      <4> QED BY <3>3, <4>1 DEF Past
    <3> QED BY <1>1, <1>2, <3>1, <3>2, <3>3, NowStep
  <2> QED BY <2>1, <2>2, <2>3
<1>3. CASE pulls[p].status # "superseded"
  <2>1. ClosePull /\ p = at.n /\ p \in Open
    BY <1>1, <1>3, PullChanges
  <2>2. p \notin Open'
    BY DEF Open
  <2> QED BY <2>1, <2>2, CloseRecorded
<1> QED BY <1>2, <1>3

ForkInv ==
  /\ OneEach /\ Sources /\ Bases /\ Deciding /\ Publication /\ RecordsLast /\ SupersededDone
  /\ Outlived /\ Before /\ Listing /\ Last /\ SupersededRecalled

LEMMA ForkNext == ASSUME StackTyped, LandingOrder, ForkInv, [Next]_vars PROVE ForkInv'
<1> USE DEF ForkInv
<1>1. OneEach' /\ Sources' /\ Bases' /\ Publication'
  BY EachNext, SourcesNext, BasesNext, PublicationNext
<1>2. Deciding'
  BY DecidingNext DEF LandingOrder
<1>3. RecordsLast' /\ SupersededDone'
  BY RecordsLastNext, SupersededDoneNext
<1>4. Outlived' /\ Before' /\ Listing'
  BY OutlivedNext, BeforeNext, ListingNext
<1>5. Last' /\ SupersededRecalled'
  BY LastNext, RecalledNext
<1> QED BY <1>1, <1>2, <1>3, <1>4, <1>5

LEMMA InitFork == ASSUME Init PROVE ForkInv
<1>1. PICK start \in Starts :
        pulls = [n \in 1..Cardinality(start) |->
                   LET k == CHOOSE b \in start : Cardinality({c \in start : c <= b}) = n
                   IN Pull(<<k, "">>, Under(k))]
  BY DEF Init
<1> DEFINE nth(n) == CHOOSE b \in start : Cardinality({c \in start : c <= b}) = n
<1>2. IsFiniteSet(start) /\ start \subseteq Nat
  <2>1. start \subseteq Branch /\ Branch = 1..Depth /\ Depth \in Int
    BY StackAssumption DEF Branch
  <2>2. IsFiniteSet(1..Depth) /\ 1..Depth \subseteq Nat
    BY <2>1, FS_Interval, 1 \in Int
  <2> QED BY <2>1, <2>2, FS_Subset
<1>3. Number = 1..Cardinality(start)
  BY <1>1 DEF Number
<1>4. \A n \in Number : pulls[n] = Pull(<<nth(n), "">>, Under(nth(n)))
  BY <1>1, <1>3
<1>5. \A n \in Number : nth(n) \in start /\ Cardinality({c \in start : c <= nth(n)}) = n
  <2> TAKE n \in Number
  <2>1. \E b \in start : Cardinality({c \in start : c <= b}) = n
    BY <1>2, <1>3, NthNumber
  <2> QED BY <2>1
<1> HIDE DEF nth
<1>6. \A n \in Number : pulls[n].ref = <<nth(n), "">> /\ pulls[n].status = "open"
  <2> TAKE n \in Number
  <2>1. PICK ref, base : ref = <<nth(n), "">> /\ base = Under(nth(n))
    OBVIOUS
  <2>2. pulls[n] = Pull(ref, base)
    BY <1>4, <2>1
  <2>3. pulls[n].ref = ref /\ pulls[n].status = "open"
    BY <2>2, PullParts
  <2> QED BY <2>1, <2>3
<1>7. \A n \in Number : Original(n)
  BY <1>6, PairParts DEF Original
<1>8. OneEach
  <2> SUFFICES ASSUME NEW m \in Number, NEW n \in Number, pulls[m].ref = pulls[n].ref PROVE m = n
    BY DEF OneEach
  <2>1. nth(m) = nth(n)
    <3>1. pulls[m].ref[1] = nth(m) /\ pulls[n].ref[1] = nth(n)
      BY <1>6, PairParts
    <3> QED BY <3>1
  <2> QED BY <1>5, <2>1
<1>9. Sources /\ Bases /\ Last /\ Before
  BY <1>7 DEF Sources, Bases, Last, Before, Succeeds
<1>10. Outlived /\ SupersededDone /\ SupersededRecalled
  BY <1>6, <1>7 DEF Outlived, Original, SupersededDone, SupersededRecalled
<1>11. Deciding /\ Publication /\ RecordsLast /\ Listing
  BY DEF Init, Deciding, Publication, Publishing, RecordsLast, Records, NoMemory, Listing, NoRows
<1> QED BY <1>8, <1>9, <1>10, <1>11 DEF ForkInv

LEMMA ForkAlways == Spec => []ForkInv
<1>1. StackTyped /\ LandingOrder /\ ForkInv /\ [Next]_vars => ForkInv'
  BY ForkNext
<1> QED BY <1>1, InitFork, TypedAlways, OrderAlways, PTL DEF Spec

\* Who is held for a closed parent is the row decided.
LEMMA HeldBy ==
  ASSUME StackTyped, [Next]_vars, NEW e \in mem'.held \ mem.held, pc = "decide", e.reason = "PARENT_CLOSED_UNMERGED"
  PROVE  HoldOrphan /\ e.n = Row
<1>1. Remembered(mem) /\ Remembered(disk)
  BY TypeParts DEF StackTyped
<1>2. ASSUME NEW head, NEW reason, mem' = Holding(Row, head, reason)
      PROVE  e.n = Row /\ e.reason = reason
  <2>1. mem'.held = {x \in mem.held : x.n # Row} \union {[n |-> Row, head |-> head, reason |-> reason]}
    BY <1>1, <1>2 DEF Holding, Remembered, Memory
  <2>2. e = [n |-> Row, head |-> head, reason |-> reason]
    BY <2>1
  <2> QED BY <2>2
<1>3. CASE HoldOrphan
  BY <1>2, <1>3 DEF HoldOrphan
<1>4. CASE Restack
  <2>1. mem' = mem \/ mem' = Holding(Row, rows[Row].head, "RESTACK")
    BY <1>4 DEF Restack
  <2>2. mem' = mem \/ e.reason = "RESTACK"
    BY <1>2, <2>1
  <2> QED BY <2>2
<1>5. CASE StackedUnknown
  <2>1. mem' = mem \/ \E bases : mem' = [mem EXCEPT !.bases = bases]
    BY <1>5 DEF StackedUnknown
  <2> QED BY <1>1, <2>1 DEF Remembered, Memory
<1>6. CASE EndTick \/ Crash
  BY <1>6 DEF EndTick, Crash, Clean, NoMemory
<1>7. UNCHANGED vars => UNCHANGED mem
  BY DEF vars
<1>8. Decide \/ StackedUnread \/ Retarget \/ Receive \/ Reland \/ Land => UNCHANGED mem
  BY DEF Decide, StackedUnread, Retarget, Receive, Reland, Land
<1>9. ~(List \/ Revalidate \/ Push \/ OpenPull \/ ClosePull \/ Train)
  BY DEF List, Revalidate, Push, OpenPull, ClosePull, Train
<1>10. (\E k \in Branch : AuthorOpens(k)) \/ (\E n \in Number : AuthorPushes(n) \/ SomebodyCloses(n)) => UNCHANGED mem
  BY DEF AuthorOpens, AuthorPushes, SomebodyCloses, process
<1> QED BY <1>3, <1>4, <1>5, <1>6, <1>7, <1>8, <1>9, <1>10 DEF Next, Step

\* As long as the process has not died, no answer was lost and the memory could be read, a
\* child is held for its closed parent only when nobody can take it in: an open successor of
\* a parent the train superseded after the child was opened is found (daemon.py, stacked and
\* restack).
THEOREM HeldWhenNobodyTakesIn == Spec => HeldAsOrphan
<1> DEFINE Orphans ==
      pc = "decide" /\ slipped \intersect {"crash", "lost", "unread"} = {} =>
        \A e \in mem'.held \ mem.held : e.reason = "PARENT_CLOSED_UNMERGED" =>
          \A p \in PullsWithHead(rows[e.n].base) :
            pulls[p].status = "superseded" => ~\E q \in Number : Continues(q, p) /\ e.n < q
<1>1. StackTyped /\ LandingOrder /\ ForkInv /\ [Next]_vars => Orphans
  <2> SUFFICES ASSUME StackTyped, LandingOrder, ForkInv, [Next]_vars, pc = "decide", slipped \intersect {"crash", "lost", "unread"} = {},
                      NEW e \in mem'.held \ mem.held, e.reason = "PARENT_CLOSED_UNMERGED",
                      NEW p \in PullsWithHead(rows[e.n].base), pulls[p].status = "superseded",
                      NEW q \in Number, Continues(q, p), e.n < q
               PROVE  FALSE
    OBVIOUS
  <2>1. HoldOrphan /\ e.n = Row /\ Row \in queue /\ Row \in Number
    BY HeldBy, RowQueued, TypeParts DEF HoldOrphan, StackTyped
  <2>2. p \in Number /\ pulls[p].ref = rows[Row].base /\ Original(p)
    BY <2>1 DEF PullsWithHead, ForkInv, SupersededDone
  <2>3. pulls[Row].base = pulls[p].ref
    BY <2>1, <2>2 DEF ForkInv, Deciding
  <2>4. q \in Open /\ Succeeds(q, pulls[p].ref[1])
    <3>1. q \in Open /\ pulls[q].ref[1] = pulls[p].ref[1] /\ pulls[q].ref # pulls[p].ref
      BY DEF Continues
    <3>2. ~Original(q)
      BY <2>2, <3>1, OriginalRef
    <3> QED BY <3>1, <3>2 DEF Succeeds
  <2>5. ~Past(p)
    <3> SUFFICES ASSUME Past(p) PROVE FALSE
      OBVIOUS
    <3>1. q <= Row
      BY <2>1, <2>3, <2>4 DEF Past
    <3>2. q \in Nat /\ Row \in Nat
      BY <2>1, Numbered, TypeParts DEF StackTyped
    <3> QED BY <2>1, <3>1, <3>2
  <2>6. PICK r \in mem.relanded : r.n = p
    BY <2>2, <2>5 DEF ForkInv, SupersededRecalled, Heard, Recalled, Now
  <2>7. PICK o \in Recorded(Row) : o.new \notin Open
    <3>1. r \in Recorded(Row)
      BY <2>2, <2>6 DEF Recorded, PullsWithHead
    <3> QED BY <2>1, <3>1 DEF HoldOrphan
  <2>8. o \in Records /\ o.n \in Number /\ pulls[o.n].ref = pulls[p].ref
    BY <2>2, <2>7 DEF Recorded, Records, PullsWithHead
  <2>9. o.n = p
    BY <2>2, <2>8 DEF ForkInv, OneEach
  <2>10. q <= o.new /\ ~Original(o.new)
    BY <2>4, <2>8, <2>9 DEF ForkInv, RecordsLast
  <2>11. o.new \in Number /\ Succeeds(o.new, pulls[q].ref[1])
    <3>1. o.new \in Number /\ pulls[o.new].ref[1] = pulls[p].ref[1]
      BY <2>8, <2>9 DEF LandingOrder, RecordsInOrder
    <3> QED BY <2>4, <2>10, <3>1 DEF Succeeds
  <2>12. q < o.new
    <3>1. q # o.new
      BY <2>4, <2>7
    <3>2. q \in Nat /\ o.new \in Nat
      BY <2>11, Numbered, TypeParts DEF StackTyped
    <3> QED BY <2>10, <3>1, <3>2
  <2> QED BY <2>4, <2>11, <2>12 DEF ForkInv, Last, Succeeds
<1> QED BY <1>1, TypedAlways, OrderAlways, ForkAlways, PTL DEF HeldAsOrphan, Spec
=============================================================================
