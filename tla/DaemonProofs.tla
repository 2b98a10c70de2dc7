---------------------------- MODULE DaemonProofs ----------------------------
(***************************************************************************)
(* What the automatic train keeps for every value of the constants: the    *)
(* types, the custody of the reads that outlive a tick, that a stopped     *)
(* train stops, that what is remembered was judged and is passed over or   *)
(* read again on that judgement alone, and that what is published or lands *)
(* was accepted by the admission.                                          *)
(***************************************************************************)
EXTENDS Daemon, FiniteSetTheorems, SequenceTheorems, TLAPS

---------------------------------------------------------------------------
(* Numbers, pull requests and reads.                                       *)

\* A finite set of numbers has a least one.
LEMMA LeastIn ==
  ASSUME NEW S, IsFiniteSet(S), S \subseteq Nat, S # {}
  PROVE  Least(S) \in S
<1> DEFINE upTo(b) == {c \in S : c <= b}
<1> DEFINE places == 1..Cardinality(S)
<1> DEFINE place == [b \in S |-> Cardinality(upTo(b))]
<1>1. Cardinality(S) \in Nat /\ Cardinality(S) # 0
  BY FS_CardinalityType, FS_EmptySet
<1>0. IsFiniteSet(places) /\ Cardinality(places) = Cardinality(S)
  BY <1>1, FS_Interval, 1 \in Int
<1>2. \A b \in S : IsFiniteSet(upTo(b)) /\ Cardinality(upTo(b)) \in places
  <2> TAKE b \in S
  <2>1. upTo(b) \in SUBSET S /\ b \in upTo(b)
    OBVIOUS
  <2>2. IsFiniteSet(upTo(b)) /\ Cardinality(upTo(b)) <= Cardinality(S)
    BY <2>1, FS_Subset
  <2>3. Cardinality(upTo(b)) \in Nat /\ Cardinality(upTo(b)) # 0
    BY <2>1, <2>2, FS_CardinalityType, FS_EmptySet
  <2> QED BY <1>1, <2>2, <2>3
<1>3. ASSUME NEW a \in S, NEW b \in S, a < b PROVE Cardinality(upTo(a)) # Cardinality(upTo(b))
  <2>1. upTo(a) \in SUBSET upTo(b) /\ b \in upTo(b) /\ b \notin upTo(a)
    <3>1. b <= b /\ ~(b <= a) /\ \A c \in S : c <= a => c <= b
      BY <1>3
    <3> QED BY <3>1
  <2> QED BY <1>2, <2>1, FS_Subset
<1>4. \A a, b \in S : place[a] = place[b] => a = b
  <2> HIDE DEF upTo
  <2> QED BY <1>3
<1>5. place \in Injection(S, places)
  <2>1. place \in [S -> places]
    BY <1>2
  <2> HIDE DEF place, places
  <2> QED BY <1>4, <2>1 DEF Injection, IsInjective
<1>6. place \in Surjection(S, places)
  <2> HIDE DEF place, places
  <2> QED BY <1>0, <1>5, FS_Injection
<1>7. PICK x \in S : Cardinality(upTo(x)) = 1
  <2>1. 1 \in places
    BY <1>1
  <2>2. \E x \in S : place[x] = 1
    <3> HIDE DEF place, places
    <3> QED BY <1>6, <2>1 DEF Surjection
  <2> QED BY <2>2
<1>8. PICK z : upTo(x) = {z}
  BY <1>2, <1>7, FS_Singleton
<1>9. \A y \in S : x <= y
  BY <1>8
<1> QED BY <1>9 DEF Least

\* What is handled next is there.
LEMMA LeastNumber == ASSUME NEW S, S \subseteq Numbers, S # {} PROVE Least(S) \in S
<1>1. IsFiniteSet(S) /\ S \subseteq Nat
  BY NumbersAssumption, FS_Subset
<1> QED BY <1>1, LeastIn

LEMMA ReadIn ==
  ASSUME NEW n \in Reading
  PROVE  Read(n) \in inflight /\ Read(n).n = n
BY DEF Reading, Read

LEMMA DoneRead == Done \subseteq Reading
BY DEF Done, Reading

---------------------------------------------------------------------------
(* Which steps change what.                                                *)

Listing == List \/ ReadBase \/ ObserveContained \/ Observe \/ Choose \/ Stage \/ Submit
Receiving == Wait \/ Ready \/ Received \/ Receive \/ Refill \/ Save
Landing == Land \/ Train \/ TrainEnds \/ Outcome \/ Landed
Effect == Repair \/ Forward \/ Close \/ Reland \/ Revalidate \/ Publish \/ Supersede
Unread == ListUnread \/ StageUnread
Ending == Idle \/ EndLoop
Between == StartTick \/ DrainTick \/ Reload \/ Exit
Operator == RequestStop \/ EditConfiguration \/ Forget
Author == Commit \/ \E n \in Numbers : Push(n) \/ ClosedByHand(n)

\* Every step is one of these.
LEMMA Steps ==
  ASSUME [Next]_vars
  PROVE  \/ Listing \/ Receiving \/ Landing \/ Effect \/ Unread \/ Ending \/ Between
         \/ Restart \/ Operator \/ Author \/ UNCHANGED vars
         \/ \E n \in Numbers : Finish(n)
BY Zenon DEF Next, Step, Listing, Receiving, Landing, Effect, Unread, Ending, Between, Operator, Author, Ended

RemoteTyped ==
  /\ head \in [Numbers -> HeadNumber] /\ status \in [Numbers -> {"open", "merged", "closed"}]
  /\ successor \in [Numbers -> HeadNumber \union {0}] /\ base \in Base
MemoryTyped == config \in Nat /\ wanted \in Nat /\ disk \subseteq Entry /\ held \subseteq Entry
FlagsTyped == stop \in BOOLEAN /\ guard \in BOOLEAN /\ deferred \in BOOLEAN /\ stopped \in BOOLEAN
ListTyped ==
  /\ rows \in [Numbers -> HeadNumber \union {0}] /\ basis \in Base /\ baseNow \in Base
  /\ queue \subseteq Numbers /\ cands \subseteq Numbers /\ seen \subseteq Numbers \X HeadNumber
  /\ kept \subseteq Numbers /\ slots \in 0..Jobs
ReadsTyped ==
  /\ inflight \subseteq ReadRecord /\ running \subseteq Numbers /\ cohort \subseteq Numbers
  /\ group \subseteq Numbers /\ batch \subseteq [n : Numbers, head : HeadNumber]
  /\ approved \subseteq Numbers \X HeadNumber \X BOOLEAN
AtTyped ==
  /\ at.n \in Numbers \union {0} /\ at.head \in HeadNumber \union {0} /\ at.base \in Base
  /\ at.back \in Labels
LoopTyped == pc \in Labels /\ stages \in Seq(Stages)

LEMMA TypeParts ==
  TypeOK <=> /\ RemoteTyped /\ MemoryTyped /\ FlagsTyped /\ ListTyped /\ ReadsTyped /\ AtTyped
             /\ LoopTyped /\ left \in Nat
BY DEF TypeOK, RemoteTyped, MemoryTyped, FlagsTyped, ListTyped, ReadsTyped, AtTyped, LoopTyped

---------------------------------------------------------------------------
(* The state of a tick.                                                    *)

\* Repairing, closing or publishing one pull request, the tick goes on where it was.
Effects == {"repair", "forward", "close", "reland", "revalidate", "publish", "supersede"}
Returns(label) ==
  CASE label = "repair" -> {"receive", "outcome"}
    [] label \in {"forward", "close"} -> {"observe", "receive"}
    [] OTHER -> {"receive"}
AtWork == pc \in Effects => at.n \in Numbers /\ at.head \in HeadNumber /\ at.back \in Returns(pc)
Phase == IF pc \in Effects THEN at.back ELSE pc

\* What is left of the tick ends with the save of its memory, or with the first wait.
Pipeline ==
  /\ \A i \in DOMAIN stages : stages[i] \in {"save", "wait"} <=> i = Len(stages)
  /\ pc \notin {"idle", "wait", "save", "exited"} => stages # <<>>

\* Who is decided or read next is listed and not being read; what is received is done.
Discovering ==
  /\ Phase = "observe" => \A n \in queue : rows[n] # 0 /\ n \notin Reading
  /\ Phase \in {"observe", "stage", "submit"} => \A n \in cands : rows[n] # 0 /\ n \notin Reading
Grouped == Phase = "receive" => group \subseteq Done

DaemonTyped == TypeOK /\ AtWork /\ Pipeline /\ Discovering /\ Grouped

LEMMA LeftTyped == ASSUME TypeOK, [Next]_vars PROVE left' \in Nat
<1>1. left \in Nat /\ \A e : Slips(e) => left' \in Nat
  BY DEF TypeOK, Slips
<1>2. Listing => left' \in Nat
  BY <1>1 DEF Listing, List, ReadBase, ObserveContained, Observe, Choose, Stage, Submit, Steady
<1>3. Receiving => left' \in Nat
  BY <1>1 DEF Receiving, Wait, Ready, Received, Refill, Save, Receive, ReceiveNothing, ReceiveAdmitted,
       ReceiveStopped, ReceiveEffect, ReceiveHold, ReceiveRebuilt, Steady
<1>4. Landing => left' \in Nat
  BY <1>1 DEF Landing, Land, Train, TrainEnds, Outcome, Landed
<1>5. Effect => left' \in Nat
  BY <1>1 DEF Effect, Repair, Forward, Close, Reland, Revalidate, Publish, Supersede, Retry, Steady
<1>6. Unread \/ Ending \/ Between => left' \in Nat
  BY <1>1 DEF Unread, ListUnread, StageUnread, Ending, Idle, EndLoop, Between, StartTick, DrainTick, Reload, Exit, Steady
<1>7. Restart \/ Operator \/ Author => left' \in Nat
  BY <1>1 DEF Restart, Operator, RequestStop, EditConfiguration, Forget, Author, Commit, Push, ClosedByHand, Steady
<1>8. UNCHANGED vars \/ (\E n \in Numbers : Finish(n)) => left' \in Nat
  BY <1>1 DEF vars, Finish
<1> QED BY <1>2, <1>3, <1>4, <1>5, <1>6, <1>7, <1>8, Steps

---------------------------------------------------------------------------
(* Types.                                                                  *)

LEMMA HeadNumbers ==
  ASSUME NEW n \in Numbers
  PROVE  /\ 1 \in HeadNumber /\ HeadNumber \subseteq Nat \ {0}
         /\ \A v \in HeadNumber : v < Heads[n] => v + 1 \in HeadNumber
<1>1. \A m \in Numbers : Heads[m] \in Nat \ {0}
  BY DisturbanceAssumption
<1>2. HeadNumber \subseteq Nat \ {0} /\ 1 \in 1..Heads[n]
  BY <1>1 DEF HeadNumber
<1>3. \A v \in HeadNumber : v < Heads[n] => v + 1 \in 1..Heads[n]
  BY <1>1, <1>2
<1> QED BY <1>2, <1>3 DEF HeadNumber

LEMMA BaseTyped ==
  /\ NoBase \in Base
  /\ RemoteTyped => \A n \in Numbers : Containing(n) \in Base
BY DEF NoBase, Base, RemoteTyped, Containing

\* What the train and the authors do to the remote.
LEMMA RemoteFrame ==
  ASSUME [Next]_vars
  PROVE  \/ UNCHANGED remote
         \/ Train \/ Effect \/ Author
<1>1. Listing => UNCHANGED remote
  BY DEF Listing, List, ReadBase, ObserveContained, Observe, Choose, Stage, Submit
<1>2. Receiving => UNCHANGED remote
  BY DEF Receiving, Wait, Ready, Received, Refill, Save, Receive
<1>3. Land \/ TrainEnds \/ Outcome \/ Landed => UNCHANGED remote
  BY DEF Land, TrainEnds, Outcome, Landed
<1>4. Unread \/ Ending \/ Between => UNCHANGED remote
  BY DEF Unread, ListUnread, StageUnread, Ending, Idle, EndLoop, EndTick, Between, StartTick, DrainTick, Reload, Exit
<1>5. Restart \/ Operator \/ UNCHANGED vars \/ (\E n \in Numbers : Finish(n)) => UNCHANGED remote
  BY DEF Restart, Operator, RequestStop, EditConfiguration, Forget, vars, Finish
<1> QED BY <1>1, <1>2, <1>3, <1>4, <1>5, Steps DEF Landing

LEMMA EffectAt ==
  ASSUME AtWork, Effect
  PROVE  at.n \in Numbers /\ at.head \in HeadNumber /\ pc \in Effects
BY DEF AtWork, Effect, Effects, Repair, Forward, Close, Reland, Revalidate, Publish, Supersede

LEMMA RemoteNext == ASSUME DaemonTyped, [Next]_vars PROVE RemoteTyped'
<1>1. RemoteTyped /\ ReadsTyped
  BY TypeParts DEF DaemonTyped
<1>2. CASE UNCHANGED remote
  BY <1>1, <1>2 DEF remote, RemoteTyped
<1>3. CASE Train
  BY <1>1, <1>3, BaseTyped DEF Train, RemoteTyped, ReadsTyped
<1>4. CASE Effect
  <2>1. at.n \in Numbers /\ at.head \in HeadNumber
    BY <1>4, EffectAt DEF DaemonTyped
  <2>2. CASE Repair
    BY <1>1, <2>1, <2>2, HeadNumbers DEF Repair, Retry, remote, RemoteTyped
  <2>3. CASE Forward \/ Close \/ Supersede
    BY <1>1, <2>1, <2>3 DEF Forward, Close, Supersede, Closed, Retry, remote, RemoteTyped
  <2>4. CASE Publish
    BY <1>1, <2>1, <2>4 DEF Publish, Retry, remote, RemoteTyped
  <2>5. CASE Reland \/ Revalidate
    BY <1>1, <2>5 DEF Reland, Revalidate, Retry, remote, RemoteTyped
  <2> QED BY <1>4, <2>2, <2>3, <2>4, <2>5 DEF Effect
<1>5. CASE Author
  <2>1. CASE Commit
    <3>1. base' = [base EXCEPT !.sha = @ + 1, !.content = @ + 1] => base' \in Base
      <4>1. base \in [sha : Nat, content : Nat, carries : SUBSET (Numbers \X HeadNumber)]
        BY <1>1 DEF Base, RemoteTyped
      <4>2. base.sha + 1 \in Nat /\ base.content + 1 \in Nat
        BY <4>1
      <4> QED BY <4>1, <4>2 DEF Base
    <3>2. base' \in Base /\ UNCHANGED <<head, status, successor>>
      BY <1>1, <2>1, <3>1, BaseTyped DEF Commit
    <3> QED BY <1>1, <3>2 DEF RemoteTyped
  <2>2. CASE \E n \in Numbers : Push(n) \/ ClosedByHand(n)
    BY <1>1, <2>2, HeadNumbers DEF Push, ClosedByHand, RemoteTyped
  <2> QED BY <1>5, <2>1, <2>2 DEF Author
<1> QED BY <1>2, <1>3, <1>4, <1>5, RemoteFrame

LEMMA HoldTyped ==
  ASSUME config \in Nat, NEW n \in Numbers, NEW v \in HeadNumber, NEW kind \in {"watched", "native", "train"},
         NEW b \in Base, NEW digest \in Nat
  PROVE  Hold(n, v, kind, b, digest) \in Entry
BY DEF Hold, Digest, Entry, Base

LEMMA FollowingTyped ==
  ASSUME NEW e \in Entry, NEW b \in Base
  PROVE  Following(e, b) \in Entry
BY DEF Following, Recovered, Digest, Entry, Base

LEMMA QueuedRow ==
  ASSUME DaemonTyped, pc = "observe", queue # {}
  PROVE  Row \in queue /\ Row \in Numbers /\ rows[Row] \in HeadNumber /\ Row \notin Reading
<1>1. ListTyped
  BY TypeParts DEF DaemonTyped
<1>2. Row \in queue
  BY <1>1, LeastNumber DEF Row, ListTyped
<1> QED BY <1>1, <1>2 DEF DaemonTyped, Discovering, Phase, Effects, ListTyped

\* What is received is a read in flight that is done.
LEMMA ReceivedRead ==
  ASSUME DaemonTyped, Receive, NEW r, r = Read(Least(group))
  PROVE  r \in inflight /\ r \in ReadRecord /\ r.n \in group /\ r.n = Least(group)
<1>1. ReadsTyped
  BY TypeParts DEF DaemonTyped
<1>2. Least(group) \in group
  BY <1>1, LeastNumber DEF Receive, ReadsTyped
<1>3. Least(group) \in Reading
  BY <1>2, DoneRead DEF DaemonTyped, Grouped, Phase, Effects, Receive
<1> QED BY <1>1, <1>2, <1>3, ReadIn DEF ReadsTyped

\* What changes the memory.
LEMMA MemoryFrame ==
  ASSUME [Next]_vars
  PROVE  \/ UNCHANGED <<config, wanted, disk, held>>
         \/ List \/ ObserveContained \/ Observe \/ Receive \/ Save \/ Land \/ Outcome \/ Effect \/ Unread \/ Ending
         \/ StartTick \/ DrainTick \/ Reload \/ Restart \/ EditConfiguration \/ Forget
<1>1. ReadBase \/ Choose \/ Stage \/ Submit => UNCHANGED <<config, wanted, disk, held>>
  BY DEF ReadBase, Choose, Stage, Submit, watch
<1>2. Wait \/ Ready \/ Received \/ Refill => UNCHANGED <<config, wanted, disk, held>>
  BY DEF Wait, Ready, Received, Refill, watch
<1>3. Train \/ TrainEnds \/ Landed => UNCHANGED <<config, wanted, disk, held>>
  BY DEF Train, TrainEnds, Landed, watch
<1>4. Exit \/ RequestStop \/ UNCHANGED vars => UNCHANGED <<config, wanted, disk, held>>
  BY DEF Exit, RequestStop, vars, watch, process
<1>5. Author \/ (\E n \in Numbers : Finish(n)) => UNCHANGED <<config, wanted, disk, held>>
  BY DEF Author, Commit, Push, ClosedByHand, Finish, watch, process
<1> QED BY <1>1, <1>2, <1>3, <1>4, <1>5, Steps DEF Listing, Receiving, Landing, Between, Operator

LEMMA MemoryNext == ASSUME DaemonTyped, [Next]_vars PROVE MemoryTyped'
<1>1. MemoryTyped /\ ListTyped /\ ReadsTyped /\ RemoteTyped
  BY TypeParts DEF DaemonTyped
<1>2. CASE UNCHANGED <<config, wanted, disk, held>>
  BY <1>1, <1>2 DEF MemoryTyped
<1>3. CASE List \/ ObserveContained
  BY <1>1, <1>3 DEF List, ObserveContained, Forgetting, watch, MemoryTyped
<1>4. CASE Observe
  <2>1. CurrentBase \in Base
    BY <1>1 DEF CurrentBase, ListTyped, RemoteTyped
  <2>2. \A e \in Remembered(Row) : Following(e, CurrentBase) \in Entry
    BY <1>1, <2>1, FollowingTyped DEF Remembered, MemoryTyped
  <2> QED BY <1>1, <1>4, <2>2 DEF Observe, Forgetting, watch, MemoryTyped
<1>5. CASE Receive
  <2> DEFINE r == Read(Least(group))
  <2>1. r \in ReadRecord
    BY <1>5, ReceivedRead
  <2>2. r.n \in Numbers /\ r.head \in HeadNumber /\ r.base \in Base /\ Digest(r.base) \in Nat
    BY <2>1 DEF ReadRecord, Base, Digest
  <2>3. \A digest \in Nat : Watched(r, digest) \in Entry /\ Hold(r.n, r.head, "native", r.base, digest) \in Entry
    BY <1>1, <2>2, HoldTyped DEF Watched, MemoryTyped
  <2>4. UNCHANGED <<config, wanted, disk>>
    BY <1>5 DEF Receive, watch
  <2>5. held' \subseteq Entry
    <3>1. \/ ReceiveNothing(r) \/ ReceiveAdmitted(r) \/ ReceiveStopped(r)
          \/ ReceiveEffect(r) \/ ReceiveHold(r) \/ ReceiveRebuilt(r)
      BY <1>5 DEF Receive
    <3> HIDE DEF r
    <3>2. ReceiveHold(r) => held' \subseteq Entry
      BY <1>1, <2>2, <2>3 DEF ReceiveHold, Forgetting, MemoryTyped
    <3> QED BY <1>1, <3>1, <3>2 DEF ReceiveNothing, ReceiveAdmitted, ReceiveStopped, ReceiveEffect,
              ReceiveRebuilt, Forgetting, MemoryTyped
  <2> QED BY <1>1, <2>4, <2>5 DEF MemoryTyped
<1>6. CASE Save \/ Land \/ StartTick \/ DrainTick \/ Reload
  BY <1>1, <1>6 DEF Save, Land, StartTick, DrainTick, Reload, watch, MemoryTyped
<1>7. CASE Outcome
  <2>1. \A m \in batch : Hold(m.n, m.head, "train", NoBase, 0) \in Entry
    BY <1>1, HoldTyped, BaseTyped DEF ReadsTyped, MemoryTyped
  <2> QED BY <1>1, <1>7, <2>1 DEF Outcome, Forgetting, watch, MemoryTyped
<1>8. CASE Effect
  <2>1. at.n \in Numbers /\ at.head \in HeadNumber
    BY <1>8, EffectAt DEF DaemonTyped
  <2>2. Hold(at.n, at.head, "train", NoBase, 0) \in Entry
    BY <1>1, <2>1, HoldTyped, BaseTyped DEF MemoryTyped
  <2>3. CASE Repair \/ Reland
    BY <1>1, <2>2, <2>3 DEF Repair, Reland, Retry, rest, Forgetting, watch, MemoryTyped
  <2>4. CASE Forward \/ Close \/ Revalidate \/ Publish \/ Supersede
    BY <1>1, <2>4 DEF Forward, Close, Revalidate, Publish, Supersede, Retry, rest, Forgetting, watch, MemoryTyped
  <2> QED BY <1>8, <2>3, <2>4 DEF Effect
<1>9. CASE Unread \/ Ending
  BY <1>1, <1>9 DEF Unread, ListUnread, StageUnread, Ending, Idle, EndLoop, EndTick, watch, MemoryTyped
<1>10. CASE Restart \/ EditConfiguration \/ Forget
  BY <1>1, <1>10 DEF Restart, EditConfiguration, Forget, process, watch, MemoryTyped
<1> QED BY <1>2, <1>3, <1>4, <1>5, <1>6, <1>7, <1>8, <1>9, <1>10, MemoryFrame

\* What was discovered, and who is read next.
discovery == <<rows, basis, baseNow, queue, cands, seen, kept, slots>>

LEMMA ListFrame ==
  ASSUME [Next]_vars
  PROVE  UNCHANGED discovery \/ Listing \/ Unread \/ Ending \/ Restart
<1>1. Receiving => UNCHANGED discovery
  BY DEF Receiving, Wait, Ready, Received, Refill, Save, Receive, found, discovery
<1>2. Landing => UNCHANGED discovery
  BY DEF Landing, Land, Train, TrainEnds, Outcome, Landed, found, discovery
<1>3. Effect => UNCHANGED discovery
  BY DEF Effect, Repair, Forward, Close, Reland, Revalidate, Publish, Supersede, rest, found, discovery
<1>4. Between \/ Operator => UNCHANGED discovery
  BY DEF Between, StartTick, DrainTick, Reload, Exit, Operator, RequestStop, EditConfiguration, Forget, process, found, discovery
<1>5. Author \/ UNCHANGED vars \/ (\E n \in Numbers : Finish(n)) => UNCHANGED discovery
  BY DEF Author, Commit, Push, ClosedByHand, vars, Finish, process, found, discovery
<1> QED BY <1>1, <1>2, <1>3, <1>4, <1>5, Steps

LEMMA NewTickTyped ==
  ASSUME NewTick, Jobs \in Nat
  PROVE  ListTyped' /\ cohort' = {} /\ group' = {} /\ batch' = {} /\ stages' = <<>> /\ at' = Nobody
BY BaseTyped DEF NewTick, Discovered, ListTyped

LEMMA SmallerTyped == \A x, y \in Nat : Smaller(x, y) \in Nat /\ Smaller(x, y) <= x /\ Smaller(x, y) <= y
BY DEF Smaller

LEMMA ChosenWidth ==
  ASSUME slots \in 0..Jobs, NEW capacity \in IF FirstList /\ cands # {} THEN Capacities ELSE {Jobs}
  PROVE  (IF FirstList THEN Width(capacity) ELSE slots) \in 0..Jobs
<1>1. Jobs \in Nat /\ capacity \in Nat
  BY JobsAssumption
<1>2. Width(capacity) \in 0..Jobs
  BY <1>1, SmallerTyped DEF Width
<1> QED BY <1>2

LEMMA ListNext == ASSUME DaemonTyped, [Next]_vars PROVE ListTyped'
<1>1. ListTyped /\ RemoteTyped /\ ReadsTyped /\ Jobs \in Nat
  BY TypeParts, JobsAssumption DEF DaemonTyped
<1>2. CASE UNCHANGED discovery
  BY <1>1, <1>2 DEF discovery, ListTyped
<1>3. CASE List
  BY <1>1, <1>3 DEF List, Listed, ListTyped, RemoteTyped
<1>4. CASE ReadBase \/ Stage
  BY <1>1, <1>4, BaseTyped DEF ReadBase, Stage, ListTyped, RemoteTyped
<1>5. CASE ObserveContained
  BY <1>1, <1>5 DEF ObserveContained, ListTyped
<1>6. CASE Observe
  <2>1. Row \in Numbers /\ CurrentBase \in Base
    BY <1>1, <1>6, QueuedRow DEF Observe, CurrentBase, ListTyped, RemoteTyped
  <2> QED BY <1>1, <1>6, <2>1 DEF Observe, ListTyped
<1>7. CASE Choose
  <2>1. \A n \in cands : n \in Numbers /\ rows[n] \in HeadNumber
    BY <1>1, <1>7 DEF Choose, DaemonTyped, Discovering, Phase, Effects, ListTyped
  <2>2. PICK capacity \in IF FirstList /\ cands # {} THEN Capacities ELSE {Jobs} :
          LET width == IF FirstList THEN Width(capacity) ELSE slots
              wanting == IF width = 0 THEN {} ELSE cands
          IN /\ slots' = width
             /\ \E taken \in Owned(wanting, width) :
                  /\ cands' = taken
                  /\ seen' = seen \union {<<n, rows[n]>> : n \in taken}
                                  \union (IF FirstList THEN {<<r.n, r.head>> : r \in inflight} ELSE {})
    BY <1>7 DEF Choose
  <2>3. slots' \in 0..Jobs
    BY <1>1, <2>2, ChosenWidth DEF ListTyped
  <2>4. /\ cands' \subseteq cands
        /\ seen' \subseteq seen \union {<<n, rows[n]>> : n \in cands} \union {<<r.n, r.head>> : r \in inflight}
    BY <2>2 DEF Owned
  <2>5. {<<r.n, r.head>> : r \in inflight} \subseteq Numbers \X HeadNumber
    BY <1>1 DEF ReadsTyped, ReadRecord
  <2>6. seen' \subseteq Numbers \X HeadNumber
    BY <1>1, <2>1, <2>4, <2>5 DEF ListTyped
  <2>7. UNCHANGED <<rows, basis, baseNow, queue, kept>>
    BY <1>7 DEF Choose
  <2> QED BY <1>1, <2>3, <2>4, <2>6, <2>7 DEF ListTyped
<1>8. CASE Submit
  BY <1>1, <1>8, BaseTyped DEF Submit, Discovered, ListTyped
<1>9. CASE Unread \/ Ending \/ Restart
  <2>1. CASE NewTick
    BY <1>1, <2>1, NewTickTyped
  <2>2. UNCHANGED <<slots, found>> => ListTyped'
    BY <1>1 DEF ListTyped, found
  <2>3. ListUnread => NewTick \/ UNCHANGED <<slots, found>>
    BY Zenon DEF ListUnread, EndTick
  <2>4. UNCHANGED <<slots, rows, basis, baseNow, queue, kept>> /\ cands' = {} /\ seen' \subseteq seen => ListTyped'
    BY <1>1 DEF ListTyped
  <2>5. StageUnread =>
          \/ NewTick
          \/ UNCHANGED <<slots, rows, basis, baseNow, queue, kept>> /\ cands' = {} /\ seen' \subseteq seen
    <3>1. StageUnread => NewTick
            \/ /\ UNCHANGED <<guard, slots, held, rows, basis, baseNow, queue, deferred, kept, stopped, reads, at, answers>>
               /\ cands' = {} /\ seen' = seen \ {<<n, rows[n]>> : n \in cands}
      BY Zenon DEF StageUnread, EndTick
    <3>2. ASSUME seen' = seen \ {<<n, rows[n]>> : n \in cands} PROVE seen' \subseteq seen
      BY <3>2
    <3>3. ASSUME UNCHANGED <<guard, slots, held, rows, basis, baseNow, queue, deferred, kept, stopped, reads, at, answers>>
          PROVE  UNCHANGED <<slots, rows, basis, baseNow, queue, kept>>
      BY <3>3
    <3> QED BY Zenon, <3>1, <3>2, <3>3
  <2>6. Ending \/ Restart => NewTick
    BY Zenon DEF Ending, Idle, EndLoop, EndTick, Restart
  <2> QED BY Zenon, <1>9, <2>1, <2>2, <2>3, <2>4, <2>5, <2>6 DEF Unread
<1> QED BY <1>2, <1>3, <1>4, <1>5, <1>6, <1>7, <1>8, <1>9, ListFrame DEF Listing

LEMMA FlagsNext == ASSUME DaemonTyped, [Next]_vars PROVE FlagsTyped'
<1>1. stop \in BOOLEAN /\ guard \in BOOLEAN /\ deferred \in BOOLEAN /\ stopped \in BOOLEAN
  BY Zenon, TypeParts DEF DaemonTyped, FlagsTyped
<1>2. UNCHANGED guard
  <2>1. Listing \/ Receiving \/ Landing => UNCHANGED guard
    BY DEF Listing, List, ReadBase, ObserveContained, Observe, Choose, Stage, Submit,
           Receiving, Wait, Ready, Received, Refill, Save, Receive, Landing, Land, Train, TrainEnds, Outcome, Landed
  <2>2. Effect \/ Unread \/ Ending => UNCHANGED guard
    BY DEF Effect, Repair, Forward, Close, Reland, Revalidate, Publish, Supersede, rest,
           Unread, ListUnread, StageUnread, Ending, Idle, EndLoop, EndTick
  <2>3. Between \/ Operator \/ Restart => UNCHANGED guard
    BY DEF Between, StartTick, DrainTick, Reload, Exit, Operator, RequestStop, EditConfiguration, Forget, process, Restart
  <2>4. Author \/ UNCHANGED vars \/ (\E n \in Numbers : Finish(n)) => UNCHANGED guard
    BY DEF Author, Commit, Push, ClosedByHand, vars, Finish, process
  <2> QED BY <2>1, <2>2, <2>3, <2>4, Steps
<1>3. UNCHANGED stop \/ stop' = TRUE \/ stop' = FALSE
  <2>1. Listing \/ Receiving \/ Landing => UNCHANGED stop
    BY DEF Listing, List, ReadBase, ObserveContained, Observe, Choose, Stage, Submit, watch,
           Receiving, Wait, Ready, Received, Refill, Save, Receive, Landing, Land, Train, TrainEnds, Outcome, Landed
  <2>2. Effect \/ Unread \/ Ending => UNCHANGED stop
    BY DEF Effect, Repair, Forward, Close, Reland, Revalidate, Publish, Supersede, rest, watch,
           Unread, ListUnread, StageUnread, Ending, Idle, EndLoop, EndTick
  <2>3. Between \/ EditConfiguration \/ Forget => UNCHANGED stop
    BY DEF Between, StartTick, DrainTick, Reload, Exit, EditConfiguration, Forget, process, watch
  <2>4. Author \/ UNCHANGED vars \/ (\E n \in Numbers : Finish(n)) => UNCHANGED stop
    BY DEF Author, Commit, Push, ClosedByHand, vars, Finish, process, watch
  <2>5. (RequestStop => stop' = TRUE) /\ (Restart => stop' = FALSE)
    BY Zenon DEF RequestStop, Restart
  <2> QED BY <2>1, <2>2, <2>3, <2>4, <2>5, Steps DEF Operator
<1>4. UNCHANGED stopped \/ stopped' \in BOOLEAN
  <2>1. Listing \/ Receiving \/ Effect => UNCHANGED stopped
    BY DEF Listing, List, ReadBase, ObserveContained, Observe, Choose, Stage, Submit,
           Receiving, Wait, Ready, Received, Refill, Save, Receive,
           Effect, Repair, Forward, Close, Reland, Revalidate, Publish, Supersede, rest
  <2>2. Land \/ Train \/ Outcome \/ Landed \/ Between \/ Operator => UNCHANGED stopped
    BY DEF Land, Train, Outcome, Landed, Between, StartTick, DrainTick, Reload, Exit,
           Operator, RequestStop, EditConfiguration, Forget, process
  <2>3. Author \/ UNCHANGED vars \/ (\E n \in Numbers : Finish(n)) => UNCHANGED stopped
    BY DEF Author, Commit, Push, ClosedByHand, vars, Finish, process
  <2>4. TrainEnds \/ Restart => stopped' \in BOOLEAN
    BY Zenon DEF TrainEnds, Restart, NewTick
  <2>5. Unread \/ Ending => UNCHANGED stopped \/ stopped' = FALSE
    BY DEF Unread, ListUnread, StageUnread, Ending, Idle, EndLoop, EndTick, NewTick
  <2> QED BY <2>1, <2>2, <2>3, <2>4, <2>5, Steps DEF Landing
<1>5. UNCHANGED deferred \/ deferred' \in BOOLEAN
  <2>1. List \/ ReadBase \/ ObserveContained \/ Observe \/ Stage \/ Submit \/ Landing \/ Effect => UNCHANGED deferred
    BY DEF List, ReadBase, ObserveContained, Observe, Stage, Submit,
           Landing, Land, Train, TrainEnds, Outcome, Landed,
           Effect, Repair, Forward, Close, Reland, Revalidate, Publish, Supersede, rest, found
  <2>2. Wait \/ Ready \/ Received \/ Receive \/ Save \/ Between \/ Operator => UNCHANGED deferred
    BY DEF Wait, Ready, Received, Receive, Save, Between, StartTick, DrainTick, Reload, Exit,
           Operator, RequestStop, EditConfiguration, Forget, process, found
  <2>3. Author \/ UNCHANGED vars \/ (\E n \in Numbers : Finish(n)) => UNCHANGED deferred
    BY DEF Author, Commit, Push, ClosedByHand, vars, Finish, process, found
  <2>4. Choose => deferred' \in BOOLEAN
    BY Zenon DEF Choose
  <2>5. Refill => UNCHANGED deferred \/ deferred' = FALSE
    BY Zenon DEF Refill
  <2>6. Unread \/ Ending => UNCHANGED deferred \/ deferred' = FALSE
    BY DEF Unread, ListUnread, StageUnread, Ending, Idle, EndLoop, EndTick, NewTick, found
  <2>7. Restart => deferred' = FALSE
    BY Zenon DEF Restart, NewTick
  <2> QED BY <2>1, <2>2, <2>3, <2>4, <2>5, <2>6, <2>7, Steps DEF Listing, Receiving
<1>6. stop' \in BOOLEAN /\ guard' \in BOOLEAN
  BY Zenon, <1>1, <1>2, <1>3
<1>7. stopped' \in BOOLEAN /\ deferred' \in BOOLEAN
  BY Zenon, <1>1, <1>4, <1>5
<1> QED BY Zenon, <1>6, <1>7 DEF FlagsTyped

\* Which steps start, end or receive reads.
LEMMA FlightFrame ==
  ASSUME [Next]_vars
  PROVE  \/ UNCHANGED <<inflight, running>>
         \/ DrainTick \/ Reload \/ List \/ Submit \/ Receive \/ Reland \/ Restart
         \/ \E n \in Numbers : Finish(n)
<1>1. ReadBase \/ ObserveContained \/ Observe \/ Choose \/ Stage => UNCHANGED <<inflight, running>>
  BY DEF ReadBase, ObserveContained, Observe, Choose, Stage, reads
<1>2. Wait \/ Ready \/ Received \/ Refill \/ Save \/ Landing => UNCHANGED <<inflight, running>>
  BY DEF Wait, Ready, Received, Refill, Save, Landing, Land, Train, TrainEnds, Outcome, Landed, reads
<1>3. Repair \/ Forward \/ Close \/ Revalidate \/ Publish \/ Supersede => UNCHANGED <<inflight, running>>
  BY DEF Repair, Forward, Close, Revalidate, Publish, Supersede, rest
<1>4. Unread \/ Ending \/ StartTick \/ Exit => UNCHANGED <<inflight, running>>
  BY DEF Unread, ListUnread, StageUnread, Ending, Idle, EndLoop, EndTick, StartTick, Exit, reads
<1>5. Operator \/ Author \/ UNCHANGED vars => UNCHANGED <<inflight, running>>
  BY DEF Operator, RequestStop, EditConfiguration, Forget, Author, Commit, Push, ClosedByHand, vars, process, reads
<1> QED BY <1>1, <1>2, <1>3, <1>4, <1>5, Steps DEF Listing, Receiving, Effect, Between

\* Which steps change what is received and what lands.
Emptied == cohort' = {} /\ group' = {} /\ batch' = {}
LEMMA BatchFrame ==
  ASSUME [Next]_vars
  PROVE  \/ UNCHANGED <<cohort, group, batch>>
         \/ Wait \/ Ready \/ Received \/ Receive \/ Land \/ Train \/ Outcome
         \/ Emptied
<1>1. Listing \/ Refill \/ Save \/ TrainEnds \/ Landed => UNCHANGED <<cohort, group, batch>>
  BY DEF Listing, List, ReadBase, ObserveContained, Observe, Choose, Stage, Submit, Refill, Save, TrainEnds, Landed, reads
<1>2. Effect => UNCHANGED <<cohort, group, batch>>
  BY DEF Effect, Repair, Forward, Close, Reland, Revalidate, Publish, Supersede, rest
<1>3. Between \/ Operator => UNCHANGED <<cohort, group, batch>>
  BY DEF Between, StartTick, DrainTick, Reload, Exit, Operator, RequestStop, EditConfiguration, Forget, process, reads
<1>4. Author \/ UNCHANGED vars \/ (\E n \in Numbers : Finish(n)) => UNCHANGED <<cohort, group, batch>>
  BY DEF Author, Commit, Push, ClosedByHand, vars, Finish, process, reads
<1>5. Unread => UNCHANGED <<cohort, group, batch>> \/ (cohort' = {} /\ group' = {} /\ batch' = {})
  BY DEF Unread, ListUnread, StageUnread, EndTick, NewTick, reads
<1>6. Ending \/ Restart => cohort' = {} /\ group' = {} /\ batch' = {}
  BY DEF Ending, Idle, EndLoop, EndTick, Restart, NewTick
<1> QED BY <1>1, <1>2, <1>3, <1>4, <1>5, <1>6, Steps DEF Receiving, Landing, Emptied

\* What the admission answered changes when a read ends, a tick ends, the process dies, or
\* an author moves what was read.
LEMMA AnswerFrame ==
  ASSUME [Next]_vars
  PROVE  \/ UNCHANGED answers
         \/ /\ disk' = held /\ held' = {} /\ batch' = {} /\ pc' = "idle" /\ UNCHANGED <<inflight, config>>
            /\ Answered(held, Reading)
         \/ Restart
         \/ \E n \in Numbers : Finish(n)
         \/ \E n \in Numbers : Push(n) \/ ClosedByHand(n)
<1>1. Listing \/ Receiving => UNCHANGED answers
  BY DEF Listing, List, ReadBase, ObserveContained, Observe, Choose, Stage, Submit,
         Receiving, Wait, Ready, Received, Refill, Save, Receive
<1>2. Landing \/ Effect => UNCHANGED answers
  BY DEF Landing, Land, Train, TrainEnds, Outcome, Landed,
         Effect, Repair, Forward, Close, Reland, Revalidate, Publish, Supersede, rest
<1>3. Between \/ Operator \/ Commit \/ UNCHANGED vars => UNCHANGED answers
  BY DEF Between, StartTick, DrainTick, Reload, Exit, Operator, RequestStop, EditConfiguration, Forget,
         Commit, vars, process
<1>4. Unread \/ Ending => UNCHANGED answers \/ EndTick
  BY Zenon DEF Unread, ListUnread, StageUnread, Ending, Idle, EndLoop
<1>5. EndTick => /\ disk' = held /\ held' = {} /\ batch' = {} /\ pc' = "idle" /\ UNCHANGED <<inflight, config>>
                 /\ Answered(held, Reading)
  BY Zenon DEF EndTick, NewTick, watch
<1> QED BY Zenon, <1>1, <1>2, <1>3, <1>4, <1>5, Steps DEF Author

LEMMA ReadTyped ==
  /\ \A obsolete : \A r \in ReadRecord : Cancelled(r, obsolete) \in ReadRecord
  /\ \A n \in Numbers, v \in HeadNumber, b \in Base, reland \in BOOLEAN : NewRead(n, v, b, reland) \in ReadRecord
<1>1. ASSUME NEW r \in ReadRecord, NEW obsolete PROVE Cancelled(r, obsolete) \in ReadRecord
  <2>1. [r EXCEPT !.cancelled = TRUE] \in ReadRecord
    BY DEF ReadRecord
  <2> QED BY Zenon, <2>1 DEF Cancelled
<1>2. \A n \in Numbers, v \in HeadNumber, b \in Base, reland \in BOOLEAN : NewRead(n, v, b, reland) \in ReadRecord
  BY DEF NewRead, ReadRecord
<1> QED BY <1>1, <1>2

LEMMA AnswerTyped ==
  ASSUME NEW r, NEW answer \in Answers(r)
  PROVE  answer \in {"mergeable", "landed", "hold", "native", "repair", "reland", "unread"}
BY DEF Answers

LEMMA FlightNext == ASSUME DaemonTyped, [Next]_vars PROVE inflight' \subseteq ReadRecord /\ running' \subseteq Numbers
<1>1. ReadsTyped /\ RemoteTyped /\ ListTyped
  BY TypeParts DEF DaemonTyped
<1>2. inflight \subseteq ReadRecord /\ running \subseteq Numbers
  BY <1>1 DEF ReadsTyped
<1>3. CASE UNCHANGED <<inflight, running>> \/ DrainTick \/ Reload \/ Restart
  BY <1>2, <1>3 DEF DrainTick, Reload, Restart
<1>4. CASE List
  <2>1. \A obsolete : {Cancelled(r, obsolete) : r \in inflight} \subseteq ReadRecord
    BY <1>2, ReadTyped
  <2>2. PICK obsolete : inflight' = {Cancelled(r, obsolete) : r \in inflight}
    BY <1>4 DEF List
  <2> QED BY <1>2, <1>4, <2>1, <2>2 DEF List
<1>5. CASE Submit
  <2>1. CASE cands # {} /\ ~StopAsked
    <3>1. Least(cands) \in cands /\ Least(cands) \in Numbers
      BY <1>1, <2>1, LeastNumber DEF ListTyped
    <3>2. rows[Least(cands)] \in HeadNumber
      BY <1>1, <1>5, <3>1 DEF Submit, DaemonTyped, Discovering, Phase, Effects, ListTyped
    <3>3. NewRead(Least(cands), rows[Least(cands)], basis, FALSE) \in ReadRecord
      BY <1>1, <3>1, <3>2, ReadTyped DEF ListTyped
    <3> QED BY <1>2, <1>5, <2>1, <3>1, <3>3 DEF Submit
  <2> QED BY <1>2, <1>5, <2>1 DEF Submit
<1>6. CASE Receive
  BY <1>2, <1>6 DEF Receive, Without
<1>7. CASE Reland
  <2>1. NewRead(at.n, at.head, base, TRUE) \in ReadRecord
    BY <1>1, <1>7, EffectAt, ReadTyped DEF Effect, DaemonTyped, RemoteTyped
  <2>2. at.n \in Numbers
    BY <1>7, EffectAt DEF Effect, DaemonTyped
  <2> QED BY <1>2, <1>7, <2>1, <2>2 DEF Reland
<1>8. CASE \E n \in Numbers : Finish(n)
  <2>1. PICK n \in Numbers : Finish(n)
    BY <1>8
  <2>2. PICK r \in inflight : \E answer \in Answers(r) : inflight' = Without(n) \union {[r EXCEPT !.answer = answer]}
    BY <2>1 DEF Finish
  <2>3. PICK answer \in Answers(r) : inflight' = Without(n) \union {[r EXCEPT !.answer = answer]}
    BY <2>2
  <2>4. [r EXCEPT !.answer = answer] \in ReadRecord
    BY <1>2, AnswerTyped DEF ReadRecord
  <2> QED BY <1>2, <2>1, <2>3, <2>4 DEF Finish, Without
<1> QED BY <1>3, <1>4, <1>5, <1>6, <1>7, <1>8, FlightFrame

LEMMA BatchNext ==
  ASSUME DaemonTyped, [Next]_vars
  PROVE  cohort' \subseteq Numbers /\ group' \subseteq Numbers /\ batch' \subseteq [n : Numbers, head : HeadNumber]
<1>1. cohort \subseteq Numbers /\ group \subseteq Numbers /\ batch \subseteq [n : Numbers, head : HeadNumber]
  BY TypeParts DEF DaemonTyped, ReadsTyped
<1>2. Reading \subseteq Numbers /\ Done \subseteq Numbers
  BY TypeParts DEF DaemonTyped, ReadsTyped, Reading, Done, ReadRecord
<1>3. CASE UNCHANGED <<cohort, group, batch>> \/ Emptied
  BY <1>1, <1>3 DEF Emptied
<1>4. CASE Wait \/ Received
  BY <1>1, <1>2, <1>4 DEF Wait, Received
<1>5. CASE Ready
  <2>1. group' = {} \/ group' = cohort \intersect Done
    BY <1>5 DEF Ready
  <2> QED BY <1>1, <1>5, <2>1 DEF Ready
<1>6. CASE Receive
  <2> DEFINE r == Read(Least(group))
  <2>1. r \in ReadRecord
    BY <1>6, ReceivedRead
  <2>2. [n |-> r.n, head |-> r.head] \in [n : Numbers, head : HeadNumber]
    BY <2>1 DEF ReadRecord
  <2>3. /\ UNCHANGED cohort /\ group' = group \ {r.n}
        /\ \/ ReceiveNothing(r) \/ ReceiveAdmitted(r) \/ ReceiveStopped(r)
           \/ ReceiveEffect(r) \/ ReceiveHold(r) \/ ReceiveRebuilt(r)
    BY <1>6 DEF Receive
  <2> HIDE DEF r
  <2>4. batch' = batch \/ batch' = batch \union {Admitted(r)}
    BY <2>3 DEF ReceiveNothing, ReceiveAdmitted, ReceiveStopped, ReceiveEffect, ReceiveHold, ReceiveRebuilt
  <2> QED BY <1>1, <2>2, <2>3, <2>4 DEF Admitted
<1>7. CASE Land \/ Train \/ Outcome
  BY <1>1, <1>7 DEF Land, Train, Outcome
<1> QED BY <1>3, <1>4, <1>5, <1>6, <1>7, BatchFrame

LEMMA ReadsNext == ASSUME DaemonTyped, [Next]_vars PROVE ReadsTyped'
<1>1. approved \subseteq Numbers \X HeadNumber \X BOOLEAN /\ inflight \subseteq ReadRecord
  BY TypeParts DEF DaemonTyped, ReadsTyped
<1>2. approved' \subseteq Numbers \X HeadNumber \X BOOLEAN
  <2>1. CASE UNCHANGED answers
    BY <1>1, <2>1 DEF answers
  <2>2. CASE \E memory, live : Answered(memory, live)
    BY <1>1, <2>2 DEF Answered
  <2>3. CASE \E n \in Numbers : Finish(n)
    <3>1. PICK n \in Numbers : Finish(n)
      BY <2>3
    <3>2. PICK r \in inflight : r.n = n /\ approved' \subseteq approved \union {<<n, r.head, r.reland>>}
      BY <3>1 DEF Finish
    <3>3. <<n, r.head, r.reland>> \in Numbers \X HeadNumber \X BOOLEAN
      BY <1>1 DEF ReadRecord
    <3> QED BY <1>1, <3>2, <3>3
  <2>4. Restart => Answered(disk', {})
    BY DEF Restart
  <2>5. CASE \E n \in Numbers : Push(n) \/ ClosedByHand(n)
    BY <1>1, <2>5 DEF Push, ClosedByHand, Lapsed
  <2> QED BY <2>1, <2>2, <2>3, <2>4, <2>5, AnswerFrame
<1> QED BY <1>2, FlightNext, BatchNext DEF ReadsTyped

---------------------------------------------------------------------------
(* The loop of a tick.                                                     *)

Inner == {"list", "base", "observe", "stage", "submit", "receive", "ready", "refill", "land", "train", "outcome"}

Stays == UNCHANGED <<pc, stages, at>>
Ends == pc' = "idle" /\ stages' = <<>> /\ at' = Nobody
Advances == pc \in Inner /\ pc' = Head(stages) /\ stages' = Tail(stages) /\ UNCHANGED at
Goes == pc \in Inner /\ pc' \in Inner /\ UNCHANGED <<stages, at>>
Begins ==
  /\ UNCHANGED at /\ pc \notin Effects
  /\ \/ pc' = "list" /\ stages' = <<"wait">>
     \/ pc' = "receive" /\ stages' \in {<<"ready", "land", "refill", "save">>, <<"refill", "ready", "land", "save">>}
     \/ pc' = "wait" /\ stages' = <<>>
     \/ pc' = "exited" /\ UNCHANGED stages
Enters ==
  /\ pc \in {"observe", "receive", "outcome"} /\ pc' \in Effects /\ at'.back = pc /\ pc \in Returns(pc')
  /\ at'.n \in Numbers /\ at'.head \in HeadNumber /\ at'.base \in Base /\ UNCHANGED stages
Proceeds ==
  /\ pc \in Effects /\ UNCHANGED <<stages, at>>
  /\ \/ pc' \in Effects /\ Returns(pc') = Returns(pc)
     \/ pc' = "error"
Resumes == pc \in Effects /\ pc' = at.back /\ at' = Nobody /\ UNCHANGED stages

LEMMA ReceiveLoop == ASSUME DaemonTyped, Receive PROVE Stays \/ Enters
<1> DEFINE r == Read(Least(group))
<1>1. r \in ReadRecord
  BY ReceivedRead
<1>2. r.n \in Numbers /\ r.head \in HeadNumber /\ r.base \in Base /\ pc = "receive"
  BY <1>1 DEF ReadRecord, Receive
<1>3. \/ ReceiveNothing(r) \/ ReceiveAdmitted(r) \/ ReceiveStopped(r)
      \/ ReceiveEffect(r) \/ ReceiveHold(r) \/ ReceiveRebuilt(r)
  BY DEF Receive
<1> HIDE DEF r
<1>4. ReceiveNothing(r) \/ ReceiveAdmitted(r) \/ ReceiveStopped(r) \/ ReceiveHold(r) => UNCHANGED <<pc, stages, at>>
  BY <1>2 DEF ReceiveNothing, ReceiveAdmitted, ReceiveStopped, ReceiveHold, Goto
<1>5. At(r, "receive").n = r.n /\ At(r, "receive").head = r.head /\ At(r, "receive").base = r.base
      /\ At(r, "receive").back = "receive"
  BY DEF At
<1>6. ReceiveEffect(r) \/ ReceiveRebuilt(r) =>
        /\ pc' \in {"forward", "repair", "reland", "revalidate"} /\ at' = At(r, "receive") /\ UNCHANGED stages
  BY DEF ReceiveEffect, ReceiveRebuilt, Goto
<1> QED BY <1>2, <1>3, <1>4, <1>5, <1>6 DEF Stays, Enters, Effects, Returns

LEMMA EffectLoop == ASSUME Effect PROVE Proceeds \/ Resumes
<1>1. CASE Repair
  BY <1>1 DEF Repair, Retry, Back, Resumes, Effects
<1>2. CASE Forward
  BY <1>2 DEF Forward, Back, Goto, Proceeds, Resumes, Effects, Returns
<1>3. CASE Close \/ Supersede
  BY <1>3 DEF Close, Supersede, Retry, Back, Resumes, Effects
<1>4. CASE Reland
  BY <1>4 DEF Reland, Retry, Back, Goto, Proceeds, Resumes, Effects
<1>5. CASE Revalidate
  BY <1>5 DEF Revalidate, Retry, Back, Goto, Proceeds, Resumes, Effects, Returns
<1>6. CASE Publish
  BY <1>6 DEF Publish, Retry, Back, Goto, Proceeds, Resumes, Effects, Returns
<1> QED BY <1>1, <1>2, <1>3, <1>4, <1>5, <1>6 DEF Effect

LEMMA ListingLoop == ASSUME DaemonTyped, Listing PROVE Stays \/ Advances \/ Goes \/ Enters
<1>1. CASE List \/ ReadBase \/ Choose \/ Stage
  BY <1>1 DEF List, ReadBase, Choose, Stage, Goto, Goes, Inner
<1>2. CASE ObserveContained
  <2>1. Row \in Numbers /\ rows[Row] \in HeadNumber /\ basis \in Base
    BY <1>2, QueuedRow, TypeParts DEF ObserveContained, DaemonTyped, ListTyped
  <2> QED BY <1>2, <2>1 DEF ObserveContained, Goto, Enters, Effects, Returns
<1>3. CASE Observe
  BY <1>3 DEF Observe, Stays
<1>4. CASE Submit
  BY <1>4 DEF Submit, Goto, NextStage, Goes, Advances, Inner
<1> QED BY <1>1, <1>2, <1>3, <1>4 DEF Listing

LEMMA LandingLoop == ASSUME DaemonTyped, Landing PROVE Stays \/ Advances \/ Goes \/ Enters
<1>1. CASE Land \/ TrainEnds \/ Landed
  BY <1>1 DEF Land, TrainEnds, Landed, Goto, NextStage, Goes, Advances, Inner
<1>2. CASE Train
  BY <1>2 DEF Train, Stays
<1>3. CASE Outcome
  <2>1. NoBase \in Base /\ \A m \in batch : m.n \in Numbers /\ m.head \in HeadNumber
    BY TypeParts, BaseTyped DEF DaemonTyped, ReadsTyped
  <2> QED BY <1>3, <2>1 DEF Outcome, Stays, Enters, Effects, Returns
<1> QED BY <1>1, <1>2, <1>3 DEF Landing

LEMMA LoopStep ==
  ASSUME DaemonTyped, [Next]_vars
  PROVE  Stays \/ Ends \/ Advances \/ Goes \/ Begins \/ Enters \/ Proceeds \/ Resumes
<1>1. CASE Receiving
  <2>1. Ready \/ Received \/ Refill => Advances \/ Goes
    BY DEF Ready, Received, Refill, Goto, NextStage, Advances, Goes, Inner
  <2>2. Wait \/ Save => Begins
    BY DEF Wait, Save, Begins, Effects
  <2> QED BY <1>1, <2>1, <2>2, ReceiveLoop DEF Receiving
<1>2. CASE Unread \/ Ending \/ Restart
  <2>1. ListUnread \/ StageUnread => EndTick \/ Advances
    BY Zenon DEF ListUnread, StageUnread, NextStage, Advances, Inner
  <2>2. Ending => EndTick
    BY Zenon DEF Ending, Idle, EndLoop
  <2>3. EndTick \/ Restart => Ends
    BY Zenon DEF EndTick, Restart, NewTick, Ends
  <2> QED BY Zenon, <1>2, <2>1, <2>2, <2>3 DEF Unread
<1>3. CASE Between \/ Operator
  <2>1. StartTick \/ Exit => Begins
    BY DEF StartTick, Exit, Begins, Effects
  <2>2. DrainTick \/ Reload \/ Operator => Stays
    BY DEF DrainTick, Reload, Operator, RequestStop, EditConfiguration, Forget, process, Stays
  <2> QED BY <1>3, <2>1, <2>2 DEF Between
<1>4. CASE Author \/ UNCHANGED vars \/ \E n \in Numbers : Finish(n)
  BY <1>4 DEF Author, Commit, Push, ClosedByHand, process, vars, Finish, Stays
<1> QED BY <1>1, <1>2, <1>3, <1>4, Steps, EffectLoop, ListingLoop, LandingLoop

LEMMA ReturnLabels == \A label : Returns(label) \subseteq {"observe", "receive", "outcome"}
BY DEF Returns

LEMMA LoopNext == ASSUME DaemonTyped, [Next]_vars PROVE LoopTyped' /\ Pipeline' /\ AtTyped' /\ AtWork'
<1>1. LoopTyped /\ Pipeline /\ AtTyped /\ AtWork
  BY TypeParts DEF DaemonTyped
<1>2. Nobody.n = 0 /\ Nobody.head = 0 /\ Nobody.base \in Base /\ Nobody.back = "idle"
  BY BaseTyped DEF Nobody
<1>3. CASE Stays
  BY <1>1, <1>3 DEF Stays, LoopTyped, Pipeline, AtTyped, AtWork
<1>4. CASE Ends
  <2>1. <<>> \in Seq(Stages) /\ DOMAIN <<>> = {}
    BY EmptySeq
  <2> QED BY <1>2, <1>4, <2>1 DEF Ends, LoopTyped, Labels, Pipeline, AtTyped, AtWork, Effects
<1>5. CASE Advances
  <2>1. stages # <<>> /\ stages \in Seq(Stages)
    BY <1>1, <1>5 DEF Advances, Inner, Pipeline, LoopTyped
  <2>2. /\ Len(stages) \in Nat \ {0} /\ Head(stages) = stages[1] /\ Head(stages) \in Stages
        /\ Tail(stages) \in Seq(Stages) /\ Len(Tail(stages)) = Len(stages) - 1
        /\ \A i \in 1..Len(Tail(stages)) : Tail(stages)[i] = stages[i + 1]
    BY <2>1, HeadTailProperties, EmptySeq
  <2>3. DOMAIN stages = 1..Len(stages) /\ DOMAIN Tail(stages) = 1..Len(Tail(stages))
    BY <2>1, <2>2
  <2>4. \A i \in DOMAIN Tail(stages) : Tail(stages)[i] \in {"save", "wait"} <=> i = Len(Tail(stages))
    BY <1>1, <2>2, <2>3 DEF Pipeline
  <2>5. Tail(stages) = <<>> => Head(stages) \in {"save", "wait"}
    BY <1>1, <2>2, <2>3 DEF Pipeline
  <2>6. Head(stages) \in Labels /\ Head(stages) \notin Effects
    BY <2>2 DEF Labels, Stages, Effects
  <2> QED BY <1>1, <1>5, <2>2, <2>4, <2>5, <2>6 DEF Advances, LoopTyped, Pipeline, AtTyped, AtWork
<1>6. CASE Goes
  BY <1>1, <1>6 DEF Goes, Inner, LoopTyped, Labels, Stages, Pipeline, AtTyped, AtWork, Effects
<1>7. CASE Begins
  <2>1. pc' \in Labels /\ pc' \notin Effects
    BY <1>7 DEF Begins, Labels, Stages, Effects
  <2>2. ASSUME pc' = "exited" /\ UNCHANGED stages PROVE LoopTyped' /\ Pipeline'
    BY <1>1, <2>1, <2>2 DEF LoopTyped, Pipeline
  <2>3. ASSUME stages' = <<"wait">> PROVE LoopTyped' /\ Pipeline'
    <3>1. stages' \in Seq(Stages)
      BY <2>3 DEF Stages
    <3> QED BY <2>1, <2>3, <3>1 DEF Pipeline, LoopTyped
  <2>4. ASSUME stages' = <<"ready", "land", "refill", "save">> PROVE LoopTyped' /\ Pipeline'
    <3>1. stages' \in Seq(Stages)
      BY <2>4 DEF Stages
    <3> QED BY <2>1, <2>4, <3>1 DEF Pipeline, LoopTyped
  <2>5. ASSUME stages' = <<"refill", "ready", "land", "save">> PROVE LoopTyped' /\ Pipeline'
    <3>1. stages' \in Seq(Stages)
      BY <2>5 DEF Stages
    <3> QED BY <2>1, <2>5, <3>1 DEF Pipeline, LoopTyped
  <2>6. ASSUME pc' = "wait" /\ stages' = <<>> PROVE LoopTyped' /\ Pipeline'
    BY <2>6, <2>1, EmptySeq DEF Pipeline, LoopTyped
  <2>7. LoopTyped' /\ Pipeline'
    BY <1>7, <2>1, <2>2, <2>3, <2>4, <2>5, <2>6 DEF Begins, LoopTyped
  <2> QED BY <1>1, <1>7, <2>1, <2>7 DEF Begins, AtTyped, AtWork
<1>8. CASE Enters
  BY <1>1, <1>8 DEF Enters, LoopTyped, Labels, Stages, Pipeline, AtTyped, AtWork, Effects
<1>9. CASE Proceeds
  BY <1>1, <1>9 DEF Proceeds, LoopTyped, Labels, Stages, Pipeline, AtTyped, AtWork, Effects
<1>10. CASE Resumes
  <2>1. pc' \in {"observe", "receive", "outcome"}
    BY <1>1, <1>10, ReturnLabels DEF Resumes, AtWork
  <2> QED BY <1>1, <1>2, <1>10, <2>1 DEF Resumes, LoopTyped, Labels, Stages, Pipeline, AtTyped, AtWork, Effects
<1> QED BY <1>3, <1>4, <1>5, <1>6, <1>7, <1>8, <1>9, <1>10, LoopStep

\* An effect is part of the phase it returns to.
LEMMA PhaseKept ==
  ASSUME DaemonTyped, Stays \/ Enters \/ Proceeds \/ Resumes
  PROVE  Phase' = Phase \/ (pc' = "error" /\ Phase' = "error")
<1>1. CASE Stays
  BY <1>1 DEF Stays, Phase
<1>2. CASE Enters
  BY <1>2 DEF Enters, Phase, Effects
<1>3. CASE Proceeds
  BY <1>3 DEF Proceeds, Phase, Effects
<1>4. CASE Resumes
  BY <1>4, ReturnLabels DEF Resumes, Phase, Effects, DaemonTyped, AtWork
<1> QED BY <1>1, <1>2, <1>3, <1>4

Wide == {"observe", "stage", "submit", "receive"}
LEMMA AdvancedPhase ==
  ASSUME DaemonTyped, Advances
  PROVE  Phase' = pc' /\ pc' \in Stages /\ pc' \notin Wide
<1>1. stages # <<>> /\ stages \in Seq(Stages)
  BY TypeParts DEF Advances, Inner, DaemonTyped, Pipeline, LoopTyped
<1>2. Head(stages) \in Stages
  BY <1>1, HeadTailProperties
<1> QED BY <1>2 DEF Advances, Phase, Effects, Stages, Wide

\* A tick that ends, and a step that gives up a discovery, are out of all of these phases.
LEMMA EndingPhase == ASSUME DaemonTyped, Unread \/ Ending \/ Restart PROVE Phase' \notin Wide
<1>1. ListUnread \/ StageUnread => EndTick \/ Advances
  BY Zenon DEF ListUnread, StageUnread, NextStage, Advances, Inner
<1>2. Ending => EndTick
  BY Zenon DEF Ending, Idle, EndLoop
<1>3. EndTick \/ Restart => pc' = "idle"
  BY Zenon DEF EndTick, Restart
<1>4. pc' = "idle" => Phase' \notin Wide
  BY DEF Phase, Effects, Wide
<1>5. Advances => Phase' \notin Wide
  BY AdvancedPhase
<1> QED BY Zenon, <1>1, <1>2, <1>3, <1>4, <1>5 DEF Unread

\* What every step outside of a discovery, the waits and the receipts does.
LEMMA OtherPhase ==
  ASSUME DaemonTyped, [Next]_vars, ~Listing, ~Receiving
  PROVE  Phase' = Phase \/ Phase' \notin Wide
<1>1. CASE Landing
  <2>1. Land \/ TrainEnds \/ Landed => Advances \/ pc' \in {"train", "outcome"}
    BY DEF Land, TrainEnds, Landed, Goto, NextStage, Advances, Inner
  <2>2. Train => Stays
    BY DEF Train, Stays
  <2>3. Outcome => Stays \/ Enters
    <3>1. NoBase \in Base /\ \A m \in batch : m.n \in Numbers /\ m.head \in HeadNumber
      BY TypeParts, BaseTyped DEF DaemonTyped, ReadsTyped
    <3> QED BY <3>1 DEF Outcome, Stays, Enters, Effects, Returns
  <2>4. pc' \in {"train", "outcome"} => Phase' \notin Wide
    BY DEF Phase, Effects, Wide
  <2> QED BY <1>1, <2>1, <2>2, <2>3, <2>4, PhaseKept, AdvancedPhase DEF Landing, Wide
<1>2. CASE Effect
  BY <1>2, EffectLoop, PhaseKept DEF Wide
<1>3. CASE Unread \/ Ending \/ Restart
  BY <1>3, EndingPhase
<1>4. CASE Between \/ Operator
  <2>1. StartTick \/ Exit => pc' \in {"list", "exited"}
    BY DEF StartTick, Exit
  <2>2. DrainTick \/ Reload \/ Operator => Stays
    BY DEF DrainTick, Reload, Operator, RequestStop, EditConfiguration, Forget, process, Stays
  <2>3. pc' \in {"list", "exited"} => Phase' \notin Wide
    BY DEF Phase, Effects, Wide
  <2> QED BY <1>4, <2>1, <2>2, <2>3, PhaseKept DEF Between, Wide
<1>5. CASE Author \/ UNCHANGED vars \/ \E n \in Numbers : Finish(n)
  <2>1. Stays
    BY <1>5 DEF Author, Commit, Push, ClosedByHand, process, vars, Finish, Stays
  <2> QED BY <2>1, PhaseKept DEF Wide
<1> QED BY <1>1, <1>2, <1>3, <1>4, <1>5, Steps

LEMMA FinishReads ==
  ASSUME inflight \subseteq ReadRecord, NEW n \in Numbers, Finish(n)
  PROVE  Reading' = Reading /\ Done \subseteq Done'
<1>1. PICK r \in inflight : \E answer \in Answers(r) :
        r.n = n /\ inflight' = Without(n) \union {[r EXCEPT !.answer = answer]}
  BY DEF Finish
<1>2. PICK answer \in Answers(r) : r.n = n /\ inflight' = Without(n) \union {[r EXCEPT !.answer = answer]}
  BY <1>1
<1>3. PICK s : s = [r EXCEPT !.answer = answer]
  OBVIOUS
<1>4. s.n = n /\ s.answer # "none" /\ inflight' = Without(n) \union {s}
  BY <1>2, <1>3, AnswerTyped DEF ReadRecord
<1>5. \A x : x \in inflight' <=> (x \in inflight /\ x.n # n) \/ x = s
  BY <1>4 DEF Without
<1>6. Reading' = Reading
  BY <1>1, <1>4, <1>5 DEF Reading
<1>7. ASSUME NEW m \in Done PROVE m \in Done'
  <2>1. PICK x \in inflight : x.n = m /\ x.answer # "none"
    BY <1>7 DEF Done
  <2>2. \E y \in inflight' : y.n = m /\ y.answer # "none"
    BY <1>4, <1>5, <2>1
  <2> QED BY <2>2 DEF Done
<1> QED BY <1>6, <1>7

LEMMA DiscoveringNext == ASSUME DaemonTyped, [Next]_vars PROVE Discovering'
<1>1. ListTyped /\ ReadsTyped
  BY TypeParts DEF DaemonTyped
<1>2. CASE List
  BY <1>2 DEF List, Goto, Discovering, Phase, Effects
<1>3. CASE ReadBase
  BY <1>3 DEF ReadBase, Goto, Discovering, Phase, Effects, reads, Reading
<1>4. CASE ObserveContained
  <2>1. Phase = "observe" /\ Phase' = "observe" /\ queue' \subseteq queue /\ UNCHANGED <<cands, rows, inflight>>
    BY <1>4 DEF ObserveContained, Goto, Phase, Effects, reads
  <2> QED BY <2>1 DEF DaemonTyped, Discovering, Reading
<1>5. CASE Observe
  <2>1. /\ Phase = "observe" /\ Phase' = "observe" /\ queue' \subseteq queue /\ cands' \subseteq cands \union {Row}
        /\ UNCHANGED <<rows, inflight>>
    BY <1>5 DEF Observe, Phase, Effects, reads
  <2>2. rows[Row] # 0 /\ Row \notin Reading
    BY <1>5, QueuedRow DEF Observe, DaemonTyped, Discovering, Phase, Effects
  <2> QED BY <2>1, <2>2 DEF DaemonTyped, Discovering, Reading
<1>6. CASE Choose
  <2>1. Phase = "observe" /\ Phase' = "stage" /\ cands' \subseteq cands /\ UNCHANGED <<rows, inflight>>
    BY <1>6 DEF Choose, Goto, Owned, Phase, Effects, reads
  <2> QED BY <2>1 DEF DaemonTyped, Discovering, Reading
<1>7. CASE Stage
  <2>1. Phase = "stage" /\ Phase' = "submit" /\ UNCHANGED <<cands, rows, inflight>>
    BY <1>7 DEF Stage, Goto, Phase, Effects, reads
  <2> QED BY <2>1 DEF DaemonTyped, Discovering, Reading
<1>8. CASE Submit
  <2>1. CASE cands' = {} /\ Advances
    BY <2>1, AdvancedPhase DEF Discovering, Wide
  <2>2. CASE /\ inflight' = inflight \union {NewRead(Least(cands), rows[Least(cands)], basis, FALSE)}
             /\ cands' = cands \ {Least(cands)} /\ UNCHANGED rows /\ pc' = "submit"
    <3>1. Phase = "submit" /\ Phase' = "submit"
      BY <1>8, <2>2 DEF Submit, Phase, Effects
    <3>2. Reading' = Reading \union {Least(cands)}
      <4>1. PICK s : s = NewRead(Least(cands), rows[Least(cands)], basis, FALSE)
        OBVIOUS
      <4>2. s.n = Least(cands) /\ inflight' = inflight \union {s}
        BY <2>2, <4>1 DEF NewRead
      <4> QED BY <4>2 DEF Reading
    <3> QED BY <2>2, <3>1, <3>2 DEF DaemonTyped, Discovering
  <2> QED BY <1>8, <2>1, <2>2 DEF Submit, NextStage, Goto, Advances, Inner
<1>9. CASE Receiving
  <2>1. Phase' \notin {"observe", "stage", "submit"}
    <3>1. Ready \/ Received \/ Refill => Advances \/ pc' \in {"receive", "list"}
      BY DEF Ready, Received, Refill, Goto, NextStage, Advances, Inner
    <3>2. Wait \/ Save => pc' \in {"receive", "wait"}
      BY DEF Wait, Save
    <3>3. pc' \in {"receive", "list", "wait"} => Phase' = pc'
      BY DEF Phase, Effects
    <3>4. Receive => Phase' = "receive" \/ Phase' = "error"
      BY ReceiveLoop, PhaseKept DEF Receive, Phase, Effects
    <3> QED BY <1>9, <3>1, <3>2, <3>3, <3>4, AdvancedPhase DEF Receiving, Wide
  <2> QED BY <2>1 DEF Discovering
<1>10. CASE ~Listing /\ ~Receiving
  <2>1. CASE Phase' \notin {"observe", "stage", "submit"}
    BY <2>1 DEF Discovering
  <2>2. CASE Phase' = Phase /\ Phase \in {"observe", "stage", "submit"}
    <3>1. UNCHANGED discovery
      BY <1>10, <2>2, ListFrame, EndingPhase DEF Wide
    <3>2. Reading' \subseteq Reading
      <4>1. UNCHANGED <<inflight, running>> \/ DrainTick \/ Reload \/ Restart => Reading' \subseteq Reading
        BY DEF DrainTick, Reload, Restart, Reading
      <4>2. ~Reland
        BY <2>2 DEF Reland, Phase, Effects, DaemonTyped, AtWork, Returns
      <4>3. (\E n \in Numbers : Finish(n)) => Reading' \subseteq Reading
        BY <1>1, FinishReads DEF ReadsTyped
      <4> QED BY <1>10, <4>1, <4>2, <4>3, FlightFrame DEF Listing, Receiving
    <3> QED BY <2>2, <3>1, <3>2 DEF DaemonTyped, Discovering, discovery
  <2> QED BY <1>10, <2>1, <2>2, OtherPhase DEF Wide
<1> QED BY <1>2, <1>3, <1>4, <1>5, <1>6, <1>7, <1>8, <1>9, <1>10 DEF Listing

LEMMA GroupedNext == ASSUME DaemonTyped, [Next]_vars PROVE Grouped'
<1>1. ReadsTyped
  BY TypeParts DEF DaemonTyped
<1>2. CASE Phase' # "receive"
  BY <1>2 DEF Grouped
<1>3. CASE Wait \/ Ready
  BY <1>3 DEF Wait, Ready, Grouped, Done
<1>4. CASE Receive
  <2> DEFINE r == Read(Least(group))
  <2>1. r.n \in group /\ group \subseteq Done /\ group' = group \ {r.n} /\ inflight' = Without(r.n)
    BY <1>4, ReceivedRead DEF Receive, DaemonTyped, Grouped, Phase, Effects
  <2> HIDE DEF r
  <2> QED BY <2>1 DEF Grouped, Done, Without
<1>5. Received \/ Refill \/ Save => Phase' # "receive"
  <2>1. Received \/ Refill \/ Save => Advances \/ pc' \in {"list", "wait"}
    BY DEF Received, Refill, Save, Goto, NextStage, Advances, Inner
  <2>2. pc' \in {"list", "wait"} => Phase' # "receive"
    BY DEF Phase, Effects
  <2> QED BY <2>1, <2>2, AdvancedPhase DEF Wide
<1>6. Listing => Phase' # "receive"
  <2>1. List \/ ReadBase \/ ObserveContained \/ Observe \/ Choose \/ Stage => Phase' # "receive"
    BY DEF List, ReadBase, ObserveContained, Observe, Choose, Stage, Goto, Phase, Effects
  <2>2. Submit => Advances \/ pc' = "submit"
    BY DEF Submit, Goto, NextStage, Advances, Inner
  <2>3. pc' = "submit" => Phase' # "receive"
    BY DEF Phase, Effects
  <2> QED BY <2>1, <2>2, <2>3, AdvancedPhase DEF Listing, Wide
<1>7. CASE Phase' = "receive" /\ ~Listing /\ ~Receiving
  <2>1. Phase = "receive" /\ group \subseteq Done
    BY <1>7, OtherPhase DEF Wide, DaemonTyped, Grouped
  <2>2. UNCHANGED group \/ group' = {}
    <3>1. Land \/ Train \/ Outcome => UNCHANGED group
      BY DEF Land, Train, Outcome
    <3> QED BY <1>7, <3>1, BatchFrame DEF Receiving, Emptied
  <2>3. Done \subseteq Done'
    <3>1. UNCHANGED <<inflight, running>> => Done \subseteq Done'
      BY DEF Done
    <3>2. ~DrainTick /\ ~Reload
      BY <2>1 DEF DrainTick, Reload, Phase, Effects
    <3>3. Reland => inflight \subseteq inflight'
      BY DEF Reland
    <3>4. inflight \subseteq inflight' => Done \subseteq Done'
      BY DEF Done
    <3>5. (\E n \in Numbers : Finish(n)) => Done \subseteq Done'
      BY <1>1, FinishReads DEF ReadsTyped
    <3>6. ~Restart
      BY <1>7, EndingPhase DEF Wide
    <3> QED BY <1>7, <3>1, <3>2, <3>3, <3>4, <3>5, <3>6, FlightFrame DEF Listing, Receiving
  <2> QED BY <2>1, <2>2, <2>3 DEF Grouped
<1> QED BY <1>2, <1>3, <1>4, <1>5, <1>6, <1>7 DEF Receiving

LEMMA InitTyped == ASSUME Init PROVE DaemonTyped
<1>1. /\ Heads \in [Numbers -> Nat \ {0}] /\ Jobs \in Nat \ {0} /\ Guards \subseteq BOOLEAN
      /\ Most \in Nat /\ NoBase \in Base
  BY DisturbanceAssumption, JobsAssumption, BaseTyped
<1>2. RemoteTyped
  BY HeadNumbers DEF Init, RemoteTyped, Base
<1>3. MemoryTyped /\ ListTyped /\ ReadsTyped /\ left \in Nat
  BY <1>1 DEF Init, MemoryTyped, ListTyped, ReadsTyped
<1>4. FlagsTyped
  <2>1. guard \in BOOLEAN
    BY <1>1 DEF Init
  <2>2. stop \in BOOLEAN /\ deferred \in BOOLEAN /\ stopped \in BOOLEAN
    BY Zenon DEF Init
  <2> QED BY Zenon, <2>1, <2>2 DEF FlagsTyped
<1>5. LoopTyped /\ AtTyped
  BY <1>1, EmptySeq DEF Init, LoopTyped, AtTyped, Labels, Nobody
<1>6. AtWork /\ Pipeline /\ Discovering /\ Grouped
  BY DEF Init, AtWork, Pipeline, Discovering, Grouped, Phase, Effects
<1> QED BY <1>2, <1>3, <1>4, <1>5, <1>6, TypeParts DEF DaemonTyped

LEMMA TypedNext == ASSUME DaemonTyped, [Next]_vars PROVE DaemonTyped'
<1>1. RemoteTyped' /\ MemoryTyped' /\ FlagsTyped' /\ ListTyped' /\ ReadsTyped'
  BY Zenon, RemoteNext, MemoryNext, FlagsNext, ListNext, ReadsNext
<1>2. AtTyped' /\ LoopTyped' /\ left' \in Nat /\ AtWork' /\ Pipeline' /\ Discovering' /\ Grouped'
  BY LoopNext, LeftTyped, DiscoveringNext, GroupedNext DEF DaemonTyped
<1>3. TypeOK'
  BY Zenon, <1>1, <1>2 DEF TypeOK, RemoteTyped, MemoryTyped, FlagsTyped, ListTyped, ReadsTyped, AtTyped, LoopTyped
<1> QED BY Zenon, <1>2, <1>3 DEF DaemonTyped

LEMMA TypedAlways == Spec => []DaemonTyped
BY InitTyped, TypedNext, PTL DEF Spec

\* The variables of the daemon keep their types.
THEOREM DaemonTypeOK == Spec => []TypeOK
<1>1. DaemonTyped => TypeOK
  BY DEF DaemonTyped
<1> QED BY <1>1, TypedAlways, PTL

---------------------------------------------------------------------------
(* The custody of reads.                                                   *)

Unfinished == {r.n : r \in {s \in inflight : s.answer = "none"}}
ReadsOwned == running = Unfinished /\ \A r, s \in inflight : r.n = s.n => r = s

\* There is a slot for everything in flight, and for what a step is about to start.
SlotsHeld ==
  /\ Cardinality(Reading) <= Jobs
  /\ pc \in {"stage", "submit"} => Cardinality(Reading) + Cardinality(cands) <= Jobs
  /\ pc = "reland" => at.n \notin Reading /\ Cardinality(Reading) < Jobs

\* The reads in flight are as many as the pull requests that are being read.
LEMMA ReadCount ==
  ASSUME DaemonTyped, ReadsOwned
  PROVE  IsFiniteSet(Reading) /\ IsFiniteSet(inflight) /\ Cardinality(inflight) = Cardinality(Reading)
<1>1. inflight \subseteq ReadRecord /\ Reading \subseteq Numbers
  BY TypeParts DEF DaemonTyped, ReadsTyped, Reading, ReadRecord
<1>2. IsFiniteSet(Reading)
  BY <1>1, NumbersAssumption, FS_Subset
<1> DEFINE key == [r \in inflight |-> r.n]
<1>3. key \in [inflight -> Reading]
  BY DEF Reading
<1>4. \A r, s \in inflight : key[r] = key[s] => r = s
  BY DEF ReadsOwned
<1>5. \A n \in Reading : \E r \in inflight : key[r] = n
  BY DEF Reading
<1> HIDE DEF key
<1>6. key \in Injection(inflight, Reading) /\ key \in Surjection(inflight, Reading)
  BY <1>3, <1>4, <1>5 DEF Injection, IsInjective, Surjection
<1> QED BY <1>2, <1>6, FS_Injection

\* A new read takes a slot, and is the only one of its pull request.
LEMMA Started ==
  ASSUME DaemonTyped, ReadsOwned, NEW r, r.n \notin Reading, r.answer = "none",
         inflight' = inflight \union {r}, running' = running \union {r.n}
  PROVE  /\ ReadsOwned' /\ Reading' = Reading \union {r.n}
         /\ Cardinality(Reading') = Cardinality(Reading) + 1
<1>1. Reading' = Reading \union {r.n}
  BY DEF Reading
<1>2. Unfinished' = Unfinished \union {r.n}
  BY DEF Unfinished
<1>3. \A s \in inflight : s.n # r.n
  BY DEF Reading
<1>4. \A s, t \in inflight' : s.n = t.n => s = t
  BY <1>3 DEF ReadsOwned
<1> QED BY <1>1, <1>2, <1>4, ReadCount, FS_AddElement DEF ReadsOwned

LEMMA OwnedFinish == ASSUME DaemonTyped, ReadsOwned, NEW n \in Numbers, Finish(n) PROVE ReadsOwned'
<1>1. inflight \subseteq ReadRecord /\ running' = running \ {n}
  BY TypeParts DEF DaemonTyped, ReadsTyped, Finish
<1>2. PICK r \in inflight : \E answer \in Answers(r) :
        r.n = n /\ inflight' = Without(n) \union {[r EXCEPT !.answer = answer]}
  BY DEF Finish
<1>3. PICK answer \in Answers(r) : r.n = n /\ inflight' = Without(n) \union {[r EXCEPT !.answer = answer]}
  BY <1>2
<1>4. PICK s : s = [r EXCEPT !.answer = answer]
  OBVIOUS
<1>5. s.n = n /\ s.answer # "none" /\ inflight' = Without(n) \union {s}
  BY <1>1, <1>3, <1>4, AnswerTyped DEF ReadRecord
<1>6. \A x : x \in inflight' <=> (x \in inflight /\ x.n # n) \/ x = s
  BY <1>5 DEF Without
<1>7. Unfinished' = Unfinished \ {n}
  <2>1. \A m : m \in Unfinished' <=> \E x \in inflight' : x.n = m /\ x.answer = "none"
    BY DEF Unfinished
  <2>2. \A m : m \in Unfinished <=> \E x \in inflight : x.n = m /\ x.answer = "none"
    BY DEF Unfinished
  <2>3. \A m : m \in Unfinished' <=> m \in Unfinished /\ m # n
    BY <1>5, <1>6, <2>1, <2>2
  <2> QED BY <2>3
<1>8. \A x, y \in inflight' : x.n = y.n => x = y
  BY <1>5, <1>6 DEF ReadsOwned
<1> QED BY <1>1, <1>7, <1>8 DEF ReadsOwned

\* A read that is received is done, and gives its slot back.
LEMMA OwnedReceive ==
  ASSUME DaemonTyped, ReadsOwned, Receive
  PROVE  /\ ReadsOwned' /\ Reading' = Reading \ {Least(group)}
         /\ Cardinality(Reading') = Cardinality(Reading) - 1
<1> DEFINE r == Read(Least(group))
<1>1. r \in inflight /\ r.n \in group /\ r.n = Least(group) /\ inflight' = Without(r.n) /\ UNCHANGED running
  BY ReceivedRead DEF Receive
<1>2. r.n \in Done
  BY <1>1 DEF Receive, DaemonTyped, Grouped, Phase, Effects
<1> HIDE DEF r
<1>3. \A x : x \in inflight' <=> x \in inflight /\ x.n # r.n
  BY <1>1 DEF Without
<1>4. Reading' = Reading \ {r.n}
  <2>1. \A m : m \in Reading' <=> \E x \in inflight' : x.n = m
    BY DEF Reading
  <2>2. \A m : m \in Reading <=> \E x \in inflight : x.n = m
    BY DEF Reading
  <2>3. \A m : m \in Reading' <=> m \in Reading /\ m # r.n
    BY <1>3, <2>1, <2>2
  <2> QED BY <2>3
<1>5. Unfinished' = Unfinished
  <2>1. \A m : m \in Unfinished' <=> \E x \in inflight' : x.n = m /\ x.answer = "none"
    BY DEF Unfinished
  <2>2. \A m : m \in Unfinished <=> \E x \in inflight : x.n = m /\ x.answer = "none"
    BY DEF Unfinished
  <2>3. PICK y \in inflight : y.n = r.n /\ y.answer # "none"
    BY <1>2 DEF Done
  <2>4. \A x \in inflight : x.n = r.n => x.answer # "none"
    BY <2>3 DEF ReadsOwned
  <2>5. \A m : m \in Unfinished' <=> m \in Unfinished
    BY <1>3, <2>1, <2>2, <2>4
  <2> QED BY <2>5
<1>6. r.n \in Reading
  BY <1>1 DEF Reading
<1>7. Cardinality(Reading') = Cardinality(Reading) - 1
  BY <1>4, <1>6, ReadCount, FS_RemoveElement
<1>8. ReadsOwned'
  BY <1>1, <1>3, <1>5 DEF ReadsOwned
<1> QED BY <1>1, <1>4, <1>7, <1>8

LEMMA OwnedList == ASSUME DaemonTyped, ReadsOwned, List PROVE ReadsOwned' /\ Reading' = Reading
<1>1. PICK obsolete : inflight' = {Cancelled(r, obsolete) : r \in inflight}
  BY DEF List
<1>2. \A r \in inflight : Cancelled(r, obsolete).n = r.n /\ Cancelled(r, obsolete).answer = r.answer
  <2> SUFFICES ASSUME NEW r \in inflight
               PROVE  Cancelled(r, obsolete).n = r.n /\ Cancelled(r, obsolete).answer = r.answer
    OBVIOUS
  <2>1. r \in ReadRecord
    BY TypeParts DEF DaemonTyped, ReadsTyped
  <2>2. [r EXCEPT !.cancelled = TRUE].n = r.n /\ [r EXCEPT !.cancelled = TRUE].answer = r.answer
    BY <2>1 DEF ReadRecord
  <2> QED BY Zenon, <2>2 DEF Cancelled
<1>3. \A m : m \in Reading' <=> m \in Reading
  BY <1>1, <1>2 DEF Reading
<1>4. \A m : m \in Unfinished' <=> m \in Unfinished
  <2>1. \A m : m \in Unfinished' <=> \E x \in inflight' : x.n = m /\ x.answer = "none"
    BY DEF Unfinished
  <2>2. \A m : m \in Unfinished <=> \E x \in inflight : x.n = m /\ x.answer = "none"
    BY DEF Unfinished
  <2> QED BY <1>1, <1>2, <2>1, <2>2
<1>5. UNCHANGED running
  BY DEF List
<1>6. \A x, y \in inflight' : x.n = y.n => x = y
  BY <1>1, <1>2 DEF ReadsOwned
<1>7. Reading' = Reading /\ Unfinished' = Unfinished
  BY <1>3, <1>4
<1> QED BY <1>5, <1>6, <1>7 DEF ReadsOwned

LEMMA OwnedSubmit ==
  ASSUME DaemonTyped, ReadsOwned, SlotsHeld, Submit
  PROVE  /\ ReadsOwned' /\ Cardinality(Reading') <= Jobs
         /\ pc' = "submit" => Cardinality(Reading') + Cardinality(cands') <= Jobs
<1>1. ListTyped /\ pc = "submit"
  BY TypeParts DEF DaemonTyped, Submit
<1>2. CASE UNCHANGED <<inflight, running>> /\ Advances
  <2>1. pc' # "submit"
    BY <1>2, AdvancedPhase DEF Wide
  <2> QED BY <1>2, <2>1 DEF ReadsOwned, Unfinished, Reading, SlotsHeld
<1>3. ASSUME NEW r, r = NewRead(Least(cands), rows[Least(cands)], basis, FALSE), cands # {},
             inflight' = inflight \union {r}, running' = running \union {Least(cands)}, cands' = cands \ {Least(cands)}
      PROVE  ReadsOwned' /\ Cardinality(Reading') + Cardinality(cands') <= Jobs
  <2>1. r.n = Least(cands) /\ r.answer = "none"
    BY <1>3 DEF NewRead
  <2>2. Least(cands) \in cands
    BY <1>1, <1>3, LeastNumber DEF ListTyped
  <2>3. r.n \notin Reading
    BY <1>1, <2>1, <2>2 DEF DaemonTyped, Discovering, Phase, Effects
  <2>4. ReadsOwned' /\ Cardinality(Reading') = Cardinality(Reading) + 1
    BY <1>3, <2>1, <2>3, Started
  <2>5. IsFiniteSet(cands) /\ Cardinality(cands) \in Nat /\ Cardinality(cands') = Cardinality(cands) - 1
    <3>1. IsFiniteSet(cands)
      BY <1>1, NumbersAssumption, FS_Subset DEF ListTyped
    <3> QED BY <1>3, <2>2, <3>1, FS_RemoveElement, FS_CardinalityType
  <2>6. Cardinality(Reading) \in Nat /\ Jobs \in Nat
    BY ReadCount, FS_CardinalityType, JobsAssumption
  <2> QED BY <1>1, <2>4, <2>5, <2>6 DEF SlotsHeld
<1>4. \/ UNCHANGED <<inflight, running>> /\ Advances
      \/ /\ inflight' = inflight \union {NewRead(Least(cands), rows[Least(cands)], basis, FALSE)} /\ cands # {}
         /\ running' = running \union {Least(cands)} /\ cands' = cands \ {Least(cands)}
  BY DEF Submit, NextStage, Advances, Inner
<1>5. IsFiniteSet(cands') => Cardinality(cands') \in Nat
  BY FS_CardinalityType
<1>6. CASE ~(UNCHANGED <<inflight, running>> /\ Advances)
  <2>1. ReadsOwned' /\ Cardinality(Reading') + Cardinality(cands') <= Jobs
    BY <1>3, <1>4, <1>6
  <2>2. IsFiniteSet(cands') /\ IsFiniteSet(Reading')
    <3>1. IsFiniteSet(Reading) /\ Reading' \subseteq Reading \union {Least(cands)}
      BY <1>4, <1>6, ReadCount DEF Reading, NewRead
    <3>2. cands' \subseteq Numbers
      BY <1>1, <1>4, <1>6 DEF ListTyped
    <3>3. IsFiniteSet(Reading \union {Least(cands)})
      BY <3>1, FS_AddElement
    <3> QED BY <3>1, <3>2, <3>3, NumbersAssumption, FS_Subset
  <2>3. Cardinality(cands') \in Nat /\ Cardinality(Reading') \in Nat /\ Jobs \in Nat
    BY <2>2, FS_CardinalityType, JobsAssumption
  <2> QED BY <2>1, <2>3
<1> QED BY <1>2, <1>6

LEMMA OwnedNext == ASSUME DaemonTyped, ReadsOwned, SlotsHeld, [Next]_vars PROVE ReadsOwned' /\ Cardinality(Reading') <= Jobs
<1>0. Cardinality(Reading) \in Nat /\ Jobs \in Nat /\ Cardinality(Reading) <= Jobs
  BY ReadCount, FS_CardinalityType, JobsAssumption DEF SlotsHeld
<1>1. CASE UNCHANGED <<inflight, running>>
  BY <1>0, <1>1 DEF ReadsOwned, Unfinished, Reading
<1>2. CASE DrainTick
  <2>1. inflight' = {r \in inflight : r.answer = "none"} /\ UNCHANGED running
    BY <1>2 DEF DrainTick
  <2>2. Unfinished' = Unfinished /\ Reading' \subseteq Reading /\ inflight' \subseteq inflight
    BY <2>1 DEF Unfinished, Reading
  <2>3. Cardinality(Reading') <= Cardinality(Reading)
    BY <2>2, ReadCount, FS_Subset
  <2>4. IsFiniteSet(Reading')
    BY <2>2, ReadCount, FS_Subset
  <2>5. Cardinality(Reading') \in Nat
    BY <2>4, FS_CardinalityType
  <2> QED BY <1>0, <2>1, <2>2, <2>3, <2>5 DEF ReadsOwned
<1>3. CASE Reload \/ Restart
  <2>1. inflight' = {} /\ running' = {}
    BY <1>3 DEF Reload, Reloadable, Restart, ReadsOwned, Unfinished
  <2>2. Reading' = {} /\ Unfinished' = {}
    BY <2>1 DEF Reading, Unfinished
  <2> QED BY <1>0, <2>1, <2>2, FS_EmptySet DEF ReadsOwned
<1>4. CASE List
  BY <1>0, <1>4, OwnedList
<1>5. CASE Submit
  BY <1>5, OwnedSubmit
<1>6. CASE Receive
  BY <1>0, <1>6, OwnedReceive
<1>7. CASE Reland
  <2>1. CASE UNCHANGED <<inflight, running>>
    BY <1>1, <2>1
  <2>2. CASE ~UNCHANGED <<inflight, running>>
    <3>1. PICK r : r = NewRead(at.n, at.head, base, TRUE)
      OBVIOUS
    <3>2. r.n = at.n /\ r.answer = "none" /\ inflight' = inflight \union {r} /\ running' = running \union {r.n}
      BY <1>7, <2>2, <3>1 DEF Reland, NewRead
    <3>3. r.n \notin Reading /\ Cardinality(Reading) < Jobs
      BY <1>7, <3>2 DEF Reland, SlotsHeld
    <3>4. ReadsOwned' /\ Cardinality(Reading') = Cardinality(Reading) + 1
      BY <3>2, <3>3, Started
    <3> QED BY <1>0, <3>3, <3>4
  <2> QED BY <2>1, <2>2
<1>8. CASE \E n \in Numbers : Finish(n)
  BY <1>0, <1>8, OwnedFinish, FinishReads, TypeParts DEF DaemonTyped, ReadsTyped
<1> QED BY <1>1, <1>2, <1>3, <1>4, <1>5, <1>6, <1>7, <1>8, FlightFrame

\* Where a step may take a slot.
LEMMA SlotLabels ==
  ASSUME DaemonTyped, [Next]_vars, pc' \in {"stage", "submit", "reland"}
  PROVE  Choose \/ Stage \/ Submit \/ Receive \/ (Stays /\ UNCHANGED cands /\ (UNCHANGED inflight \/ \E n \in Numbers : Finish(n)))
<1>0. ~Advances
  BY AdvancedPhase DEF Stages
<1>1. ~List /\ ~ReadBase /\ ~ObserveContained /\ ~Observe
  BY DEF List, ReadBase, ObserveContained, Observe, Goto
<1>2. ~Wait /\ ~Ready /\ ~Received /\ ~Refill /\ ~Save
  BY <1>0 DEF Wait, Ready, Received, Refill, Save, Goto, NextStage, Advances, Inner
<1>3. ~Landing
  BY <1>0 DEF Landing, Land, Train, TrainEnds, Outcome, Landed, Goto, NextStage, Advances, Inner
<1>4. ~Effect
  <2>1. Effect => (pc \in Effects /\ (pc' = at.back \/ pc' \in {"close", "publish", "supersede", "error"}))
    BY DEF Effect, Effects, Repair, Forward, Close, Reland, Revalidate, Publish, Supersede, Retry, Back, Goto
  <2>2. pc \in Effects => at.back \in {"observe", "receive", "outcome"}
    BY ReturnLabels DEF DaemonTyped, AtWork
  <2> QED BY <2>1, <2>2
<1>5. ~Unread /\ ~Ending /\ ~Restart
  <2>1. ListUnread \/ StageUnread => EndTick \/ Advances
    BY Zenon DEF ListUnread, StageUnread, NextStage, Advances, Inner
  <2>2. Ending => EndTick
    BY Zenon DEF Ending, Idle, EndLoop
  <2>3. EndTick \/ Restart => pc' = "idle"
    BY Zenon DEF EndTick, Restart
  <2>4. pc' # "idle"
    OBVIOUS
  <2> QED BY Zenon, <1>0, <2>1, <2>2, <2>3, <2>4 DEF Unread
<1>6. ~Between /\ ~EditConfiguration /\ ~Forget
  BY DEF Between, StartTick, DrainTick, Reload, Exit, EditConfiguration, Forget, process
<1>7. RequestStop \/ Author \/ UNCHANGED vars => Stays /\ UNCHANGED <<cands, inflight>>
  BY DEF RequestStop, Author, Commit, Push, ClosedByHand, vars, process, reads, found, Stays
<1>8. (\E n \in Numbers : Finish(n)) => Stays /\ UNCHANGED cands
  BY DEF Finish, found, Stays
<1> QED BY <1>1, <1>2, <1>3, <1>4, <1>5, <1>6, <1>7, <1>8, Steps DEF Listing, Receiving, Operator

LEMMA ChosenFit ==
  ASSUME DaemonTyped, ReadsOwned, SlotsHeld, Choose
  PROVE  pc' = "stage" /\ UNCHANGED inflight /\ Cardinality(Reading) + Cardinality(cands') <= Jobs
<1>1. ListTyped /\ pc' = "stage" /\ UNCHANGED inflight
  BY TypeParts DEF DaemonTyped, Choose, Goto, reads
<1>2. PICK width, wanting :
        /\ width \in 0..Jobs /\ wanting \in {{}, cands} /\ cands' \in Owned(wanting, width)
  <2>1. PICK capacity \in IF FirstList /\ cands # {} THEN Capacities ELSE {Jobs} :
          LET width == IF FirstList THEN Width(capacity) ELSE slots
              wanting == IF width = 0 THEN {} ELSE cands
          IN /\ slots' = width
             /\ \E taken \in Owned(wanting, width) : cands' = taken
    BY DEF Choose
  <2>2. PICK width : width = IF FirstList THEN Width(capacity) ELSE slots
    OBVIOUS
  <2>3. PICK wanting : wanting = IF width = 0 THEN {} ELSE cands
    OBVIOUS
  <2>4. width \in 0..Jobs
    BY <1>1, <2>2, ChosenWidth DEF ListTyped
  <2>5. wanting \in {{}, cands} /\ cands' \in Owned(wanting, width)
    BY <2>1, <2>2, <2>3
  <2> QED BY <2>4, <2>5
<1>3. IsFiniteSet(wanting)
  BY <1>1, <1>2, NumbersAssumption, FS_Subset, FS_EmptySet DEF ListTyped
<1>4. Cardinality(cands') = Smaller(Free(width), Cardinality(wanting))
  BY <1>2 DEF Owned
<1>5. Cardinality(wanting) \in Nat /\ Cardinality(inflight) \in Nat /\ Cardinality(inflight) = Cardinality(Reading)
  BY <1>3, ReadCount, FS_CardinalityType
<1>6. /\ Cardinality(inflight) <= Jobs /\ Jobs \in Nat
      /\ Free(width) = IF width > Cardinality(inflight) THEN width - Cardinality(inflight) ELSE 0
  BY <1>5, JobsAssumption DEF SlotsHeld, Free
<1>7. Cardinality(inflight) + Free(width) <= Jobs /\ Free(width) \in Nat
  BY <1>2, <1>5, <1>6
<1>8. Smaller(Free(width), Cardinality(wanting)) \in Nat /\ Smaller(Free(width), Cardinality(wanting)) <= Free(width)
  BY <1>5, <1>7, SmallerTyped
<1>9. PICK free, reading, taken : /\ free = Free(width) /\ reading = Cardinality(Reading)
                                 /\ taken = Smaller(Free(width), Cardinality(wanting))
  OBVIOUS
<1>10. reading + taken <= Jobs
  <2>1. free \in Nat /\ taken \in Nat /\ taken <= free /\ reading + free <= Jobs /\ reading \in Nat /\ Jobs \in Nat
    BY <1>5, <1>6, <1>7, <1>8, <1>9
  <2> QED BY <2>1
<1> QED BY <1>1, <1>4, <1>9, <1>10

LEMMA SlotsNext == ASSUME DaemonTyped, ReadsOwned, SlotsHeld, [Next]_vars PROVE SlotsHeld'
<1>1. Cardinality(Reading') <= Jobs
  BY OwnedNext
<1>2. CASE pc' \notin {"stage", "submit", "reland"}
  BY <1>1, <1>2 DEF SlotsHeld
<1>3. CASE Choose
  BY <1>1, <1>3, ChosenFit DEF SlotsHeld, Reading
<1>4. CASE Stage
  <2>1. pc = "stage" /\ pc' = "submit" /\ UNCHANGED <<cands, inflight>>
    BY <1>4 DEF Stage, Goto, reads
  <2> QED BY <1>1, <2>1 DEF SlotsHeld, Reading
<1>5. CASE Submit
  <2>1. Advances \/ pc' = "submit"
    BY <1>5 DEF Submit, Goto, NextStage, Advances, Inner
  <2>2. Advances => pc' \notin {"stage", "submit", "reland"}
    BY AdvancedPhase DEF Stages
  <2> QED BY <1>1, <1>5, <2>1, <2>2, OwnedSubmit DEF SlotsHeld
<1>6. CASE Receive
  <2> DEFINE r == Read(Least(group))
  <2>1. r.n = Least(group) /\ r.n \notin Reading' /\ Cardinality(Reading') = Cardinality(Reading) - 1
    BY <1>6, OwnedReceive, ReceivedRead
  <2>2. Cardinality(Reading) \in Nat /\ Cardinality(Reading) <= Jobs /\ Jobs \in Nat
    BY ReadCount, FS_CardinalityType, JobsAssumption DEF SlotsHeld
  <2>3. pc' = "reland" => at'.n = r.n
    <3>1. \/ ReceiveNothing(r) \/ ReceiveAdmitted(r) \/ ReceiveStopped(r)
          \/ ReceiveEffect(r) \/ ReceiveHold(r) \/ ReceiveRebuilt(r)
      BY <1>6 DEF Receive
    <3> HIDE DEF r
    <3> QED BY <3>1 DEF ReceiveNothing, ReceiveAdmitted, ReceiveStopped, ReceiveEffect, ReceiveHold,
              ReceiveRebuilt, Goto, At
  <2>4. pc' \notin {"stage", "submit"}
    <3>1. Stays \/ Enters
      BY <1>6, ReceiveLoop
    <3> QED BY <1>6, <3>1 DEF Receive, Stays, Enters, Effects
  <2> HIDE DEF r
  <2> QED BY <2>1, <2>2, <2>3, <2>4 DEF SlotsHeld
<1>7. CASE Stays /\ UNCHANGED cands /\ (UNCHANGED inflight \/ \E n \in Numbers : Finish(n))
  <2>1. Reading' = Reading
    <3>1. UNCHANGED inflight => Reading' = Reading
      BY DEF Reading
    <3> QED BY <1>7, <3>1, FinishReads, TypeParts DEF DaemonTyped, ReadsTyped
  <2> QED BY <1>1, <1>7, <2>1 DEF Stays, SlotsHeld
<1> QED BY <1>2, <1>3, <1>4, <1>5, <1>6, <1>7, SlotLabels

LEMMA OwnedAlways == Spec => [](ReadsOwned /\ SlotsHeld)
<1>1. Init => ReadsOwned /\ SlotsHeld
  <2>1. Init => pc = "idle" /\ running = {} /\ inflight = {}
    BY DEF Init
  <2>2. inflight = {} => Reading = {} /\ Unfinished = {}
    BY DEF Reading, Unfinished
  <2>3. Cardinality({}) <= Jobs
    BY FS_EmptySet, JobsAssumption
  <2> QED BY <2>1, <2>2, <2>3 DEF ReadsOwned, SlotsHeld
<1>2. DaemonTyped /\ (ReadsOwned /\ SlotsHeld) /\ [Next]_vars => (ReadsOwned /\ SlotsHeld)'
  BY OwnedNext, SlotsNext
<1> QED BY <1>1, <1>2, TypedAlways, PTL DEF Spec

\* Every read that runs is owned and will be received or drained, a pull request has one
\* read at most, and the reads in flight never outnumber the admission slots, through
\* refills, rebuilt heads that take over a slot, ticks, drains and a new configuration
\* (daemon.py, _submit, receive and _drain).
THEOREM ReadsInCustody == Spec => []Custody
<1>1. DaemonTyped /\ (ReadsOwned /\ SlotsHeld) => Custody
  BY ReadCount DEF Custody, ReadsOwned, SlotsHeld, Unfinished
<1> QED BY <1>1, TypedAlways, OwnedAlways, PTL

---------------------------------------------------------------------------
(* A stopped train.                                                        *)

\* Neither discovery nor another tick begins while the train is stopped.
Quiet ==
  stopped => /\ pc \notin Acting \union {"idle", "base", "observe", "stage"}
             /\ pc = "repair" => at.back = "outcome"

LEMMA StoppedFrame ==
  ASSUME [Next]_vars
  PROVE  UNCHANGED stopped \/ TrainEnds \/ stopped' = FALSE
<1>1. Listing \/ Receiving \/ Effect => UNCHANGED stopped
  BY DEF Listing, List, ReadBase, ObserveContained, Observe, Choose, Stage, Submit,
         Receiving, Wait, Ready, Received, Refill, Save, Receive,
         Effect, Repair, Forward, Close, Reland, Revalidate, Publish, Supersede, rest
<1>2. Land \/ Train \/ Outcome \/ Landed \/ Between \/ Operator => UNCHANGED stopped
  BY DEF Land, Train, Outcome, Landed, Between, StartTick, DrainTick, Reload, Exit,
         Operator, RequestStop, EditConfiguration, Forget, process
<1>3. Author \/ UNCHANGED vars \/ (\E n \in Numbers : Finish(n)) => UNCHANGED stopped
  BY DEF Author, Commit, Push, ClosedByHand, vars, Finish, process
<1>4. Restart => stopped' = FALSE
  BY Zenon DEF Restart, NewTick
<1>5. Unread \/ Ending => UNCHANGED stopped \/ stopped' = FALSE
  BY DEF Unread, ListUnread, StageUnread, Ending, Idle, EndLoop, EndTick, NewTick
<1> QED BY <1>1, <1>2, <1>3, <1>4, <1>5, Steps DEF Landing

LEMMA QuietNext == ASSUME DaemonTyped, Quiet, [Next]_vars PROVE Quiet'
<1>1. CASE TrainEnds
  BY <1>1 DEF TrainEnds, Goto, Quiet, Acting
<1>2. CASE stopped' = FALSE
  BY <1>2, Zenon DEF Quiet
<1>3. CASE UNCHANGED stopped /\ ~stopped
  BY <1>3, Zenon DEF Quiet
<1>4. CASE stopped /\ ~TrainEnds
  <2>1. /\ pc \notin Acting \union {"idle", "base", "observe", "stage"}
        /\ pc = "repair" => at.back = "outcome"
    BY <1>4, Zenon DEF Quiet
  <2>2. ASSUME Stays \/ Advances \/ pc' \in {"wait", "exited", "error", "receive", "outcome", "land"}
        PROVE  Quiet'
    <3>1. Advances => pc' \in Stages
      BY AdvancedPhase
    <3>2. pc' \notin Acting \union {"idle", "base", "observe", "stage"} /\ (pc' = "repair" => at'.back = "outcome")
      BY <2>1, <2>2, <3>1 DEF Stays, Stages, Acting
    <3> QED BY <3>2, Zenon DEF Quiet
  <2>3. ~Listing
    BY <2>1 DEF Listing, List, ReadBase, ObserveContained, Observe, Choose, Stage, Submit, Acting
  <2>4. Receiving => Advances \/ pc' \in {"receive", "wait"}
    <3>1. Wait \/ Ready \/ Received \/ Save => Advances \/ pc' \in {"receive", "wait"}
      BY DEF Wait, Ready, Received, Save, Goto, NextStage, Advances, Inner
    <3>2. Refill => Advances
      BY <1>4 DEF Refill, NextStage, Advances, Inner
    <3>3. Receive => pc' = "receive"
      <4> SUFFICES ASSUME Receive PROVE pc' = "receive"
        OBVIOUS
      <4> DEFINE r == Read(Least(group))
      <4>1. \/ ReceiveNothing(r) \/ ReceiveAdmitted(r) \/ ReceiveStopped(r)
            \/ ReceiveEffect(r) \/ ReceiveHold(r) \/ ReceiveRebuilt(r)
        BY DEF Receive
      <4> HIDE DEF r
      <4>2. ~ReceiveEffect(r) /\ ~ReceiveRebuilt(r) /\ ~ReceiveHold(r)
        BY <1>4 DEF ReceiveEffect, ReceiveRebuilt, ReceiveHold
      <4> QED BY <4>1, <4>2 DEF ReceiveNothing, ReceiveAdmitted, ReceiveStopped, Goto
    <3> QED BY <3>1, <3>2, <3>3 DEF Receiving
  <2>5. Land \/ Train \/ Landed => Advances
    BY <1>4, <2>1 DEF Land, MayLand, Train, Landed, NextStage, Advances, Inner, Acting
  <2>6. CASE Outcome
    <3>1. pc' = "outcome" \/ (pc' = "repair" /\ at'.back = "outcome")
      BY <2>6 DEF Outcome
    <3>2. pc' \notin Acting \union {"idle", "base", "observe", "stage"} /\ (pc' = "repair" => at'.back = "outcome")
      BY <3>1 DEF Acting
    <3> QED BY <3>2, Zenon DEF Quiet
  <2>7. Effect => pc' = "outcome"
    BY <2>1 DEF Effect, Repair, Forward, Close, Reland, Revalidate, Publish, Supersede, Retry, Back, Acting
  <2>8. ~Unread /\ ~Between /\ ~EditConfiguration /\ ~Forget
    BY <2>1 DEF Unread, ListUnread, StageUnread, Between, StartTick, DrainTick, Reload, Exit,
         EditConfiguration, Forget, Acting
  <2>9. Ending \/ Restart => stopped' = FALSE
    BY DEF Ending, Idle, EndLoop, EndTick, Restart, NewTick
  <2>10. RequestStop \/ Author \/ UNCHANGED vars \/ (\E n \in Numbers : Finish(n)) => Stays
    BY DEF RequestStop, Author, Commit, Push, ClosedByHand, vars, Finish, process, Stays
  <2> QED BY <1>2, <1>4, <2>2, <2>3, <2>4, <2>5, <2>6, <2>7, <2>8, <2>9, <2>10, Steps DEF Landing, Operator
<1> QED BY <1>1, <1>2, <1>3, <1>4, StoppedFrame

LEMMA QuietAlways == Spec => []Quiet
<1>1. Init => Quiet
  BY DEF Init, Quiet
<1> QED BY <1>1, QuietNext, TypedAlways, PTL DEF Spec

\* After a train stopped on a tree that was not planned, the rest of the tick lands,
\* publishes, closes and reads nothing, and repairs only what that run handed back
\* (daemon.py, round 5).
THEOREM StoppedTrainIsQuiet == Spec => []StoppedTrainStops
<1>1. Quiet => StoppedTrainStops
  BY DEF Quiet, StoppedTrainStops
<1> QED BY <1>1, QuietAlways, PTL

---------------------------------------------------------------------------
(* The reads in flight.                                                    *)

\* The reads in flight after a step are those before it, with the answer they have then
\* or have just been given, and new ones.
SameRead(x, r) == x.n = r.n /\ x.head = r.head /\ x.base = r.base /\ x.reland = r.reland
Submitted(x) ==
  /\ x.answer = "none" /\ (x.base = basis \/ x.base = base)
  /\ \/ Submit /\ cands # {} /\ x.n = Least(cands) /\ x.head = rows[x.n]
     \/ Reland /\ x.n = at.n /\ x.head = at.head
LEMMA FlightStep ==
  ASSUME DaemonTyped, [Next]_vars, NEW x \in inflight'
  PROVE  \/ \E r \in inflight : SameRead(x, r) /\ x.answer = r.answer
         \/ Submitted(x)
         \/ /\ \E n \in Numbers : Finish(n)
            /\ \E r \in inflight : SameRead(x, r)
            /\ x.answer \in {"hold", "native"} =>
                 [n |-> x.n, head |-> x.head, sha |-> x.base.sha, content |-> x.base.content, config |-> config] \in refused'
            /\ x.answer = "mergeable" /\ (x.reland => IsHead(x.n, x.head)) =>
                 <<x.n, x.head, x.reland>> \in approved'
<1>1. ReadsTyped
  BY TypeParts DEF DaemonTyped
<1>2. CASE UNCHANGED <<inflight, running>> \/ DrainTick \/ Reload \/ Restart \/ Receive
  BY <1>2 DEF SameRead, DrainTick, Reload, Restart, Receive, Without
<1>3. CASE List
  <2>1. PICK obsolete : inflight' = {Cancelled(r, obsolete) : r \in inflight}
    BY <1>3 DEF List
  <2>2. PICK r \in inflight : x = Cancelled(r, obsolete)
    BY <2>1
  <2>3. [r EXCEPT !.cancelled = TRUE].n = r.n /\ [r EXCEPT !.cancelled = TRUE].head = r.head
        /\ [r EXCEPT !.cancelled = TRUE].base = r.base /\ [r EXCEPT !.cancelled = TRUE].answer = r.answer
        /\ [r EXCEPT !.cancelled = TRUE].reland = r.reland
    BY <1>1 DEF ReadsTyped, ReadRecord
  <2>4. SameRead(x, r) /\ x.answer = r.answer
    BY Zenon, <2>2, <2>3 DEF Cancelled, SameRead
  <2> QED BY <2>4
<1>4. CASE Submit \/ Reland
  <2>1. PICK s, t : /\ s = NewRead(Least(cands), rows[Least(cands)], basis, FALSE)
                    /\ t = NewRead(at.n, at.head, base, TRUE)
    OBVIOUS
  <2>2. /\ s.answer = "none" /\ s.base = basis /\ s.n = Least(cands) /\ s.head = rows[s.n]
        /\ t.answer = "none" /\ t.base = base /\ t.n = at.n /\ t.head = at.head
    BY <2>1 DEF NewRead
  <2>3. x \in inflight \/ (Submit /\ cands # {} /\ x = s) \/ (Reland /\ x = t)
    BY <1>4, <2>1 DEF Submit, Reland
  <2> QED BY <2>2, <2>3 DEF SameRead, Submitted
<1>5. CASE \E n \in Numbers : Finish(n)
  <2>1. PICK n \in Numbers : Finish(n)
    BY <1>5
  <2>2. PICK r \in inflight : \E answer \in Answers(r) :
          /\ r.n = n /\ inflight' = Without(n) \union {[r EXCEPT !.answer = answer]}
          /\ approved' = approved \union
               (IF answer = "mergeable" /\ (r.reland => IsHead(n, r.head)) THEN {<<n, r.head, r.reland>>} ELSE {})
          /\ refused' = refused \union
               (IF answer \in {"hold", "native"}
                THEN {[n |-> n, head |-> r.head, sha |-> r.base.sha, content |-> r.base.content, config |-> config]}
                ELSE {})
    BY <2>1 DEF Finish
  <2>3. PICK answer \in Answers(r) :
          /\ r.n = n /\ inflight' = Without(n) \union {[r EXCEPT !.answer = answer]}
          /\ approved' = approved \union
               (IF answer = "mergeable" /\ (r.reland => IsHead(n, r.head)) THEN {<<n, r.head, r.reland>>} ELSE {})
          /\ refused' = refused \union
               (IF answer \in {"hold", "native"}
                THEN {[n |-> n, head |-> r.head, sha |-> r.base.sha, content |-> r.base.content, config |-> config]}
                ELSE {})
    BY <2>2
  <2>4. PICK s : s = [r EXCEPT !.answer = answer]
    OBVIOUS
  <2>5. s.n = r.n /\ s.head = r.head /\ s.base = r.base /\ s.reland = r.reland /\ s.answer = answer
    BY <1>1, <2>4 DEF ReadsTyped, ReadRecord
  <2>6. x = s \/ x \in inflight
    BY <2>3, <2>4 DEF Without
  <2>7. CASE x \in inflight
    BY <2>7 DEF SameRead
  <2>8. CASE x = s
    BY <1>5, <2>3, <2>5, <2>8 DEF SameRead
  <2> QED BY <2>6, <2>7, <2>8
<1> QED BY <1>2, <1>3, <1>4, <1>5, FlightFrame

---------------------------------------------------------------------------
(* What was accepted by the admission.                                     *)

\* What was accepted of a rebuilt history stands as long as the source does.
Stands(r) == <<r.n, r.head, TRUE>> \in approved \/ ~IsHead(r.n, r.head)
Past(r) == r.head <= head[r.n]
Rebuilding == {"reland", "revalidate", "publish"}
Accepts ==
  /\ \A n \in Numbers : rows[n] <= head[n]
  /\ \A r \in inflight : Past(r) /\ (r.answer = "mergeable" /\ r.reland => Stands(r))
  /\ \A r \in inflight : r.answer = "mergeable" /\ ~r.reland => <<r.n, r.head, FALSE>> \in approved
  /\ pc \in Rebuilding => Past(at)
  /\ pc = "revalidate" => Stands(at)
  /\ pc = "publish" => <<at.n, at.head, TRUE>> \in approved
  /\ \A m \in batch : <<m.n, m.head, FALSE>> \in approved

\* A head only goes on, and who is not open is never open again.
LEMMA HeadStep ==
  ASSUME DaemonTyped, [Next]_vars, NEW n \in Numbers
  PROVE  /\ head'[n] = head[n] \/ head'[n] = head[n] + 1
         /\ status'[n] = "open" => status[n] = "open"
<1>1. RemoteTyped /\ ReadsTyped
  BY TypeParts DEF DaemonTyped
<1>2. CASE UNCHANGED remote \/ Train \/ Author
  BY <1>1, <1>2 DEF remote, Train, Author, Commit, Push, ClosedByHand, RemoteTyped, ReadsTyped
<1>3. CASE Effect
  <2>1. at.n \in Numbers
    BY <1>3, EffectAt DEF DaemonTyped
  <2>2. CASE Repair \/ Reland \/ Revalidate \/ Publish
    BY <1>1, <2>1, <2>2 DEF Repair, Reland, Revalidate, Publish, Retry, remote, RemoteTyped
  <2>3. CASE Forward \/ Close \/ Supersede
    BY <1>1, <2>1, <2>3 DEF Forward, Close, Supersede, Closed, Retry, remote, RemoteTyped
  <2> QED BY <1>3, <2>2, <2>3 DEF Effect
<1> QED BY <1>2, <1>3, RemoteFrame

\* So what is past stays past, and what is no head any more never is again.
LEMMA PastStep ==
  ASSUME DaemonTyped, [Next]_vars, NEW r, r.n \in Numbers, r.head \in HeadNumber, Past(r)
  PROVE  r.head <= head'[r.n] /\ (~IsHead(r.n, r.head) => ~IsHead(r.n, r.head)')
<1>1. head[r.n] \in Nat /\ r.head \in Nat
  BY TypeParts, HeadNumbers DEF DaemonTyped, RemoteTyped
<1> QED BY <1>1, HeadStep DEF Past, IsHead

\* Where a rebuilt history is made and published from.
LEMMA PublishLabels ==
  ASSUME DaemonTyped, [Next]_vars, pc' \in Rebuilding
  PROVE  \/ Receive
         \/ Revalidate /\ pc' = "publish" /\ StillSource /\ UNCHANGED <<at, answers>>
         \/ Stays
<1>0. ~Advances
  BY AdvancedPhase DEF Stages, Rebuilding
<1>1. ~List /\ ~ReadBase /\ ~ObserveContained /\ ~Observe /\ ~Choose /\ ~Stage /\ ~Submit
  BY <1>0 DEF List, ReadBase, ObserveContained, Observe, Choose, Stage, Submit, Goto, NextStage, Advances, Inner, Rebuilding
<1>2. ~Wait /\ ~Ready /\ ~Received /\ ~Refill /\ ~Save
  BY <1>0 DEF Wait, Ready, Received, Refill, Save, Goto, NextStage, Advances, Inner, Rebuilding
<1>3. ~Landing
  BY <1>0 DEF Landing, Land, Train, TrainEnds, Outcome, Landed, Goto, NextStage, Advances, Inner, Rebuilding
<1>4. Effect => Revalidate /\ pc' = "publish" /\ StillSource /\ UNCHANGED <<at, answers>>
  <2>1. Effect /\ pc \in Effects => at.back \in {"observe", "receive", "outcome"}
    BY ReturnLabels DEF DaemonTyped, AtWork
  <2>2. ~Repair /\ ~Forward /\ ~Close /\ ~Reland /\ ~Publish /\ ~Supersede
    BY <2>1 DEF Effect, Effects, Repair, Forward, Close, Reland, Publish, Supersede, Retry, Back, Goto, Rebuilding
  <2>3. Revalidate => pc' = "publish" /\ StillSource /\ UNCHANGED <<at, answers>>
    BY <2>1 DEF Effect, Effects, Revalidate, Retry, Back, Goto, Rebuilding, rest, answers
  <2> QED BY <2>2, <2>3 DEF Effect
<1>5. ~Unread /\ ~Ending /\ ~Restart
  <2>1. ListUnread \/ StageUnread => EndTick \/ Advances
    BY Zenon DEF ListUnread, StageUnread, NextStage, Advances, Inner
  <2>2. Ending => EndTick
    BY Zenon DEF Ending, Idle, EndLoop
  <2>3. EndTick \/ Restart => pc' = "idle"
    BY Zenon DEF EndTick, Restart
  <2>4. pc' # "idle"
    BY DEF Rebuilding
  <2> QED BY Zenon, <1>0, <2>1, <2>2, <2>3, <2>4 DEF Unread
<1>6. ~StartTick
  BY DEF StartTick, Rebuilding
<1>7. DrainTick \/ Reload \/ Exit \/ Operator \/ Author \/ UNCHANGED vars \/ (\E n \in Numbers : Finish(n)) =>
        Stays \/ pc' = "exited"
  BY DEF DrainTick, Reload, Exit, Operator, RequestStop, EditConfiguration, Forget,
         Author, Commit, Push, ClosedByHand, vars, process, Finish, Stays
<1> QED BY <1>1, <1>2, <1>3, <1>4, <1>5, <1>6, <1>7, Steps DEF Listing, Receiving, Between, Rebuilding

\* What Receive does with an accepted answer.
LEMMA ReceiveAccepts ==
  ASSUME DaemonTyped, Accepts, Receive
  PROVE  /\ \A m \in batch' : <<m.n, m.head, FALSE>> \in approved
         /\ pc' \in Rebuilding => Past(at') /\ pc' # "publish"
         /\ pc' = "revalidate" => Stands(at')
<1> DEFINE r == Read(Least(group))
<1>1. r \in inflight /\ r \in ReadRecord
  BY ReceivedRead
<1>2. \/ ReceiveNothing(r) \/ ReceiveAdmitted(r) \/ ReceiveStopped(r)
      \/ ReceiveEffect(r) \/ ReceiveHold(r) \/ ReceiveRebuilt(r)
  BY DEF Receive
<1>3. pc = "receive"
  BY DEF Receive
<1> HIDE DEF r
<1>4. /\ r.reland \in BOOLEAN /\ Past(r)
      /\ r.answer = "mergeable" /\ r.reland => Stands(r)
      /\ r.answer = "mergeable" /\ ~r.reland => <<r.n, r.head, FALSE>> \in approved
  BY <1>1 DEF ReadRecord, Accepts
<1>5. UNCHANGED batch \/ (batch' = batch \union {Admitted(r)} /\ r.answer = "mergeable" /\ ~r.reland)
  BY <1>2 DEF ReceiveNothing, ReceiveAdmitted, ReceiveStopped, ReceiveEffect, ReceiveHold, ReceiveRebuilt, Verdict
<1>6. Admitted(r).n = r.n /\ Admitted(r).head = r.head
  BY DEF Admitted
<1>7. pc' \in Rebuilding => at'.n = r.n /\ at'.head = r.head /\ pc' # "publish"
  BY <1>2, <1>3 DEF ReceiveNothing, ReceiveAdmitted, ReceiveStopped, ReceiveEffect, ReceiveHold, ReceiveRebuilt,
     Goto, Accepted, At, Rebuilding
<1>8. pc' = "revalidate" => r.reland /\ r.answer = "mergeable"
  BY <1>2, <1>3 DEF ReceiveNothing, ReceiveAdmitted, ReceiveStopped, ReceiveEffect, ReceiveHold, ReceiveRebuilt,
     Goto, Accepted
<1>9. \A m \in batch' : <<m.n, m.head, FALSE>> \in approved
  BY <1>4, <1>5, <1>6 DEF Accepts
<1> QED BY <1>4, <1>7, <1>8, <1>9 DEF Past, Stands, Rebuilding

\* Which answers are forgotten.
LEMMA AnswerKept ==
  ASSUME [Next]_vars, NEW n, NEW v, NEW rebuilt \in BOOLEAN, <<n, v, rebuilt>> \in approved
  PROVE  \/ <<n, v, rebuilt>> \in approved'
         \/ rebuilt /\ ~(pc = "publish" /\ at.n = n) /\ n \in Numbers /\ (Push(n) \/ ClosedByHand(n))
         \/ pc' = "idle" /\ batch' = {} /\ (n \in Reading => inflight' = {})
<1>1. UNCHANGED answers \/ (\E m \in Numbers : Finish(m)) => <<n, v, rebuilt>> \in approved'
  BY DEF answers, Finish
<1>2. Restart => pc' = "idle" /\ batch' = {} /\ inflight' = {}
  BY DEF Restart, NewTick
<1>3. Answered(held, Reading) /\ n \in Reading => <<n, v, rebuilt>> \in approved'
  BY DEF Answered
<1>4. ASSUME NEW m \in Numbers, Push(m) \/ ClosedByHand(m)
      PROVE  <<n, v, rebuilt>> \in approved' \/ (m = n /\ rebuilt /\ ~(pc = "publish" /\ at.n = n))
  BY <1>4 DEF Push, ClosedByHand, Lapsed
<1> QED BY <1>1, <1>2, <1>3, <1>4, AnswerFrame

\* An accepted history stands after a step, or its source is gone.
LEMMA StandsStep ==
  ASSUME DaemonTyped, [Next]_vars, NEW r, r.n \in Numbers, r.head \in HeadNumber, Past(r), Stands(r)
  PROVE  \/ <<r.n, r.head, TRUE>> \in approved'
         \/ ~IsHead(r.n, r.head)'
         \/ pc' = "idle" /\ (r.n \in Reading => inflight' = {})
<1>1. RemoteTyped
  BY TypeParts DEF DaemonTyped
<1>2. r.head \in Nat /\ head[r.n] \in Nat
  BY <1>1, HeadNumbers DEF RemoteTyped
<1>3. Push(r.n) \/ ClosedByHand(r.n) => ~IsHead(r.n, r.head)'
  BY <1>1, <1>2 DEF Push, ClosedByHand, IsHead, Past, RemoteTyped
<1>4. CASE <<r.n, r.head, TRUE>> \in approved
  BY <1>3, <1>4, AnswerKept
<1> QED BY <1>4, PastStep DEF Stands

LEMMA RowsStep == ASSUME DaemonTyped, Accepts, [Next]_vars, NEW n \in Numbers PROVE rows'[n] <= head'[n]
<1>1. RemoteTyped /\ ListTyped
  BY TypeParts DEF DaemonTyped
<1>2. head[n] \in Nat /\ rows[n] \in Nat /\ rows[n] <= head[n]
  BY <1>1, HeadNumbers DEF RemoteTyped, ListTyped, Accepts
<1>3. head'[n] = head[n] \/ head'[n] = head[n] + 1
  BY HeadStep
<1>4. rows'[n] \in {0, rows[n], head[n]}
  <2>1. List => rows'[n] \in {0, head[n]}
    BY DEF List, Listed
  <2>2. ReadBase \/ ObserveContained \/ Observe \/ Choose \/ Stage => UNCHANGED rows
    BY DEF ReadBase, ObserveContained, Observe, Choose, Stage
  <2>3. Submit => UNCHANGED rows \/ rows'[n] = 0
    BY DEF Submit, Discovered
  <2>4. Unread \/ Ending \/ Restart => UNCHANGED rows \/ rows'[n] = 0
    BY DEF Unread, ListUnread, StageUnread, Ending, Idle, EndLoop, EndTick, Restart, NewTick, Discovered, found
  <2> QED BY <2>1, <2>2, <2>3, <2>4, ListFrame DEF Listing, discovery
<1> QED BY <1>2, <1>3, <1>4

LEMMA FlightAccepts ==
  ASSUME DaemonTyped, Accepts, [Next]_vars, NEW x \in inflight'
  PROVE  /\ x.head <= head'[x.n]
         /\ x.answer = "mergeable" /\ x.reland => <<x.n, x.head, TRUE>> \in approved' \/ ~IsHead(x.n, x.head)'
         /\ x.answer = "mergeable" /\ ~x.reland => <<x.n, x.head, FALSE>> \in approved'
<1>1. ReadsTyped /\ RemoteTyped /\ ListTyped
  BY TypeParts DEF DaemonTyped
<1>2. x \in ReadRecord
  BY FlightNext
<1>3. x.n \in Numbers /\ x.head \in HeadNumber /\ x.reland \in BOOLEAN
  BY <1>2 DEF ReadRecord
<1>4. ASSUME NEW r \in inflight, SameRead(x, r) PROVE Past(x) /\ x.n \in Reading
  BY <1>4 DEF SameRead, Past, Accepts, Reading
<1>5. Submitted(x) => Past(x) /\ x.answer = "none"
  <2>1. Submit /\ cands # {} => Least(cands) \in Numbers
    BY <1>1, LeastNumber DEF ListTyped
  <2> QED BY <2>1 DEF Submitted, Accepts, Past, Reland, Rebuilding
<1>6. Past(x)
  BY <1>4, <1>5, FlightStep
<1>7. x.head <= head'[x.n]
  BY <1>3, <1>6, PastStep
<1>8. ASSUME NEW r \in inflight, SameRead(x, r), x.answer = r.answer, x.answer = "mergeable"
      PROVE  IF x.reland THEN <<x.n, x.head, TRUE>> \in approved' \/ ~IsHead(x.n, x.head)'
             ELSE <<x.n, x.head, FALSE>> \in approved'
  <2>1. x.n \in Reading
    BY <1>4, <1>8
  <2>2. CASE x.reland
    <3>1. Stands(x)
      BY <1>8, <2>2 DEF SameRead, Accepts, Stands
    <3> QED BY <1>3, <1>6, <2>1, <2>2, <3>1, StandsStep
  <2>3. CASE ~x.reland
    <3>1. <<x.n, x.head, FALSE>> \in approved
      BY <1>8, <2>3 DEF SameRead, Accepts
    <3> QED BY <2>1, <2>3, <3>1, AnswerKept
  <2> QED BY <2>2, <2>3
<1>9. ASSUME x.answer = "mergeable" /\ (x.reland => IsHead(x.n, x.head)) => <<x.n, x.head, x.reland>> \in approved',
             x.answer = "mergeable"
      PROVE  IF x.reland THEN <<x.n, x.head, TRUE>> \in approved' \/ ~IsHead(x.n, x.head)'
             ELSE <<x.n, x.head, FALSE>> \in approved'
  <2>1. ~IsHead(x.n, x.head) => ~IsHead(x.n, x.head)'
    BY <1>3, <1>6, PastStep
  <2>2. x.reland = TRUE \/ x.reland = FALSE
    BY <1>3
  <2> QED BY <1>9, <2>1, <2>2
<1> QED BY <1>5, <1>7, <1>8, <1>9, FlightStep

LEMMA AtAccepts ==
  ASSUME DaemonTyped, Accepts, [Next]_vars, pc' \in Rebuilding
  PROVE  /\ at'.head <= head'[at'.n]
         /\ pc' = "revalidate" => <<at'.n, at'.head, TRUE>> \in approved' \/ ~IsHead(at.n, at.head)'
         /\ pc' = "publish" => <<at'.n, at'.head, TRUE>> \in approved'
<1>1. CASE Receive
  <2>1. UNCHANGED <<head, status, approved>>
    BY <1>1 DEF Receive, remote, answers
  <2> QED BY <1>1, <2>1, ReceiveAccepts DEF Past, Stands, IsHead
<1>2. ASSUME UNCHANGED at, pc \in Rebuilding PROVE at.n \in Numbers /\ at.head \in HeadNumber /\ Past(at)
  BY <1>2 DEF Accepts, Rebuilding, DaemonTyped, AtWork, Effects
<1>3. CASE Revalidate /\ pc' = "publish" /\ StillSource /\ UNCHANGED <<at, answers>>
  <2>1. pc = "revalidate" /\ pc \in Rebuilding
    BY <1>3 DEF Revalidate, Rebuilding
  <2>2. at.head <= head'[at.n]
    BY <1>2, <1>3, <2>1, PastStep
  <2>3. <<at.n, at.head, TRUE>> \in approved
    BY <1>3, <2>1 DEF Accepts, Stands, StillSource
  <2> QED BY <1>3, <2>2, <2>3 DEF answers
<1>4. CASE Stays
  <2>1. pc = pc' /\ UNCHANGED at /\ pc \in Rebuilding /\ pc' # "idle"
    BY <1>4 DEF Stays, Rebuilding
  <2>2. at.n \in Numbers /\ at.head \in HeadNumber /\ Past(at)
    BY <1>2, <2>1
  <2>3. at.head <= head'[at.n]
    BY <2>2, PastStep
  <2>4. pc = "revalidate" => <<at.n, at.head, TRUE>> \in approved' \/ ~IsHead(at.n, at.head)'
    BY <2>1, <2>2, StandsStep DEF Accepts, IsHead
  <2>5. pc = "publish" => <<at.n, at.head, TRUE>> \in approved'
    BY <2>1, AnswerKept DEF Accepts
  <2> QED BY <2>1, <2>3, <2>4, <2>5
<1> QED BY <1>1, <1>3, <1>4, PublishLabels

LEMMA AcceptsNext == ASSUME DaemonTyped, Accepts, [Next]_vars PROVE Accepts'
<1>1. \A m \in batch' : <<m.n, m.head, FALSE>> \in approved'
  <2>1. CASE Receive
    BY <2>1, ReceiveAccepts DEF Receive, answers
  <2>2. CASE ~Receive
    <3>1. Wait \/ Ready \/ Received \/ Land \/ Train \/ Outcome \/ Emptied => \A m \in batch' : m \in batch
      BY DEF Wait, Ready, Received, Land, Train, Outcome, Emptied
    <3>2. \A m \in batch' : m \in batch
      BY <2>2, <3>1, BatchFrame
    <3>3. ASSUME NEW m \in batch' PROVE <<m.n, m.head, FALSE>> \in approved'
      <4>1. <<m.n, m.head, FALSE>> \in approved
        BY <3>2 DEF Accepts
      <4>2. batch' # {}
        OBVIOUS
      <4> QED BY <4>1, <4>2, AnswerKept
    <3> QED BY <3>3
  <2> QED BY <2>1, <2>2
<1>2. \A n \in Numbers : rows'[n] <= head'[n]
  BY RowsStep
<1>3. /\ \A x \in inflight' :
           (x.head <= head[x.n]
              /\ (x.answer = "mergeable" /\ x.reland => <<x.n, x.head, TRUE>> \in approved \/ ~IsHead(x.n, x.head)))'
      /\ \A x \in inflight' : x.answer = "mergeable" /\ ~x.reland => <<x.n, x.head, FALSE>> \in approved'
  BY FlightAccepts
<1>4. /\ pc' \in Rebuilding => at'.head <= head'[at'.n]
      /\ pc' = "revalidate" => (<<at.n, at.head, TRUE>> \in approved \/ ~IsHead(at.n, at.head))'
      /\ pc' = "publish" => <<at'.n, at'.head, TRUE>> \in approved'
  BY AtAccepts DEF Rebuilding
<1> QED BY Zenon, <1>1, <1>2, <1>3, <1>4 DEF Accepts, Past, Stands

LEMMA AcceptsAlways == Spec => []Accepts
<1>1. Init => Accepts
  BY DEF Init, Accepts, Rebuilding
<1> QED BY <1>1, AcceptsNext, TypedAlways, PTL DEF Spec

\* A successor is opened only for a head whose rebuilt history the admission accepted, and
\* which nobody pushed over or closed up to the last look at it (daemon.py, receive and
\* _reland_source), however long the second read took.
THEOREM SuccessorsAreAccepted == Spec => SuccessorAccepted
<1>1. ASSUME DaemonTyped, Accepts, [Next]_vars, NEW n \in Numbers, successor'[n] # successor[n]
      PROVE  <<n, successor'[n], TRUE>> \in approved
  <2>1. CASE Publish
    <3>1. at.n \in Numbers /\ at.head \in HeadNumber /\ <<at.n, at.head, TRUE>> \in approved
      BY <1>1, <2>1, EffectAt DEF Effect, DaemonTyped, Publish, Accepts
    <3>2. RemoteTyped
      BY <1>1, TypeParts DEF DaemonTyped
    <3> QED BY <1>1, <2>1, <3>1, <3>2 DEF Publish, Retry, remote, RemoteTyped
  <2>2. UNCHANGED remote \/ Train \/ Author => UNCHANGED successor
    BY DEF remote, Train, Author, Commit, Push, ClosedByHand
  <2>3. Repair \/ Forward \/ Close \/ Reland \/ Revalidate \/ Supersede => UNCHANGED successor
    BY DEF Repair, Forward, Close, Reland, Revalidate, Supersede, Retry, remote
  <2> QED BY <1>1, <2>1, <2>2, <2>3, RemoteFrame DEF Effect
<1>2. DaemonTyped /\ Accepts /\ [Next]_vars =>
        [\A n \in Numbers : successor'[n] # successor[n] => <<n, successor'[n], TRUE>> \in approved]_vars
  BY <1>1
<1> QED BY <1>2, TypedAlways, AcceptsAlways, PTL DEF Spec, SuccessorAccepted

\* With one round a run, what lands is what the admission read: no author's later push
\* slips in between the read, the batch and the landing, and no answer of an earlier tick is
\* used.  In a later round the train lists heads itself (train.py, run).
THEOREM OneRoundLandsWhatWasRead ==
  ASSUME MaxRounds = 1
  PROVE  Spec => OnlyReadHeadsLand
<1>1. ASSUME DaemonTyped, Accepts, [Next]_vars, NEW n \in Numbers,
             pc = "train", status[n] = "open", status'[n] = "merged"
      PROVE  <<n, head[n], FALSE>> \in approved
  <2>1. RemoteTyped /\ ReadsTyped
    BY <1>1, TypeParts DEF DaemonTyped
  <2>2. CASE Train
    <3>1. PICK m \in batch : LandsHead(m) /\ status' = [status EXCEPT ![m.n] = "merged"]
      BY <2>2 DEF Train
    <3>2. n = m.n /\ head[m.n] = m.head
      BY <1>1, <2>1, <3>1 DEF LandsHead, RemoteTyped, ReadsTyped
    <3> QED BY <1>1, <3>1, <3>2 DEF Accepts
  <2>3. ~Effect
    BY <1>1 DEF Effect, Repair, Forward, Close, Reland, Revalidate, Publish, Supersede
  <2>4. UNCHANGED remote \/ Author => status'[n] # "merged"
    BY <1>1, <2>1 DEF remote, Author, Commit, Push, ClosedByHand, RemoteTyped
  <2> QED BY <1>1, <2>2, <2>3, <2>4, RemoteFrame
<1>2. DaemonTyped /\ Accepts /\ [Next]_vars =>
        [\A n \in Numbers : pc = "train" /\ status[n] = "open" /\ status'[n] = "merged"
           => <<n, head[n], FALSE>> \in approved]_vars
  BY <1>1
<1> QED BY <1>2, TypedAlways, AcceptsAlways, PTL DEF Spec, OnlyReadHeadsLand

---------------------------------------------------------------------------
(* What is remembered of refused heads.                                    *)

OnePerPull(memory) == \A e, f \in memory : e.n = f.n => e = f
Digested(e) == e.kind = "watched" => e.digest \in {0, e.content}

\* A read that refused its head left that refusal, under the configuration it was made with.
Refusals ==
  \A r \in inflight : r.answer \in {"hold", "native"} =>
    [n |-> r.n, head |-> r.head, sha |-> r.base.sha, content |-> r.base.content, config |-> config] \in refused

\* The commits of the base branch that something is bound to: none is ahead of the base,
\* and a commit has one content.
Dates ==
  {<<0, 0>>, <<base.sha, base.content>>, <<basis.sha, basis.content>>, <<baseNow.sha, baseNow.content>>}
    \union {<<r.base.sha, r.base.content>> : r \in inflight}
    \union {<<e.sha, e.content>> : e \in held \union disk}
Dated == \A k, l \in Dates : k[1] <= base.sha /\ (k[1] = l[1] => k[2] = l[2])

Remembers ==
  /\ OnePerPull(held) /\ OnePerPull(disk)
  /\ \A e \in held \union disk : Judged(e) /\ Digested(e)
JudgedInv == Remembers /\ Refusals /\ Dated

\* A hold that is new: of the train, carried over to the base just read, or of a read.
Trained(e) == e.kind = "train" /\ e.sha = 0 /\ e.content = 0
Followed(e) == \E f \in held : e = Following(f, CurrentBase) /\ ~Due(f, CurrentBase)
Refused(e) ==
  \E r \in inflight :
    /\ e.n = r.n /\ e.head = r.head /\ e.sha = r.base.sha /\ e.content = r.base.content /\ e.config = config
    /\ r.answer \in {"hold", "native"} /\ e.kind \in {"watched", "native"} /\ Digested(e)
NewHold(n, e) == e.n = n /\ (Trained(e) \/ Followed(e) \/ Refused(e))
Replaces(n, e) == held' = Forgetting(n) \union {e} /\ NewHold(n, e)

LEMMA TrainHolds ==
  ASSUME NEW n, NEW v
  PROVE  NewHold(n, Hold(n, v, "train", NoBase, 0))
BY DEF NewHold, Trained, Hold, NoBase, Digest

LEMMA ReceiveHolds ==
  ASSUME DaemonTyped, Receive
  PROVE  held' \subseteq held \/ \E n, e : Replaces(n, e)
<1> DEFINE r == Read(Least(group))
<1>1. r \in inflight /\ r \in ReadRecord
  BY ReceivedRead
<1>2. \/ ReceiveNothing(r) \/ ReceiveAdmitted(r) \/ ReceiveStopped(r)
      \/ ReceiveEffect(r) \/ ReceiveHold(r) \/ ReceiveRebuilt(r)
  BY DEF Receive
<1> HIDE DEF r
<1>3. ReceiveNothing(r) \/ ReceiveAdmitted(r) \/ ReceiveStopped(r) \/ ReceiveEffect(r) \/ ReceiveRebuilt(r)
        => held' \subseteq held
  BY DEF ReceiveNothing, ReceiveAdmitted, ReceiveStopped, ReceiveEffect, ReceiveRebuilt, Forgetting
<1>4. CASE ReceiveHold(r)
  <2>1. ASSUME NEW digest \in {0, Digest(r.base)}, r.answer = "hold", held' = Forgetting(r.n) \union {Watched(r, digest)}
        PROVE  Replaces(r.n, Watched(r, digest))
    <3>1. PICK e : e = Watched(r, digest)
      OBVIOUS
    <3>2. /\ e.n = r.n /\ e.head = r.head /\ e.sha = r.base.sha /\ e.content = r.base.content
          /\ e.config = config /\ e.kind = "watched" /\ e.digest = digest
      BY <3>1 DEF Watched, Hold, Digest
    <3>3. Refused(e)
      BY <1>1, <2>1, <3>2 DEF Refused, Digested, Digest
    <3> QED BY <2>1, <3>1, <3>2, <3>3 DEF Replaces, NewHold
  <2>2. ASSUME r.answer = "native", held' = Forgetting(r.n) \union {Hold(r.n, r.head, "native", r.base, 0)}
        PROVE  Replaces(r.n, Hold(r.n, r.head, "native", r.base, 0))
    <3>1. PICK e : e = Hold(r.n, r.head, "native", r.base, 0)
      OBVIOUS
    <3>2. /\ e.n = r.n /\ e.head = r.head /\ e.sha = r.base.sha /\ e.content = r.base.content
          /\ e.config = config /\ e.kind = "native"
      BY <3>1 DEF Hold, Digest
    <3>3. Refused(e)
      BY <1>1, <2>2, <3>2 DEF Refused, Digested
    <3> QED BY <2>2, <3>1, <3>2, <3>3 DEF Replaces, NewHold
  <2>3. \/ \E digest \in {0, Digest(r.base)} : r.answer = "hold" /\ held' = Forgetting(r.n) \union {Watched(r, digest)}
        \/ r.answer = "native" /\ held' = Forgetting(r.n) \union {Hold(r.n, r.head, "native", r.base, 0)}
    BY <1>4 DEF ReceiveHold, Verdict
  <2> QED BY Zenon, <2>1, <2>2, <2>3
<1> QED BY <1>2, <1>3, <1>4

\* What a step does to the memory.
LEMMA MemoryStep ==
  ASSUME DaemonTyped, [Next]_vars
  PROVE  \/ held' \subseteq held \union disk /\ (held' \subseteq held \/ held' \subseteq disk)
            /\ (disk' \subseteq disk \/ disk' \subseteq held)
         \/ UNCHANGED disk /\ \E n, e : Replaces(n, e)
<1>1. CASE UNCHANGED <<config, wanted, disk, held>>
  BY <1>1
<1>2. CASE List \/ ObserveContained
  BY <1>2 DEF List, ObserveContained, Forgetting, watch
<1>3. CASE Observe
  <2>1. PICK n : n = Row
    OBVIOUS
  <2>2. \/ UNCHANGED held
        \/ \E e \in Remembered(n) : ~Due(e, CurrentBase) /\ held' = Forgetting(n) \union {Following(e, CurrentBase)}
    BY <1>3, <2>1 DEF Observe
  <2>3. ASSUME NEW e \in Remembered(n), ~Due(e, CurrentBase), held' = Forgetting(n) \union {Following(e, CurrentBase)}
        PROVE  Replaces(n, Following(e, CurrentBase))
    <3>1. e \in held /\ e.n = n /\ e \in Entry
      BY TypeParts DEF Remembered, DaemonTyped, MemoryTyped
    <3>2. Following(e, CurrentBase).n = n
      BY <3>1 DEF Following, Entry
    <3> QED BY <2>3, <3>1, <3>2 DEF Replaces, NewHold, Followed
  <2>4. UNCHANGED disk
    BY <1>3 DEF Observe
  <2> QED BY Zenon, <2>2, <2>3, <2>4
<1>4. CASE Receive
  BY <1>4, ReceiveHolds DEF Receive
<1>5. CASE Save \/ Land \/ StartTick \/ DrainTick \/ Reload
  BY <1>5 DEF Save, Land, StartTick, DrainTick, Reload, watch
<1>6. CASE Outcome
  <2>1. UNCHANGED disk /\ (UNCHANGED held \/ \E m \in batch : held' = Forgetting(m.n) \union {Hold(m.n, m.head, "train", NoBase, 0)})
    BY <1>6 DEF Outcome
  <2> QED BY <2>1, TrainHolds DEF Replaces
<1>7. CASE Effect
  <2>1. UNCHANGED disk
    BY <1>7 DEF Effect, Repair, Forward, Close, Reland, Revalidate, Publish, Supersede, rest
  <2>2. \/ UNCHANGED held \/ held' = Forgetting(at.n)
        \/ held' = Forgetting(at.n) \union {Hold(at.n, at.head, "train", NoBase, 0)}
    BY <1>7 DEF Effect, Repair, Forward, Close, Reland, Revalidate, Publish, Supersede, Retry
  <2>3. Forgetting(at.n) \subseteq held
    BY DEF Forgetting
  <2> QED BY <2>1, <2>2, <2>3, TrainHolds DEF Replaces
<1>8. CASE Unread \/ Ending
  BY <1>8 DEF Unread, ListUnread, StageUnread, Ending, Idle, EndLoop, EndTick, watch
<1>9. CASE Restart \/ EditConfiguration \/ Forget
  BY <1>9 DEF Restart, EditConfiguration, Forget, process, watch
<1> QED BY <1>1, <1>2, <1>3, <1>4, <1>5, <1>6, <1>7, <1>8, <1>9, MemoryFrame

\* A hold that follows the base is still judged: what the watched paths contain on the
\* base just read is what the refusal read.
LEMMA FollowedJudged ==
  ASSUME DaemonTyped, JudgedInv, NEW e, Followed(e)
  PROVE  Judged(e) /\ Digested(e)
<1>1. PICK f \in held : e = Following(f, CurrentBase) /\ ~Due(f, CurrentBase)
  BY DEF Followed
<1>2. f \in Entry /\ Judged(f) /\ Digested(f)
  BY TypeParts DEF DaemonTyped, MemoryTyped, JudgedInv, Remembers
<1>3. CASE f.kind # "watched"
  BY <1>1, <1>2, <1>3 DEF Following, Digested
<1>4. CASE f.kind = "watched"
  <2>1. PICK b : b = CurrentBase
    OBVIOUS
  <2>2. /\ e = [f EXCEPT !.digest = Recovered(f, b), !.sha = b.sha, !.content = Digest(b)]
        /\ f.sha = b.sha \/ Recovered(f, b) = Digest(b)
    BY <1>1, <1>4, <2>1 DEF Following, Due
  <2>3. Recovered(f, b) = f.content
    BY <1>2, <1>4 DEF Recovered, Digested
  <2>4. Digest(b) = f.content
    <3>1. <<f.sha, f.content>> \in Dates
      BY DEF Dates
    <3>2. <<b.sha, b.content>> \in Dates
      BY <2>1 DEF Dates, CurrentBase
    <3>3. f.sha = b.sha => f.content = b.content
      BY <3>1, <3>2 DEF JudgedInv, Dated
    <3> QED BY <2>2, <2>3, <3>3 DEF Digest
  <2>5. /\ e.n = f.n /\ e.head = f.head /\ e.kind = f.kind /\ e.config = f.config
        /\ e.content = f.content /\ e.digest = f.content
    BY <1>2, <2>2, <2>3, <2>4 DEF Entry
  <2> QED BY <1>2, <1>4, <2>5 DEF Judged, Digested
<1> QED BY <1>3, <1>4

LEMMA ReplacedJudged ==
  ASSUME DaemonTyped, JudgedInv, NEW n, NEW e, NewHold(n, e)
  PROVE  Judged(e) /\ Digested(e)
<1>1. CASE Trained(e)
  BY <1>1 DEF Trained, Judged, Digested
<1>2. CASE Followed(e)
  BY <1>2, FollowedJudged
<1>3. CASE Refused(e)
  <2>1. PICK r \in inflight :
          /\ e.n = r.n /\ e.head = r.head /\ e.sha = r.base.sha /\ e.content = r.base.content /\ e.config = config
          /\ r.answer \in {"hold", "native"} /\ e.kind \in {"watched", "native"} /\ Digested(e)
    BY <1>3 DEF Refused
  <2>2. PICK f : f = [n |-> r.n, head |-> r.head, sha |-> r.base.sha, content |-> r.base.content, config |-> config]
    OBVIOUS
  <2>3. f \in refused
    BY <2>1, <2>2 DEF JudgedInv, Refusals
  <2>4. f.n = e.n /\ f.head = e.head /\ f.config = e.config /\ f.content = e.content /\ f.sha = e.sha
    BY <2>1, <2>2
  <2> QED BY <2>1, <2>3, <2>4 DEF Judged
<1> QED BY <1>1, <1>2, <1>3 DEF NewHold

\* The memory after a step: nobody is held twice, and what is held was judged before it.
LEMMA MemoryJudged ==
  ASSUME DaemonTyped, JudgedInv, [Next]_vars
  PROVE  /\ OnePerPull(held)' /\ OnePerPull(disk)'
         /\ \A e \in held' \union disk' : Judged(e) /\ Digested(e)
<1>1. CASE /\ held' \subseteq held \union disk /\ (held' \subseteq held \/ held' \subseteq disk)
           /\ disk' \subseteq disk \/ disk' \subseteq held
  BY <1>1 DEF JudgedInv, Remembers, OnePerPull
<1>2. CASE UNCHANGED disk /\ \E n, e : Replaces(n, e)
  <2>1. PICK n, e : held' = Forgetting(n) \union {e} /\ NewHold(n, e)
    BY <1>2 DEF Replaces
  <2>2. Judged(e) /\ Digested(e) /\ e.n = n
    BY <2>1, ReplacedJudged DEF NewHold
  <2>3. \A f \in held' : f = e \/ (f \in held /\ f.n # n)
    BY <2>1 DEF Forgetting
  <2> QED BY <1>2, <2>2, <2>3 DEF JudgedInv, Remembers, OnePerPull
<1> QED BY <1>1, <1>2, MemoryStep

LEMMA RemembersNext == ASSUME DaemonTyped, JudgedInv, [Next]_vars PROVE Remembers'
<1>1. CASE refused \subseteq refused'
  BY <1>1, MemoryJudged DEF Remembers, Judged, Digested, OnePerPull
<1>2. CASE disk' = held /\ held' = {} /\ Answered(held, Reading)
  <2>1. \A e \in disk' : Judged(e)'
    BY <1>2 DEF Answered, Judged, JudgedInv, Remembers
  <2> QED BY <1>2, <2>1, MemoryJudged DEF Remembers, Digested, OnePerPull
<1>3. CASE Restart
  <2>1. disk' \subseteq disk /\ held' = {} /\ Answered(disk', {})
    BY <1>3 DEF Restart
  <2>2. \A e \in disk' : Judged(e)'
    BY <2>1 DEF Answered, Judged, JudgedInv, Remembers
  <2> QED BY <2>1, <2>2, MemoryJudged DEF Remembers, Digested, OnePerPull
<1>4. UNCHANGED answers \/ (\E n \in Numbers : Finish(n) \/ Push(n) \/ ClosedByHand(n)) => refused \subseteq refused'
  BY DEF answers, Finish, Push, ClosedByHand, Lapsed
<1> QED BY <1>1, <1>2, <1>3, <1>4, AnswerFrame

\* A new configuration is taken when no read is in flight.
LEMMA ConfigurationFrame == ASSUME DaemonTyped, [Next]_vars PROVE UNCHANGED config \/ inflight' = {}
<1>1. Listing \/ Receiving \/ Landing => UNCHANGED config
  BY DEF Listing, List, ReadBase, ObserveContained, Observe, Choose, Stage, Submit,
         Receiving, Wait, Ready, Received, Refill, Save, Receive, Landing, Land, Train, TrainEnds, Outcome, Landed, watch
<1>2. Effect => UNCHANGED config
  BY DEF Effect, Repair, Forward, Close, Reland, Revalidate, Publish, Supersede, rest, watch
<1>3. Unread \/ Ending => UNCHANGED config
  BY DEF Unread, ListUnread, StageUnread, Ending, Idle, EndLoop, EndTick, watch
<1>4. Between \/ Restart => UNCHANGED config \/ inflight' = {}
  BY DEF Between, StartTick, DrainTick, Reload, Exit, Restart, watch
<1>5. Operator \/ Author \/ UNCHANGED vars \/ (\E n \in Numbers : Finish(n)) => UNCHANGED config
  BY DEF Operator, RequestStop, EditConfiguration, Forget, Author, Commit, Push, ClosedByHand, vars, Finish, process, watch
<1> QED BY <1>1, <1>2, <1>3, <1>4, <1>5, Steps

LEMMA RefusalsNext == ASSUME DaemonTyped, Refusals, [Next]_vars PROVE Refusals'
<1>1. SUFFICES ASSUME NEW x \in inflight', x.answer \in {"hold", "native"}
               PROVE  [n |-> x.n, head |-> x.head, sha |-> x.base.sha, content |-> x.base.content, config |-> config'] \in refused'
  BY DEF Refusals
<1>2. UNCHANGED config
  BY ConfigurationFrame
<1>3. ASSUME NEW r \in inflight, SameRead(x, r), x.answer = r.answer
      PROVE  [n |-> x.n, head |-> x.head, sha |-> x.base.sha, content |-> x.base.content, config |-> config] \in refused
  BY <1>1, <1>3 DEF SameRead, Refusals
<1>4. ASSUME [n |-> x.n, head |-> x.head, sha |-> x.base.sha, content |-> x.base.content, config |-> config] \in refused,
             \E r \in inflight : SameRead(x, r)
      PROVE  [n |-> x.n, head |-> x.head, sha |-> x.base.sha, content |-> x.base.content, config |-> config] \in refused'
  <2>1. PICK f \in refused : f = [n |-> x.n, head |-> x.head, sha |-> x.base.sha, content |-> x.base.content, config |-> config]
    BY <1>4
  <2>2. f.n = x.n
    BY <2>1
  <2>3. x.n \in Reading
    BY <1>4 DEF Reading, SameRead
  <2>4. ~Restart
    BY <1>1 DEF Restart
  <2>5. f \in refused'
    <3>1. UNCHANGED answers \/ (\E n \in Numbers : Finish(n) \/ Push(n) \/ ClosedByHand(n)) => refused \subseteq refused'
      BY DEF answers, Finish, Push, ClosedByHand, Lapsed
    <3>2. Answered(held, Reading) => f \in refused'
      BY <2>2, <2>3 DEF Answered
    <3> QED BY <2>4, <3>1, <3>2, AnswerFrame
  <2> QED BY <2>1, <2>5
<1>5. ~Submitted(x)
  BY <1>1 DEF Submitted
<1> QED BY <1>1, <1>2, <1>3, <1>4, <1>5, FlightStep

LEMMA DatesTyped == ASSUME TypeOK PROVE Dates \subseteq Nat \X Nat
<1>1. base \in Base /\ basis \in Base /\ baseNow \in Base /\ held \union disk \subseteq Entry /\ inflight \subseteq ReadRecord
  BY DEF TypeOK
<1>2. \A b \in Base : <<b.sha, b.content>> \in Nat \X Nat
  BY DEF Base
<1>3. \A r \in inflight : r.base \in Base
  BY <1>1 DEF ReadRecord
<1>4. \A e \in held \union disk : <<e.sha, e.content>> \in Nat \X Nat
  BY <1>1 DEF Entry
<1> QED BY <1>1, <1>2, <1>3, <1>4 DEF Dates

\* The base branch only grows, a commit at a time.
LEMMA BaseStep ==
  ASSUME DaemonTyped, [Next]_vars
  PROVE  UNCHANGED base \/ base'.sha = base.sha + 1
<1>1. base \in [sha : Nat, content : Nat, carries : SUBSET (Numbers \X HeadNumber)]
  BY TypeParts DEF DaemonTyped, RemoteTyped, Base
<1>2. \A n : Containing(n).sha = base.sha + 1
  BY DEF Containing
<1>3. CASE Train
  BY <1>2, <1>3 DEF Train
<1>4. CASE Author
  <2>1. [base EXCEPT !.sha = @ + 1, !.content = @ + 1].sha = base.sha + 1
    BY <1>1
  <2> QED BY <1>2, <1>4, <2>1 DEF Author, Commit, Push, ClosedByHand
<1>5. Effect \/ UNCHANGED remote => UNCHANGED base
  BY DEF Effect, Repair, Forward, Close, Reland, Revalidate, Publish, Supersede, Retry, remote
<1> QED BY <1>3, <1>4, <1>5, RemoteFrame

\* What was read of the base is what it was at that moment.
LEMMA BaseRead ==
  ASSUME [Next]_vars
  PROVE  basis' \in {basis, base, NoBase} /\ baseNow' \in {baseNow, base, NoBase}
<1>1. UNCHANGED discovery => UNCHANGED <<basis, baseNow>>
  BY DEF discovery
<1>2. List \/ ReadBase \/ ObserveContained => basis' \in {basis, base, NoBase} /\ baseNow' \in {baseNow, base, NoBase}
  BY DEF List, ReadBase, ObserveContained
<1>3. Observe => basis' = basis /\ baseNow' \in {baseNow, CurrentBase}
  BY DEF Observe
<1>4. Choose \/ Stage \/ Submit => basis' \in {basis, base, NoBase} /\ baseNow' \in {baseNow, base, NoBase}
  BY DEF Choose, Stage, Submit, Discovered
<1>5. Unread \/ Ending => UNCHANGED <<basis, baseNow>> \/ EndTick
  BY Zenon DEF Unread, ListUnread, StageUnread, Ending, Idle, EndLoop, found
<1>6. EndTick \/ Restart => basis' = NoBase /\ baseNow' = NoBase
  BY DEF EndTick, Restart, NewTick, Discovered
<1>7. CurrentBase \in {base, baseNow}
  BY DEF CurrentBase
<1> QED BY Zenon, <1>1, <1>2, <1>3, <1>4, <1>5, <1>6, <1>7, ListFrame DEF Listing

LEMMA DatesNext ==
  ASSUME DaemonTyped, JudgedInv, [Next]_vars
  PROVE  Dates' \subseteq Dates \union {<<base'.sha, base'.content>>}
<1>1. <<0, 0>> \in Dates /\ \A b \in {base, basis, baseNow, NoBase} : <<b.sha, b.content>> \in Dates
  BY DEF Dates, NoBase
<1>2. <<basis'.sha, basis'.content>> \in Dates /\ <<baseNow'.sha, baseNow'.content>> \in Dates
  BY <1>1, BaseRead
<1>3. ASSUME NEW x \in inflight' PROVE <<x.base.sha, x.base.content>> \in Dates
  <2>1. (\E r \in inflight : x.base = r.base) \/ x.base = basis \/ x.base = base
    BY FlightStep DEF SameRead, Submitted
  <2>2. \A r \in inflight : <<r.base.sha, r.base.content>> \in Dates
    BY DEF Dates
  <2> QED BY <1>1, <2>1, <2>2
<1>4. ASSUME NEW n, NEW e, NewHold(n, e) PROVE <<e.sha, e.content>> \in Dates
  <2>1. CASE Trained(e)
    BY <1>1, <2>1 DEF Trained
  <2>2. CASE Followed(e)
    <3>1. PICK f \in held : e = Following(f, CurrentBase)
      BY <2>2 DEF Followed
    <3>2. <<f.sha, f.content>> \in Dates /\ f \in Entry
      BY TypeParts DEF Dates, DaemonTyped, MemoryTyped
    <3>3. PICK b : b = CurrentBase
      OBVIOUS
    <3>4. <<b.sha, b.content>> \in Dates
      BY <1>1, <3>3 DEF CurrentBase
    <3>5. f.kind = "watched" => e.sha = b.sha /\ e.content = b.content
      BY <3>1, <3>2, <3>3 DEF Following, Digest, Entry
    <3>6. f.kind # "watched" => e = f
      BY <3>1 DEF Following
    <3> QED BY <3>2, <3>4, <3>5, <3>6
  <2>3. CASE Refused(e)
    BY <2>3 DEF Refused, Dates
  <2> QED BY <1>4, <2>1, <2>2, <2>3 DEF NewHold
<1>5. ASSUME NEW e \in held' \union disk' PROVE <<e.sha, e.content>> \in Dates
  <2>1. \A f \in held \union disk : <<f.sha, f.content>> \in Dates
    BY DEF Dates
  <2>2. e \in held \union disk \/ \E n : NewHold(n, e)
    BY <1>5, MemoryStep DEF Replaces, Forgetting
  <2> QED BY <1>4, <2>1, <2>2
<1> QED BY <1>1, <1>2, <1>3, <1>5 DEF Dates

LEMMA DatedNext == ASSUME DaemonTyped, JudgedInv, [Next]_vars PROVE Dated'
<1>1. Dates \subseteq Nat \X Nat /\ base.sha \in Nat
  BY DatesTyped, TypeParts DEF DaemonTyped, RemoteTyped, Base
<1>2. PICK top : top = <<base'.sha, base'.content>>
  OBVIOUS
<1>3. top[1] = base'.sha /\ (base'.sha = base.sha + 1 \/ (top \in Dates /\ base'.sha = base.sha))
  <2>1. top[1] = base'.sha
    BY <1>2
  <2>2. <<base.sha, base.content>> \in Dates
    BY DEF Dates
  <2>3. UNCHANGED base => top \in Dates /\ base'.sha = base.sha
    BY <1>2, <2>2
  <2> QED BY <2>1, <2>3, BaseStep
<1>4. \A k \in Dates' : k \in Dates \/ k = top
  BY <1>2, DatesNext
<1>5. ASSUME NEW k \in Dates', NEW l \in Dates'
      PROVE  k[1] <= base'.sha /\ (k[1] = l[1] => k[2] = l[2])
  <2>1. \A d \in Dates : d[1] \in Nat /\ d[1] <= base.sha
    BY <1>1 DEF JudgedInv, Dated
  <2>2. k \in Dates /\ l \in Dates => (k[1] = l[1] => k[2] = l[2])
    BY DEF JudgedInv, Dated
  <2> QED BY <1>1, <1>3, <1>4, <2>1, <2>2
<1> QED BY <1>5 DEF Dated

LEMMA JudgedAlways == Spec => []JudgedInv
<1>1. ASSUME Init PROVE JudgedInv
  <2>1. held = {} /\ disk = {} /\ inflight = {} /\ basis = NoBase /\ baseNow = NoBase /\ base.sha = 1
    BY <1>1 DEF Init
  <2>2. Dates = {<<0, 0>>, <<base.sha, base.content>>}
    BY <2>1 DEF Dates, NoBase
  <2>3. Dated
    BY <2>1, <2>2 DEF Dated
  <2> QED BY <2>1, <2>3 DEF JudgedInv, Remembers, OnePerPull, Refusals
<1>2. DaemonTyped /\ JudgedInv /\ [Next]_vars => JudgedInv'
  BY RemembersNext, RefusalsNext, DatedNext DEF JudgedInv
<1> QED BY <1>1, <1>2, TypedAlways, PTL DEF Spec

\* What is remembered was judged: a read refused exactly this head, on a base with this
\* content and under this configuration, or the train held it (daemon.py, rounds 4 and 6).
THEOREM WhatIsHeldWasJudged == Spec => []HoldsJudged
<1>1. JudgedInv => HoldsJudged
  BY DEF JudgedInv, Remembers, HoldsJudged
<1> QED BY <1>1, JudgedAlways, PTL

\* A row is passed over as held, or becomes a candidate, where it is observed.
LEMMA ObservedRows ==
  ASSUME [Next]_vars
  PROVE  Observe \/ (kept' \subseteq kept /\ cands' \subseteq cands)
<1>1. UNCHANGED discovery => kept' \subseteq kept /\ cands' \subseteq cands
  BY DEF discovery
<1>2. List \/ ReadBase \/ ObserveContained \/ Stage \/ Submit => kept' \subseteq kept /\ cands' \subseteq cands
  BY DEF List, ReadBase, ObserveContained, Stage, Submit, Discovered
<1>3. Choose => kept' \subseteq kept /\ cands' \subseteq cands
  BY DEF Choose, Owned
<1>4. Unread \/ Ending => (kept' \subseteq kept /\ cands' \subseteq cands) \/ EndTick
  BY Zenon DEF Unread, ListUnread, StageUnread, Ending, Idle, EndLoop, found
<1>5. EndTick \/ Restart => kept' = {} /\ cands' = {}
  BY DEF EndTick, Restart, NewTick, Discovered
<1>6. kept' = {} /\ cands' = {} => kept' \subseteq kept /\ cands' \subseteq cands
  OBVIOUS
<1> QED BY Zenon, <1>1, <1>2, <1>3, <1>4, <1>5, <1>6, ListFrame DEF Listing

\* What a hold says of the base that is read now.
LEMMA HoldOnBase ==
  ASSUME DaemonTyped, JudgedInv, NEW e \in held, NEW b, b = CurrentBase
  PROVE  /\ e.kind \in {"watched", "native", "train"}
         /\ e.sha = b.sha => e.content = b.content
         /\ e.kind = "watched" => Recovered(e, b) = e.content
<1>1. e \in Entry /\ Digested(e)
  BY TypeParts DEF DaemonTyped, MemoryTyped, JudgedInv, Remembers
<1>2. <<e.sha, e.content>> \in Dates /\ <<b.sha, b.content>> \in Dates
  BY DEF Dates, CurrentBase
<1>3. e.sha = b.sha => e.content = b.content
  BY <1>2 DEF JudgedInv, Dated
<1> QED BY <1>1, <1>3 DEF Digested, Recovered, Entry

\* A head is passed over as held only while its verdict still stands: the base just read
\* has the content the refusal read, and the configuration is the same (README, Memory).
THEOREM HeldWhileItStands == Spec => HoldStands
<1>1. ASSUME DaemonTyped, JudgedInv, [Next]_vars, NEW n \in kept' \ kept, NEW e \in held,
             e.n = n, e.kind # "train", left' = left
      PROVE  \E f \in refused : /\ f.n = n /\ f.head = rows[n] /\ f.content = baseNow'.content
                                /\ e.kind = "native" => f.sha = baseNow'.sha
                                /\ e.kind = "watched" => f.config = config
  <2>1. Observe
    BY <1>1, ObservedRows
  <2>2. PICK b : b = CurrentBase
    OBVIOUS
  <2>3. left \in Nat
    BY <1>1 DEF DaemonTyped, TypeOK
  <2>4. ~Slips("fail")
    BY <1>1, <2>3 DEF Slips
  <2>5. PICK d \in Remembered(Row) :
          ~Due(d, b) /\ n = Row /\ baseNow' = IF ReadsBase(d) THEN b ELSE baseNow
    BY <1>1, <2>1, <2>2, <2>4 DEF Observe
  <2>6. d = e /\ e.head = rows[n]
    BY <1>1, <2>5 DEF Remembered, JudgedInv, Remembers, OnePerPull
  <2>7. /\ e.kind \in {"watched", "native", "train"}
        /\ e.sha = b.sha => e.content = b.content
        /\ e.kind = "watched" => Recovered(e, b) = e.content
    BY <1>1, <2>2, HoldOnBase
  <2>8. PICK f \in refused : /\ f.n = e.n /\ f.head = e.head /\ f.config = e.config /\ f.content = e.content
                             /\ e.kind = "native" => f.sha = e.sha
    BY <1>1 DEF JudgedInv, Remembers, Judged
  <2>9. CASE e.kind = "native"
    BY <1>1, <2>5, <2>6, <2>7, <2>8, <2>9 DEF Due, ReadsBase
  <2>10. CASE e.kind = "watched"
    BY <1>1, <2>5, <2>6, <2>7, <2>8, <2>10 DEF Due, ReadsBase, Digest
  <2> QED BY <1>1, <2>7, <2>9, <2>10
<1>2. DaemonTyped /\ JudgedInv /\ [Next]_vars =>
        [\A n \in kept' \ kept : \A e \in held :
           e.n = n /\ e.kind # "train" /\ left' = left =>
             \E f \in refused : /\ f.n = n /\ f.head = rows[n] /\ f.content = baseNow'.content
                                /\ e.kind = "native" => f.sha = baseNow'.sha
                                /\ e.kind = "watched" => f.config = config]_vars
  BY <1>1
<1> QED BY <1>2, TypedAlways, JudgedAlways, PTL DEF Spec, HoldStands

\* ... and is read again only when its head, the configuration, the commit a native
\* conflict is bound to, or a path its verdict read has changed (daemon.py, held_retry).
THEOREM ReadAgainWhenItFell == Spec => ReadAgainWhenDue
<1>1. ASSUME DaemonTyped, JudgedInv, [Next]_vars, NEW n \in cands' \ cands, NEW e \in held,
             e.n = n, e.head = rows[n]
      PROVE  /\ e.kind # "train"
             /\ e.kind = "native" => e.sha # baseNow'.sha
             /\ e.kind = "watched" => e.config # config \/ e.content # baseNow'.content
  <2>1. Observe
    BY <1>1, ObservedRows
  <2>2. PICK b : b = CurrentBase
    OBVIOUS
  <2>3. n = Row
    BY <1>1, <2>1 DEF Observe
  <2>4. e \in Remembered(Row)
    BY <1>1, <2>3 DEF Remembered
  <2>5. PICK d \in Remembered(Row) : Due(d, b) /\ baseNow' = IF ReadsBase(d) THEN b ELSE baseNow
    BY <1>1, <2>1, <2>2, <2>4 DEF Observe
  <2>6. d = e
    BY <1>1, <2>3, <2>5 DEF Remembered, JudgedInv, Remembers, OnePerPull
  <2>7. e.kind = "watched" => Recovered(e, b) = e.content
    BY <1>1, <2>2, HoldOnBase
  <2> QED BY <2>5, <2>6, <2>7 DEF Due, ReadsBase, Digest
<1>2. DaemonTyped /\ JudgedInv /\ [Next]_vars =>
        [\A n \in cands' \ cands : \A e \in held :
           e.n = n /\ e.head = rows[n] =>
             /\ e.kind # "train"
             /\ e.kind = "native" => e.sha # baseNow'.sha
             /\ e.kind = "watched" => e.config # config \/ e.content # baseNow'.content]_vars
  BY <1>1
<1> QED BY <1>2, TypedAlways, JudgedAlways, PTL DEF Spec, ReadAgainWhenDue
=============================================================================
