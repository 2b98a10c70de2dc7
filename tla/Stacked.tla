------------------------------- MODULE Stacked -------------------------------
(***************************************************************************)
(* Stacked pull requests (src/svrf/daemon.py: stacked, restack, reland):   *)
(* branch k + 1 is written on branch k and its pull request is opened      *)
(* against it.  The train lands a parent and retargets the child, or       *)
(* supersedes the parent by an ordered copy of its history and replays the *)
(* child's own commits onto that copy, each by several calls to git and    *)
(* GitHub that may fail, or take effect while their answer is lost; what   *)
(* it did it remembers in a memory it writes at a few points of a tick.    *)
(*                                                                         *)
(* A commit is <<branch, change, copy>>: the copy of somebody's change that *)
(* its author wrote (copy 0), or that a rebuild made: rebuilt commits have *)
(* a commit date, so no two builds make the same.  A head is the set of    *)
(* commits it contains.  What one tick of the daemon does besides is       *)
(* Daemon; here a candidate is landed, re-landed or left for another tick, *)
(* and successors are never re-landed again.                               *)
(***************************************************************************)
EXTENDS Integers, Sequences, FiniteSets, Functions

CONSTANTS
  Depth,          \* how many branches are stacked on one another
  Starts,         \* the branches that may have a pull request at the start
  MaxPulls,       \* how many pull requests there may ever be
  Disturbances,   \* which disturbances of Slip may happen,
  Most            \* and how many of them in all

Slip == {"fail",     \* a call fails before its effect
         "lost",     \* a call takes effect, its answer is lost
         "push",     \* an author pushes to the branch of a pull request
         "close",    \* somebody closes a pull request
         "unread",   \* the memory on disk cannot be read, and is taken for an empty one
         "crash"}    \* the process dies and is started again

Branch == 1..Depth
ASSUME StackAssumption == Depth \in Nat \ {0} /\ MaxPulls \in Nat /\ Starts \subseteq SUBSET Branch
ASSUME SlipAssumption == Disturbances \subseteq Slip /\ Most \in Nat

VARIABLES
  \* the remote: pull requests by number, the commits of each ref
  pulls, heads, left, slipped,
  \* the memory on disk and in the tick
  disk, mem,
  \* the tick: the list, what is left of it to decide, to admit, to land; one publication
  pc, rows, queue, cands, batch, at,
  \* a history the properties read: the changes of heads the train closed as superseded
  superseded

remote == <<pulls, heads>>
tick == <<rows, queue, cands, batch>>
vars == <<remote, left, slipped, disk, mem, pc, tick, at, superseded>>

---------------------------------------------------------------------------
Slips(e) ==
  /\ e \in Disturbances /\ left > 0
  /\ left' = left - 1 /\ slipped' = slipped \union {e}
Steady == UNCHANGED <<left, slipped>>

Main == <<0, "">>
Refs == {Main} \union Branch \X {"", "ordered", "restacked"}
Under(k) == IF k = 1 THEN Main ELSE <<k - 1, "">>

Number == DOMAIN pulls
Pull(ref, base) == [ref |-> ref, base |-> base, status |-> "open"]
Open == {n \in Number : pulls[n].status = "open"}
Changes(head) == {<<c[1], c[2]>> : c \in head}

\* pulls_with_head: every pull request of a branch, whatever became of it.
PullsWithHead(ref) == {n \in Number : pulls[n].ref = ref}

\* A commit made now is none that was made before.
Fresh == CHOOSE k \in 1..(Cardinality(UNION Range(heads)) + 1) : \A c \in UNION Range(heads) : c[3] # k
Copies(changes) == {<<c[1], c[2], Fresh>> : c \in changes}

NoMemory == [held |-> {}, bases |-> {}, relanded |-> {}]
NoRows == [n \in {} |-> [head |-> {}, base |-> Main]]
Nobody == [n |-> 0, head |-> {}, ref |-> Main, base |-> Main, build |-> {}, new |-> 0, back |-> "idle"]
Least(S) == CHOOSE x \in S : \A y \in S : x <= y

Init ==
  /\ \E start \in Starts :
       pulls = [n \in 1..Cardinality(start) |->
                  LET k == CHOOSE b \in start : Cardinality({c \in start : c <= b}) = n
                  IN Pull(<<k, "">>, Under(k))]
  /\ heads = [r \in Refs |-> IF r[2] = "" THEN {<<k, 1, 0>> : k \in 1..r[1]} ELSE {}]
  /\ left = Most /\ slipped = {}
  /\ disk = NoMemory /\ mem = NoMemory
  /\ pc = "idle" /\ rows = NoRows /\ queue = {} /\ cands = {} /\ batch = {} /\ at = Nobody
  /\ superseded = {}

---------------------------------------------------------------------------
(* A tick: the list, a decision for every row.                             *)

\* What is remembered of pull requests that are not listed is dropped, but not the
\* record of a re-landed branch that a listed one is still stacked on.
KeptListed(m, listed) == {r \in m.relanded : r.n \in DOMAIN listed}   \* mutant
Kept(m, listed) ==
  {r \in m.relanded : r.n \in DOMAIN listed \/ \E n \in DOMAIN listed : listed[n].base = pulls[r.n].ref}
Pruned(m, listed) ==
  [held |-> {e \in m.held : e.n \in DOMAIN listed}, bases |-> {e \in m.bases : e.n \in DOMAIN listed},
   relanded |-> Kept(m, listed)]

List ==
  /\ pc = "idle"
  /\ rows' = [n \in Open |-> [head |-> heads[pulls[n].ref], base |-> pulls[n].base]]
  /\ queue' = Open /\ cands' = {} /\ batch' = {}
  /\ \/ mem' = Pruned(disk, rows') /\ Steady
     \/ mem' = NoMemory /\ Slips("unread")
  /\ pc' = "decide"
  /\ UNCHANGED <<remote, disk, at, superseded>>

Row == Least(queue)
HeldUnchanged(n) == \E e \in mem.held : e.n = n /\ e.head = rows[n].head
Note(n) == [n |-> n, head |-> rows[n].head, base |-> rows[n].base]

\* Its parent is listed, also when that is no longer true.
ListedEver == {pulls[n].ref : n \in Number}    \* mutant: rows of earlier lists count
ListedRefs == {pulls[n].ref : n \in DOMAIN rows}
Waiting(n) == rows[n].base \in ListedRefs
Stacked(n) == rows[n].base # Main /\ ~HeldUnchanged(n) /\ ~Waiting(n) /\ Note(n) \notin mem.bases

Decided == queue' = queue \ {Row}
Retry == pc' = at.back /\ at' = Nobody
Holding(n, head, reason) ==
  [mem EXCEPT !.held = {e \in @ : e.n # n} \union {[n |-> n, head |-> head, reason |-> reason]}]

Decide ==
  /\ pc = "decide" /\ queue # {} /\ ~Stacked(Row) /\ Decided
  /\ cands' = IF rows[Row].base = Main /\ ~HeldUnchanged(Row) THEN cands \union {Row} ELSE cands
  /\ UNCHANGED <<remote, left, slipped, disk, mem, pc, rows, batch, at, superseded>>

\* The parents, in whatever state they are.
DoneParents(n) ==                              \* mutant: closed is taken for merged
  {p \in PullsWithHead(rows[n].base) : pulls[p].status # "open"}
MergedParents(n) == {p \in PullsWithHead(rows[n].base) : pulls[p].status = "merged"}
OpenParents(n) == PullsWithHead(rows[n].base) \intersect Open
Recorded(n) == {r \in mem.relanded : r.n \in PullsWithHead(rows[n].base)}

\* A read fails, or the retargeting or the replay before it changed anything.
StackedUnread ==
  /\ pc = "decide" /\ queue # {} /\ Stacked(Row) /\ Slips("fail") /\ Decided
  /\ UNCHANGED <<remote, disk, mem, pc, rows, cands, batch, at, superseded>>

Retarget ==
  /\ pc = "decide" /\ queue # {} /\ Stacked(Row) /\ MergedParents(Row) # {} /\ Decided
  /\ pulls' = [pulls EXCEPT ![Row].base = IF Row \in Open THEN Main ELSE @]
  /\ Steady
  /\ UNCHANGED <<heads, disk, mem, pc, rows, cands, batch, at, superseded>>

StackedUnknown ==
  /\ pc = "decide" /\ queue # {} /\ Stacked(Row) /\ MergedParents(Row) = {} /\ Decided
  /\ \/ OpenParents(Row) # {} /\ UNCHANGED mem
     \/ /\ PullsWithHead(rows[Row].base) = {}
        /\ mem' = [mem EXCEPT !.bases = {e \in @ : e.n # Row} \union {Note(Row)}]
  /\ Steady
  /\ UNCHANGED <<remote, disk, pc, rows, cands, batch, at, superseded>>

\* All its parents are closed: held, or restacked onto the successor of one of them.
ParentClosed(n) ==
  /\ Stacked(n) /\ PullsWithHead(rows[n].base) # {}
  /\ MergedParents(n) = {} /\ OpenParents(n) = {}

HoldOrphan ==
  /\ pc = "decide" /\ queue # {} /\ ParentClosed(Row) /\ Decided /\ Steady
  /\ \/ Recorded(Row) = {}
     \/ \E r \in Recorded(Row) : r.new \notin Open     \* restack reads it first
  /\ mem' = Holding(Row, rows[Row].head, "PARENT_CLOSED_UNMERGED")
  /\ UNCHANGED <<remote, disk, pc, rows, cands, batch, at, superseded>>

\* The child's own commits are those its head has and the head that was re-landed has not.
Restack ==
  /\ pc = "decide" /\ queue # {} /\ ParentClosed(Row) /\ Decided /\ Steady
  /\ \E r \in Recorded(Row) :
       /\ r.new \in Open
       /\ LET onto == heads[pulls[r.new].ref]
              own == rows[Row].head \ r.head
          IN \/ /\ at' = [n |-> Row, head |-> rows[Row].head, ref |-> <<pulls[Row].ref[1], "restacked">>,
                          base |-> pulls[r.new].ref, build |-> onto \union Copies(Changes(own)),
                          new |-> 0, back |-> "decide"]
                /\ Changes(at'.build) = Changes(onto) \union Changes(rows[Row].head)
                /\ pc' = "push" /\ UNCHANGED mem
             \/ \* it conflicts, or is not git's merge of the two heads
                /\ mem' = Holding(Row, rows[Row].head, "RESTACK") /\ UNCHANGED <<pc, at>>
  /\ UNCHANGED <<remote, disk, rows, cands, batch, superseded>>

---------------------------------------------------------------------------
(* The candidates: left, admitted to the batch, or re-landed.              *)

Receive ==
  /\ pc = "decide" /\ queue = {} /\ cands # {}
  /\ \E n \in cands :
       /\ cands' = cands \ {n}
       /\ batch' \in {batch, batch \union {n}}
  /\ UNCHANGED <<remote, left, slipped, disk, mem, pc, rows, queue, at, superseded>>

\* The tree of the head merged with the base is rebuilt on the base; the rebuilt head is
\* read by the admission, and published when the pull request is still what it was.  A
\* rebuild that fails or is refused leaves the candidate as Receive does.
Reland ==
  /\ pc = "decide" /\ queue = {}
  /\ \E n \in cands :
       /\ pulls[n].ref[2] = "" /\ cands' = cands \ {n}
       /\ LET lacking == Changes(rows[n].head) \ Changes(heads[Main])
          IN at' = [n |-> n, head |-> rows[n].head, ref |-> <<pulls[n].ref[1], "ordered">>,
                    base |-> Main, build |-> heads[Main] \union Copies(lacking), new |-> 0, back |-> "decide"]
  /\ pc' = "revalidate"
  /\ UNCHANGED <<remote, left, slipped, disk, mem, rows, queue, batch, superseded>>

Revalidate ==
  /\ pc = "revalidate"
  /\ IF at.n \in Open /\ heads[pulls[at.n].ref] = at.head /\ pulls[at.n].base = Main
     THEN pc' = "push" /\ UNCHANGED at
     ELSE Retry
  /\ UNCHANGED <<remote, left, slipped, disk, mem, tick, superseded>>

---------------------------------------------------------------------------
(* Publication: push, open, close, remember; any call may fail.            *)

CloseFirst == "close"                          \* mutant: the successor is opened last
AfterPush == "open"
AfterOpen == "close"
Fails == Retry /\ Slips("fail") /\ UNCHANGED <<remote, disk, mem, tick, superseded>>

\* Never forced: refused when the branch has commits the build has not.
Push ==
  /\ pc = "push"
  /\ \/ /\ heads[at.ref] \subseteq at.build
        /\ heads' = [heads EXCEPT ![at.ref] = at.build]
        /\ \/ pc' = AfterPush /\ UNCHANGED at /\ Steady
           \/ Retry /\ Slips("lost")
        /\ UNCHANGED <<pulls, disk, mem, tick, superseded>>
     \/ /\ ~(heads[at.ref] \subseteq at.build) /\ Retry /\ Steady
        /\ UNCHANGED <<remote, disk, mem, tick, superseded>>
     \/ Fails

\* GitHub opens one pull request of a branch against another, if there is a commit between.
Openable ==
  /\ Len(pulls) < MaxPulls /\ ~(heads[at.ref] \subseteq heads[at.base])
  /\ \A n \in Open : ~(pulls[n].ref = at.ref /\ pulls[n].base = at.base)

OpenPull ==
  /\ pc = "open"
  /\ \/ /\ Openable
        /\ pulls' = Append(pulls, Pull(at.ref, at.base))
        /\ \/ pc' = AfterOpen /\ at' = [at EXCEPT !.new = Len(pulls')] /\ Steady
           \/ Retry /\ Slips("lost")
        /\ UNCHANGED <<heads, disk, mem, tick, superseded>>
     \/ /\ ~Openable /\ Retry /\ Steady
        /\ UNCHANGED <<remote, disk, mem, tick, superseded>>
     \/ Fails

\* A comment comes before the close, and fails like it.
ClosePull ==
  /\ pc = "close"
  /\ \/ /\ pulls' = [pulls EXCEPT ![at.n].status = IF @ = "open" THEN "superseded" ELSE @]
        /\ superseded' = IF at.n \in Open THEN superseded \union Changes(at.head) ELSE superseded
        /\ Retry
        /\ \/ /\ Steady
              /\ mem' = [mem EXCEPT !.held = {e \in @ : e.n # at.n},
                           !.relanded = {r \in @ : r.n # at.n}
                                        \union {[n |-> at.n, head |-> at.head, new |-> at.new]}]
           \/ Slips("lost") /\ UNCHANGED mem
        /\ UNCHANGED <<heads, disk, tick>>
     \/ Fails

---------------------------------------------------------------------------
(* The batch lands, after the memory is written; the tick ends.            *)

Land ==
  /\ pc = "decide" /\ queue = {} /\ cands = {} /\ batch # {}
  /\ disk' = mem /\ pc' = "train"
  /\ UNCHANGED <<remote, left, slipped, mem, tick, at, superseded>>

\* The head that was listed, and only that.
Train ==
  /\ pc = "train"
  /\ \E n \in batch :
       /\ batch' = batch \ {n}
       /\ \/ /\ n \in Open /\ pulls[n].base = Main /\ heads[pulls[n].ref] = rows[n].head
             /\ heads' = [heads EXCEPT ![Main] = @ \union rows[n].head]
             /\ pulls' = [pulls EXCEPT ![n].status = "merged"]
          \/ UNCHANGED remote
  /\ UNCHANGED <<left, slipped, disk, mem, pc, rows, queue, cands, at, superseded>>

Clean == mem' = NoMemory /\ pc' = "idle" /\ rows' = NoRows /\ queue' = {} /\ cands' = {} /\ batch' = {} /\ at' = Nobody

EndTick ==
  /\ \/ pc = "decide" /\ queue = {} /\ cands = {}
     \/ pc = "train"
  /\ batch = {}
  /\ disk' = mem /\ Clean
  /\ UNCHANGED <<remote, left, slipped, superseded>>

Step ==
  \/ List \/ Decide \/ StackedUnread \/ Retarget \/ StackedUnknown \/ HoldOrphan \/ Restack
  \/ Receive \/ Reland \/ Revalidate \/ Push \/ OpenPull \/ ClosePull \/ Land \/ Train \/ EndTick

---------------------------------------------------------------------------
(* The process, and the authors.                                           *)

process == <<disk, mem, pc, tick, at, superseded>>

Crash ==
  /\ pc # "idle" /\ Slips("crash") /\ Clean
  /\ UNCHANGED <<remote, disk, superseded>>

\* The author of a branch opens its pull request, once.
AuthorOpens(k) ==
  /\ PullsWithHead(<<k, "">>) = {} /\ Len(pulls) < MaxPulls
  /\ pulls' = Append(pulls, Pull(<<k, "">>, Under(k)))
  /\ Steady /\ UNCHANGED <<heads, process>>

\* An author pushes a change, and may take in what the branch is stacked on.
AuthorPushes(n) ==
  /\ n \in Open /\ Slips("push")
  /\ LET ref == pulls[n].ref
         change == <<ref[1], 1 + Cardinality({c \in Changes(UNION Range(heads)) : c[1] = ref[1]}), 0>>
     IN \E below \in {{}, heads[pulls[n].base]} :
          heads' = [heads EXCEPT ![ref] = @ \union below \union {change}]
  /\ UNCHANGED <<pulls, process>>

SomebodyCloses(n) ==
  /\ n \in Open /\ Slips("close")
  /\ pulls' = [pulls EXCEPT ![n].status = "closed"]
  /\ UNCHANGED <<heads, process>>

Next ==
  \/ Step \/ Crash
  \/ \E k \in Branch : AuthorOpens(k)
  \/ \E n \in Number : AuthorPushes(n) \/ SomebodyCloses(n)

Spec == Init /\ [][Next]_vars

\* The watch loop ticks on, and a tick ends.
FairSpec == Spec /\ WF_vars(Step)

---------------------------------------------------------------------------
(* Properties.                                                             *)

Commits == SUBSET (Branch \X Nat \X Nat)
ListedRow == [head : Commits, base : Refs]
Entry == [n : Nat, head : Commits, reason : {"PARENT_CLOSED_UNMERGED", "RESTACK"}]
Memory == [held : SUBSET Entry, bases : SUBSET [n : Nat, head : Commits, base : Refs],
           relanded : SUBSET [n : Nat, head : Commits, new : Nat]]
Status == {"open", "merged", "closed", "superseded"}

\* A memory has one entry of a kind for a pull request.
Keyed(entries) == \A e, f \in entries : e.n = f.n => e = f

TypeOK ==
  /\ pulls \in Seq([ref : Refs \ {Main}, base : Refs, status : Status])
  /\ heads \in [Refs -> Commits] /\ left \in Nat /\ slipped \subseteq Slip
  /\ \A m \in {disk, mem} : m \in Memory /\ Keyed(m.held) /\ Keyed(m.bases) /\ Keyed(m.relanded)
  /\ pc \in {"idle", "decide", "revalidate", "push", "open", "close", "train"}
  /\ rows \in [DOMAIN rows -> ListedRow] /\ DOMAIN rows \subseteq Number
  /\ queue \subseteq DOMAIN rows /\ cands \subseteq DOMAIN rows /\ batch \subseteq DOMAIN rows
  /\ at \in [n : Number \union {0}, head : Commits, ref : Refs, base : Refs, build : Commits,
             new : Number \union {0}, back : {"idle", "decide"}]
  /\ superseded \subseteq Branch \X Nat

\* The work of a superseded head is not lost: every change of the head that was listed and
\* that the train closed as superseded is on the base branch or on the branch of a pull
\* request that is open, or that somebody else closed, whatever failed or died in between
\* (daemon.py, restack and _finish_reland).  What its author pushed between the list and the
\* close is not part of that head.
NothingLost ==
  \A c \in superseded :
    \/ c \in Changes(heads[Main])
    \/ \E n \in Number : pulls[n].status \in {"open", "closed"} /\ c \in Changes(heads[pulls[n].ref])

\* As long as the process has not died, no answer was lost and the memory could be read, a
\* child is held for its closed parent only when nobody can take it in: an open successor of
\* a parent the train superseded after the child was opened is found, through failed calls
\* and however often the memory was pruned since (daemon.py, stacked and restack).
Continues(q, p) == q \in Open /\ pulls[q].ref[1] = pulls[p].ref[1] /\ pulls[q].ref # pulls[p].ref
HeldAsOrphan ==
  [][pc = "decide" /\ slipped \intersect {"crash", "lost", "unread"} = {} =>
       \A e \in mem'.held \ mem.held : e.reason = "PARENT_CLOSED_UNMERGED" =>
         \A p \in PullsWithHead(rows[e.n].base) :
           pulls[p].status = "superseded" => ~\E q \in Number : Continues(q, p) /\ e.n < q]_vars

\* The base branch has no change of a branch none of whose pull requests was merged: a
\* child does not bring in what was rejected, or not decided yet, with its parent.
LandsAfterParent ==
  \A c \in Changes(heads[Main]) : \E n \in Number : pulls[n].status = "merged" /\ pulls[n].ref[1] = c[1]

\* Again and again no pull request is stranded, stacked on a branch that has no open pull
\* request any more: it was retargeted, superseded or held, unless it was seen before its
\* parent was opened, or it is still the author's own although its restacked branch was
\* pushed: the branch of an attempt that failed is in the way.
Stranded(n) == n \in Open /\ pulls[n].base # Main /\ PullsWithHead(pulls[n].base) \intersect Open = {}
HeldNow(n) == \E e \in disk.held : e.n = n /\ e.head = heads[pulls[n].ref]
Excused(n) ==
  \/ \E e \in disk.bases : e.n = n
  \/ pulls[n].ref[2] = "" /\ heads[<<pulls[n].ref[1], "restacked">>] # {}
Settles == []<>(\A n \in Number : Stranded(n) => HeldNow(n) \/ Excused(n))

\* A stacked pull request is retargeted once its parent merges (README, How a round works).
RetargetedOnceMerged ==
  \A n \in 1..MaxPulls :
    (n \in Open /\ \E p \in PullsWithHead(pulls[n].base) : pulls[p].status = "merged")
      ~> (n \notin Open \/ pulls[n].base = Main)
=============================================================================
