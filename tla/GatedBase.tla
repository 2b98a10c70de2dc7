----------------------------- MODULE GatedBase -----------------------------
(***************************************************************************)
(* What the base branch is promised of a train: nothing on it is taken     *)
(* back; the train lands a sequence of planned commits only when its last  *)
(* tree passed a gate, each of them exactly as planned unless somebody     *)
(* else commits at that very moment; it builds on no commit of its own     *)
(* that it has not read back; and it lands nothing more after it read back *)
(* a tree that is not the planned one.  Train implements it.               *)
(*                                                                         *)
(* A tree is the set of the changes in it.                                 *)
(***************************************************************************)
EXTENDS Integers, Sequences

CONSTANT Nobody   \* whose work a commit from outside is

VARIABLES
  main,      \* the commits of the base branch
  passed,    \* the trees that passed a gate
  landing,   \* what is left of the commits being landed
  seen,      \* the commit of the base that was read last
  unread,    \* the commit of the landing that is to be read back, 0 if none is
  whole,     \* the commits a landing was completed with
  halted

trains == <<passed, landing, seen, unread, whole, halted>>

Init ==
  /\ Len(main) = 1 /\ main[1].by = Nobody
  /\ passed = {} /\ landing = <<>> /\ seen = 1 /\ unread = 0 /\ whole = {} /\ halted = FALSE

\* One commit more, which keeps what the base has.
Grows(by) ==
  LET new == Len(main) + 1
  IN /\ Len(main') = new /\ main' = Append(main, main'[new])
     /\ main'[new].by = by /\ main[Len(main)].tree \subseteq main'[new].tree

Outside == Grows(Nobody) /\ UNCHANGED trains

Judge == passed \subseteq passed' /\ UNCHANGED <<main, landing, seen, unread, whole, halted>>

Look ==
  /\ landing = <<>> /\ seen' = Len(main)
  /\ UNCHANGED <<main, passed, landing, unread, whole, halted>>

Begin ==
  /\ landing = <<>> /\ ~halted
  /\ landing' # <<>> /\ landing'[Len(landing')].tree \in passed
  /\ UNCHANGED <<main, passed, seen, unread, whole, halted>>

\* All commits since the train looked are from outside; if there is none, the tree is the
\* planned one.
Commit(next) ==
  /\ ~halted /\ unread = 0
  /\ \A i \in DOMAIN main : i > seen => main[i].by = Nobody
  /\ Grows(next.by)
  /\ main'[Len(main')].tree \subseteq main[Len(main)].tree \union next.tree
  /\ seen = Len(main) => main'[Len(main')].tree = next.tree

Land ==
  /\ landing # <<>> /\ Commit(Head(landing))
  /\ unread' = Len(main')
  /\ UNCHANGED <<passed, landing, seen, whole, halted>>

\* A commit whose answer is lost is never read back.
LandUnheard ==
  /\ landing # <<>> /\ Commit(Head(landing))
  /\ landing' = <<>>
  /\ UNCHANGED <<passed, seen, unread, whole, halted>>

ReadBack ==
  /\ unread # 0 /\ main[unread].tree = Head(landing).tree
  /\ landing' = Tail(landing) /\ seen' = unread /\ unread' = 0
  /\ whole' = IF Tail(landing) = <<>> THEN whole \union {unread} ELSE whole
  /\ UNCHANGED <<main, passed, halted>>

Halt ==
  /\ unread # 0 /\ main[unread].tree # Head(landing).tree
  /\ landing' = <<>> /\ unread' = 0 /\ halted' = TRUE
  /\ UNCHANGED <<main, passed, seen, whole>>

GiveUp ==
  /\ landing # <<>> /\ landing' = <<>> /\ unread' = 0
  /\ UNCHANGED <<main, passed, seen, whole, halted>>

Next ==
  \/ Outside \/ Judge \/ Look \/ Begin \/ Land \/ LandUnheard \/ ReadBack \/ Halt \/ GiveUp

Spec == Init /\ [][Next]_<<main, trains>>

\* Wherever a landing was completed, the base has a tree that passed a gate.
EndsPassed == \A i \in whole : i \in DOMAIN main /\ main[i].tree \in passed
=============================================================================
