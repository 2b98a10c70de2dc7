---------------------------- MODULE OrderedHistory ----------------------------
(***************************************************************************)
(* The history check (src/svrf/history.py) and the ordered history a head  *)
(* is re-landed with (src/svrf/git.py, reland): up to three commits, tests *)
(* first, then code, then docs, that end in the tree of the head.          *)
(*                                                                         *)
(* A tree gives each path a blob, a link (a submodule's commit) or         *)
(* nothing.  Reading or writing one may fail, which ends reland as FAILED; *)
(* what is defined here is what it builds when nothing fails.              *)
(***************************************************************************)
EXTENDS Naturals

CONSTANTS
  Path,          \* the paths of a repository,
  TestGlobs,     \* those the configuration takes for tests
  DocGlobs,      \* and for docs
  Content        \* what a path may hold

Blob == {"blob"} \X Content
Link == {"commit"} \X Content
Absent == <<"absent">>
Tree == [Path -> Blob \cup Link \cup {Absent}]

\* Tests come before docs; everything else is code.
PathKind(p) == IF p \in TestGlobs THEN "test" ELSE IF p \in DocGlobs THEN "doc" ELSE "code"

---------------------------------------------------------------------------
(* history.py.  A history is a function on finitely many positions; of a   *)
(* commit it tells whether it is git's own merge of its two parents, the   *)
(* kinds of the paths it touches, and whether its subject has a refactor   *)
(* prefix.                                                                 *)

Authored(c) == ~c.merge
OpensTests(c) == Authored(c) /\ "test" \in c.kinds /\ "code" \notin c.kinds
ClosesTests(c) == Authored(c) /\ "code" \in c.kinds /\ "test" \notin c.kinds /\ ~c.refactor

\* The flag open_tests before commit i: tests set it, the code that answers them resets it.
OpenTests(cs, i) ==
  \E j \in DOMAIN cs : /\ j < i /\ OpensTests(cs[j])
                       /\ \A k \in DOMAIN cs : j < k /\ k < i => ~ClosesTests(cs[k])

Disposition(cs, i) ==
  LET c == cs[i]
  IN IF c.merge THEN "MERGE"
     ELSE IF {"test", "code"} \subseteq c.kinds THEN "MIXED"
     ELSE IF "test" \in c.kinds THEN "TESTS"
     ELSE IF "code" \notin c.kinds THEN "DOCS"
     ELSE IF c.refactor THEN "REFACTOR"
     ELSE IF OpenTests(cs, i) THEN "CODE" ELSE "UNORDERED"

Refused == {"MIXED", "UNORDERED"}
RefusedAt(cs) == {i \in DOMAIN cs : Disposition(cs, i) \in Refused}

\* CLEAN, or the first disposition that is refused.
Verdict(cs) ==
  IF RefusedAt(cs) = {} THEN "CLEAN"
  ELSE Disposition(cs, CHOOSE i \in RefusedAt(cs) : \A j \in RefusedAt(cs) : i <= j)

---------------------------------------------------------------------------
(* git.reland of the tree `target` on the tree `base`.                     *)

\* _tree_map lists blobs only, _overlay_tree sets or removes paths.
TreeMap(tree) == [p \in Path |-> IF tree[p] \in Blob THEN tree[p] ELSE Absent]
Overlay(tree, paths, map) == [p \in Path |-> IF p \in paths THEN map[p] ELSE tree[p]]

Changed(base, target, kind) == {p \in Path : PathKind(p) = kind /\ TreeMap(base)[p] # TreeMap(target)[p]}
Docs(base, target) == Changed(base, target, "doc")

\* The tree after each of the three stages, of which 0 is the base.
Stage(base, target, i) ==
  CASE i = 0 -> base
    [] i = 1 -> Overlay(base, Changed(base, target, "test"), TreeMap(target))
    [] i = 2 -> Overlay(target, Docs(base, target), TreeMap(base))
    [] i = 3 -> target

\* A stage that changes nothing has no commit.
Commits(base, target) == {i \in 1..3 : Stage(base, target, i) # Stage(base, target, i - 1)}

\* The docs taken back and put again must give the target.
Mismatch(base, target) ==
  /\ Docs(base, target) # {}
  /\ Overlay(Stage(base, target, 2), Docs(base, target), TreeMap(target)) # target

\* What the history check reads of the commit of stage i; the title of the pull request
\* is the subject of stage 2, and is prefixed by "test: " or "docs: " in the others.
Touched(base, target, i) == {p \in Path : Stage(base, target, i)[p] # Stage(base, target, i - 1)[p]}
Rebuilt(base, target, refactor) ==
  [i \in Commits(base, target) |->
     [merge |-> FALSE, kinds |-> {PathKind(p) : p \in Touched(base, target, i)},
      refactor |-> refactor /\ i = 2]]
=============================================================================
