----------------------------- MODULE Families -----------------------------
(***************************************************************************)
(* What the pull-request set of one train run must be: the largest set of  *)
(* heads that pairwise do not conflict, ties broken towards the            *)
(* lexicographically least list of numbers (rules.choose_families, which   *)
(* delegates to merge_family.maximum_family).  Train asks for this set;    *)
(* how it is computed is the subject of a module of its own.               *)
(***************************************************************************)
EXTENDS Integers, FiniteSets, FiniteSetsExt

\* A set of nodes no edge joins.  An edge is the set of its two ends.
Independent(S, edges) == \A a, b \in S : a # b => {a, b} \notin edges

\* Of two different sets of equal size, the one whose sorted list of numbers
\* comes first: it holds the least number on which the two differ.
ListedBefore(S, T) == Min(SymDiff(S, T)) \in S

\* (-len(f), f): larger sets first, then by their sorted numbers.
Precedes(S, T) ==
  \/ Cardinality(S) > Cardinality(T)
  \/ Cardinality(S) = Cardinality(T) /\ S # T /\ ListedBefore(S, T)

IsMaximumFamily(S, nodes, edges) ==
  /\ S \subseteq nodes
  /\ Independent(S, edges)
  /\ \A T \in SUBSET nodes : T # S /\ Independent(T, edges) => Precedes(S, T)
===========================================================================
